--------------------------- MODULE OcrRoutingProofs ---------------------------
(***************************************************************************)
(* The budget of the router and the slots of the vision model, for any number *)
(* of requests, providers, tiers, pages and tasks, any costs and any cap.     *)
(*                                                                          *)
(* The budget.  Each item that should count (a reservation of a call at work,   *)
(* the cost of an answer, the kept reservation of a call that failed) has an    *)
(* event of its own in the deque: its slot.  replace_reservation takes the last *)
(* event of the amount that was reserved, which may be another item's; but the   *)
(* two events have the same cost, and no event after one of a reservation is    *)
(* older than now, so that the two items can exchange their slots.  As long as   *)
(* the process has not restarted, no other event of the window has a cost and    *)
(* the events are in order: the deque is exact.  After a restart it has what is   *)
(* logged, and at least an event for every row.                                 *)
(*                                                                          *)
(* The bills.  What a provider charges is a bill.  The bills that have not       *)
(* escaped belong to different calls, and each is covered by the amount that was   *)
(* exchanged for the call's reservation or by the reservation, which was kept:     *)
(* their sum is at most what the deque counts.                                    *)
(*                                                                          *)
(* The slots.  SlotsCoverCalls is inductive with the types and with what the    *)
(* scan has left in a task before the model has answered.                       *)
(***************************************************************************)
EXTENDS OcrRouting, Integers, FiniteSetTheorems, WellFoundedInduction, TLAPS

-----------------------------------------------------------------------------
(* Induction *)

\* Induction over the naturals, for a set of numbers.
LEMMA SetInduction ==
    ASSUME NEW S, 0 \in S, \A n \in Nat : n \in S => n + 1 \in S
    PROVE  Nat \subseteq S
<1> DEFINE T == Nat \ S
<1> SUFFICES ASSUME T # {} PROVE FALSE
  OBVIOUS
<1>1. PICK x \in T : \A y \in T : ~(<<y, x>> \in OpToRel(<, Nat))
  BY NatLessThanWellFounded, WFMin
<1>2. x \in Nat /\ x # 0 /\ x - 1 \in Nat /\ x - 1 < x
  OBVIOUS
<1>3. x - 1 \in S
  BY <1>1, <1>2 DEF OpToRel
<1> QED
  BY <1>2, <1>3

\* Induction over the subsets of a finite set.
LEMMA SubsetInduction ==
    ASSUME NEW S, IsFiniteSet(S), NEW C, {} \in C,
           \A s \in SUBSET S, x \in S : s \in C /\ x \notin s => s \cup {x} \in C
    PROVE  S \in C
<1> DEFINE P == {n \in Nat : \A s \in SUBSET S : Cardinality(s) = n => s \in C}
<1>1. \A s \in SUBSET S : IsFiniteSet(s) /\ Cardinality(s) \in Nat
  BY FS_Subset, FS_CardinalityType
<1>2. 0 \in P
  <2>1. \A s \in SUBSET S : Cardinality(s) = 0 => s = {}
    BY <1>1, FS_EmptySet
  <2> QED
    BY <2>1
<1>3. ASSUME NEW n \in Nat, n \in P PROVE n + 1 \in P
  <2> SUFFICES ASSUME NEW s \in SUBSET S, Cardinality(s) = n + 1 PROVE s \in C
    OBVIOUS
  <2>1. s # {}
    BY <1>1, FS_EmptySet
  <2>2. PICK x \in s : TRUE
    BY <2>1
  <2>3. Cardinality(s \ {x}) = n
    <3>1. Cardinality(s \ {x}) = Cardinality(s) - 1
      BY <1>1, <2>2, FS_RemoveElement
    <3> QED
      BY <3>1
  <2>4. s \ {x} \in C
    BY <1>3, <2>3
  <2>5. s = (s \ {x}) \cup {x} /\ x \notin s \ {x} /\ x \in S
    BY <2>2
  <2> QED
    BY <2>4, <2>5
<1> HIDE DEF P
<1>4. Cardinality(S) \in P
  BY <1>1, <1>2, <1>3, SetInduction
<1> QED
  BY <1>4 DEF P

-----------------------------------------------------------------------------
(* Sums over finite sets *)

AnyOf(s) == CHOOSE x \in s : TRUE

SumStep(f, g, s) == IF s = {} THEN 0 ELSE f[AnyOf(s)] + g[s \ {AnyOf(s)}]

SumsOf(f, S) == CHOOSE g : g = [s \in SUBSET S |-> SumStep(f, g, s)]

\* What the operators of the library stand for.
LEMMA SumUnfolds ==
    ASSUME NEW f, NEW S
    PROVE  SumFunctionOnSet(f, S) = SumsOf(f, S)[S]
BY DEF SumFunctionOnSet, FoldFunctionOnSet, MapThenFoldSet, SumsOf, SumStep, AnyOf

\* Taking the sum element by element defines a function on the subsets of a finite set.
LEMMA SumsExist ==
    ASSUME NEW f, NEW S, IsFiniteSet(S)
    PROVE  \A s \in SUBSET S : SumsOf(f, S)[s] = SumStep(f, SumsOf(f, S), s)
<1> DEFINE Good(g, n) == \A s \in SUBSET S : Cardinality(s) <= n => g[s] = SumStep(f, g, s)
           P == {n \in Nat : \E g : Good(g, n)}
<1>1. \A s \in SUBSET S : IsFiniteSet(s) /\ Cardinality(s) \in Nat /\ Cardinality(s) <= Cardinality(S)
  BY FS_Subset, FS_CardinalityType
<1>2. \A s \in SUBSET S : s # {} =>
          /\ AnyOf(s) \in s /\ s \ {AnyOf(s)} \in SUBSET S
          /\ Cardinality(s \ {AnyOf(s)}) = Cardinality(s) - 1
  BY <1>1, FS_RemoveElement DEF AnyOf
<1>3. 0 \in P
  <2> DEFINE g == [s \in SUBSET S |-> 0]
  <2>1. \A s \in SUBSET S : Cardinality(s) <= 0 => s = {}
    BY <1>1, FS_EmptySet
  <2>2. Good(g, 0)
    BY <2>1 DEF SumStep
  <2> QED
    BY <2>2
<1>4. ASSUME NEW n \in Nat, n \in P PROVE n + 1 \in P
  <2>1. PICK g : Good(g, n)
    BY <1>4
  <2> DEFINE g2 == [s \in SUBSET S |-> SumStep(f, g, s)]
  <2>2. ASSUME NEW s \in SUBSET S, Cardinality(s) <= n + 1 PROVE g2[s] = SumStep(f, g2, s)
    <3>1. CASE s = {}
      BY <3>1 DEF SumStep
    <3>2. CASE s # {}
      <4>1. Cardinality(s \ {AnyOf(s)}) <= n /\ s \ {AnyOf(s)} \in SUBSET S
        BY <1>1, <1>2, <2>2, <3>2
      <4>2. g2[s \ {AnyOf(s)}] = g[s \ {AnyOf(s)}]
        BY <2>1, <4>1
      <4> QED
        BY <3>2, <4>2 DEF SumStep
    <3> QED
      BY <3>1, <3>2
  <2>3. Good(g2, n + 1) /\ n + 1 \in Nat
    BY <2>2
  <2> HIDE DEF g2, Good
  <2> QED
    BY <2>3
<1>5. Cardinality(S) \in P
  <2> HIDE DEF P
  <2> QED
    BY <1>1, <1>3, <1>4, SetInduction
<1>6. PICK g : Good(g, Cardinality(S))
  BY <1>5
<1> DEFINE h == [s \in SUBSET S |-> g[s]]
<1>7. ASSUME NEW s \in SUBSET S PROVE h[s] = SumStep(f, h, s)
  <2>1. g[s] = SumStep(f, g, s)
    BY <1>1, <1>6
  <2> QED
    BY <1>2, <2>1 DEF SumStep
<1>8. h = [s \in SUBSET S |-> SumStep(f, h, s)]
  BY <1>7
<1> HIDE DEF h
<1> DEFINE Is(g2) == g2 = [s \in SUBSET S |-> SumStep(f, g2, s)]
           k == CHOOSE g2 : Is(g2)
<1>9. Is(k)
  BY <1>8
<1>10. k = SumsOf(f, S)
  BY DEF SumsOf
<1> HIDE DEF k
<1>11. \A s \in SUBSET S : k[s] = SumStep(f, k, s)
  BY <1>9
<1> QED
  BY <1>10, <1>11

\* Each element of a set adds its own value to the sum over the others.
TakesAny(f, S) ==
    /\ SumsOf(f, S)[{}] = 0
    /\ \A s \in SUBSET S : SumsOf(f, S)[s] \in Nat
    /\ \A s \in SUBSET S : \A y \in s : SumsOf(f, S)[s] = f[y] + SumsOf(f, S)[s \ {y}]

\* The order in which the elements are taken does not matter.
LEMMA SumsTakeAny ==
    ASSUME NEW f, NEW S, IsFiniteSet(S), \A x \in S : f[x] \in Nat
    PROVE  TakesAny(f, S)
<1> DEFINE g == SumsOf(f, S)
           Takes(s) == g[s] \in Nat /\ \A y \in s : g[s] = f[y] + g[s \ {y}]
           P == {n \in Nat : \A s \in SUBSET S : Cardinality(s) <= n => Takes(s)}
<1>1. \A s \in SUBSET S : g[s] = SumStep(f, g, s)
  BY SumsExist
<1> HIDE DEF g
<1>2. \A s \in SUBSET S : IsFiniteSet(s) /\ Cardinality(s) \in Nat
  BY FS_Subset, FS_CardinalityType
<1>3. ASSUME NEW s \in SUBSET S, NEW x \in s
      PROVE  s \ {x} \in SUBSET S /\ Cardinality(s \ {x}) = Cardinality(s) - 1
  <2> HIDE DEF P, Takes
  <2>1. IsFiniteSet(s) /\ x \in s
    BY <1>2
  <2>2. Cardinality(s \ {x}) = Cardinality(s) - 1
    BY <2>1, FS_RemoveElement
  <2> QED
    BY <2>2
<1>4. \A s \in SUBSET S : s # {} => AnyOf(s) \in s /\ g[s] = f[AnyOf(s)] + g[s \ {AnyOf(s)}]
  BY <1>1 DEF SumStep, AnyOf
<1>5. g[{}] = 0
  BY <1>1 DEF SumStep
<1>6. 0 \in P
  <2>1. \A s \in SUBSET S : Cardinality(s) <= 0 => s = {}
    BY <1>2, FS_EmptySet
  <2> QED
    BY <1>5, <2>1
<1>7. ASSUME NEW n \in Nat, n \in P PROVE n + 1 \in P
  <2> SUFFICES ASSUME NEW s \in SUBSET S, Cardinality(s) = n + 1 PROVE Takes(s)
    <3>1. \A s \in SUBSET S : Cardinality(s) <= n => Takes(s)
      BY <1>7
    <3>2. \A s \in SUBSET S : Cardinality(s) <= n + 1 => Cardinality(s) <= n \/ Cardinality(s) = n + 1
      BY <1>2
    <3> HIDE DEF Takes
    <3> QED
      BY <3>1, <3>2
  <2>1. \A d \in SUBSET S : Cardinality(d) <= n => Takes(d)
    BY <1>7
  <2> HIDE DEF P
  <2> DEFINE x == AnyOf(s)
  <2>2. s # {}
    BY <1>2, FS_EmptySet
  <2>3. x \in s /\ g[s] = f[x] + g[s \ {x}]
    BY <1>4, <2>2
  <2> HIDE DEF x
  <2>4. ASSUME NEW y \in s PROVE s \ {y} \in SUBSET S /\ Cardinality(s \ {y}) <= n
    <3>1. s \ {y} \in SUBSET S /\ Cardinality(s \ {y}) = (n + 1) - 1
      BY <1>3
    <3> QED
      BY <3>1
  <2>5. ASSUME NEW y \in s PROVE f[y] \in Nat /\ g[s \ {y}] \in Nat
    BY <2>1, <2>4
  <2>6. ASSUME NEW y \in s, y # x PROVE g[s] = f[y] + g[s \ {y}]
    <3> DEFINE d == (s \ {x}) \ {y}
    <3>1. g[s \ {x}] = f[y] + g[d]
      <4>1. Takes(s \ {x}) /\ y \in s \ {x}
        BY <2>1, <2>3, <2>4, <2>6
      <4> QED
        BY <4>1
    <3>2. g[s \ {y}] = f[x] + g[d]
      <4>1. Takes(s \ {y}) /\ x \in s \ {y} /\ (s \ {y}) \ {x} = d
        BY <2>1, <2>3, <2>4, <2>6
      <4> QED
        BY <4>1
    <3>3. g[d] \in Nat
      <4>1. d \in SUBSET S /\ Cardinality(d) = Cardinality(s \ {x}) - 1 /\ Cardinality(s \ {x}) <= n
        BY <1>3, <2>3, <2>4, <2>6
      <4>2. Cardinality(s \ {x}) \in Nat
        BY <1>2, <2>4, <2>3
      <4>3. Cardinality(d) <= n
        BY <4>1, <4>2
      <4> QED
        BY <2>1, <4>1, <4>3
    <3>4. f[x] \in Nat /\ f[y] \in Nat
      BY <2>3, <2>5
    <3> HIDE DEF d
    <3> QED
      BY <2>3, <3>1, <3>2, <3>3, <3>4
  <2>7. g[s] \in Nat
    BY <2>3, <2>5
  <2>8. \A y \in s : g[s] = f[y] + g[s \ {y}]
    BY <2>3, <2>6
  <2> QED
    BY <2>7, <2>8
<1>8. Nat \subseteq P
  <2> HIDE DEF P
  <2> QED
    BY <1>6, <1>7, SetInduction
<1>9. ASSUME NEW s \in SUBSET S PROVE Takes(s)
  <2>1. Cardinality(s) \in P /\ Cardinality(s) <= Cardinality(s)
    BY <1>2, <1>8
  <2> QED
    BY <2>1
<1> QED
  BY <1>5, <1>9 DEF g, TakesAny

\* The sum over a set is that within any larger one.
LEMMA SumsAgree ==
    ASSUME NEW f, NEW S, IsFiniteSet(S), \A x \in S : f[x] \in Nat, NEW T \in SUBSET S
    PROVE  SumsOf(f, S)[T] = SumFunctionOnSet(f, T)
<1> DEFINE g == SumsOf(f, S)
           h == SumsOf(f, T)
           C == {s \in SUBSET T : g[s] = h[s]}
<1>1. IsFiniteSet(T) /\ \A x \in T : f[x] \in Nat
  BY FS_Subset
<1>2. TakesAny(f, S) /\ TakesAny(f, T)
  BY <1>1, SumsTakeAny
<1>3. /\ g[{}] = 0 /\ h[{}] = 0
      /\ \A s \in SUBSET S : \A y \in s : g[s] = f[y] + g[s \ {y}]
      /\ \A s \in SUBSET T : \A y \in s : h[s] = f[y] + h[s \ {y}]
  BY <1>2 DEF TakesAny
<1> HIDE DEF g, h
<1>4. {} \in C
  BY <1>3
<1>5. ASSUME NEW s \in SUBSET T, NEW x \in T, s \in C, x \notin s PROVE s \cup {x} \in C
  <2>1. (s \cup {x}) \ {x} = s /\ s \cup {x} \in SUBSET T /\ s \cup {x} \in SUBSET S
    BY <1>5
  <2>2. g[s \cup {x}] = f[x] + g[s] /\ h[s \cup {x}] = f[x] + h[s]
    BY <1>3, <2>1
  <2> QED
    BY <1>5, <2>1, <2>2
<1>6. T \in C
  <2> HIDE DEF C
  <2> QED
    BY <1>1, <1>4, <1>5, SubsetInduction
<1>7. SumFunctionOnSet(f, T) = h[T]
  BY SumUnfolds DEF h
<1> QED
  BY <1>6, <1>7 DEF g

\* A sum is a natural number; that of nothing is zero.
LEMMA SumType ==
    ASSUME NEW f, NEW S, IsFiniteSet(S), \A x \in S : f[x] \in Nat
    PROVE  SumFunctionOnSet(f, S) \in Nat /\ SumFunctionOnSet(f, {}) = 0
<1>1. SumFunctionOnSet(f, S) = SumsOf(f, S)[S] /\ SumFunctionOnSet(f, {}) = SumsOf(f, S)[{}]
  BY SumsAgree
<1> QED
  BY <1>1, SumsTakeAny DEF TakesAny

\* The sum with one more.
LEMMA SumWithOne ==
    ASSUME NEW f, NEW S, IsFiniteSet(S), NEW x, x \notin S, \A y \in S \cup {x} : f[y] \in Nat
    PROVE  SumFunctionOnSet(f, S \cup {x}) = f[x] + SumFunctionOnSet(f, S)
<1> DEFINE T == S \cup {x}
<1>1. IsFiniteSet(T) /\ S \in SUBSET T /\ T \in SUBSET T /\ x \in T /\ T \ {x} = S
  BY FS_AddElement
<1>2. \A y \in T : f[y] \in Nat
  OBVIOUS
<1> HIDE DEF T
<1>3. SumFunctionOnSet(f, T) = SumsOf(f, T)[T] /\ SumFunctionOnSet(f, S) = SumsOf(f, T)[S]
  BY <1>1, <1>2, SumsAgree
<1>4. SumsOf(f, T)[T] = f[x] + SumsOf(f, T)[S]
  BY <1>1, <1>2, SumsTakeAny DEF TakesAny
<1> QED
  BY <1>3, <1>4 DEF T

\* The sum over two disjoint sets.
LEMMA SumOfTwo ==
    ASSUME NEW f, NEW S, IsFiniteSet(S), NEW T, IsFiniteSet(T), S \cap T = {},
           \A x \in S \cup T : f[x] \in Nat
    PROVE  SumFunctionOnSet(f, S \cup T) = SumFunctionOnSet(f, S) + SumFunctionOnSet(f, T)
<1> DEFINE Sum(s) == SumFunctionOnSet(f, s)
           C == {s \in SUBSET T : Sum(S \cup s) = Sum(S) + Sum(s)}
<1>1. \A s \in SUBSET T : IsFiniteSet(s) /\ IsFiniteSet(S \cup s)
  BY FS_Subset, FS_Union
<1>2. \A s \in SUBSET T : Sum(s) \in Nat /\ Sum(S \cup s) \in Nat /\ Sum(S) \in Nat /\ Sum({}) = 0
  BY <1>1, SumType
<1>3. {} \in C
  <2>1. S \cup {} = S
    OBVIOUS
  <2> QED
    BY <1>2, <2>1
<1>4. ASSUME NEW s \in SUBSET T, NEW x \in T, s \in C, x \notin s PROVE s \cup {x} \in C
  <2>1. /\ s \cup {x} \in SUBSET T /\ S \cup (s \cup {x}) = (S \cup s) \cup {x}
        /\ x \notin S \cup s
    BY <1>4
  <2>2. Sum(s \cup {x}) = f[x] + Sum(s)
    BY <1>1, <1>4, SumWithOne
  <2>3. Sum((S \cup s) \cup {x}) = f[x] + Sum(S \cup s)
    BY <1>1, <2>1, SumWithOne
  <2>4. f[x] \in Nat /\ Sum(s) \in Nat /\ Sum(S) \in Nat /\ Sum(S \cup s) = Sum(S) + Sum(s)
    BY <1>2, <1>4
  <2>5. Sum(S \cup (s \cup {x})) = Sum(S) + Sum(s \cup {x})
    <3>1. Sum(S \cup (s \cup {x})) = f[x] + Sum(S \cup s)
      BY <2>1, <2>3
    <3> DEFINE a == f[x]
               b == Sum(S)
               c == Sum(s)
    <3>2. a \in Nat /\ b \in Nat /\ c \in Nat /\ Sum(S \cup s) = b + c
      BY <2>4
    <3> HIDE DEF a, b, c
    <3>3. a + (b + c) = b + (a + c)
      BY <3>2
    <3> QED
      BY <2>2, <3>1, <3>2, <3>3 DEF a, b, c
  <2> QED
    BY <2>1, <2>5
<1>5. T \in C
  <2> HIDE DEF C
  <2> QED
    BY <1>3, <1>4, SubsetInduction
<1> QED
  BY <1>5

\* A sum of naturals grows with its set, unless what is added is zero.
LEMMA SumWithin ==
    ASSUME NEW f, NEW T, IsFiniteSet(T), \A x \in T : f[x] \in Nat, NEW S \in SUBSET T
    PROVE  /\ SumFunctionOnSet(f, S) <= SumFunctionOnSet(f, T)
           /\ (\A x \in T \ S : f[x] = 0) => SumFunctionOnSet(f, S) = SumFunctionOnSet(f, T)
<1> DEFINE R == T \ S
           Sum(s) == SumFunctionOnSet(f, s)
<1>1. IsFiniteSet(S) /\ IsFiniteSet(R) /\ S \cap R = {} /\ S \cup R = T
  BY FS_Subset
<1>2. Sum(T) = Sum(S) + Sum(R)
  BY <1>1, SumOfTwo
<1>3. Sum(S) \in Nat /\ Sum(R) \in Nat
  BY <1>1, SumType
<1>4. ASSUME \A x \in R : f[x] = 0 PROVE Sum(R) = 0
  <2> DEFINE C == {s \in SUBSET R : Sum(s) = 0}
  <2>1. {} \in C
    BY <1>1, SumType
  <2>2. ASSUME NEW s \in SUBSET R, NEW x \in R, s \in C, x \notin s PROVE s \cup {x} \in C
    <3>1. IsFiniteSet(s)
      BY <1>1, FS_Subset
    <3>2. Sum(s \cup {x}) = f[x] + Sum(s)
      BY <2>2, <3>1, SumWithOne
    <3> QED
      BY <1>4, <2>2, <3>2
  <2>3. R \in C
    <3> HIDE DEF C, R
    <3> QED
      BY <1>1, <2>1, <2>2, SubsetInduction
  <2> QED
    BY <2>3
<1> HIDE DEF Sum
<1> QED
  BY <1>2, <1>3, <1>4 DEF Sum

\* Elements that are matched one to one with others of the same value have the same sum.
LEMMA SumMatched ==
    ASSUME NEW f, NEW S, IsFiniteSet(S), NEW g, NEW h, \A x \in S : f[x] \in Nat,
           \A x \in S : g[h[x]] = f[x], \A x, y \in S : h[x] = h[y] => x = y
    PROVE  SumFunctionOnSet(g, {h[x] : x \in S}) = SumFunctionOnSet(f, S)
<1> DEFINE Image(s) == {h[x] : x \in s}
           C == {s \in SUBSET S : /\ IsFiniteSet(Image(s))
                                  /\ SumFunctionOnSet(g, Image(s)) = SumFunctionOnSet(f, s)}
<1>1. {} \in C
  <2>1. Image({}) = {}
    OBVIOUS
  <2> QED
    BY <2>1, SumType, FS_EmptySet
<1>2. ASSUME NEW s \in SUBSET S, NEW x \in S, s \in C, x \notin s PROVE s \cup {x} \in C
  <2>1. /\ Image(s \cup {x}) = Image(s) \cup {h[x]}
        /\ h[x] \notin Image(s) /\ IsFiniteSet(s) /\ IsFiniteSet(Image(s))
    BY <1>2, FS_Subset
  <2>2. \A y \in Image(s) \cup {h[x]} : g[y] \in Nat
    OBVIOUS
  <2>3. SumFunctionOnSet(f, s \cup {x}) = f[x] + SumFunctionOnSet(f, s)
    BY <1>2, <2>1, SumWithOne
  <2>4. SumFunctionOnSet(g, Image(s) \cup {h[x]}) = g[h[x]] + SumFunctionOnSet(g, Image(s))
    <3> HIDE DEF Image
    <3> QED
      BY <2>1, <2>2, SumWithOne
  <2>5. IsFiniteSet(Image(s) \cup {h[x]})
    BY <2>1, FS_AddElement
  <2> HIDE DEF Image
  <2> QED
    BY <1>2, <2>1, <2>3, <2>4, <2>5
<1>3. S \in C
  <2> HIDE DEF C
  <2> QED
    BY <1>1, <1>2, SubsetInduction
<1> QED
  BY <1>3

-----------------------------------------------------------------------------
(* The deque: items and their events *)

\* The items of the ledger have events of their own, and no event after one of a
\* reservation is older than now.
Slots(C, H, es, slot, t) ==
    /\ \A x \in C : slot[x] \in DOMAIN es /\ es[slot[x]].at = x.at /\ es[slot[x]].cost = x.cost
    /\ \A x, y \in C : slot[x] = slot[y] => x = y
    /\ \A x \in H : \A i \in DOMAIN es : i >= slot[x] => es[i].at = t

\* No other event of the last hour has a cost, and the events are in order.
Complete(C, es, slot, t) ==
    /\ \A i \in DOMAIN es : es[i].at + Hour >= t /\ es[i].cost > 0 => \E x \in C : slot[x] = i
    /\ \A i, j \in DOMAIN es : i <= j => es[i].at <= es[j].at

Matched(C, H, es, t, exact) ==
    \E slot \in [C -> DOMAIN es] :
        Slots(C, H, es, slot, t) /\ (exact => Complete(C, es, slot, t))

\* The events fs are those of es at the indices e, in the same order.
SelectedBy(fs, es, e) ==
    /\ \A i \in DOMAIN fs : e[i] \in DOMAIN es /\ fs[i] = es[e[i]]
    /\ \A i, j \in DOMAIN fs : i < j => e[i] < e[j]

\* Among them are the events of the items D, where f says, and of no other item of C.
KeptAt(C, D, slot, fs, e, f) ==
    /\ \A x \in D : f[slot[x]] \in DOMAIN fs /\ e[f[slot[x]]] = slot[x]
    /\ \A x \in C \ D : \A i \in DOMAIN fs : slot[x] # e[i]

\* Some events are left, in their order, and among them those of the items that are left.
LEMMA Reindexed ==
    ASSUME NEW C, NEW H \in SUBSET C, NEW es \in Seq(Event), NEW t \in Nat, NEW exact \in BOOLEAN,
           NEW slot, Slots(C, H, es, slot, t), exact => Complete(C, es, slot, t),
           NEW D \in SUBSET C, NEW G \in SUBSET (H \cap D), NEW fs \in Seq(Event), NEW e, NEW f,
           SelectedBy(fs, es, e), KeptAt(C, D, slot, fs, e, f)
    PROVE  Matched(D, G, fs, t, exact)
<1>a. /\ \A i \in DOMAIN fs : e[i] \in DOMAIN es /\ fs[i] = es[e[i]]
      /\ \A i, j \in DOMAIN fs : i < j => e[i] < e[j]
      /\ \A x \in D : f[slot[x]] \in DOMAIN fs /\ e[f[slot[x]]] = slot[x]
      /\ \A x \in C \ D : \A i \in DOMAIN fs : slot[x] # e[i]
  BY DEF SelectedBy, KeptAt
<1> USE <1>a
<1> DEFINE new == [x \in D |-> f[slot[x]]]
<1>1. new \in [D -> DOMAIN fs] /\ \A x \in D : new[x] = f[slot[x]] /\ e[new[x]] = slot[x]
  OBVIOUS
<1> HIDE DEF new
<1>2. DOMAIN es \subseteq Nat /\ DOMAIN fs \subseteq Nat
  OBVIOUS
<1>3. ASSUME NEW i \in DOMAIN fs, NEW j \in DOMAIN fs
      PROVE  (i <= j => e[i] <= e[j]) /\ (e[i] = e[j] => i = j)
  <2>1. i \in Nat /\ j \in Nat /\ e[i] \in Nat /\ e[j] \in Nat
    BY <1>2
  <2>2. (i < j => e[i] < e[j]) /\ (j < i => e[j] < e[i])
    OBVIOUS
  <2> QED
    BY <2>1, <2>2
<1>4. Slots(D, G, fs, new, t)
  <2>1. ASSUME NEW x \in D
        PROVE  new[x] \in DOMAIN fs /\ fs[new[x]].at = x.at /\ fs[new[x]].cost = x.cost
    <3>1. new[x] \in DOMAIN fs /\ e[new[x]] = slot[x]
      BY <1>1
    <3>2. fs[new[x]] = es[slot[x]]
      BY <3>1
    <3>3. es[slot[x]].at = x.at /\ es[slot[x]].cost = x.cost
      BY DEF Slots
    <3> QED
      BY <3>1, <3>2, <3>3
  <2>2. ASSUME NEW x \in D, NEW y \in D, new[x] = new[y] PROVE x = y
    BY <1>1, <2>2 DEF Slots
  <2>3. ASSUME NEW x \in G, NEW i \in DOMAIN fs, i >= new[x] PROVE fs[i].at = t
    <3>1. new[x] \in DOMAIN fs /\ e[new[x]] = slot[x] /\ x \in H
      BY <1>1
    <3>2. e[i] >= slot[x] /\ e[i] \in DOMAIN es
      BY <1>2, <1>3, <2>3, <3>1
    <3> QED
      BY <3>1, <3>2 DEF Slots
  <2> QED
    BY <2>1, <2>2, <2>3 DEF Slots
<1>5. ASSUME exact PROVE Complete(D, fs, new, t)
  <2>1. ASSUME NEW i \in DOMAIN fs, fs[i].at + Hour >= t, fs[i].cost > 0
        PROVE  \E x \in D : new[x] = i
    <3>1. PICK x \in C : slot[x] = e[i]
      BY <1>5, <2>1 DEF Complete
    <3>2. x \in D /\ new[x] \in DOMAIN fs /\ e[new[x]] = e[i]
      BY <1>1, <3>1
    <3>3. new[x] = i
      BY <1>3, <3>2
    <3> QED
      BY <3>2, <3>3
  <2>2. ASSUME NEW i \in DOMAIN fs, NEW j \in DOMAIN fs, i <= j PROVE fs[i].at <= fs[j].at
    <3>1. e[i] <= e[j] /\ e[i] \in DOMAIN es /\ e[j] \in DOMAIN es
      BY <1>3, <2>2
    <3>2. es[e[i]].at <= es[e[j]].at
      BY <1>5, <3>1 DEF Complete
    <3> QED
      BY <3>2
  <2> QED
    BY <2>1, <2>2 DEF Complete
<1> QED
  BY <1>1, <1>4, <1>5 DEF Matched

\* Fewer reservations.
LEMMA FewerHeld ==
    ASSUME NEW C, NEW H, NEW G \in SUBSET H, NEW es, NEW t, NEW exact, Matched(C, H, es, t, exact)
    PROVE  Matched(C, G, es, t, exact)
BY DEF Matched, Slots

\* A nonempty set of indices has a largest and a smallest.
LEMMA Bounds ==
    ASSUME NEW n \in Nat, NEW S \in SUBSET (1 .. n), S # {}
    PROVE  /\ \E x \in S : \A y \in S : y <= x
           /\ \E x \in S : \A y \in S : x <= y
<1> DEFINE Above == {m \in Nat : \A y \in S : y <= m}
<1>1. n \in Above /\ S \subseteq Nat
  OBVIOUS
<1>2. PICK m \in Above : \A k \in Above : ~(<<k, m>> \in OpToRel(<, Nat))
  BY <1>1, NatLessThanWellFounded, WFMin
<1>3. m \in S
  <2> SUFFICES ASSUME m \notin S PROVE FALSE
    OBVIOUS
  <2>1. PICK y \in S : TRUE
    OBVIOUS
  <2>2. m \in Nat /\ m # 0
    BY <2>1
  <2>3. \A z \in S : z <= m /\ z # m /\ z \in Nat
    OBVIOUS
  <2>4. m - 1 \in Above /\ m - 1 < m
    BY <2>2, <2>3
  <2> QED
    BY <1>2, <2>2, <2>4 DEF OpToRel
<1>4. PICK x \in S : \A y \in S : ~(<<y, x>> \in OpToRel(<, Nat))
  BY <1>1, NatLessThanWellFounded, WFMin
<1>5. ASSUME NEW y \in S PROVE x <= y
  <2>1. x \in Nat /\ y \in Nat /\ ~(y < x)
    BY <1>1, <1>4 DEF OpToRel
  <2> QED
    BY <2>1
<1> QED
  BY <1>3, <1>5

-----------------------------------------------------------------------------
(* _prune, and an event that comes *)

\* What _prune keeps.
LEMMA PrunedEvents ==
    ASSUME NEW es \in Seq(Event), now \in Nat
    PROVE  /\ Pruned(es) \in Seq(Event)
           /\ \/ Pruned(es) = <<>> /\ \A i \in DOMAIN es : Expired(es[i])
              \/ \E first \in DOMAIN es :
                    /\ \A i \in 1 .. first - 1 : Expired(es[i])
                    /\ ~Expired(es[first])
                    /\ Pruned(es) = SubSeq(es, first, Len(es))
                    /\ DOMAIN Pruned(es) = 1 .. Len(es) - first + 1
                    /\ \A i \in DOMAIN Pruned(es) : Pruned(es)[i] = es[i + first - 1]
<1>1. CASE \A i \in DOMAIN es : Expired(es[i])
  BY <1>1 DEF Pruned
<1>2. CASE ~\A i \in DOMAIN es : Expired(es[i])
  <2> DEFINE Is(first) == ~Expired(es[first]) /\ \A j \in 1 .. first - 1 : Expired(es[j])
             first == CHOOSE i \in DOMAIN es : Is(i)
             S == {i \in DOMAIN es : ~Expired(es[i])}
  <2>1. DOMAIN es = 1 .. Len(es) /\ Len(es) \in Nat
    OBVIOUS
  <2>2. PICK k \in S : \A i \in S : k <= i
    <3>1. S \in SUBSET (1 .. Len(es)) /\ S # {}
      BY <1>2, <2>1
    <3> HIDE DEF S
    <3> QED
      BY <2>1, <3>1, Bounds
  <2>3. Is(k)
    <3> SUFFICES ASSUME NEW j \in 1 .. k - 1 PROVE Expired(es[j])
      OBVIOUS
    <3>1. j \in DOMAIN es /\ j < k /\ ~(k <= j)
      BY <2>1
    <3> QED
      BY <2>2, <3>1
  <2>4. first \in DOMAIN es /\ Is(first)
    <3> HIDE DEF Is
    <3> QED
      BY <2>3
  <2>5. Pruned(es) = SubSeq(es, first, Len(es))
    BY <1>2 DEF Pruned
  <2> HIDE DEF first
  <2>6. /\ SubSeq(es, first, Len(es)) \in Seq(Event)
        /\ DOMAIN SubSeq(es, first, Len(es)) = 1 .. Len(es) - first + 1
        /\ \A i \in DOMAIN SubSeq(es, first, Len(es)) : SubSeq(es, first, Len(es))[i] = es[i + first - 1]
    BY <2>1, <2>4
  <2> QED
    BY <2>4, <2>5, <2>6
<1> QED
  BY <1>1, <1>2

\* Nothing that is kept is younger than what there was.
LEMMA PrunedAt ==
    ASSUME NEW es \in Seq(Event), now \in Nat, \A i \in DOMAIN es : es[i].at <= now
    PROVE  \A i \in DOMAIN Pruned(es) : Pruned(es)[i].at <= now
<1> DEFINE ps == Pruned(es)
<1>1. \/ ps = <<>>
      \/ \E first \in DOMAIN es :
            /\ DOMAIN ps = 1 .. Len(es) - first + 1
            /\ \A i \in DOMAIN ps : ps[i] = es[i + first - 1]
  BY PrunedEvents
<1>2. CASE ps = <<>>
  BY <1>2
<1>3. ASSUME NEW first \in DOMAIN es,
             DOMAIN ps = 1 .. Len(es) - first + 1,
             \A i \in DOMAIN ps : ps[i] = es[i + first - 1]
      PROVE  \A i \in DOMAIN ps : ps[i].at <= now
  <2>1. \A i \in DOMAIN ps : i + first - 1 \in DOMAIN es
    BY <1>3
  <2> QED
    BY <1>3, <2>1
<1> QED
  BY <1>1, <1>2, <1>3

\* The deque that _prune leaves: every item has its event, and what is there is not
\* expired if all was in order.
Prunes(C, H, es, exact) ==
    /\ Matched(C, H, Pruned(es), now, exact)
    /\ exact => \A i \in DOMAIN Pruned(es) : ~Expired(Pruned(es)[i])

\* What is as recent is as young.
LEMMA YoungAsWell ==
    ASSUME NEW a \in Nat, NEW b \in Nat, a <= b, NEW h \in Nat, NEW t \in Nat, ~(a + h < t)
    PROVE  ~(b + h < t)
OBVIOUS

\* What is expired is no item's event; what is kept is not expired if all is in order.
LEMMA PrunedMatched ==
    ASSUME NEW C, NEW H \in SUBSET C, NEW es \in Seq(Event), NEW exact \in BOOLEAN,
           Matched(C, H, es, now, exact), now \in Nat, Hour \in Nat,
           \A x \in C : ~Expired(x)
    PROVE  Prunes(C, H, es, exact)
<1>1. PICK slot \in [C -> DOMAIN es] :
          Slots(C, H, es, slot, now) /\ (exact => Complete(C, es, slot, now))
  BY DEF Matched
<1>2. \A x \in C : slot[x] \in DOMAIN es /\ ~Expired(es[slot[x]])
  BY <1>1 DEF Slots, Expired
<1>3. CASE Pruned(es) = <<>> /\ \A i \in DOMAIN es : Expired(es[i])
  <2>1. C = {} /\ H = {}
    BY <1>2, <1>3
  <2> DEFINE none == [x \in {} |-> 1]
             fs == <<>>
  <2>2. DOMAIN fs = {} /\ none \in [{} -> DOMAIN fs]
    OBVIOUS
  <2>3. Slots({}, {}, fs, none, now) /\ Complete({}, fs, none, now)
    BY <2>2 DEF Slots, Complete
  <2> HIDE DEF none, fs
  <2>4. Matched({}, {}, fs, now, exact) /\ \A i \in DOMAIN fs : FALSE
    BY <2>2, <2>3 DEF Matched
  <2> QED
    BY <1>3, <2>1, <2>4 DEF fs, Prunes
<1>4. ASSUME NEW first \in DOMAIN es,
             \A i \in 1 .. first - 1 : Expired(es[i]), ~Expired(es[first]),
             DOMAIN Pruned(es) = 1 .. Len(es) - first + 1,
             \A i \in DOMAIN Pruned(es) : Pruned(es)[i] = es[i + first - 1]
      PROVE  /\ Matched(C, H, Pruned(es), now, exact)
             /\ exact => \A i \in DOMAIN Pruned(es) : ~Expired(Pruned(es)[i])
  <2> DEFINE fs == Pruned(es)
             e == [i \in DOMAIN fs |-> i + first - 1]
             f == [i \in DOMAIN es |-> i - first + 1]
  <2>1. DOMAIN es = 1 .. Len(es) /\ Len(es) \in Nat /\ first \in Nat /\ first >= 1
    OBVIOUS
  <2>2. fs \in Seq(Event)
    BY PrunedEvents
  <2>3. \A i \in DOMAIN fs : e[i] = i + first - 1 /\ e[i] \in DOMAIN es /\ fs[i] = es[e[i]] /\ i \in Nat
    BY <1>4, <2>1
  <2>4. \A i, j \in DOMAIN fs : i < j => e[i] < e[j]
    BY <2>1, <2>3
  <2>5. ASSUME NEW x \in C PROVE f[slot[x]] \in DOMAIN fs /\ e[f[slot[x]]] = slot[x]
    <3>1. slot[x] \in 1 .. Len(es) /\ slot[x] \notin 1 .. first - 1
      BY <1>2, <1>4, <2>1
    <3>2. f[slot[x]] = slot[x] - first + 1 /\ f[slot[x]] \in 1 .. Len(es) - first + 1
      BY <2>1, <3>1
    <3> QED
      BY <1>4, <2>1, <3>1, <3>2
  <2> HIDE DEF fs, e, f
  <2>7. Matched(C, H, fs, now, exact)
    <3>1. SelectedBy(fs, es, e)
      BY <2>3, <2>4 DEF SelectedBy
    <3>2. KeptAt(C, C, slot, fs, e, f)
      BY <2>5 DEF KeptAt
    <3> QED
      BY <1>1, <2>2, <3>1, <3>2, Reindexed
  <2>8. ASSUME exact, NEW i \in DOMAIN fs PROVE ~Expired(fs[i])
    <3>1. e[i] \in DOMAIN es /\ first <= e[i] /\ fs[i] = es[e[i]]
      BY <2>1, <2>2, <2>3
    <3>2. es[first].at <= es[e[i]].at
      BY <1>1, <2>8, <3>1 DEF Complete
    <3>3. es[first].at \in Nat /\ es[e[i]].at \in Nat
      <4>1. es[first] \in Event /\ es[e[i]] \in Event
        BY <3>1
      <4> QED
        BY <4>1 DEF Event
    <3>4. ~(es[first].at + Hour < now)
      BY <1>4 DEF Expired
    <3>5. ~(es[e[i]].at + Hour < now)
      BY <3>2, <3>3, <3>4, YoungAsWell
    <3> QED
      BY <3>1, <3>5 DEF Expired
  <2> QED
    BY <2>7, <2>8 DEF fs
<1> QED
  BY <1>3, <1>4, PrunedEvents DEF Prunes

\* The deque with an event of that cost.
Appends(C, H, es, t, exact, cost) ==
    /\ \A x : x \notin C /\ x.at = t /\ x.cost = cost =>
          Matched(C \cup {x}, H \cup {x}, Append(es, [at |-> t, cost |-> cost]), t, exact)
    /\ cost = 0 => Matched(C, H, Append(es, [at |-> t, cost |-> cost]), t, exact)

\* An event comes for one more item, or for none if it costs nothing.
LEMMA AppendedMatched ==
    ASSUME NEW C, NEW H \in SUBSET C, NEW es \in Seq(Event), NEW t \in Nat, NEW exact \in BOOLEAN,
           Matched(C, H, es, t, exact), Hour \in Nat, \A i \in DOMAIN es : es[i].at <= t,
           NEW cost \in Nat
    PROVE  Appends(C, H, es, t, exact, cost)
<1>1. PICK slot \in [C -> DOMAIN es] :
          Slots(C, H, es, slot, t) /\ (exact => Complete(C, es, slot, t))
  BY DEF Matched
<1> DEFINE ev == [at |-> t, cost |-> cost]
           fs == Append(es, ev)
           n == Len(es) + 1
<1>2. /\ DOMAIN es = 1 .. Len(es) /\ Len(es) \in Nat /\ ev.at = t /\ ev.cost = cost /\ ev \in Event
  BY DEF Event
<1> HIDE DEF ev
<1>3. /\ DOMAIN fs = DOMAIN es \cup {n} /\ fs[n] = ev /\ n \notin DOMAIN es
      /\ \A i \in DOMAIN es : fs[i] = es[i] /\ i < n
  BY <1>2
<1> HIDE DEF fs, n
<1>4. n \in Nat /\ DOMAIN fs \subseteq Nat
  BY <1>2, <1>3 DEF n
<1>6. \A i, j \in DOMAIN fs : exact /\ i <= j => fs[i].at <= fs[j].at
  <2> SUFFICES ASSUME NEW i \in DOMAIN fs, NEW j \in DOMAIN fs, exact, i <= j
               PROVE  fs[i].at <= fs[j].at
    OBVIOUS
  <2>1. CASE j = n
    BY <1>2, <1>3, <2>1
  <2>2. CASE j # n
    <3>1. j \in DOMAIN es /\ i \in DOMAIN es
      BY <1>3, <1>4, <2>2
    <3>2. es[i].at <= es[j].at
      BY <1>1, <3>1 DEF Complete
    <3> QED
      BY <1>3, <3>1, <3>2
  <2> QED
    BY <2>1, <2>2
<1>7. ASSUME cost = 0 PROVE Matched(C, H, fs, t, exact)
  <2>1. slot \in [C -> DOMAIN fs]
    BY <1>3
  <2>2. Slots(C, H, fs, slot, t)
    BY <1>1, <1>2, <1>3 DEF Slots
  <2>3. ASSUME exact PROVE Complete(C, fs, slot, t)
    <3>1. ASSUME NEW i \in DOMAIN fs, fs[i].at + Hour >= t, fs[i].cost > 0
          PROVE  \E x \in C : slot[x] = i
      <4>1. i \in DOMAIN es
        BY <1>2, <1>3, <1>7, <3>1
      <4> QED
        BY <1>1, <1>3, <2>3, <3>1, <4>1 DEF Complete
    <3> QED
      BY <1>6, <2>3, <3>1 DEF Complete
  <2> QED
    BY <2>1, <2>2, <2>3 DEF Matched
<1>8. ASSUME NEW x, x \notin C, x.at = t, x.cost = cost
      PROVE  Matched(C \cup {x}, H \cup {x}, fs, t, exact)
  <2> DEFINE D == C \cup {x}
             new == [y \in D |-> IF y = x THEN n ELSE slot[y]]
  <2>1. new \in [D -> DOMAIN fs] /\ new[x] = n /\ \A y \in C : new[y] = slot[y] /\ y # x
    BY <1>3, <1>8
  <2> HIDE DEF new
  <2>2. Slots(D, H \cup {x}, fs, new, t)
    <3>1. ASSUME NEW y \in D
          PROVE  new[y] \in DOMAIN fs /\ fs[new[y]].at = y.at /\ fs[new[y]].cost = y.cost
      <4>1. CASE y = x
        BY <1>2, <1>3, <1>8, <2>1, <4>1
      <4>2. CASE y \in C
        BY <1>1, <1>3, <2>1, <4>2 DEF Slots
      <4> QED
        BY <4>1, <4>2
    <3>2. ASSUME NEW y \in D, NEW z \in D, new[y] = new[z] PROVE y = z
      <4>1. \A u \in C : new[u] \in DOMAIN es /\ new[u] # n
        BY <1>1, <1>3, <2>1 DEF Slots
      <4>2. CASE y = x \/ z = x
        BY <2>1, <3>2, <4>1, <4>2
      <4>3. CASE y \in C /\ z \in C
        BY <1>1, <2>1, <3>2, <4>3 DEF Slots
      <4> QED
        BY <4>2, <4>3
    <3>3. ASSUME NEW y \in H \cup {x}, NEW i \in DOMAIN fs, i >= new[y] PROVE fs[i].at = t
      <4>1. CASE i = n
        BY <1>2, <1>3, <4>1
      <4>2. CASE i # n
        <5>1. i \in DOMAIN es /\ i < n /\ i \in Nat
          BY <1>2, <1>3, <4>2
        <5>2. y # x
          BY <1>4, <2>1, <3>3, <5>1
        <5>3. y \in H /\ i >= slot[y]
          BY <2>1, <3>3, <5>2
        <5> QED
          BY <1>1, <1>3, <5>1, <5>3 DEF Slots
      <4> QED
        BY <4>1, <4>2
    <3> QED
      BY <3>1, <3>2, <3>3 DEF Slots
  <2>3. ASSUME exact PROVE Complete(D, fs, new, t)
    <3>1. ASSUME NEW i \in DOMAIN fs, fs[i].at + Hour >= t, fs[i].cost > 0
          PROVE  \E y \in D : new[y] = i
      <4>1. CASE i = n
        BY <2>1, <4>1
      <4>2. CASE i # n
        <5>1. i \in DOMAIN es
          BY <1>3, <4>2
        <5>2. PICK y \in C : slot[y] = i
          BY <1>1, <1>3, <2>3, <3>1, <5>1 DEF Complete
        <5> QED
          BY <2>1, <5>2
      <4> QED
        BY <4>1, <4>2
    <3> QED
      BY <1>6, <2>3, <3>1 DEF Complete
  <2> QED
    BY <2>1, <2>2, <2>3 DEF Matched
<1> QED
  BY <1>7, <1>8 DEF fs, ev, Appends

-----------------------------------------------------------------------------
(* replace_reservation *)

\* The indices that replace_reservation looks at.
SameCost(es, estimate) == {i \in DOMAIN es : es[i].cost = estimate}

\* A reservation's event can be exchanged with any later one of the same cost, which is
\* as recent, without an item being left alone.
LEMMA ExchangedMatched ==
    ASSUME NEW C, NEW H \in SUBSET C, NEW es \in Seq(Event), NEW t \in Nat, NEW exact \in BOOLEAN,
           Matched(C, H, es, t, exact), Hour \in Nat, NEW h \in H, h.cost > 0, h.at = t,
           NEW k \in DOMAIN es, es[k].cost = h.cost,
           \A i \in DOMAIN es : es[i].cost = h.cost => i <= k
    PROVE  \E slot \in [C -> DOMAIN es] :
              Slots(C, H, es, slot, t) /\ (exact => Complete(C, es, slot, t)) /\ slot[h] = k
<1>1. PICK slot \in [C -> DOMAIN es] :
          Slots(C, H, es, slot, t) /\ (exact => Complete(C, es, slot, t))
  BY DEF Matched
<1>2. /\ \A x \in C : slot[x] \in DOMAIN es /\ es[slot[x]].at = x.at /\ es[slot[x]].cost = x.cost
      /\ \A x, y \in C : slot[x] = slot[y] => x = y
      /\ \A x \in H : \A i \in DOMAIN es : i >= slot[x] => es[i].at = t
  BY <1>1 DEF Slots
<1>3. DOMAIN es \subseteq Nat
  OBVIOUS
<1>4. h \in C /\ slot[h] \in DOMAIN es /\ slot[h] <= k /\ es[k].at = t
  BY <1>2, <1>3
<1> DEFINE new == [x \in C |-> IF x = h THEN k ELSE IF slot[x] = k THEN slot[h] ELSE slot[x]]
<1>5. /\ new \in [C -> DOMAIN es] /\ new[h] = k
      /\ \A x \in C : x # h /\ slot[x] = k => new[x] = slot[h]
      /\ \A x \in C : x # h /\ slot[x] # k => new[x] = slot[x]
  BY <1>2, <1>4
<1> HIDE DEF new
<1>6. Slots(C, H, es, new, t)
  <2>1. ASSUME NEW x \in C
        PROVE  new[x] \in DOMAIN es /\ es[new[x]].at = x.at /\ es[new[x]].cost = x.cost
    <3>1. CASE x = h
      BY <1>4, <1>5, <3>1
    <3>2. CASE x # h /\ slot[x] = k
      BY <1>2, <1>4, <1>5, <3>2
    <3>3. CASE x # h /\ slot[x] # k
      BY <1>2, <1>5, <3>3
    <3> QED
      BY <3>1, <3>2, <3>3
  <2>2. ASSUME NEW x \in C, NEW y \in C, new[x] = new[y] PROVE x = y
    <3>1. CASE x = h \/ y = h
      BY <1>2, <1>4, <1>5, <2>2, <3>1
    <3>2. CASE x # h /\ y # h
      BY <1>2, <1>4, <1>5, <2>2, <3>2
    <3> QED
      BY <3>1, <3>2
  <2>3. ASSUME NEW x \in H, NEW i \in DOMAIN es, i >= new[x] PROVE es[i].at = t
    <3>1. i >= slot[h] => es[i].at = t
      BY <1>2
    <3>2. CASE x = h
      BY <1>3, <1>4, <1>5, <2>3, <3>1, <3>2
    <3>3. CASE x # h /\ slot[x] = k
      BY <1>5, <2>3, <3>1, <3>3
    <3>4. CASE x # h /\ slot[x] # k
      BY <1>2, <1>5, <2>3, <3>4
    <3> QED
      BY <3>2, <3>3, <3>4
  <2> QED
    BY <2>1, <2>2, <2>3 DEF Slots
<1>7. ASSUME exact PROVE Complete(C, es, new, t)
  <2>1. /\ \A i \in DOMAIN es : es[i].at + Hour >= t /\ es[i].cost > 0 => \E x \in C : slot[x] = i
        /\ \A i, j \in DOMAIN es : i <= j => es[i].at <= es[j].at
    BY <1>1, <1>7 DEF Complete
  <2>2. PICK y \in C : slot[y] = k
    <3>1. es[k].at + Hour >= t /\ es[k].cost > 0
      BY <1>4
    <3> QED
      BY <2>1, <3>1
  <2>3. \A x \in C : \E z \in C : new[z] = slot[x]
    <3> SUFFICES ASSUME NEW x \in C PROVE \E z \in C : new[z] = slot[x]
      OBVIOUS
    <3>1. CASE slot[x] = k
      BY <1>4, <1>5, <3>1
    <3>2. CASE slot[x] # k /\ x = h
      BY <1>2, <1>5, <2>2, <3>2
    <3>3. CASE slot[x] # k /\ x # h
      BY <1>5, <3>3
    <3> QED
      BY <3>1, <3>2, <3>3
  <2>4. ASSUME NEW i \in DOMAIN es, es[i].at + Hour >= t, es[i].cost > 0
        PROVE  \E x \in C : new[x] = i
    <3>1. PICK x \in C : slot[x] = i
      BY <2>1, <2>4
    <3> QED
      BY <2>3, <3>1
  <2> QED
    BY <2>1, <2>4 DEF Complete
<1> QED
  BY <1>5, <1>6, <1>7

\* The largest of the indices of a sequence that are in a set.
LEMMA MaxOfIndices ==
    ASSUME NEW n \in Nat, NEW S \in SUBSET (1 .. n), S # {}
    PROVE  Max(S) \in S /\ \A i \in S : i <= Max(S)
<1>1. PICK k \in S : \A i \in S : i <= k
  BY Bounds
<1>2. \E x \in S : \A y \in S : x >= y
  BY <1>1
<1>3. Max(S) \in S /\ \A i \in S : Max(S) >= i
  BY <1>2 DEF Max
<1> QED
  BY <1>3

\* The second part of a concatenation.
LEMMA SecondPart ==
    ASSUME NEW u \in Seq(Event), NEW v \in Seq(Event), NEW i \in Nat,
           i > Len(u), i <= Len(u) + Len(v)
    PROVE  (u \o v)[i] = v[i - Len(u)]
OBVIOUS

\* Without one of its elements a sequence keeps the others in order.
LEMMA RemovedAt ==
    ASSUME NEW es \in Seq(Event), NEW k \in DOMAIN es
    PROVE  /\ RemoveAt(es, k) \in Seq(Event)
           /\ DOMAIN RemoveAt(es, k) = 1 .. Len(es) - 1
           /\ \A i \in 1 .. Len(es) - 1 : RemoveAt(es, k)[i] = es[IF i < k THEN i ELSE i + 1]
<1> DEFINE u == SubSeq(es, 1, k - 1)
           v == SubSeq(es, k + 1, Len(es))
<1>1. Len(es) \in Nat /\ k \in 1 .. Len(es)
  OBVIOUS
<1>2. u \in Seq(Event) /\ Len(u) = k - 1 /\ \A i \in 1 .. k - 1 : u[i] = es[i]
  BY <1>1
<1>3. v \in Seq(Event) /\ Len(v) = Len(es) - k /\ \A i \in 1 .. Len(es) - k : v[i] = es[i + k]
  BY <1>1
<1>4. RemoveAt(es, k) = u \o v
  BY DEF RemoveAt
<1> HIDE DEF u, v
<1>5. u \o v \in Seq(Event) /\ Len(u \o v) = Len(es) - 1 /\ DOMAIN (u \o v) = 1 .. Len(es) - 1
  BY <1>1, <1>2, <1>3
<1>6. ASSUME NEW i \in 1 .. Len(es) - 1 PROVE (u \o v)[i] = es[IF i < k THEN i ELSE i + 1]
  <2>1. CASE i < k
    BY <1>1, <1>2, <1>3, <2>1
  <2>2. CASE ~(i < k)
    <3>1. i - (k - 1) \in 1 .. Len(es) - k /\ (i - (k - 1)) + k = i + 1
      BY <1>1, <2>2
    <3>2. i \in Nat /\ i > Len(u) /\ i <= Len(u) + Len(v)
      BY <1>1, <1>2, <1>3, <2>2
    <3>3. (u \o v)[i] = v[i - Len(u)]
      BY <1>2, <1>3, <3>2, SecondPart
    <3> QED
      BY <1>2, <1>3, <2>2, <3>1, <3>3
  <2> QED
    BY <2>1, <2>2
<1> QED
  BY <1>4, <1>5, <1>6

\* What is left when the last event of that cost is taken.
Rest(es, estimate) == RemoveAt(es, Max(SameCost(es, estimate)))

\* Nothing that is left is younger than what there was.
LEMMA RestEvents ==
    ASSUME NEW es \in Seq(Event), NEW estimate, SameCost(es, estimate) # {}, NEW n \in Nat,
           \A i \in DOMAIN es : es[i].at <= n
    PROVE  /\ Rest(es, estimate) \in Seq(Event)
           /\ \A i \in DOMAIN Rest(es, estimate) : Rest(es, estimate)[i].at <= n
<1> DEFINE same == SameCost(es, estimate)
           k == Max(same)
           fs == RemoveAt(es, k)
<1>1. Len(es) \in Nat /\ DOMAIN es = 1 .. Len(es)
  OBVIOUS
<1>2. same # {} /\ same \in SUBSET (1 .. Len(es))
  BY <1>1 DEF SameCost
<1> HIDE DEF same
<1>3. k \in DOMAIN es
  BY <1>1, <1>2, MaxOfIndices
<1> HIDE DEF k
<1>4. /\ fs \in Seq(Event) /\ DOMAIN fs = 1 .. Len(es) - 1
      /\ \A i \in 1 .. Len(es) - 1 : fs[i] = es[IF i < k THEN i ELSE i + 1]
  BY <1>3, RemovedAt
<1> HIDE DEF fs
<1>5. \A i \in 1 .. Len(es) - 1 : (IF i < k THEN i ELSE i + 1) \in DOMAIN es
  BY <1>1, <1>3
<1>6. \A i \in DOMAIN fs : fs[i].at <= n
  BY <1>4, <1>5
<1> QED
  BY <1>4, <1>6 DEF fs, k, same, Rest

\* The deque without it: the reservation h has no event any more.
Taken(C, H, es, t, exact, h) ==
    /\ SameCost(es, h.cost) # {}
    /\ Rest(es, h.cost) \in Seq(Event)
    /\ Matched(C \ {h}, H \ {h}, Rest(es, h.cost), t, exact)
    /\ \A n \in Nat : (\A i \in DOMAIN es : es[i].at <= n) =>
                          \A i \in DOMAIN Rest(es, h.cost) : Rest(es, h.cost)[i].at <= n

\* replace_reservation takes an event of the reservation's cost: whichever it is, the
\* other items keep theirs.
LEMMA TakenMatched ==
    ASSUME NEW C, NEW H \in SUBSET C, NEW es \in Seq(Event), NEW t \in Nat, NEW exact \in BOOLEAN,
           Matched(C, H, es, t, exact), Hour \in Nat, NEW h \in H, h.cost > 0, h.at = t
    PROVE  Taken(C, H, es, t, exact, h)
<1> DEFINE same == SameCost(es, h.cost)
           k == Max(same)
           fs == RemoveAt(es, k)
           e == [i \in DOMAIN fs |-> IF i < k THEN i ELSE i + 1]
           f == [i \in DOMAIN es |-> IF i < k THEN i ELSE i - 1]
<1>1. Len(es) \in Nat /\ DOMAIN es = 1 .. Len(es)
  OBVIOUS
<1>2. PICK first \in [C -> DOMAIN es] : Slots(C, H, es, first, t)
  BY DEF Matched
<1>3. first[h] \in same /\ same \in SUBSET (1 .. Len(es))
  BY <1>1, <1>2 DEF Slots, SameCost
<1> HIDE DEF same
<1>4. k \in same /\ \A i \in same : i <= k
  BY <1>1, <1>3, MaxOfIndices
<1> HIDE DEF k
<1>5. k \in DOMAIN es /\ es[k].cost = h.cost /\ \A i \in DOMAIN es : es[i].cost = h.cost => i <= k
  BY <1>4 DEF same, SameCost
<1>6. PICK slot \in [C -> DOMAIN es] :
          Slots(C, H, es, slot, t) /\ (exact => Complete(C, es, slot, t)) /\ slot[h] = k
  BY <1>5, ExchangedMatched
<1>7. /\ fs \in Seq(Event) /\ DOMAIN fs = 1 .. Len(es) - 1
      /\ \A i \in 1 .. Len(es) - 1 : fs[i] = es[IF i < k THEN i ELSE i + 1]
  BY <1>5, RemovedAt
<1>8. k \in Nat /\ k >= 1 /\ k <= Len(es)
  BY <1>1, <1>5
<1> HIDE DEF fs
<1>9. ASSUME NEW i \in DOMAIN fs
      PROVE  /\ e[i] \in DOMAIN es /\ fs[i] = es[e[i]] /\ i \in Nat /\ e[i] # k
             /\ (i < k => e[i] = i) /\ (~(i < k) => e[i] = i + 1)
  BY <1>1, <1>7, <1>8
<1>10. ASSUME NEW j \in DOMAIN es, j # k PROVE f[j] \in DOMAIN fs /\ e[f[j]] = j
  <2>1. j \in Nat /\ j >= 1 /\ j <= Len(es)
    BY <1>1
  <2>2. CASE j < k
    <3>1. f[j] = j /\ j \in DOMAIN fs
      BY <1>1, <1>7, <1>8, <2>1, <2>2
    <3> QED
      BY <2>2, <3>1
  <2>3. CASE ~(j < k)
    <3>1. f[j] = j - 1 /\ j - 1 \in DOMAIN fs /\ ~(j - 1 < k) /\ (j - 1) + 1 = j
      BY <1>1, <1>7, <1>8, <1>10, <2>1, <2>3
    <3>2. e[j - 1] = (j - 1) + 1
      BY <1>9, <3>1
    <3> QED
      BY <3>1, <3>2
  <2> QED
    BY <2>2, <2>3
<1> HIDE DEF e, f
<1>11. SelectedBy(fs, es, e)
  <2>1. \A i, j \in DOMAIN fs : i < j => e[i] < e[j]
    BY <1>8, <1>9
  <2> QED
    BY <1>9, <2>1 DEF SelectedBy
<1>12. KeptAt(C, C \ {h}, slot, fs, e, f)
  <2>1. ASSUME NEW x \in C \ {h} PROVE slot[x] \in DOMAIN es /\ slot[x] # k
    BY <1>6 DEF Slots
  <2>2. \A x \in C \ (C \ {h}) : slot[x] = k
    BY <1>6
  <2> QED
    BY <1>9, <1>10, <2>1, <2>2 DEF KeptAt
<1>13. Matched(C \ {h}, H \ {h}, fs, t, exact)
  <2>1. C \ {h} \in SUBSET C /\ H \ {h} \in SUBSET (H \cap (C \ {h}))
    OBVIOUS
  <2>2. Slots(C, H, es, slot, t) /\ (exact => Complete(C, es, slot, t)) /\ fs \in Seq(Event)
    BY <1>6, <1>7
  <2> DEFINE D == C \ {h}
             G == H \ {h}
  <2>3. D \in SUBSET C /\ G \in SUBSET (H \cap D) /\ KeptAt(C, D, slot, fs, e, f)
    BY <1>12, <2>1
  <2> HIDE DEF D, G
  <2>4. Matched(D, G, fs, t, exact)
    BY <1>11, <2>2, <2>3, Reindexed
  <2> QED
    BY <2>4 DEF D, G
<1>14. \A n \in Nat : (\A i \in DOMAIN es : es[i].at <= n) => \A i \in DOMAIN fs : fs[i].at <= n
  BY <1>9
<1> QED
  BY <1>3, <1>7, <1>13, <1>14 DEF fs, k, same, Taken, Rest

\* The deque after replace_reservation: the reservation h has no event any more, and an
\* item of that cost has one.
Replaces(C, H, es, exact, h, cost) ==
    /\ Replaced(es, h.cost, cost) \in Seq(Event)
    /\ \A i \in DOMAIN Replaced(es, h.cost, cost) : Replaced(es, h.cost, cost)[i].at <= now
    /\ cost = 0 => Matched(C \ {h}, H \ {h}, Replaced(es, h.cost, cost), now, exact)
    /\ \A x : x \notin C \ {h} /\ x.at = now /\ x.cost = cost =>
          Matched((C \ {h}) \cup {x}, H \ {h}, Replaced(es, h.cost, cost), now, exact)

\* What replace_reservation makes of the deque: the reservation's place is taken by the
\* cost of the call.
LEMMA ReplacedMatched ==
    ASSUME NEW C, NEW H \in SUBSET C, NEW es \in Seq(Event), NEW exact \in BOOLEAN,
           Matched(C, H, es, now, exact), now \in Nat, Hour \in Nat,
           \A i \in DOMAIN es : es[i].at <= now,
           NEW h \in H, h.cost > 0, h.at = now, NEW cost \in Nat
    PROVE  Replaces(C, H, es, exact, h, cost)
<1> DEFINE fs == Rest(es, h.cost)
           ev == [at |-> now, cost |-> cost]
           D == C \ {h}
           G == H \ {h}
<1>1. Taken(C, H, es, now, exact, h)
  BY TakenMatched
<1>2. /\ SameCost(es, h.cost) # {} /\ fs \in Seq(Event) /\ Matched(D, G, fs, now, exact)
      /\ \A i \in DOMAIN fs : fs[i].at <= now
  BY <1>1 DEF Taken
<1>3. Replaced(es, h.cost, cost) = Append(fs, ev)
  BY <1>2 DEF Replaced, SameCost, Rest
<1>4. G \in SUBSET D
  OBVIOUS
<1> HIDE DEF fs, D, G
<1>5. Appends(D, G, fs, now, exact, cost)
  BY <1>2, <1>4, AppendedMatched
<1>6. ASSUME NEW x, x \notin D, x.at = now, x.cost = cost
      PROVE  Matched(D \cup {x}, G, Append(fs, ev), now, exact)
  <2>1. Matched(D \cup {x}, G \cup {x}, Append(fs, ev), now, exact)
    BY <1>5, <1>6 DEF Appends
  <2>2. G \in SUBSET (G \cup {x})
    OBVIOUS
  <2> QED
    BY <2>1, <2>2, FewerHeld
<1>7. ev \in Event /\ ev.at = now
  BY DEF Event
<1> HIDE DEF ev
<1>8. Append(fs, ev) \in Seq(Event) /\ \A i \in DOMAIN Append(fs, ev) : Append(fs, ev)[i].at <= now
  BY <1>2, <1>7
<1>9. cost = 0 => Matched(D, G, Append(fs, ev), now, exact)
  BY <1>5 DEF Appends, ev
<1> QED
  BY <1>3, <1>6, <1>8, <1>9 DEF D, G, ev, Replaces

-----------------------------------------------------------------------------
(* Costs *)

CostOf(s) == SumFunction([x \in s |-> x.cost])

\* The cost of some items as a sum within the cost of more.
LEMMA CostWithin ==
    ASSUME NEW S, IsFiniteSet(S), \A x \in S : x.cost \in Nat, NEW T \in SUBSET S
    PROVE  /\ IsFiniteSet(T)
           /\ CostOf(T) = SumFunctionOnSet([x \in S |-> x.cost], T)
<1> DEFINE f == [x \in T |-> x.cost]
           g == [x \in S |-> x.cost]
           id == [x \in T |-> x]
<1>1. IsFiniteSet(T)
  BY FS_Subset
<1>2. {id[x] : x \in T} = T
  OBVIOUS
<1>3. \A x \in T : f[x] \in Nat /\ g[id[x]] = f[x]
  OBVIOUS
<1>4. \A x, y \in T : id[x] = id[y] => x = y
  OBVIOUS
<1>5. CostOf(T) = SumFunctionOnSet(f, T)
  BY DEF CostOf, SumFunction
<1> HIDE DEF f, g, id
<1>6. SumFunctionOnSet(g, {id[x] : x \in T}) = SumFunctionOnSet(f, T)
  BY <1>1, <1>3, <1>4, SumMatched
<1> QED
  BY <1>1, <1>2, <1>5, <1>6 DEF g

\* More items cost more, by what the others cost.
LEMMA CostGrows ==
    ASSUME NEW S, IsFiniteSet(S), \A x \in S : x.cost \in Nat, NEW T \in SUBSET S
    PROVE  /\ CostOf(S) \in Nat /\ CostOf(T) \in Nat
           /\ CostOf(T) <= CostOf(S)
           /\ (\A x \in S \ T : x.cost = 0) => CostOf(T) = CostOf(S)
<1> DEFINE g == [x \in S |-> x.cost]
<1>1. S \in SUBSET S
  OBVIOUS
<1>2. \A x \in S : g[x] \in Nat /\ g[x] = x.cost
  OBVIOUS
<1>3. IsFiniteSet(T) /\ CostOf(T) = SumFunctionOnSet(g, T) /\ CostOf(S) = SumFunctionOnSet(g, S)
  BY <1>1, CostWithin
<1> HIDE DEF g
<1>4. SumFunctionOnSet(g, S) \in Nat /\ SumFunctionOnSet(g, T) \in Nat
  BY <1>2, <1>3, SumType
<1>5. /\ SumFunctionOnSet(g, T) <= SumFunctionOnSet(g, S)
      /\ (\A x \in S \ T : g[x] = 0) => SumFunctionOnSet(g, T) = SumFunctionOnSet(g, S)
  BY <1>2, SumWithin
<1> QED
  BY <1>2, <1>3, <1>4, <1>5

\* The cost of two sets of items that have none in common.
LEMMA CostOfTwo ==
    ASSUME NEW S, IsFiniteSet(S), NEW T, IsFiniteSet(T), S \cap T = {},
           \A x \in S \cup T : x.cost \in Nat
    PROVE  CostOf(S \cup T) = CostOf(S) + CostOf(T)
<1> DEFINE U == S \cup T
           g == [x \in U |-> x.cost]
<1>1. IsFiniteSet(U) /\ S \in SUBSET U /\ T \in SUBSET U /\ U \in SUBSET U
  BY FS_Union
<1>2. \A x \in U : g[x] \in Nat
  OBVIOUS
<1>3. \A x \in U : x.cost \in Nat
  OBVIOUS
<1> HIDE DEF U
<1>4. /\ CostOf(S) = SumFunctionOnSet(g, S) /\ CostOf(T) = SumFunctionOnSet(g, T)
      /\ CostOf(U) = SumFunctionOnSet(g, U)
  BY <1>1, <1>3, CostWithin
<1> HIDE DEF g
<1>5. SumFunctionOnSet(g, S \cup T) = SumFunctionOnSet(g, S) + SumFunctionOnSet(g, T)
  BY <1>2, SumOfTwo DEF U
<1> QED
  BY <1>4, <1>5 DEF U

\* One item more.
LEMMA CostWithOne ==
    ASSUME NEW S, IsFiniteSet(S), NEW x, x \notin S, \A y \in S \cup {x} : y.cost \in Nat
    PROVE  CostOf(S \cup {x}) = x.cost + CostOf(S)
<1> DEFINE U == S \cup {x}
           g == [y \in U |-> y.cost]
<1>1. IsFiniteSet(U) /\ S \in SUBSET U /\ U \in SUBSET U
  BY FS_AddElement
<1>2. \A y \in U : g[y] \in Nat
  OBVIOUS
<1>3. (\A y \in U : y.cost \in Nat) /\ g[x] = x.cost
  OBVIOUS
<1> HIDE DEF U
<1>4. CostOf(S) = SumFunctionOnSet(g, S) /\ CostOf(U) = SumFunctionOnSet(g, U)
  BY <1>1, <1>3, CostWithin
<1> HIDE DEF g
<1>5. SumFunctionOnSet(g, S \cup {x}) = g[x] + SumFunctionOnSet(g, S)
  BY <1>2, SumWithOne DEF U
<1> QED
  BY <1>3, <1>4, <1>5 DEF U

\* The items that have events cost no more than the budget counts, and exactly that if
\* no other event has a cost.
LEMMA SpendCovers ==
    ASSUME NEW C, IsFiniteSet(C), NEW H \in SUBSET C, NEW es \in Seq(Event), NEW exact \in BOOLEAN,
           Matched(C, H, es, now, exact), now \in Nat, Hour \in Nat,
           \A x \in C : ~Expired(x) /\ x.cost \in Nat
    PROVE  /\ SpendOf(es) \in Nat /\ CostOf(C) \in Nat
           /\ CostOf(C) <= SpendOf(es)
           /\ exact => CostOf(C) = SpendOf(es)
<1> DEFINE ps == Pruned(es)
           g == [i \in DOMAIN ps |-> ps[i].cost]
           f == [x \in C |-> x.cost]
<1>1. ps \in Seq(Event)
  BY PrunedEvents
<1>2. Matched(C, H, ps, now, exact) /\ (exact => \A i \in DOMAIN ps : ~Expired(ps[i]))
  <2>1. \A x \in C : ~Expired(x)
    OBVIOUS
  <2>2. Prunes(C, H, es, exact)
    BY <2>1, PrunedMatched
  <2> QED
    BY <2>2 DEF Prunes
<1>3. PICK slot \in [C -> DOMAIN ps] :
          Slots(C, H, ps, slot, now) /\ (exact => Complete(C, ps, slot, now))
  BY <1>2 DEF Matched
<1>4. SpendOf(es) = SumFunctionOnSet(g, DOMAIN ps)
  BY DEF SpendOf, SumOfEvents, SumFunction
<1>5. CostOf(C) = SumFunctionOnSet(f, C)
  BY DEF CostOf, SumFunction
<1> HIDE DEF ps
<1>6. IsFiniteSet(DOMAIN ps)
  <2>1. DOMAIN ps = 1 .. Len(ps) /\ Len(ps) \in Int /\ 1 \in Int
    BY <1>1
  <2> QED
    BY <2>1, FS_Interval
<1>7. ASSUME NEW i \in DOMAIN ps PROVE g[i] \in Nat /\ g[i] = ps[i].cost /\ ps[i].at \in Nat
  <2>1. ps[i] \in Event
    BY <1>1
  <2> QED
    BY <2>1 DEF Event
<1>8. \A x \in C : f[x] \in Nat /\ f[x] = x.cost
  OBVIOUS
<1> DEFINE image == {slot[x] : x \in C}
<1>9. image \in SUBSET DOMAIN ps
  BY <1>3
<1> HIDE DEF f, g
<1>10. SumFunctionOnSet(g, image) = SumFunctionOnSet(f, C)
  <2>1. ASSUME NEW x \in C PROVE g[slot[x]] = f[x]
    BY <1>3, <1>7, <1>8 DEF Slots
  <2>2. \A x, y \in C : slot[x] = slot[y] => x = y
    BY <1>3 DEF Slots
  <2> QED
    BY <1>8, <2>1, <2>2, SumMatched
<1>11. ASSUME exact, NEW i \in DOMAIN ps \ image PROVE g[i] = 0
  <2>1. ps[i].at + Hour >= now
    BY <1>2, <1>7, <1>11 DEF Expired
  <2>2. ~(ps[i].cost > 0)
    BY <1>3, <1>11, <2>1 DEF Complete
  <2> QED
    BY <1>7, <2>2
<1> HIDE DEF image
<1>12. /\ SumFunctionOnSet(g, image) <= SumFunctionOnSet(g, DOMAIN ps)
       /\ (\A i \in DOMAIN ps \ image : g[i] = 0) =>
             SumFunctionOnSet(g, image) = SumFunctionOnSet(g, DOMAIN ps)
  BY <1>6, <1>7, <1>9, SumWithin
<1>13. SumFunctionOnSet(g, DOMAIN ps) \in Nat /\ SumFunctionOnSet(f, C) \in Nat
  <2>1. SumFunctionOnSet(g, DOMAIN ps) \in Nat
    BY <1>6, <1>7, SumType
  <2>2. SumFunctionOnSet(f, C) \in Nat
    BY <1>8, SumType
  <2> QED
    BY <2>1, <2>2
<1> QED
  BY <1>4, <1>5, <1>10, <1>11, <1>12, <1>13

-----------------------------------------------------------------------------
(* The budget: the invariant *)

RequestPcs == {"idle", "lookup", "try", "call", "put"} \cup EndPcs

Request == [pc : RequestPcs, tier : Tiers, prompt : Prompts, i : Nat \ {0}, attempt : Nat,
            reserved : BOOLEAN, cost : Nat]

\* What the auxiliary sets hold, and the log.
Item == [request : Requests, i : Nat \ {0}, at : Nat, cost : Nat]
LoggedRow == [request : Requests, i : Nat \ {0}, at : Nat, cost : Nat, written : BOOLEAN]

RequestInv ==
    /\ requests \in [Requests -> Request]
    /\ \A r \in Requests :
          /\ requests[r].pc = "idle" => requests[r].i = 1
          /\ requests[r].pc = "call" => Current(requests[r]) \in Providers
          /\ requests[r].reserved =>
                requests[r].pc = "call" /\ Estimate[Current(requests[r])] > 0

StoreInv ==
    /\ now \in Nat /\ restarts \in Nat /\ world \in Worlds
    /\ events \in Seq(Event) /\ \A i \in DOMAIN events : events[i].at <= now
    /\ \A x \in booked \cup kept : x \in Item /\ x.at <= now
    /\ \A row \in rows : row \in LoggedRow /\ row.at <= now
    /\ IsFiniteSet(InFlight) /\ IsFiniteSet(booked) /\ IsFiniteSet(kept) /\ IsFiniteSet(rows)

\* The reservation of a call at work, as an item of the ledger.
HeldItem(r) == [request |-> r, i |-> requests[r].i, at |-> now,
                cost |-> Estimate[Current(requests[r])]]
Held == {HeldItem(r) : r \in InFlight}

\* What the budget should count, and what of it makes a difference.
Ledger == InWindow(Held \cup booked \cup kept)
Counted == {x \in Ledger : x.cost > 0}

\* The call of an item is over.
Past(x) ==
    LET q == requests[x.request] IN
    q.pc \in EndPcs \/ x.i < q.i \/ (q.pc = "put" /\ x.i = q.i)

\* A call is charged once.
OnceInv ==
    /\ \A x \in booked \cup kept : Past(x)
    /\ \A x, y \in booked \cup kept : x.request = y.request /\ x.i = y.i => x = y
    /\ booked \cap kept = {}

\* The deque has an event for everything that counts, and without a restart for nothing
\* else.
LedgerInv == Matched(Counted, Held, events, now, restarts = 0)

CapInv == Cheap => CostOf(Counted) <= HourlyUsd

LInv == RequestInv /\ StoreInv /\ OnceInv /\ LedgerInv /\ CapInv

-----------------------------------------------------------------------------
\* A reservation is an item with a cost.
LEMMA HeldTypes ==
    ASSUME RequestInv, now \in Nat
    PROVE  \A r \in InFlight : /\ r \in Requests /\ HeldItem(r) \in Item
                               /\ HeldItem(r).request = r /\ HeldItem(r).i = requests[r].i
                               /\ HeldItem(r).at = now
                               /\ HeldItem(r).cost = Estimate[Current(requests[r])]
                               /\ HeldItem(r).cost > 0
<1> SUFFICES ASSUME NEW r \in InFlight
             PROVE  /\ r \in Requests /\ HeldItem(r) \in Item
                    /\ HeldItem(r).request = r /\ HeldItem(r).i = requests[r].i
                    /\ HeldItem(r).at = now
                    /\ HeldItem(r).cost = Estimate[Current(requests[r])]
                    /\ HeldItem(r).cost > 0
  OBVIOUS
<1>1. r \in Requests /\ requests[r].reserved
  BY DEF InFlight
<1>2. /\ requests[r] \in Request /\ Current(requests[r]) \in Providers
      /\ Estimate[Current(requests[r])] > 0
  BY <1>1 DEF RequestInv
<1>3. Estimate[Current(requests[r])] \in Nat
  BY <1>2, CostsAssumption
<1>4. requests[r].i \in Nat \ {0}
  BY <1>2 DEF Request
<1> QED
  BY <1>1, <1>2, <1>3, <1>4 DEF HeldItem, Item

\* The ledger is finite and typed.
LEMMA LedgerTypes ==
    ASSUME RequestInv, StoreInv
    PROVE  /\ \A x \in Held : x \in Item /\ x.at = now /\ x.cost > 0 /\ ~Expired(x)
           /\ \A x \in Ledger : x \in Item /\ ~Expired(x) /\ x.cost \in Nat /\ x.at \in Nat
           /\ Held \subseteq Counted /\ Counted \subseteq Ledger
           /\ IsFiniteSet(Held) /\ IsFiniteSet(Ledger) /\ IsFiniteSet(Counted)
<1>1. now \in Nat /\ Hour \in Nat
  BY CostsAssumption DEF StoreInv
<1>2. ASSUME NEW x \in Held PROVE x \in Item /\ x.at = now /\ x.cost > 0 /\ ~Expired(x)
  <2>1. PICK r \in InFlight : x = HeldItem(r)
    BY DEF Held
  <2>2. x \in Item /\ x.at = now /\ x.cost > 0
    BY <1>1, <2>1, HeldTypes
  <2> QED
    BY <1>1, <2>2 DEF Expired
<1>3. ASSUME NEW x \in Ledger PROVE x \in Item /\ ~Expired(x) /\ x.cost \in Nat /\ x.at \in Nat
  <2>1. x \in Item /\ ~Expired(x)
    BY <1>2 DEF Ledger, InWindow, StoreInv
  <2> QED
    BY <2>1 DEF Item
<1>4. Held \subseteq Counted /\ Counted \subseteq Ledger
  BY <1>2 DEF Counted, Ledger, InWindow
<1>5. IsFiniteSet(Held)
  <2> DEFINE item == [r \in InFlight |-> HeldItem(r)]
  <2>1. item \in Surjection(InFlight, Held)
    BY DEF Surjection, Held
  <2> QED
    BY <2>1, FS_Surjection DEF StoreInv
<1>6. IsFiniteSet(Ledger) /\ IsFiniteSet(Counted)
  <2>1. IsFiniteSet(Held \cup booked \cup kept)
    BY <1>5, FS_Union DEF StoreInv
  <2>2. Ledger \in SUBSET (Held \cup booked \cup kept) /\ Counted \in SUBSET (Held \cup booked \cup kept)
    BY <1>4 DEF Ledger, InWindow
  <2> QED
    BY <2>1, <2>2, FS_Subset
<1> QED
  BY <1>2, <1>3, <1>4, <1>5, <1>6

-----------------------------------------------------------------------------
(* What a request that moves leaves as it is *)

\* One request moves.
Only(r) == /\ requests' \in [Requests -> Request]
           /\ \A s \in Requests \ {r} : requests'[s] = requests[s]

\* The reservations of the others, and its own.
OtherHeld(r) == {HeldItem(s) : s \in InFlight \ {r}}
HeldOf(r) == IF requests[r].reserved THEN {HeldItem(r)} ELSE {}

\* Reservations are those of one request and those of the others.
LEMMA HeldSplit ==
    ASSUME RequestInv, now \in Nat, NEW r \in Requests
    PROVE  /\ Held = OtherHeld(r) \cup HeldOf(r)
           /\ \A x \in OtherHeld(r) : x.request # r
<1>1. \A s \in InFlight : HeldItem(s).request = s
  BY HeldTypes
<1> QED
  BY <1>1 DEF Held, OtherHeld, HeldOf, InFlight

\* When one request moves the others keep theirs.
LEMMA HeldMoves ==
    ASSUME RequestInv, RequestInv', now \in Nat, now' = now, NEW r \in Requests, Only(r)
    PROVE  /\ Held' = OtherHeld(r) \cup HeldOf(r)'
           /\ InFlight' \subseteq InFlight \cup {r}
           /\ ~requests'[r].reserved => InFlight' = InFlight \ {r}
<1>1. InFlight' \ {r} = InFlight \ {r}
  BY DEF InFlight, Only
<1>2. \A s \in InFlight \ {r} : HeldItem(s)' = HeldItem(s)
  BY DEF InFlight, Only, HeldItem
<1>3. Held' = {HeldItem(s)' : s \in InFlight' \ {r}} \cup HeldOf(r)'
  BY DEF Held, HeldOf, InFlight
<1>4. {HeldItem(s)' : s \in InFlight' \ {r}} = OtherHeld(r)
  BY <1>1, <1>2 DEF OtherHeld
<1>5. InFlight' \subseteq InFlight \cup {r}
  BY <1>1
<1>6. ~requests'[r].reserved => InFlight' = InFlight \ {r}
  BY <1>1 DEF InFlight
<1> QED
  BY <1>3, <1>4, <1>5, <1>6

\* The calls of a request that are over stay over, if it goes on.
Advances(r) ==
    \/ requests'[r].pc \in EndPcs
    \/ /\ requests[r].pc \notin EndPcs /\ requests'[r].i >= requests[r].i
       /\ requests[r].pc = "put" => requests'[r].i > requests[r].i

\* A call that is over stays over.
LEMMA PastStays ==
    ASSUME RequestInv, RequestInv', NEW r \in Requests, Only(r), Advances(r), NEW x \in Item, Past(x)
    PROVE  Past(x)'
<1>1. x.request \in Requests /\ x.i \in Nat
  BY DEF Item
<1>2. CASE x.request # r
  BY <1>1, <1>2 DEF Past, Only
<1>3. CASE x.request = r
  <2>1. requests[r].i \in Nat /\ requests'[r].i \in Nat
    BY DEF RequestInv, Request
  <2> QED
    BY <1>1, <1>3, <2>1 DEF Past, Advances
<1> QED
  BY <1>2, <1>3

\* Nothing is charged yet for the call at work, or the next one.
LEMMA NotChargedYet ==
    ASSUME RequestInv, StoreInv, OnceInv, NEW r \in Requests, requests[r].pc \in {"try", "call"}
    PROVE  /\ \A x \in booked \cup kept : ~(x.request = r /\ x.i = requests[r].i)
           /\ HeldItem(r) \notin booked \cup kept
<1>1. ASSUME NEW x \in booked \cup kept, x.request = r, x.i = requests[r].i PROVE FALSE
  <2>1. requests[r].i \in Nat /\ Past(x)
    BY DEF RequestInv, Request, OnceInv
  <2> QED
    BY <1>1, <2>1 DEF Past, EndPcs
<1>2. HeldItem(r).request = r /\ HeldItem(r).i = requests[r].i
  BY DEF HeldItem
<1> QED
  BY <1>1, <1>2

\* The requests after a move.
LEMMA RequestMoves ==
    ASSUME RequestInv, NEW r \in Requests, Only(r),
           requests'[r].pc = "idle" => requests'[r].i = 1,
           requests'[r].pc = "call" => Current(requests'[r]) \in Providers,
           requests'[r].reserved =>
                requests'[r].pc = "call" /\ Estimate[Current(requests'[r])] > 0
    PROVE  RequestInv'
BY DEF RequestInv, Only

\* What stays as it is when one request moves and charges nothing.
LEMMA OnceStays ==
    ASSUME RequestInv, RequestInv', StoreInv, OnceInv, NEW r \in Requests, Only(r), Advances(r),
           booked' = booked, kept' = kept
    PROVE  OnceInv'
<1>1. \A x \in booked \cup kept : x \in Item /\ Past(x)
  BY DEF StoreInv, OnceInv
<1>2. \A x \in booked \cup kept : Past(x)'
  BY <1>1, PastStays
<1> QED
  BY <1>2 DEF OnceInv

\* The ledger is balanced as it was.
LEMMA LedgerStays ==
    ASSUME LedgerInv, CapInv, Counted' = Counted, Held' \in SUBSET Held, events' = events,
           now' = now, restarts' = restarts, world' = world
    PROVE  LedgerInv' /\ CapInv'
<1>1. CapInv'
  BY DEF CapInv, Cheap
<1>2. Matched(Counted, Held', events, now, restarts = 0)
  BY FewerHeld DEF LedgerInv
<1>3. LedgerInv'
  BY <1>2 DEF LedgerInv
<1> QED
  BY <1>1, <1>3

\* A move that holds what it held, and charges nothing.
LEMMA QuietMove ==
    ASSUME LInv, NEW r \in Requests, Only(r), Advances(r), RequestInv',
           requests[r].pc # "put", HeldOf(r)' = HeldOf(r),
           UNCHANGED <<budgetVars, rows, now, boundVars>>
    PROVE  LInv'
<1>1. RequestInv /\ StoreInv /\ OnceInv /\ LedgerInv /\ CapInv /\ now \in Nat
  BY DEF LInv, StoreInv
<1>2. /\ events' = events /\ booked' = booked /\ kept' = kept /\ rows' = rows /\ now' = now
      /\ restarts' = restarts /\ world' = world
  BY DEF budgetVars, boundVars
<1>3. Held' = Held
  BY <1>1, <1>2, HeldSplit, HeldMoves
<1>4. StoreInv'
  <2>1. IsFiniteSet(InFlight')
    <3>1. IsFiniteSet(InFlight \cup {r}) /\ InFlight' \in SUBSET (InFlight \cup {r})
      BY <1>1, <1>2, HeldMoves, FS_AddElement DEF StoreInv
    <3> QED
      BY <3>1, FS_Subset
  <2> QED
    BY <1>1, <1>2, <2>1 DEF StoreInv
<1>5. Counted' = Counted
  BY <1>2, <1>3 DEF Counted, Ledger, InWindow, Expired
<1>6. OnceInv'
  BY <1>1, <1>2, OnceStays
<1>7. LedgerInv' /\ CapInv'
  BY <1>1, <1>2, <1>3, <1>5, LedgerStays
<1> QED
  BY <1>4, <1>6, <1>7 DEF LInv

-----------------------------------------------------------------------------
(* Steps that neither reserve nor charge *)

\* The providers of a tier, counted from 1.
LEMMA TierTypes ==
    ASSUME NEW q \in Request
    PROVE  /\ q.tier.providers \in Seq(Providers)
           /\ q.i <= Len(q.tier.providers) => Current(q) \in Providers
<1>1. q.tier.providers \in Seq(Providers) /\ q.i \in Nat \ {0}
  BY TiersAssumption DEF Request
<1> QED
  BY <1>1 DEF Current

\* A request's record is changed.
LEMMA RecordMoves ==
    ASSUME RequestInv, NEW r \in Requests, NEW q \in Request, requests' = [requests EXCEPT ![r] = q]
    PROVE  Only(r) /\ requests'[r] = q
BY DEF RequestInv, Only

\* A request goes on to another step.
LEMMA PcMoves ==
    ASSUME RequestInv, NEW r \in Requests, NEW pc \in RequestPcs, Goto(r, pc)
    PROVE  /\ Only(r) /\ requests'[r].pc = pc /\ requests'[r].i = requests[r].i
           /\ requests'[r].tier = requests[r].tier /\ requests'[r].reserved = requests[r].reserved
<1> DEFINE q == [requests[r] EXCEPT !.pc = pc]
<1>1. requests[r] \in Request
  BY DEF RequestInv
<1>2. /\ q \in Request /\ q.pc = pc /\ q.i = requests[r].i /\ q.tier = requests[r].tier
      /\ q.reserved = requests[r].reserved
  BY <1>1 DEF Request
<1>3. requests' = [requests EXCEPT ![r] = q]
  BY DEF Goto
<1> HIDE DEF q
<1> QED
  BY <1>2, <1>3, RecordMoves

\* A request goes to the next provider.
LEMMA ProviderMoves ==
    ASSUME RequestInv, NEW r \in Requests, NextProvider(r)
    PROVE  /\ Only(r) /\ requests'[r].pc = "try" /\ requests'[r].i = requests[r].i + 1
           /\ ~requests'[r].reserved
<1> DEFINE q == [requests[r] EXCEPT !.pc = "try", !.i = @ + 1, !.attempt = 1, !.reserved = FALSE]
<1>1. requests[r] \in Request
  BY DEF RequestInv
<1>2. q \in Request /\ q.pc = "try" /\ q.i = requests[r].i + 1 /\ ~q.reserved
  <2>1. requests[r].i + 1 \in Nat \ {0}
    BY <1>1 DEF Request
  <2> QED
    BY <1>1, <2>1 DEF Request, RequestPcs
<1>3. requests' = [requests EXCEPT ![r] = q]
  BY DEF NextProvider
<1> HIDE DEF q
<1> QED
  BY <1>2, <1>3, RecordMoves

\* A request before it is asked.
LEMMA NoRequestType ==
    NoRequest \in Request /\ NoRequest.pc = "idle" /\ NoRequest.i = 1 /\ NoRequest.reserved = FALSE
<1>1. Tier \in Tiers /\ (CHOOSE k \in Prompts : TRUE) \in Prompts
  BY PagesAssumption DEF Tier
<1> DEFINE prompt == CHOOSE k \in Prompts : TRUE
<1> HIDE DEF prompt
<1>2. NoRequest = [pc |-> "idle", tier |-> Tier, prompt |-> prompt, i |-> 1,
                   attempt |-> 1, reserved |-> FALSE, cost |-> 0]
  BY DEF NoRequest, prompt
<1>3. prompt \in Prompts
  BY <1>1 DEF prompt
<1> QED
  BY <1>1, <1>2, <1>3 DEF Request, RequestPcs

\* A request is asked.
LEMMA AskedMoves ==
    ASSUME RequestInv, NEW r \in Requests, NEW tier \in Tiers, NEW prompt \in Prompts,
           Asked(r, tier, prompt)
    PROVE  /\ Only(r) /\ requests'[r].pc \in {"lookup", "failed"} /\ requests'[r].i = 1
           /\ ~requests'[r].reserved
<1> DEFINE pc == IF tier.providers[1] \in world.active THEN "lookup" ELSE "failed"
           q == [NoRequest EXCEPT !.pc = pc, !.tier = tier, !.prompt = prompt]
<1>1. pc \in {"lookup", "failed"}
  OBVIOUS
<1>2. requests' = [requests EXCEPT ![r] = q]
  BY DEF Asked
<1> HIDE DEF pc
<1>3. q \in Request /\ q.pc = pc /\ q.i = 1 /\ ~q.reserved
  <2>1. pc \in RequestPcs
    BY <1>1 DEF RequestPcs, EndPcs
  <2>2. NoRequest \in Request /\ NoRequest.i = 1 /\ NoRequest.reserved = FALSE
    BY NoRequestType
  <2> QED
    BY <2>1, <2>2 DEF Request
<1> HIDE DEF q
<1> QED
  BY <1>1, <1>2, <1>3, RecordMoves

\* A call is tried again.
LEMMA RetryMoves ==
    ASSUME RequestInv, NEW r \in Requests, SchemaRetry(r)
    PROVE  /\ Only(r) /\ requests'[r].pc = "call" /\ requests'[r].i = requests[r].i
           /\ requests'[r].tier = requests[r].tier /\ requests'[r].reserved = requests[r].reserved
<1> DEFINE q == [requests[r] EXCEPT !.attempt = @ + 1]
<1>1. requests[r] \in Request /\ requests[r].pc = "call"
  BY DEF RequestInv, SchemaRetry
<1>2. /\ q \in Request /\ q.pc = "call" /\ q.i = requests[r].i /\ q.tier = requests[r].tier
      /\ q.reserved = requests[r].reserved
  BY <1>1 DEF Request
<1>3. requests' = [requests EXCEPT ![r] = q]
  BY DEF SchemaRetry
<1> HIDE DEF q
<1> QED
  BY <1>2, <1>3, RecordMoves

\* The steps of a request that neither hold nor charge, and a retry.
LEMMA QuietLInv ==
    ASSUME LInv, NEW r \in Requests,
           \/ Lookup(r) \/ Exhausted(r) \/ SkipInactive(r) \/ CallFree(r) \/ Blocked(r)
           \/ SchemaRetry(r)
           \/ \E tier \in Tiers, prompt \in Prompts : requests[r].pc = "idle" /\ Asked(r, tier, prompt)
    PROVE  LInv'
<1>1. RequestInv /\ requests[r] \in Request /\ requests[r].i \in Nat
  BY DEF LInv, RequestInv, Request
<1>2. UNCHANGED <<budgetVars, rows, now, boundVars>>
  BY DEF Lookup, Exhausted, SkipInactive, CallFree, Blocked, SchemaRetry, Asked
<1>3. requests[r].pc \notin {"call"} => ~requests[r].reserved
  BY <1>1 DEF RequestInv
<1>4. CASE Lookup(r) \/ Exhausted(r) \/ Blocked(r)
  <2>1. PICK pc \in {"answered", "try", "failed", "blocked"} : Goto(r, pc)
    BY <1>4 DEF Lookup, Exhausted, Blocked
  <2>2. requests[r].pc \in {"lookup", "try"}
    BY <1>4 DEF Lookup, Exhausted, Blocked, Charged, IsNext
  <2>3. pc \in RequestPcs /\ pc # "idle" /\ pc # "call"
    BY DEF RequestPcs, EndPcs
  <2>4. /\ Only(r) /\ requests'[r].pc = pc /\ requests'[r].i = requests[r].i
        /\ ~requests'[r].reserved /\ ~requests[r].reserved
    BY <1>1, <1>3, <2>1, <2>2, <2>3, PcMoves
  <2>5. RequestInv'
    BY <1>1, <2>3, <2>4, RequestMoves
  <2>6. Advances(r) /\ HeldOf(r)' = HeldOf(r)
    BY <1>1, <2>2, <2>4 DEF Advances, HeldOf, EndPcs
  <2> QED
    BY <1>2, <2>2, <2>4, <2>5, <2>6, QuietMove
<1>5. CASE SkipInactive(r)
  <2>1. requests[r].pc = "try"
    BY <1>5 DEF SkipInactive, IsNext
  <2>2. /\ Only(r) /\ requests'[r].pc = "try" /\ requests'[r].i = requests[r].i + 1
        /\ ~requests'[r].reserved /\ ~requests[r].reserved
    BY <1>1, <1>3, <1>5, <2>1, ProviderMoves DEF SkipInactive
  <2>3. RequestInv'
    BY <1>1, <2>2, RequestMoves
  <2>4. Advances(r) /\ HeldOf(r)' = HeldOf(r)
    BY <1>1, <2>1, <2>2 DEF Advances, HeldOf, EndPcs
  <2> QED
    BY <1>2, <2>1, <2>2, <2>3, <2>4, QuietMove
<1>6. CASE CallFree(r)
  <2>1. requests[r].pc = "try" /\ requests[r].i <= Len(requests[r].tier.providers)
    BY <1>6 DEF CallFree, IsNext
  <2>2. /\ Only(r) /\ requests'[r].pc = "call" /\ requests'[r].i = requests[r].i
        /\ requests'[r].tier = requests[r].tier
        /\ ~requests'[r].reserved /\ ~requests[r].reserved
    BY <1>1, <1>3, <1>6, <2>1, PcMoves DEF CallFree, RequestPcs
  <2>3. Current(requests'[r]) \in Providers
    BY <1>1, <2>1, <2>2, TierTypes DEF Current
  <2>4. RequestInv'
    BY <1>1, <2>2, <2>3, RequestMoves
  <2>5. Advances(r) /\ HeldOf(r)' = HeldOf(r)
    BY <1>1, <2>1, <2>2 DEF Advances, HeldOf, EndPcs
  <2> QED
    BY <1>2, <2>1, <2>2, <2>4, <2>5, QuietMove
<1>7. CASE SchemaRetry(r)
  <2>1. requests[r].pc = "call"
    BY <1>7 DEF SchemaRetry
  <2>2. /\ Only(r) /\ requests'[r].pc = "call" /\ requests'[r].i = requests[r].i
        /\ requests'[r].tier = requests[r].tier /\ requests'[r].reserved = requests[r].reserved
    BY <1>1, <1>7, RetryMoves
  <2>3. Current(requests'[r]) = Current(requests[r])
    BY <2>2 DEF Current
  <2>4. RequestInv'
    <3>1. /\ Current(requests'[r]) \in Providers
          /\ requests'[r].reserved => Estimate[Current(requests'[r])] > 0
      BY <1>1, <2>1, <2>2, <2>3 DEF RequestInv
    <3> QED
      BY <1>1, <2>2, <3>1, RequestMoves
  <2>5. Advances(r)
    BY <1>1, <2>1, <2>2 DEF Advances, EndPcs
  <2>6. HeldOf(r)' = HeldOf(r)
    BY <1>2, <2>2, <2>3 DEF HeldOf, HeldItem
  <2> QED
    BY <1>2, <2>1, <2>2, <2>4, <2>5, <2>6, QuietMove
<1>8. ASSUME NEW tier \in Tiers, NEW prompt \in Prompts,
             requests[r].pc = "idle", Asked(r, tier, prompt)
      PROVE  LInv'
  <2>1. /\ Only(r) /\ requests'[r].pc \in {"lookup", "failed"} /\ requests'[r].i = 1
        /\ ~requests'[r].reserved /\ ~requests[r].reserved /\ requests[r].i = 1
    BY <1>1, <1>3, <1>8, AskedMoves DEF RequestInv
  <2>2. RequestInv'
    BY <1>1, <2>1, RequestMoves
  <2>3. Advances(r) /\ HeldOf(r)' = HeldOf(r)
    BY <1>1, <1>8, <2>1 DEF Advances, HeldOf, EndPcs
  <2> QED
    BY <1>2, <1>8, <2>1, <2>2, <2>3, QuietMove
<1> QED
  BY <1>4, <1>5, <1>6, <1>7, <1>8

-----------------------------------------------------------------------------
(* A reservation, and its call *)

\* What there is to know of the ledger, and of the deque where it counts.
LEMMA LedgerMatched ==
    ASSUME LInv
    PROVE  /\ Matched(Counted, Held, events, now, restarts = 0)
           /\ CostOf(Counted) <= SpendOf(events)
           /\ SpendOf(events) \in Nat /\ CostOf(Counted) \in Nat
           /\ restarts = 0 => CostOf(Counted) = SpendOf(events)
<1>1. Matched(Counted, Held, events, now, restarts = 0)
  BY DEF LInv, LedgerInv
<1>2. /\ IsFiniteSet(Counted) /\ Held \in SUBSET Counted
      /\ \A x \in Counted : ~Expired(x) /\ x.cost \in Nat
  BY LedgerTypes DEF LInv
<1>3. /\ events \in Seq(Event) /\ now \in Nat /\ Hour \in Nat
  BY CostsAssumption DEF LInv, StoreInv
<1> DEFINE exact == restarts = 0
<1>4. exact \in BOOLEAN
  OBVIOUS
<1> HIDE DEF exact
<1>5. Matched(Counted, Held, events, now, exact)
  BY <1>1 DEF exact
<1>6. /\ SpendOf(events) \in Nat /\ CostOf(Counted) \in Nat
      /\ CostOf(Counted) <= SpendOf(events)
      /\ exact => CostOf(Counted) = SpendOf(events)
  BY <1>2, <1>3, <1>4, <1>5, SpendCovers
<1> QED
  BY <1>1, <1>6 DEF exact

\* The deque after a reservation.
LEMMA ReservedEvents ==
    ASSUME NEW C, NEW H \in SUBSET C, NEW es \in Seq(Event), NEW exact \in BOOLEAN,
           Matched(C, H, es, now, exact), now \in Nat, Hour \in Nat,
           \A x \in C : ~Expired(x), \A i \in DOMAIN es : es[i].at <= now,
           NEW x, x \notin C, x.at = now, x.cost \in Nat
    PROVE  Matched(C \cup {x}, H \cup {x}, Append(Pruned(es), [at |-> now, cost |-> x.cost]), now, exact)
<1> DEFINE ps == Pruned(es)
           cost == x.cost
<1>1. Prunes(C, H, es, exact)
  BY PrunedMatched
<1>2. Matched(C, H, ps, now, exact) /\ \A i \in DOMAIN ps : ps[i].at <= now
  BY <1>1, PrunedAt DEF Prunes
<1>3. ps \in Seq(Event)
  BY PrunedEvents
<1> HIDE DEF ps
<1>4. cost \in Nat
  OBVIOUS
<1>5. x.cost = cost
  OBVIOUS
<1> HIDE DEF cost
<1>6. Appends(C, H, ps, now, exact, cost)
  BY <1>2, <1>3, <1>4, AppendedMatched
<1>7. Matched(C \cup {x}, H \cup {x}, Append(ps, [at |-> now, cost |-> cost]), now, exact)
  BY <1>5, <1>6 DEF Appends
<1> QED
  BY <1>5, <1>7 DEF ps

\* A reservation holds its estimate.
LEMMA ReserveLInv ==
    ASSUME LInv, NEW r \in Requests, Reserve(r)
    PROVE  LInv'
<1>1. /\ RequestInv /\ StoreInv /\ OnceInv /\ LedgerInv /\ CapInv
      /\ now \in Nat /\ Hour \in Nat /\ events \in Seq(Event) /\ \A i \in DOMAIN events : events[i].at <= now
  BY CostsAssumption DEF LInv, StoreInv
<1>2. /\ booked' = booked /\ kept' = kept /\ rows' = rows /\ now' = now
      /\ restarts' = restarts /\ world' = world
  BY DEF Reserve, boundVars
<1> DEFINE estimate == Estimate[Current(requests[r])]
           q == [requests[r] EXCEPT !.pc = "call", !.reserved = TRUE]
           x == HeldItem(r)
<1>3. requests[r] \in Request /\ requests[r].pc = "try" /\ ~requests[r].reserved
  BY <1>1 DEF RequestInv, Reserve, Charged, IsNext
<1>4. Current(requests[r]) \in Providers /\ estimate \in Nat /\ estimate > 0
  <2>1. Current(requests[r]) \in Providers
    BY <1>3, TierTypes DEF Reserve, Charged, IsNext
  <2> QED
    BY <2>1, CostsAssumption DEF Reserve, Charged
<1>5. /\ Only(r) /\ requests'[r].pc = "call" /\ requests'[r].i = requests[r].i
      /\ requests'[r].tier = requests[r].tier /\ requests'[r].reserved
  <2>1. /\ q \in Request /\ q.pc = "call" /\ q.i = requests[r].i /\ q.tier = requests[r].tier
        /\ q.reserved
    BY <1>3 DEF Request, RequestPcs
  <2>2. requests' = [requests EXCEPT ![r] = q]
    BY DEF Reserve
  <2> HIDE DEF q
  <2> QED
    BY <1>1, <2>1, <2>2, RecordMoves
<1> HIDE DEF q
<1>6. Current(requests'[r]) = Current(requests[r])
  BY <1>5 DEF Current
<1>7. RequestInv'
  BY <1>1, <1>4, <1>5, <1>6, RequestMoves
<1>8. x.request = r /\ x.i = requests[r].i /\ x.at = now /\ x.cost = estimate /\ HeldOf(r)' = {x}
  BY <1>2, <1>5, <1>6 DEF HeldItem, HeldOf
<1> HIDE DEF x
<1>9. Held' = Held \cup {x} /\ InFlight' \subseteq InFlight \cup {r} /\ \A y \in Held : y.request # r
  <2>1. HeldOf(r) = {}
    BY <1>3 DEF HeldOf
  <2>2. Held = OtherHeld(r) /\ \A y \in OtherHeld(r) : y.request # r
    BY <1>1, <2>1, HeldSplit
  <2>3. Held' = OtherHeld(r) \cup HeldOf(r)' /\ InFlight' \subseteq InFlight \cup {r}
    BY <1>1, <1>2, <1>5, <1>7, HeldMoves
  <2> QED
    BY <1>8, <2>2, <2>3
<1>10. x \notin Counted
  <2>1. \A y \in booked \cup kept : ~(y.request = r /\ y.i = requests[r].i)
    BY <1>1, <1>3, NotChargedYet
  <2> QED
    BY <1>8, <1>9, <2>1 DEF Counted, Ledger, InWindow
<1>11. Counted' = Counted \cup {x}
  <2>1. ~Expired(x) /\ x.cost > 0
    BY <1>1, <1>4, <1>8 DEF Expired
  <2>2. \A y : Expired(y)' <=> Expired(y)
    BY <1>2 DEF Expired
  <2> QED
    BY <1>2, <1>9, <2>1, <2>2 DEF Counted, Ledger, InWindow
<1>12. events' = Append(Pruned(events), [at |-> now, cost |-> x.cost]) /\ Fits(x.cost)
  BY <1>8 DEF Reserve
<1> HIDE DEF estimate
<1>13. StoreInv'
  <2>1. IsFiniteSet(InFlight')
    <3>1. IsFiniteSet(InFlight \cup {r}) /\ InFlight' \in SUBSET (InFlight \cup {r})
      BY <1>1, <1>9, FS_AddElement DEF StoreInv
    <3> QED
      BY <3>1, FS_Subset
  <2>2. events' \in Seq(Event) /\ \A i \in DOMAIN events' : events'[i].at <= now
    <3> DEFINE ps == Pruned(events)
               ev == [at |-> now, cost |-> x.cost]
    <3>1. ps \in Seq(Event)
      BY <1>1, PrunedEvents
    <3>2. \A i \in DOMAIN ps : ps[i].at <= now
      BY <1>1, PrunedAt
    <3>3. ev \in Event /\ ev.at = now
      BY <1>1, <1>4, <1>8 DEF Event
    <3>4. events' = Append(ps, ev)
      BY <1>12
    <3> HIDE DEF ps, ev
    <3> QED
      BY <1>1, <3>1, <3>2, <3>3, <3>4
  <2> QED
    BY <1>1, <1>2, <2>1, <2>2 DEF StoreInv
<1>14. OnceInv'
  <2>1. Advances(r)
    BY <1>3, <1>5 DEF Advances, EndPcs, Request
  <2> QED
    BY <1>1, <1>2, <1>3, <1>5, <1>7, <2>1, OnceStays
<1>15. /\ IsFiniteSet(Counted) /\ Held \in SUBSET Counted
       /\ \A y \in Counted : ~Expired(y) /\ y.cost \in Nat
  BY <1>1, LedgerTypes
<1>16. Matched(Counted', Held', events', now, restarts = 0)
  <2> DEFINE exact == restarts = 0
  <2>1. exact \in BOOLEAN
    OBVIOUS
  <2>2. Matched(Counted, Held, events, now, exact)
    BY LedgerMatched
  <2> HIDE DEF exact
  <2>3. x.cost \in Nat
    BY <1>4, <1>8
  <2>4. Matched(Counted \cup {x}, Held \cup {x}, Append(Pruned(events), [at |-> now, cost |-> x.cost]), now, exact)
    BY <1>1, <1>8, <1>10, <1>15, <2>1, <2>2, <2>3, ReservedEvents
  <2> QED
    BY <1>9, <1>11, <1>12, <2>4 DEF exact
<1>17. CostOf(Counted') <= HourlyUsd
  <2>1. CostOf(Counted) <= SpendOf(events) /\ SpendOf(events) \in Nat /\ CostOf(Counted) \in Nat
    BY LedgerMatched
  <2>2. CostOf(Counted \cup {x}) = x.cost + CostOf(Counted)
    <3>1. \A y \in Counted \cup {x} : y.cost \in Nat
      BY <1>4, <1>8, <1>15
    <3> QED
      BY <1>10, <1>15, <3>1, CostWithOne
  <2>3. SpendOf(events) + x.cost <= HourlyUsd /\ x.cost \in Nat /\ HourlyUsd \in Nat
    BY <1>4, <1>8, <1>12, CostsAssumption DEF Fits
  <2> QED
    BY <1>11, <2>1, <2>2, <2>3
<1> QED
  BY <1>2, <1>7, <1>13, <1>14, <1>16, <1>17 DEF LInv, LedgerInv, CapInv

\* The call of a request at work: its reservation is the only item of its own.
LEMMA CallAtWork ==
    ASSUME LInv, NEW r \in Requests, requests[r].pc = "call", requests[r].reserved
    PROVE  /\ HeldItem(r) \in Held /\ Held \ {HeldItem(r)} = OtherHeld(r)
           /\ HeldItem(r).request = r /\ HeldItem(r).i = requests[r].i
           /\ HeldItem(r).at = now /\ HeldItem(r).cost = Estimate[Current(requests[r])]
           /\ HeldItem(r).cost > 0 /\ HeldItem(r) \in Item
           /\ HeldItem(r) \notin booked \cup kept
           /\ \A y \in OtherHeld(r) : y.request # r
           /\ \A y \in booked \cup kept : ~(y.request = r /\ y.i = requests[r].i)
<1>1. RequestInv /\ StoreInv /\ OnceInv /\ now \in Nat
  BY DEF LInv, StoreInv
<1>2. r \in InFlight
  BY DEF InFlight
<1>3. /\ HeldItem(r).request = r /\ HeldItem(r).i = requests[r].i
      /\ HeldItem(r).at = now /\ HeldItem(r).cost = Estimate[Current(requests[r])]
      /\ HeldItem(r).cost > 0 /\ HeldItem(r) \in Item
  BY <1>1, <1>2, HeldTypes
<1>4. Held = OtherHeld(r) \cup {HeldItem(r)} /\ \A y \in OtherHeld(r) : y.request # r
  BY <1>1, HeldSplit DEF HeldOf
<1>5. HeldItem(r) \notin OtherHeld(r)
  BY <1>3, <1>4
<1>6. /\ \A y \in booked \cup kept : ~(y.request = r /\ y.i = requests[r].i)
      /\ HeldItem(r) \notin booked \cup kept
  BY <1>1, NotChargedYet
<1> QED
  BY <1>3, <1>4, <1>5, <1>6

\* A reservation of a call that fails stays in the ledger.
LEMMA KeepLInv ==
    ASSUME LInv, NEW r \in Requests, ProviderFails(r) \/ Cancelled(r)
    PROVE  LInv'
<1>1. /\ RequestInv /\ StoreInv /\ OnceInv /\ LedgerInv /\ CapInv /\ now \in Nat
      /\ requests[r] \in Request /\ requests[r].i \in Nat
  BY DEF LInv, StoreInv, RequestInv, Request
<1>2. /\ events' = events /\ booked' = booked /\ rows' = rows /\ now' = now
      /\ restarts' = restarts /\ world' = world
      /\ UNCHANGED boundVars /\ requests[r].pc = "call" /\ Keep(r)
  BY DEF ProviderFails, Cancelled, boundVars
<1>3. /\ Only(r) /\ ~requests'[r].reserved
      /\ \/ requests'[r].pc = "try" /\ requests'[r].i = requests[r].i + 1
         \/ requests'[r].pc = "cancelled"
  <2>1. CASE ProviderFails(r)
    BY <1>1, <2>1, ProviderMoves DEF ProviderFails
  <2>2. CASE Cancelled(r)
    <3> DEFINE q == [requests[r] EXCEPT !.pc = "cancelled", !.reserved = FALSE]
    <3>1. q \in Request /\ q.pc = "cancelled" /\ ~q.reserved
      BY <1>1 DEF Request, RequestPcs, EndPcs
    <3>2. requests' = [requests EXCEPT ![r] = q]
      BY <2>2 DEF Cancelled
    <3> HIDE DEF q
    <3> QED
      BY <1>1, <3>1, <3>2, RecordMoves
  <2> QED
    BY <2>1, <2>2
<1>4. RequestInv'
  BY <1>1, <1>3, RequestMoves
<1>5. Advances(r)
  BY <1>1, <1>2, <1>3 DEF Advances, EndPcs
<1>6. HeldOf(r)' = {}
  BY <1>3 DEF HeldOf
<1>7. CASE ~requests[r].reserved
  <2>1. HeldOf(r)' = HeldOf(r)
    BY <1>6, <1>7 DEF HeldOf
  <2>2. UNCHANGED <<budgetVars, rows, now, boundVars>> /\ requests[r].pc # "put"
    BY <1>2, <1>7 DEF Keep, budgetVars
  <2> QED
    BY <1>3, <1>4, <1>5, <2>1, <2>2, QuietMove
<1>8. CASE requests[r].reserved
  <2> PICK h : h = HeldItem(r)
    OBVIOUS
  <2>1. kept' = kept \cup {h}
    BY <1>8, <1>2 DEF Keep, HeldItem
  <2>2. /\ h \in Held /\ Held \ {h} = OtherHeld(r) /\ h.request = r /\ h.i = requests[r].i
        /\ h.at = now /\ h \in Item /\ h \notin booked \cup kept
        /\ \A y \in booked \cup kept : ~(y.request = r /\ y.i = requests[r].i)
    BY <1>2, <1>8, CallAtWork
  <2>3. Held' = OtherHeld(r) /\ InFlight' = InFlight \ {r}
    BY <1>1, <1>2, <1>3, <1>4, <1>6, HeldMoves
  <2>4. Held' \cup kept' = Held \cup kept /\ Held' \in SUBSET Held
    BY <2>1, <2>2, <2>3
  <2>5. Counted' = Counted
    <3>1. Held' \cup booked' \cup kept' = Held \cup booked \cup kept
      BY <1>2, <2>4
    <3>2. \A y : Expired(y)' <=> Expired(y)
      BY <1>2 DEF Expired
    <3> QED
      BY <3>1, <3>2 DEF Counted, Ledger, InWindow
  <2>6. StoreInv'
    <3>1. IsFiniteSet(InFlight')
      BY <1>1, <2>3, FS_RemoveElement DEF StoreInv
    <3>2. IsFiniteSet(kept')
      BY <1>1, <2>1, FS_AddElement DEF StoreInv
    <3>3. \A x \in booked' \cup kept' : x \in Item /\ x.at <= now
      BY <1>1, <1>2, <2>1, <2>2 DEF StoreInv
    <3> QED
      BY <1>1, <1>2, <3>1, <3>2, <3>3 DEF StoreInv
  <2>7. OnceInv'
    <3>1. \A x \in booked \cup kept : x \in Item /\ Past(x)
      BY <1>1 DEF StoreInv, OnceInv
    <3>2. \A x \in booked \cup kept : Past(x)'
      BY <1>1, <1>3, <1>4, <1>5, <3>1, PastStays
    <3>3. Past(h)'
      BY <1>1, <1>3, <2>2 DEF Past, EndPcs
    <3>4. \A x \in booked' \cup kept' : Past(x)'
      BY <1>2, <2>1, <3>2, <3>3
    <3>5. \A x, y \in booked' \cup kept' : x.request = y.request /\ x.i = y.i => x = y
      BY <1>1, <1>2, <2>1, <2>2 DEF OnceInv
    <3>6. booked' \cap kept' = {}
      BY <1>1, <1>2, <2>1, <2>2 DEF OnceInv
    <3> QED
      BY <3>4, <3>5, <3>6 DEF OnceInv
  <2>9. LedgerInv' /\ CapInv'
    BY <1>1, <1>2, <2>4, <2>5, LedgerStays
  <2> QED
    BY <1>4, <2>6, <2>7, <2>9 DEF LInv
<1> QED
  BY <1>7, <1>8

\* The costs a call may have.
LEMMA CostTypes ==
    ASSUME RequestInv, StoreInv, NEW r \in Requests, requests[r].pc = "call",
           NEW cost \in world.costs[Current(requests[r])]
    PROVE  cost \in Nat /\ (Cheap => cost <= Estimate[Current(requests[r])])
<1>1. Current(requests[r]) \in Providers /\ world \in Worlds
  BY DEF RequestInv, StoreInv
<1>2. world.costs \in [Providers -> SUBSET Nat]
  BY <1>1, CostsAssumption
<1> QED
  BY <1>1, <1>2 DEF Cheap

\* The cost of a call takes the place of its reservation.
LEMMA ChargeLInv ==
    ASSUME LInv, NEW r \in Requests, requests[r].pc = "call", requests[r].reserved,
           NEW cost \in Nat, Cheap => cost <= Estimate[Current(requests[r])],
           Only(r), requests'[r].pc = "put", requests'[r].i = requests[r].i,
           ~requests'[r].reserved,
           events' = Replaced(events, Estimate[Current(requests[r])], cost),
           booked' = booked \cup {[request |-> r, i |-> requests[r].i, at |-> now, cost |-> cost]},
           UNCHANGED <<kept, rows, now, boundVars>>
    PROVE  LInv'
<1>1. /\ RequestInv /\ StoreInv /\ OnceInv /\ LedgerInv /\ CapInv
      /\ now \in Nat /\ Hour \in Nat /\ events \in Seq(Event) /\ \A i \in DOMAIN events : events[i].at <= now
      /\ requests[r].i \in Nat \ {0}
  BY CostsAssumption DEF LInv, StoreInv, RequestInv, Request
<1>2. /\ kept' = kept /\ rows' = rows /\ now' = now
      /\ restarts' = restarts /\ world' = world
  BY DEF boundVars
<1> PICK h : h = HeldItem(r)
  OBVIOUS
<1> PICK x : x = [request |-> r, i |-> requests[r].i, at |-> now, cost |-> cost]
  OBVIOUS
<1>3. cost \in Nat /\ (Cheap => cost <= h.cost)
  BY DEF HeldItem
<1>4. /\ h \in Held /\ Held \ {h} = OtherHeld(r) /\ h.request = r /\ h.i = requests[r].i
      /\ h.at = now /\ h.cost = Estimate[Current(requests[r])] /\ h.cost > 0
      /\ h \in Item /\ h \notin booked \cup kept
      /\ \A y \in OtherHeld(r) : y.request # r
      /\ \A y \in booked \cup kept : ~(y.request = r /\ y.i = requests[r].i)
  BY CallAtWork
<1>5. x.request = r /\ x.i = requests[r].i /\ x.at = now /\ x.cost = cost /\ x \in Item
  BY <1>1, <1>3 DEF Item
<1>6. booked' = booked \cup {x} /\ events' = Replaced(events, h.cost, cost)
  BY <1>4
<1>7. RequestInv'
  BY <1>1, RequestMoves
<1>8. Held' = Held \ {h} /\ InFlight' = InFlight \ {r}
  <2>1. HeldOf(r)' = {}
    BY DEF HeldOf
  <2> QED
    BY <1>1, <1>2, <1>4, <1>7, <2>1, HeldMoves
<1>9. x \notin Ledger \ {h}
  BY <1>4, <1>5 DEF Ledger, InWindow
<1>10. Ledger' = (Ledger \ {h}) \cup {x}
  <2>1. \A y : Expired(y)' <=> Expired(y)
    BY <1>2 DEF Expired
  <2>2. ~Expired(x)
    BY <1>1, <1>5 DEF Expired
  <2> QED
    BY <1>2, <1>4, <1>6, <1>8, <2>1, <2>2 DEF Ledger, InWindow
<1> DEFINE C == Counted \ {h}
<1>11. /\ x \notin C
       /\ cost > 0 => Counted' = C \cup {x}
       /\ cost = 0 => Counted' = C
  BY <1>3, <1>5, <1>9, <1>10 DEF Counted
<1>12. /\ IsFiniteSet(Counted) /\ Held \in SUBSET Counted
       /\ \A y \in Counted : ~Expired(y) /\ y.cost \in Nat
  BY <1>1, LedgerTypes
<1>13. Matched(Counted', Held', events', now, restarts = 0)
  <2> DEFINE exact == restarts = 0
             fs == Replaced(events, h.cost, cost)
  <2>1. exact \in BOOLEAN
    OBVIOUS
  <2>2. Matched(Counted, Held, events, now, exact)
    BY LedgerMatched
  <2> HIDE DEF exact
  <2>3. Replaces(Counted, Held, events, exact, h, cost)
    BY <1>1, <1>3, <1>4, <1>12, <2>1, <2>2, ReplacedMatched
  <2>4. CASE cost = 0
    BY <1>6, <1>8, <1>11, <2>3, <2>4 DEF Replaces, exact
  <2>5. CASE cost > 0
    <3>1. Matched(C \cup {x}, Held \ {h}, Replaced(events, h.cost, cost), now, exact)
      BY <1>5, <1>11, <2>3 DEF Replaces
    <3> QED
      BY <1>6, <1>8, <1>11, <2>5, <3>1 DEF exact
  <2> QED
    BY <1>3, <2>4, <2>5
<1>14. ASSUME Cheap PROVE CostOf(Counted') <= HourlyUsd
  <2>1. CostOf(Counted) <= HourlyUsd
    BY <1>1, <1>14 DEF CapInv
  <2>2. IsFiniteSet(C) /\ C \cup {h} = Counted /\ h \notin C /\ C \in SUBSET Counted
    BY <1>4, <1>12, FS_RemoveElement
  <2>3. CostOf(C) \in Nat
    BY <1>12, <2>2, CostGrows
  <2>4. \A y \in C : y.cost \in Nat
    BY <1>12
  <2>5. h.cost \in Nat
    BY <1>4 DEF Item
  <2> HIDE DEF C
  <2>6. CostOf(C \cup {h}) = h.cost + CostOf(C)
    BY <2>2, <2>4, <2>5, CostWithOne
  <2>7. CostOf(C \cup {x}) = x.cost + CostOf(C)
    BY <1>3, <1>5, <1>11, <2>2, <2>4, CostWithOne
  <2>8. CostOf(Counted) = h.cost + CostOf(C)
    BY <2>2, <2>6
  <2>9. CostOf(Counted') = cost + CostOf(C)
    <3>1. CASE cost = 0
      BY <1>11, <2>3, <3>1
    <3>2. CASE cost > 0
      BY <1>5, <1>11, <2>7, <3>2
    <3> QED
      BY <1>3, <3>1, <3>2
  <2>10. cost <= h.cost /\ cost \in Nat /\ HourlyUsd \in Nat
    BY <1>3, <1>14, CostsAssumption
  <2> QED
    BY <2>1, <2>3, <2>5, <2>8, <2>9, <2>10
<1>15. StoreInv'
  <2>1. IsFiniteSet(InFlight') /\ IsFiniteSet(booked')
    <3>1. IsFiniteSet(InFlight \ {r})
      BY <1>1, FS_RemoveElement DEF StoreInv
    <3>2. IsFiniteSet(booked \cup {x})
      BY <1>1, FS_AddElement DEF StoreInv
    <3> QED
      BY <1>6, <1>8, <3>1, <3>2
  <2>2. events' \in Seq(Event) /\ \A i \in DOMAIN events' : events'[i].at <= now
    <3> DEFINE same == SameCost(events, h.cost)
                 fs == IF same = {} THEN events ELSE Rest(events, h.cost)
                 ev == [at |-> now, cost |-> cost]
    <3>2. fs \in Seq(Event) /\ \A i \in DOMAIN fs : fs[i].at <= now
      <4>1. CASE same = {}
        BY <1>1, <4>1
      <4>2. CASE same # {}
        BY <1>1, <4>2, RestEvents
      <4> QED
        BY <4>1, <4>2
    <3>3. ev \in Event /\ ev.at = now
      BY <1>1, <1>3 DEF Event
    <3>4. events' = Append(fs, ev)
      BY <1>6 DEF Replaced, SameCost, Rest
    <3> HIDE DEF fs, ev
    <3> QED
      BY <1>1, <3>2, <3>3, <3>4
  <2>3. \A y \in booked' \cup kept' : y \in Item /\ y.at <= now
    BY <1>1, <1>2, <1>5, <1>6 DEF StoreInv
  <2> QED
    BY <1>1, <1>2, <2>1, <2>2, <2>3 DEF StoreInv
<1>16. OnceInv'
  <2>1. Advances(r)
    BY <1>1 DEF Advances, EndPcs
  <2>2. \A y \in booked \cup kept : y \in Item /\ Past(y)
    BY <1>1 DEF StoreInv, OnceInv
  <2>3. \A y \in booked \cup kept : Past(y)'
    BY <1>1, <1>7, <2>1, <2>2, PastStays
  <2>4. Past(x)'
    BY <1>5 DEF Past
  <2>5. \A y \in booked' \cup kept' : Past(y)'
    BY <1>2, <1>6, <2>3, <2>4
  <2>6. \A y, z \in booked' \cup kept' : y.request = z.request /\ y.i = z.i => y = z
    BY <1>1, <1>2, <1>4, <1>5, <1>6 DEF OnceInv
  <2>7. booked' \cap kept' = {}
    BY <1>1, <1>2, <1>4, <1>5, <1>6 DEF OnceInv
  <2> QED
    BY <2>5, <2>6, <2>7 DEF OnceInv
<1>18. LedgerInv' /\ CapInv'
  BY <1>2, <1>13, <1>14 DEF LedgerInv, CapInv, Cheap
<1> QED
  BY <1>7, <1>15, <1>16, <1>18 DEF LInv

\* An answer charges its cost, if its estimate was reserved.
LEMMA RespondLInv ==
    ASSUME LInv, NEW r \in Requests, Respond(r)
    PROVE  LInv'
<1>1. PICK cost \in world.costs[Current(requests[r])] :
          /\ requests' = [requests EXCEPT ![r].pc = "put", ![r].reserved = FALSE, ![r].cost = cost]
          /\ IF requests[r].reserved
             THEN /\ events' = Replaced(events, Estimate[Current(requests[r])], Amount(r, cost))
                  /\ booked' = booked \cup {[request |-> r, i |-> requests[r].i, at |-> now,
                                             cost |-> Amount(r, cost)]}
             ELSE UNCHANGED <<events, booked>>
  BY DEF Respond
<1>2. requests[r].pc = "call" /\ UNCHANGED <<kept, rows, now, boundVars>>
  BY DEF Respond
<1>3. RequestInv /\ StoreInv /\ requests[r] \in Request
  BY DEF LInv, RequestInv
<1>4. /\ cost \in Nat /\ Amount(r, cost) \in Nat
      /\ Cheap => Amount(r, cost) <= Estimate[Current(requests[r])]
  <2>1. cost \in Nat /\ (Cheap => cost <= Estimate[Current(requests[r])])
    BY <1>2, <1>3, CostTypes
  <2>2. Estimate[Current(requests[r])] \in Nat
    BY <1>2, <1>3, CostsAssumption DEF RequestInv
  <2> QED
    BY <2>1, <2>2 DEF Amount
<1>5. /\ Only(r) /\ requests'[r].pc = "put" /\ requests'[r].i = requests[r].i
      /\ ~requests'[r].reserved /\ requests'[r].cost = cost
  <2> DEFINE q == [requests[r] EXCEPT !.pc = "put", !.reserved = FALSE, !.cost = cost]
  <2>1. /\ q \in Request /\ q.pc = "put" /\ q.i = requests[r].i /\ ~q.reserved /\ q.cost = cost
    BY <1>3, <1>4 DEF Request, RequestPcs
  <2>2. requests' = [requests EXCEPT ![r] = q]
    BY <1>1
  <2> HIDE DEF q
  <2> QED
    BY <1>3, <2>1, <2>2, RecordMoves
<1>6. CASE requests[r].reserved
  BY <1>1, <1>2, <1>4, <1>5, <1>6, ChargeLInv
<1>7. CASE ~requests[r].reserved
  <2>1. RequestInv'
    BY <1>3, <1>5, RequestMoves
  <2>2. Advances(r) /\ HeldOf(r)' = HeldOf(r)
    BY <1>2, <1>3, <1>5, <1>7 DEF Advances, HeldOf, EndPcs, Request
  <2>3. UNCHANGED <<budgetVars, rows, now, boundVars>> /\ requests[r].pc # "put"
    BY <1>1, <1>2, <1>7 DEF budgetVars
  <2> QED
    BY <1>5, <2>1, <2>2, <2>3, QuietMove
<1> QED
  BY <1>6, <1>7

-----------------------------------------------------------------------------
(* The log, the time and a restart *)

\* A row is written for every answer that costs something.
LEMMA PutAndLogLInv ==
    ASSUME LInv, NEW r \in Requests, PutAndLog(r)
    PROVE  LInv'
<1>1. /\ RequestInv /\ StoreInv /\ OnceInv /\ LedgerInv /\ CapInv /\ now \in Nat
      /\ requests[r] \in Request
  BY DEF LInv, StoreInv, RequestInv
<1>2. /\ events' = events /\ booked' = booked /\ kept' = kept /\ now' = now
      /\ restarts' = restarts /\ world' = world
      /\ requests[r].pc = "put" /\ ~requests[r].reserved /\ Goto(r, "answered")
  BY <1>1 DEF PutAndLog, budgetVars, boundVars, RequestInv
<1> PICK row : row = [request |-> r, i |-> requests[r].i, at |-> now,
                      cost |-> requests[r].cost, written |-> FALSE]
  OBVIOUS
<1>3. rows' = IF requests[r].cost = 0 THEN rows ELSE rows \cup {row}
  BY DEF PutAndLog
<1>4. /\ row \in LoggedRow /\ row.at = now /\ row.request = r /\ row.i = requests[r].i
      /\ row.cost = requests[r].cost
  BY <1>1 DEF LoggedRow, Request
<1>5. /\ Only(r) /\ requests'[r].pc = "answered" /\ requests'[r].i = requests[r].i
      /\ ~requests'[r].reserved
  BY <1>1, <1>2, PcMoves DEF RequestPcs, EndPcs
<1>6. RequestInv'
  BY <1>1, <1>5, RequestMoves
<1>7. Held' = Held /\ InFlight' = InFlight \ {r}
  <2>1. HeldOf(r) = {} /\ HeldOf(r)' = {}
    BY <1>2, <1>5 DEF HeldOf
  <2> QED
    BY <1>1, <1>2, <1>5, <1>6, <2>1, HeldSplit, HeldMoves
<1>8. Counted' = Counted
  BY <1>2, <1>7 DEF Counted, Ledger, InWindow, Expired
<1>9. StoreInv'
  <2>1. IsFiniteSet(InFlight')
    BY <1>1, <1>7, FS_RemoveElement DEF StoreInv
  <2>2. IsFiniteSet(rows')
    <3>1. IsFiniteSet(rows \cup {row}) /\ IsFiniteSet(rows)
      BY <1>1, FS_AddElement DEF StoreInv
    <3> QED
      BY <1>3, <3>1
  <2>3. \A x \in rows' : x \in LoggedRow /\ x.at <= now
    <3>1. \A x \in rows \cup {row} : x \in LoggedRow /\ x.at <= now
      <4>1. \A x \in rows : x \in LoggedRow /\ x.at <= now
        BY <1>1 DEF StoreInv
      <4>2. row \in LoggedRow /\ row.at <= now
        BY <1>1, <1>4
      <4> QED
        BY <4>1, <4>2
    <3>2. rows' \subseteq rows \cup {row}
      BY <1>3
    <3> QED
      BY <3>1, <3>2
  <2> QED
    BY <1>1, <1>2, <2>1, <2>2, <2>3 DEF StoreInv
<1>10. OnceInv'
  <2>1. Advances(r)
    BY <1>5 DEF Advances, EndPcs
  <2> QED
    BY <1>1, <1>2, <1>5, <1>6, <2>1, OnceStays
<1>12. LedgerInv' /\ CapInv'
  BY <1>1, <1>2, <1>7, <1>8, LedgerStays
<1> QED
  BY <1>6, <1>9, <1>10, <1>12 DEF LInv

\* An answer that is dropped has been charged; the ledger has its cost.
LEMMA PutFailsLInv ==
    ASSUME LInv, NEW r \in Requests, PutFails(r) \/ PutCancelled(r)
    PROVE  LInv'
<1>1. /\ RequestInv /\ StoreInv /\ OnceInv /\ LedgerInv /\ CapInv /\ now \in Nat
      /\ requests[r] \in Request /\ requests[r].i \in Nat
  BY DEF LInv, StoreInv, RequestInv, Request
<1>2. /\ events' = events /\ booked' = booked /\ kept' = kept /\ rows' = rows /\ now' = now
      /\ restarts' = restarts /\ world' = world
      /\ requests[r].pc = "put" /\ ~requests[r].reserved
      /\ NextProvider(r) \/ Goto(r, "cancelled")
  BY <1>1 DEF PutFails, PutCancelled, budgetVars, boundVars, RequestInv
<1>3. /\ Only(r) /\ ~requests'[r].reserved
      /\ \/ requests'[r].pc = "try" /\ requests'[r].i = requests[r].i + 1
         \/ requests'[r].pc = "cancelled"
  <2>1. CASE NextProvider(r)
    BY <1>1, <2>1, ProviderMoves
  <2>2. CASE Goto(r, "cancelled")
    BY <1>1, <1>2, <2>2, PcMoves DEF RequestPcs, EndPcs
  <2> QED
    BY <1>2, <2>1, <2>2
<1>4. RequestInv'
  BY <1>1, <1>3, RequestMoves
<1>5. Held' = Held /\ InFlight' = InFlight \ {r}
  <2>1. HeldOf(r) = {} /\ HeldOf(r)' = {}
    BY <1>2, <1>3 DEF HeldOf
  <2>2. Held = OtherHeld(r) \cup HeldOf(r)
    BY <1>1, HeldSplit
  <2>3. Held' = OtherHeld(r) \cup HeldOf(r)' /\ InFlight' = InFlight \ {r}
    BY <1>1, <1>2, <1>3, <1>4, HeldMoves
  <2> QED
    BY <2>1, <2>2, <2>3
<1>6. Counted' = Counted
  BY <1>2, <1>5 DEF Counted, Ledger, InWindow, Expired
<1>7. StoreInv'
  <2>1. IsFiniteSet(InFlight')
    BY <1>1, <1>5, FS_RemoveElement DEF StoreInv
  <2> QED
    BY <1>1, <1>2, <2>1 DEF StoreInv
<1>8. OnceInv'
  <2>1. Advances(r)
    BY <1>1, <1>2, <1>3 DEF Advances, EndPcs
  <2> QED
    BY <1>1, <1>2, <1>3, <1>4, <2>1, OnceStays
<1>10. LedgerInv' /\ CapInv'
  BY <1>1, <1>2, <1>5, <1>6, LedgerStays
<1> QED
  BY <1>4, <1>7, <1>8, <1>10 DEF LInv

\* A row that is written stays the row it was.
LEMMA LogWrittenLInv ==
    ASSUME LInv, LogWritten
    PROVE  LInv'
<1>1. /\ RequestInv /\ StoreInv /\ OnceInv /\ LedgerInv /\ CapInv
  BY DEF LInv
<1>2. PICK row \in rows : ~row.written /\ rows' = (rows \ {row}) \cup {[row EXCEPT !.written = TRUE]}
  BY DEF LogWritten
<1>3. /\ requests' = requests /\ events' = events /\ booked' = booked /\ kept' = kept
      /\ now' = now /\ restarts' = restarts /\ world' = world
  BY DEF LogWritten, budgetVars, boundVars
<1> PICK new : new = [row EXCEPT !.written = TRUE]
  OBVIOUS
<1>4. row \in LoggedRow /\ row.at <= now
  BY <1>1 DEF StoreInv
<1>5. /\ new \in LoggedRow /\ new.request = row.request /\ new.i = row.i /\ new.at = row.at
      /\ new.cost = row.cost
  BY <1>4 DEF LoggedRow
<1>6. rows' = (rows \ {row}) \cup {new}
  BY <1>2
<1>7. RequestInv' /\ Held' = Held /\ InFlight' = InFlight
  BY <1>1, <1>3 DEF RequestInv, Held, InFlight, HeldItem
<1>8. Counted' = Counted
  BY <1>3, <1>7 DEF Counted, Ledger, InWindow, Expired
<1>9. StoreInv'
  <2>1. IsFiniteSet(rows \ {row})
    BY <1>1, FS_RemoveElement DEF StoreInv
  <2>2. IsFiniteSet(rows')
    BY <1>6, <2>1, FS_AddElement
  <2>3. \A x \in rows' : x \in LoggedRow /\ x.at <= now
    BY <1>1, <1>4, <1>5, <1>6 DEF StoreInv
  <2> QED
    BY <1>1, <1>3, <1>7, <2>2, <2>3 DEF StoreInv
<1>10. OnceInv'
  BY <1>1, <1>3 DEF OnceInv, Past
<1>12. LedgerInv' /\ CapInv'
  BY <1>1, <1>3, <1>7, <1>8, LedgerStays
<1> QED
  BY <1>7, <1>9, <1>10, <1>12 DEF LInv

\* As time passes the oldest items and their events stop to count.
LEMMA TickLInv ==
    ASSUME LInv, Tick
    PROVE  LInv'
<1>1. /\ RequestInv /\ StoreInv /\ OnceInv /\ LedgerInv /\ CapInv
      /\ now \in Nat /\ Hour \in Nat /\ events \in Seq(Event) /\ HourlyUsd \in Nat
  BY CostsAssumption DEF LInv, StoreInv
<1>2. /\ requests' = requests /\ events' = events /\ booked' = booked /\ kept' = kept /\ rows' = rows
      /\ now' = now + 1 /\ restarts' = restarts /\ world' = world
      /\ \A r \in Requests : requests[r].pc \notin {"call", "put"}
  BY DEF Tick, budgetVars, boundVars
<1>3. InFlight = {} /\ InFlight' = {} /\ Held = {} /\ Held' = {}
  <2>1. \A r \in Requests : ~requests[r].reserved
    BY <1>1, <1>2 DEF RequestInv
  <2> QED
    BY <1>2, <2>1 DEF InFlight, Held
<1>4. RequestInv' /\ OnceInv'
  BY <1>1, <1>2 DEF RequestInv, OnceInv, Past
<1>5. StoreInv'
  <2>1. \A i \in DOMAIN events : events[i].at <= now + 1
    <3>1. \A i \in DOMAIN events : events[i] \in Event /\ events[i].at <= now
      BY <1>1 DEF StoreInv
    <3> QED
      BY <1>1, <3>1 DEF Event
  <2>2. \A x \in booked \cup kept : x \in Item /\ x.at <= now + 1
    BY <1>1 DEF StoreInv, Item
  <2>3. \A row \in rows : row \in LoggedRow /\ row.at <= now + 1
    BY <1>1 DEF StoreInv, LoggedRow
  <2>4. now + 1 \in Nat
    BY <1>1
  <2> QED
    BY <1>1, <1>2, <1>3, <2>1, <2>2, <2>3, <2>4 DEF StoreInv
<1>7. Counted' = {x \in Counted : x.at + Hour >= now + 1}
  <2>1. \A x \in booked \cup kept : x.at \in Nat
    BY <1>1 DEF StoreInv, Item
  <2>2. \A x \in booked \cup kept : ~Expired(x)' <=> ~Expired(x) /\ x.at + Hour >= now + 1
    BY <1>1, <1>2, <2>1 DEF Expired
  <2> QED
    BY <1>2, <1>3, <2>2 DEF Counted, Ledger, InWindow
<1>8. /\ IsFiniteSet(Counted) /\ \A x \in Counted : x.cost \in Nat /\ x.at \in Nat
  BY <1>1, LedgerTypes
<1> PICK D : D = {x \in Counted : x.at + Hour >= now + 1}
  OBVIOUS
<1>9. Matched(D, {}, events, now + 1, restarts = 0)
  <2>1. PICK slot \in [Counted -> DOMAIN events] :
            Slots(Counted, {}, events, slot, now) /\ (restarts = 0 => Complete(Counted, events, slot, now))
    BY <1>1, <1>3 DEF LedgerInv, Matched
  <2> DEFINE new == [x \in D |-> slot[x]]
  <2>2. new \in [D -> DOMAIN events] /\ \A x \in D : new[x] = slot[x] /\ x \in Counted
    BY <2>1
  <2> HIDE DEF new
  <2>3. Slots(D, {}, events, new, now + 1)
    BY <2>1, <2>2 DEF Slots
  <2>4. ASSUME restarts = 0 PROVE Complete(D, events, new, now + 1)
    <3>1. ASSUME NEW i \in DOMAIN events, events[i].at + Hour >= now + 1, events[i].cost > 0
          PROVE  \E x \in D : new[x] = i
      <4>1. events[i].at \in Nat
        <5>1. events[i] \in Event
          BY <1>1
        <5> QED
          BY <5>1 DEF Event
      <4>2. PICK x \in Counted : slot[x] = i
        BY <1>1, <2>1, <2>4, <3>1, <4>1 DEF Complete
      <4>3. x.at = events[i].at
        BY <2>1, <4>2 DEF Slots
      <4> QED
        BY <2>2, <3>1, <4>2, <4>3
    <3> QED
      BY <2>1, <2>4, <3>1 DEF Complete
  <2> QED
    BY <2>2, <2>3, <2>4 DEF Matched
<1>10. ASSUME Cheap PROVE CostOf(D) <= HourlyUsd
  <2>1. CostOf(Counted) <= HourlyUsd
    BY <1>1, <1>10 DEF CapInv
  <2>2. D \in SUBSET Counted
    OBVIOUS
  <2>3. CostOf(D) <= CostOf(Counted) /\ CostOf(D) \in Nat /\ CostOf(Counted) \in Nat
    BY <1>8, <2>2, CostGrows
  <2> QED
    BY <1>1, <2>1, <2>3
<1>11. LedgerInv' /\ CapInv'
  BY <1>2, <1>3, <1>7, <1>9, <1>10 DEF LedgerInv, CapInv, Cheap
<1> QED
  BY <1>4, <1>5, <1>11 DEF LInv

\* The order in which the database returns some rows has all of them.
LEMMA OrderHasAll ==
    ASSUME NEW S, IsFiniteSet(S), NEW order \in SetToSeqs(S)
    PROVE  /\ DOMAIN order = 1 .. Cardinality(S) /\ Cardinality(S) \in Nat
           /\ \A i \in DOMAIN order : order[i] \in S
           /\ \A x \in S : \E i \in DOMAIN order : order[i] = x
<1> DEFINE n == Cardinality(S)
           I == 1 .. n
<1>1. n \in Nat
  BY FS_CardinalityType
<1>2. order \in [I -> S] /\ \A i, j \in I : i # j => order[i] # order[j]
  BY DEF SetToSeqs
<1>3. IsFiniteSet(I) /\ Cardinality(I) = n
  BY <1>1, FS_Interval
<1>4. order \in Injection(I, S)
  BY <1>2 DEF Injection, IsInjective
<1> HIDE DEF n, I
<1>5. order \in Surjection(I, S)
  BY <1>3, <1>4, FS_Injection DEF n
<1> QED
  BY <1>1, <1>2, <1>5 DEF Surjection, I, n

\* After a restart the deque has what is logged.
LEMMA RestartLInv ==
    ASSUME LInv, Restart
    PROVE  LInv'
<1>1. /\ RequestInv /\ StoreInv /\ OnceInv /\ LedgerInv /\ CapInv
      /\ now \in Nat /\ Hour \in Nat /\ HourlyUsd \in Nat /\ restarts \in Nat
  BY CostsAssumption DEF LInv, StoreInv
<1>2. /\ now' = now /\ world' = world /\ kept' = {}
      /\ restarts' = restarts + 1 /\ rows' = {row \in rows : row.written}
      /\ booked' = {x \in booked : \E row \in rows : row.written /\ IsRowOf(row, x)}
      /\ booked' \in SUBSET booked
  BY DEF Restart
<1>3. requests' = [r \in Requests |-> IF requests[r].pc \in EndPcs \cup {"idle"} THEN requests[r]
                                      ELSE [NoRequest EXCEPT !.pc = "cancelled"]]
  BY DEF Restart
<1>4. PICK order \in SetToSeqs(PrimeRows(rows)) :
          events' = [i \in DOMAIN order |-> [at |-> order[i].at, cost |-> order[i].cost]]
  BY DEF Restart
<1> PICK gone : gone = [NoRequest EXCEPT !.pc = "cancelled"]
  OBVIOUS
<1>5. gone \in Request /\ gone.pc = "cancelled" /\ gone.reserved = FALSE
  BY NoRequestType DEF Request, RequestPcs, EndPcs
<1>6. /\ requests' \in [Requests -> Request]
      /\ \A r \in Requests : \/ requests[r].pc \in EndPcs \cup {"idle"} /\ requests'[r] = requests[r]
                             \/ requests'[r] = gone
  BY <1>1, <1>3, <1>5 DEF RequestInv
<1>7. \A r \in Requests : requests'[r].reserved = FALSE
  <2>1. \A r \in Requests : requests[r].pc \in EndPcs \cup {"idle"} => requests[r].reserved = FALSE
    BY <1>1 DEF RequestInv, EndPcs, Request
  <2> QED
    BY <1>5, <1>6, <2>1
<1>8. RequestInv'
  BY <1>1, <1>5, <1>6, <1>7 DEF RequestInv
<1>9. InFlight' = {} /\ Held' = {}
  BY <1>7 DEF InFlight, Held
<1>10. PrimeRows(rows) \subseteq rows /\ IsFiniteSet(PrimeRows(rows)) /\ IsFiniteSet(rows')
  <2>1. PrimeRows(rows) \in SUBSET rows /\ rows' \in SUBSET rows
    BY <1>2 DEF PrimeRows
  <2>2. IsFiniteSet(rows)
    BY <1>1 DEF StoreInv
  <2> QED
    BY <2>1, <2>2, FS_Subset
<1> PICK n : n = Cardinality(PrimeRows(rows))
  OBVIOUS
<1>11. /\ DOMAIN order = 1 .. n /\ n \in Nat
       /\ \A i \in 1 .. n : order[i] \in rows
       /\ \A row \in PrimeRows(rows) : \E i \in 1 .. n : order[i] = row
  BY <1>10, OrderHasAll
<1>12. /\ DOMAIN events' = 1 .. n /\ events' \in Seq(Event)
       /\ \A i \in 1 .. n : /\ events'[i].at = order[i].at /\ events'[i].cost = order[i].cost
                            /\ events'[i].at <= now
  <2>1. \A i \in 1 .. n : /\ order[i].at \in Nat /\ order[i].cost \in Nat /\ order[i].at <= now
    BY <1>1, <1>11 DEF StoreInv, LoggedRow
  <2>2. \A i \in 1 .. n : [at |-> order[i].at, cost |-> order[i].cost] \in Event
    BY <2>1 DEF Event
  <2>3. events' = [i \in 1 .. n |-> [at |-> order[i].at, cost |-> order[i].cost]]
    BY <1>4, <1>11
  <2>4. DOMAIN events' = 1 .. n /\ events' \in Seq(Event)
    BY <1>11, <2>2, <2>3
  <2>5. \A i \in 1 .. n : events'[i].at = order[i].at /\ events'[i].cost = order[i].cost
    BY <2>3
  <2> QED
    BY <2>1, <2>4, <2>5
<1>13. StoreInv'
  <2>1. IsFiniteSet(InFlight') /\ IsFiniteSet(kept') /\ IsFiniteSet(booked')
    BY <1>1, <1>2, <1>9, FS_EmptySet, FS_Subset DEF StoreInv
  <2>2. restarts' \in Nat
    BY <1>1, <1>2
  <2>3. \A row \in rows' : row \in LoggedRow /\ row.at <= now
    BY <1>1, <1>2 DEF StoreInv
  <2>4. \A x \in booked' \cup kept' : x \in Item /\ x.at <= now
    BY <1>1, <1>2 DEF StoreInv
  <2> QED
    BY <1>1, <1>2, <1>10, <1>12, <2>1, <2>2, <2>3, <2>4 DEF StoreInv
<1>14. OnceInv'
  <2>1. ASSUME NEW x \in booked' PROVE Past(x)'
    <3>1. x \in booked
      BY <1>2
    <3>2. x.request \in Requests /\ Past(x) /\ x.i \in Nat \ {0}
      BY <1>1, <3>1 DEF StoreInv, Item, OnceInv
    <3> QED
      BY <1>5, <1>6, <3>2 DEF Past, EndPcs
  <2> QED
    BY <1>1, <1>2, <2>1 DEF OnceInv
<1>18. /\ Counted' = {x \in booked' : ~Expired(x) /\ x.cost > 0}
       /\ Counted' \subseteq Counted
  BY <1>2, <1>9 DEF Counted, Ledger, InWindow, Expired
<1> PICK D : D = {x \in booked' : ~Expired(x) /\ x.cost > 0}
  OBVIOUS
<1>19. Matched(D, {}, events', now, FALSE)
  <2> DEFINE Of(x, i) == /\ order[i].request = x.request /\ order[i].i = x.i
                         /\ order[i].at = x.at /\ order[i].cost = x.cost
             slot == [x \in D |-> CHOOSE i \in 1 .. n : Of(x, i)]
  <2>1. ASSUME NEW x \in D PROVE \E i \in 1 .. n : Of(x, i)
    <3>1. x \in booked' /\ x \in booked /\ ~Expired(x) /\ x.at \in Nat
      BY <1>1, <1>2 DEF StoreInv, Item
    <3>2. PICK row \in rows :
              /\ row.written
              /\ row.request = x.request /\ row.i = x.i /\ row.at = x.at /\ row.cost = x.cost
      BY <1>2, <3>1 DEF IsRowOf
    <3>3. row \in PrimeRows(rows)
      <4>1. row.written
        BY <3>2
      <4>2. row.at + Hour >= now
        BY <1>1, <3>1, <3>2 DEF Expired
      <4> QED
        BY <4>1, <4>2 DEF PrimeRows
    <3>4. PICK i \in 1 .. n : order[i] = row
      BY <1>11, <3>3
    <3> QED
      BY <3>2, <3>4
  <2>2. \A x \in D : slot[x] \in 1 .. n /\ Of(x, slot[x])
    <3> HIDE DEF Of
    <3> QED
      BY <2>1
  <2>3. slot \in [D -> DOMAIN events']
    BY <1>12, <2>2
  <2> HIDE DEF slot
  <2>4. \A x, y \in D : slot[x] = slot[y] => x = y
    BY <1>1, <1>2, <2>2 DEF OnceInv
  <2>5. \A x \in D : /\ slot[x] \in DOMAIN events' /\ events'[slot[x]].at = x.at
                     /\ events'[slot[x]].cost = x.cost
    BY <1>12, <2>2
  <2>6. Slots(D, {}, events', slot, now)
    BY <2>4, <2>5 DEF Slots
  <2> QED
    BY <2>3, <2>6 DEF Matched
<1>20. LedgerInv'
  <2>1. restarts' # 0
    BY <1>1, <1>2
  <2> QED
    BY <1>2, <1>9, <1>18, <1>19, <2>1 DEF LedgerInv
<1>21. CapInv'
  <2>1. /\ IsFiniteSet(Counted) /\ \A x \in Counted : x.cost \in Nat
    BY <1>1, LedgerTypes
  <2>2. D \in SUBSET Counted
    BY <1>18
  <2>3. CostOf(D) <= CostOf(Counted) /\ CostOf(D) \in Nat /\ CostOf(Counted) \in Nat
    BY <2>1, <2>2, CostGrows
  <2>4. Cheap => CostOf(D) <= HourlyUsd
    BY <1>1, <2>3 DEF CapInv
  <2> QED
    BY <1>2, <1>18, <2>4 DEF CapInv, Cheap
<1> QED
  BY <1>8, <1>13, <1>14, <1>20, <1>21 DEF LInv

-----------------------------------------------------------------------------
(* The budget: every step *)

\* At first nothing is held, booked or logged.
LEMMA InitLInv ==
    ASSUME Init
    PROVE  LInv
<1>1. /\ requests = [r \in Requests |-> NoRequest] /\ events = <<>> /\ rows = {} /\ now = 0
      /\ booked = {} /\ kept = {} /\ restarts = 0 /\ world \in Worlds
  BY DEF Init
<1>2. RequestInv
  BY <1>1, NoRequestType DEF RequestInv
<1>3. InFlight = {} /\ Held = {} /\ Ledger = {} /\ Counted = {}
  <2>1. InFlight = {}
    BY <1>1, NoRequestType DEF InFlight
  <2> QED
    BY <1>1, <2>1 DEF Held, Ledger, Counted, InWindow
<1>4. StoreInv
  <2>1. events \in Seq(Event) /\ DOMAIN events = {}
    BY <1>1
  <2>2. /\ IsFiniteSet(InFlight) /\ IsFiniteSet(booked) /\ IsFiniteSet(kept) /\ IsFiniteSet(rows)
    BY <1>1, <1>3, FS_EmptySet
  <2>3. now \in Nat /\ restarts \in Nat /\ booked \cup kept = {} /\ rows = {}
    BY <1>1
  <2> QED
    BY <1>1, <2>1, <2>2, <2>3 DEF StoreInv
<1>5. OnceInv
  BY <1>1 DEF OnceInv
<1>6. LedgerInv
  <2> DEFINE none == [x \in {} |-> 1]
             es == <<>>
             exact == restarts = 0
  <2>1. DOMAIN es = {} /\ none \in [{} -> DOMAIN es]
    OBVIOUS
  <2>2. Slots({}, {}, es, none, now) /\ Complete({}, es, none, now)
    BY <2>1 DEF Slots, Complete
  <2> HIDE DEF none, es, exact
  <2>3. Matched({}, {}, es, now, exact)
    BY <2>1, <2>2 DEF Matched
  <2> QED
    BY <1>1, <1>3, <2>3 DEF LedgerInv, es, exact
<1>7. CapInv
  <2>1. CostOf({}) = 0
    <3> DEFINE f == [x \in {} |-> x.cost]
    <3>1. SumFunctionOnSet(f, {}) = 0
      <4> HIDE DEF f
      <4>1. \A x \in {} : f[x] \in Nat
        OBVIOUS
      <4> QED
        BY <4>1, FS_EmptySet, SumType
    <3> QED
      BY <3>1 DEF CostOf, SumFunction
  <2> QED
    BY <1>3, <2>1, CostsAssumption DEF CapInv
<1> QED
  BY <1>2, <1>4, <1>5, <1>6, <1>7 DEF LInv

\* Steps of others.
LEMMA StutterLInv ==
    ASSUME LInv, UNCHANGED routerVars
    PROVE  LInv'
<1>1. /\ RequestInv /\ StoreInv /\ OnceInv /\ LedgerInv /\ CapInv
  BY DEF LInv
<1>2. /\ requests' = requests /\ events' = events /\ booked' = booked /\ kept' = kept
      /\ rows' = rows /\ now' = now /\ restarts' = restarts /\ world' = world
  BY DEF routerVars, vars, budgetVars, boundVars
<1>3. RequestInv' /\ Held' = Held /\ InFlight' = InFlight
  BY <1>1, <1>2 DEF RequestInv, Held, InFlight, HeldItem
<1>4. Counted' = Counted
  BY <1>2, <1>3 DEF Counted, Ledger, InWindow, Expired
<1>5. StoreInv' /\ OnceInv'
  BY <1>1, <1>2, <1>3 DEF StoreInv, OnceInv, Past
<1>6. LedgerInv' /\ CapInv'
  BY <1>1, <1>2, <1>3, <1>4, LedgerStays
<1> QED
  BY <1>3, <1>5, <1>6 DEF LInv

\* Every step of a request.
LEMMA RequestStepLInv ==
    ASSUME LInv, NEW r \in Requests, RequestStep(r)
    PROVE  LInv'
<1>1. CASE \/ Lookup(r) \/ Exhausted(r) \/ SkipInactive(r) \/ CallFree(r) \/ Blocked(r)
           \/ SchemaRetry(r)
  BY <1>1, QuietLInv
<1>2. CASE Reserve(r)
  BY <1>2, ReserveLInv
<1>3. CASE Respond(r)
  BY <1>3, RespondLInv
<1>4. CASE PutAndLog(r)
  BY <1>4, PutAndLogLInv
<1>5. CASE PutFails(r) \/ PutCancelled(r)
  BY <1>5, PutFailsLInv
<1>6. CASE ProviderFails(r) \/ Cancelled(r)
  BY <1>6, KeepLInv
<1> QED
  BY <1>1, <1>2, <1>3, <1>4, <1>5, <1>6 DEF RequestStep

\* A request is asked by a caller of its own, or by a task that reads a page.
LEMMA AskLInv ==
    ASSUME LInv, NEW r \in Requests,
           Ask(r) \/ (\E t \in Tasks : AskVision(t) /\ Asked(r, VisionTier, VisionPrompt) /\ requests[r].pc = "idle")
    PROVE  LInv'
<1>1. \E tier \in Tiers, prompt \in Prompts : requests[r].pc = "idle" /\ Asked(r, tier, prompt)
  <2>1. CASE Ask(r)
    <3>1. PICK tier \in world.tiers, prompt \in Prompts : Asked(r, tier, prompt)
      BY <2>1 DEF Ask
    <3>2. world.tiers \subseteq Tiers
      BY CostsAssumption DEF LInv, StoreInv
    <3>3. requests[r].pc = "idle"
      <4>1. r \in Nat
        BY RequestsAssumption
      <4> QED
        BY <2>1, <4>1 DEF Ask, IsFree
    <3> QED
      BY <3>1, <3>2, <3>3
  <2>2. CASE \E t \in Tasks : AskVision(t) /\ Asked(r, VisionTier, VisionPrompt) /\ requests[r].pc = "idle"
    BY <2>2, PagesAssumption
  <2> QED
    BY <2>1, <2>2
<1> QED
  BY <1>1, QuietLInv

\* Every step of the process.
LEMMA NextLInv ==
    ASSUME LInv, [OcrNext]_allVars
    PROVE  LInv'
<1>1. ASSUME NEW t \in Tasks, AskVision(t) PROVE LInv'
  <2>1. PICK r \in Requests : /\ IsFree(r, {q \in Requests : q > world.requests})
                              /\ Asked(r, VisionTier, VisionPrompt)
    BY <1>1 DEF AskVision
  <2>2. requests[r].pc = "idle"
    <3>1. r \in Nat
      BY RequestsAssumption
    <3> QED
      BY <2>1, <3>1 DEF IsFree
  <2> QED
    BY <1>1, <2>1, <2>2, AskLInv
<1>2. ASSUME NEW t \in Tasks, TaskStep(t), ~AskVision(t) PROVE UNCHANGED routerVars
  BY <1>2 DEF TaskStep, Unrasterised, InsertPage, PageFails, WritePage, RoutePage, ClaimVlmPage,
              VisionAnswers, VisionFails, TaskCancelled
<1>3. ASSUME NEW t \in Tasks, StartTask(t) PROVE UNCHANGED routerVars
  BY <1>3 DEF StartTask
<1>4. Retry => UNCHANGED routerVars
  BY DEF Retry
<1>5. UNCHANGED allVars => UNCHANGED routerVars
  BY DEF allVars
<1>6. RestartAll => LInv'
  BY RestartLInv DEF RestartAll
<1>7. LogWritten \/ Tick => LInv'
  BY LogWrittenLInv, TickLInv
<1>8. \A r \in Requests : RequestStep(r) \/ Ask(r) => LInv'
  BY RequestStepLInv, AskLInv
<1>9. UNCHANGED routerVars => LInv'
  BY StutterLInv
<1> QED
  BY <1>1, <1>2, <1>3, <1>4, <1>5, <1>6, <1>7, <1>8, <1>9 DEF OcrNext, LoopStep

-----------------------------------------------------------------------------
(* The bills: the invariant *)

BillRecord == [request : Requests, i : Nat \ {0}, attempt : Nat, at : Nat, cost : Nat \ {0}]

\* The bills the budget answers for.
Standing == billed \ escaped

SameCall(y, x) == y.request = x.request /\ y.i = x.i /\ y.at = x.at

\* The answer of the bill is being put.
InPut(x) ==
    LET q == requests[x.request] IN
    q.pc = "put" /\ q.i = x.i /\ q.cost = x.cost /\ x.at = now

IsLogged(x) == (\E row \in rows : IsRowOf(row, x)) \/ InPut(x)

BillTypes == /\ IsFiniteSet(billed) /\ billed \subseteq BillRecord /\ unlogged \subseteq billed

\* A call has one of them, and an item of the ledger that covers it.
CoveredInv ==
    /\ \A x, y \in Standing : x.request = y.request /\ x.i = y.i => x = y
    /\ \A x \in Standing :
          \E y \in booked \cup kept : SameCall(y, x) /\ (Cheap => x.cost <= y.cost)

\* Unless its row will have no cost, it has the item of an answer, and its row, or will.
LoggedInv == \A x \in Standing \ unlogged : (\E y \in booked : IsRowOf(y, x)) /\ IsLogged(x)

BillInv == BillTypes /\ CoveredInv /\ LoggedInv

-----------------------------------------------------------------------------
(* The bills: what preserves the invariant *)

\* No bill is added, no item taken away, and what was logged is.
LEMMA BillsStand ==
    ASSUME BillInv, BillTypes', Standing' \subseteq Standing, unlogged \subseteq unlogged',
           booked \subseteq booked', kept \subseteq kept', world' = world,
           \A x \in Standing \ unlogged' : IsLogged(x) => IsLogged(x)'
    PROVE  BillInv'
<1>1. CoveredInv'
  <2>1. Cheap' <=> Cheap
    BY DEF Cheap
  <2>2. ASSUME NEW x \in Standing'
        PROVE  \E y \in booked' \cup kept' : SameCall(y, x) /\ (Cheap => x.cost <= y.cost)
    <3>1. PICK y \in booked \cup kept : SameCall(y, x) /\ (Cheap => x.cost <= y.cost)
      BY DEF BillInv, CoveredInv
    <3> QED
      BY <3>1
  <2>3. \A x, y \in Standing' : x.request = y.request /\ x.i = y.i => x = y
    BY DEF BillInv, CoveredInv
  <2>4. \A x \in Standing' :
            \E y \in booked' \cup kept' : SameCall(y, x) /\ (Cheap' => x.cost <= y.cost)
    BY <2>1, <2>2
  <2> QED
    BY <2>3, <2>4 DEF CoveredInv, SameCall
<1>2. LoggedInv'
  <2> SUFFICES ASSUME NEW x \in Standing' \ unlogged'
               PROVE  (\E y \in booked' : IsRowOf(y, x)) /\ IsLogged(x)'
    BY DEF LoggedInv, IsRowOf
  <2>1. (\E y \in booked : IsRowOf(y, x)) /\ IsLogged(x)
    BY DEF BillInv, LoggedInv
  <2> QED
    BY <2>1
<1> QED
  BY <1>1, <1>2 DEF BillInv

\* One bill is added, with the item that covers it.
LEMMA BillAdded ==
    ASSUME BillInv, BillTypes', NEW r \in Requests, NEW x, Standing' \subseteq Standing \cup {x},
           x.request = r, x.i = requests[r].i,
           \A y \in booked \cup kept : ~(y.request = r /\ y.i = requests[r].i),
           unlogged \subseteq unlogged', booked \subseteq booked', kept \subseteq kept', world' = world,
           NEW item \in booked' \cup kept', SameCall(item, x), Cheap => x.cost <= item.cost,
           \A y \in Standing \ unlogged' : IsLogged(y) => IsLogged(y)',
           x \in unlogged' \/ (item \in booked' /\ IsRowOf(item, x) /\ IsLogged(x)')
    PROVE  BillInv'
<1>0. Cheap' <=> Cheap
  BY DEF Cheap
<1>1. \A y \in Standing : ~(y.request = r /\ y.i = requests[r].i)
  <2> SUFFICES ASSUME NEW y \in Standing, y.request = r, y.i = requests[r].i PROVE FALSE
    OBVIOUS
  <2>1. PICK z \in booked \cup kept : SameCall(z, y)
    BY DEF BillInv, CoveredInv
  <2> QED
    BY <2>1 DEF SameCall
<1>2. CoveredInv'
  <2>1. \A y, z \in Standing' : y.request = z.request /\ y.i = z.i => y = z
    BY <1>1 DEF BillInv, CoveredInv
  <2>2. ASSUME NEW y \in Standing'
        PROVE  \E z \in booked' \cup kept' : SameCall(z, y) /\ (Cheap => y.cost <= z.cost)
    <3>1. CASE y = x
      BY <3>1
    <3>2. CASE y \in Standing
      <4>1. PICK z \in booked \cup kept : SameCall(z, y) /\ (Cheap => y.cost <= z.cost)
        BY <3>2 DEF BillInv, CoveredInv
      <4> QED
        BY <4>1
    <3> QED
      BY <3>1, <3>2
  <2> QED
    BY <1>0, <2>1, <2>2 DEF CoveredInv, SameCall
<1>3. LoggedInv'
  <2> SUFFICES ASSUME NEW y \in Standing' \ unlogged'
               PROVE  (\E z \in booked' : IsRowOf(z, y)) /\ IsLogged(y)'
    BY DEF LoggedInv, IsRowOf
  <2>1. CASE y = x
    BY <2>1
  <2>2. CASE y \in Standing
    <3>1. (\E z \in booked : IsRowOf(z, y)) /\ IsLogged(y)
      BY <2>2 DEF BillInv, LoggedInv
    <3> QED
      BY <2>2, <3>1
  <2> QED
    BY <2>1, <2>2
<1> QED
  BY <1>2, <1>3 DEF BillInv

\* What was logged is, when a request moves that puts nothing.
LEMMA LoggedStays ==
    ASSUME BillInv, NEW r \in Requests, Only(r), requests[r].pc # "put",
           rows \subseteq rows', now' = now
    PROVE  \A x \in Standing : IsLogged(x) => IsLogged(x)'
<1> SUFFICES ASSUME NEW x \in Standing, IsLogged(x) PROVE IsLogged(x)'
  OBVIOUS
<1>1. x.request \in Requests
  BY DEF BillInv, BillTypes, Standing, BillRecord
<1>2. CASE \E row \in rows : IsRowOf(row, x)
  BY <1>2 DEF IsLogged, IsRowOf
<1>3. CASE InPut(x)
  <2>1. x.request # r
    BY <1>3 DEF InPut
  <2> QED
    BY <1>1, <1>3, <2>1 DEF IsLogged, InPut, Only
<1> QED
  BY <1>2, <1>3 DEF IsLogged

\* The types of a bill.
LEMMA BillsOfTypes ==
    ASSUME RequestInv, StoreInv, NEW r \in Requests, NEW cost \in Nat
    PROVE  /\ BillsOf(r, cost) \subseteq {Bill(r, cost)} /\ BillsOf(r, cost) \subseteq BillRecord
           /\ Bill(r, cost).request = r /\ Bill(r, cost).i = requests[r].i
           /\ Bill(r, cost).at = now /\ Bill(r, cost).cost = cost
           /\ ~requests[r].reserved \/ cost = 0 => BillsOf(r, cost) = {}
<1>1. requests[r] \in Request /\ now \in Nat
  BY DEF RequestInv, StoreInv
<1>2. cost # 0 => Bill(r, cost) \in BillRecord
  BY <1>1 DEF Bill, BillRecord, Request
<1> QED
  BY <1>1, <1>2 DEF BillsOf, Bill

-----------------------------------------------------------------------------
(* The bills: every step *)

\* Steps of a request that is not charged and does not put.
LEMMA QuietBills ==
    ASSUME LInv, BillInv, NEW r \in Requests, Only(r), requests[r].pc # "put",
           booked' = booked, kept' = kept, rows' = rows, now' = now, world' = world,
           UNCHANGED billVars
    PROVE  BillInv'
<1>1. UNCHANGED <<billed, unlogged, escaped>>
  BY DEF billVars
<1>2. BillTypes' /\ Standing' = Standing
  BY <1>1 DEF BillInv, BillTypes, Standing
<1>3. \A x \in Standing : IsLogged(x) => IsLogged(x)'
  BY LoggedStays
<1> QED
  BY <1>1, <1>2, <1>3, BillsStand

\* An answer of the wrong shape is charged, and escapes when it is asked for again.
LEMMA RetryBills ==
    ASSUME LInv, BillInv, NEW r \in Requests, SchemaRetry(r)
    PROVE  BillInv'
<1>1. RequestInv /\ StoreInv
  BY DEF LInv
<1>2. /\ requests[r].pc = "call"
      /\ booked' = booked /\ kept' = kept /\ rows' = rows /\ now' = now /\ unlogged' = unlogged
      /\ world' = world
  BY DEF SchemaRetry, budgetVars, boundVars
<1>3. PICK cost \in world.costs[Current(requests[r])] :
          /\ billed' = billed \cup BillsOf(r, cost)
          /\ escaped' = escaped \cup BillsOf(r, cost)
  BY DEF SchemaRetry
<1>4. cost \in Nat
  BY <1>1, <1>2, CostTypes
<1>5. BillsOf(r, cost) \subseteq {Bill(r, cost)} /\ BillsOf(r, cost) \subseteq BillRecord
  BY <1>1, <1>4, BillsOfTypes
<1>6. BillTypes'
  <2>1. IsFiniteSet(BillsOf(r, cost))
    BY <1>5, FS_Singleton, FS_Subset
  <2> QED
    BY <1>2, <1>3, <1>5, <2>1, FS_Union DEF BillInv, BillTypes
<1>7. Standing' \subseteq Standing
  BY <1>3 DEF Standing
<1>8. \A x \in Standing : IsLogged(x) => IsLogged(x)'
  BY <1>1, <1>2, RetryMoves, LoggedStays
<1> QED
  BY <1>2, <1>6, <1>7, <1>8, BillsStand

\* An answer is charged what is exchanged for its reservation, if that is not nothing.
LEMMA RespondBills ==
    ASSUME LInv, BillInv, NEW r \in Requests, Respond(r), Only(r)
    PROVE  BillInv'
<1>1. RequestInv /\ StoreInv /\ OnceInv /\ requests[r] \in Request
  BY DEF LInv, RequestInv
<1>2. /\ requests[r].pc = "call" /\ kept' = kept /\ rows' = rows /\ now' = now
      /\ unlogged' = unlogged /\ escaped' = escaped /\ world' = world
  BY DEF Respond, boundVars
<1>3. PICK cost \in world.costs[Current(requests[r])] :
          /\ requests' = [requests EXCEPT ![r].pc = "put", ![r].reserved = FALSE, ![r].cost = cost]
          /\ billed' = billed \cup BillsOf(r, cost)
          /\ IF requests[r].reserved
             THEN booked' = booked \cup {[request |-> r, i |-> requests[r].i, at |-> now,
                                          cost |-> Amount(r, cost)]}
             ELSE booked' = booked
  BY DEF Respond
<1>4. cost \in Nat
  BY <1>1, <1>2, CostTypes
<1> PICK x : x = Bill(r, cost)
  OBVIOUS
<1>5. /\ BillsOf(r, cost) \subseteq {x} /\ BillsOf(r, cost) \subseteq BillRecord
      /\ x.request = r /\ x.i = requests[r].i /\ x.at = now /\ x.cost = cost
      /\ ~requests[r].reserved \/ cost = 0 => BillsOf(r, cost) = {}
  BY <1>1, <1>4, BillsOfTypes
<1>6. BillTypes'
  <2>1. IsFiniteSet(BillsOf(r, cost))
    BY <1>5, FS_Singleton, FS_Subset
  <2> QED
    BY <1>2, <1>3, <1>5, <2>1, FS_Union DEF BillInv, BillTypes
<1>7. \A y \in Standing : IsLogged(y) => IsLogged(y)'
  BY <1>2, LoggedStays
<1>8. booked \subseteq booked' /\ kept \subseteq kept' /\ unlogged \subseteq unlogged'
  BY <1>2, <1>3
<1>9. CASE ~requests[r].reserved \/ cost = 0
  <2>1. Standing' = Standing
    BY <1>2, <1>3, <1>5, <1>9 DEF Standing
  <2> QED
    BY <1>2, <1>6, <1>7, <1>8, <2>1, BillsStand
<1>10. CASE requests[r].reserved /\ cost # 0
  <2> PICK item : item = [request |-> r, i |-> requests[r].i, at |-> now, cost |-> cost]
    OBVIOUS
  <2>1. Amount(r, cost) = cost
    BY <1>10 DEF Amount
  <2>2. booked' = booked \cup {item}
    BY <1>3, <1>10, <2>1
  <2>3. SameCall(item, x) /\ IsRowOf(item, x) /\ x.cost <= item.cost
    BY <1>4, <1>5 DEF SameCall, IsRowOf
  <2>4. Standing' \subseteq Standing \cup {x}
    BY <1>2, <1>3, <1>5 DEF Standing
  <2>5. IsLogged(x)'
    <3>1. requests'[r].pc = "put" /\ requests'[r].i = requests[r].i /\ requests'[r].cost = cost
      <4> DEFINE q == [requests[r] EXCEPT !.pc = "put", !.reserved = FALSE, !.cost = cost]
      <4>1. q.pc = "put" /\ q.i = requests[r].i /\ q.cost = cost
        BY <1>1 DEF Request
      <4>2. requests'[r] = q
        BY <1>1, <1>3 DEF RequestInv
      <4> HIDE DEF q
      <4> QED
        BY <4>1, <4>2
    <3> QED
      BY <1>2, <1>5, <3>1 DEF IsLogged, InPut
  <2>6. \A y \in booked \cup kept : ~(y.request = r /\ y.i = requests[r].i)
    BY <1>1, <1>2, NotChargedYet
  <2> QED
    BY <1>2, <1>5, <1>6, <1>7, <1>8, <2>2, <2>3, <2>4, <2>5, <2>6, BillAdded
<1> QED
  BY <1>9, <1>10

\* What a call without a result is charged is covered by the reservation it keeps.
LEMMA WastedBills ==
    ASSUME LInv, BillInv, NEW r \in Requests, ProviderFails(r) \/ Cancelled(r), Only(r)
    PROVE  BillInv'
<1>1. RequestInv /\ StoreInv /\ OnceInv
  BY DEF LInv
<1>2. /\ requests[r].pc = "call" /\ booked' = booked /\ rows' = rows /\ now' = now
      /\ escaped' = escaped /\ world' = world /\ Keep(r) /\ Wasted(r)
  BY DEF ProviderFails, Cancelled, boundVars
<1>3. PICK cost \in world.costs[Current(requests[r])] \cup {0} :
          /\ billed' = billed \cup BillsOf(r, cost)
          /\ unlogged' = unlogged \cup BillsOf(r, cost)
  BY <1>2 DEF Wasted
<1>4. cost \in Nat /\ (Cheap => cost <= Estimate[Current(requests[r])])
  <2>1. CASE cost \in world.costs[Current(requests[r])]
    BY <1>1, <1>2, <2>1, CostTypes
  <2>2. CASE cost = 0
    <3>1. Estimate[Current(requests[r])] \in Nat
      BY <1>1, <1>2, CostsAssumption DEF RequestInv
    <3> QED
      BY <2>2, <3>1
  <2> QED
    BY <1>3, <2>1, <2>2
<1> PICK x : x = Bill(r, cost)
  OBVIOUS
<1>5. /\ BillsOf(r, cost) \subseteq {x} /\ BillsOf(r, cost) \subseteq BillRecord
      /\ x.request = r /\ x.i = requests[r].i /\ x.at = now /\ x.cost = cost
      /\ ~requests[r].reserved \/ cost = 0 => BillsOf(r, cost) = {}
  BY <1>1, <1>4, BillsOfTypes
<1>6. BillTypes'
  <2>1. IsFiniteSet(BillsOf(r, cost))
    BY <1>5, FS_Singleton, FS_Subset
  <2> QED
    BY <1>2, <1>3, <1>5, <2>1, FS_Union DEF BillInv, BillTypes
<1>7. \A y \in Standing : IsLogged(y) => IsLogged(y)'
  BY <1>2, LoggedStays
<1>8. booked \subseteq booked' /\ kept \subseteq kept' /\ unlogged \subseteq unlogged'
  BY <1>2, <1>3 DEF Keep
<1>9. CASE BillsOf(r, cost) = {}
  <2>1. Standing' = Standing
    BY <1>2, <1>3, <1>9 DEF Standing
  <2> QED
    BY <1>2, <1>6, <1>7, <1>8, <2>1, BillsStand
<1>10. CASE BillsOf(r, cost) # {}
  <2> PICK item : item = [request |-> r, i |-> requests[r].i, at |-> now,
                          cost |-> Estimate[Current(requests[r])]]
    OBVIOUS
  <2>1. requests[r].reserved /\ BillsOf(r, cost) = {x}
    BY <1>5, <1>10
  <2>2. item \in kept'
    BY <1>2, <2>1 DEF Keep
  <2>3. SameCall(item, x) /\ (Cheap => x.cost <= item.cost)
    BY <1>4, <1>5 DEF SameCall
  <2>4. Standing' \subseteq Standing \cup {x} /\ x \in unlogged'
    BY <1>2, <1>3, <2>1 DEF Standing
  <2>5. \A y \in booked \cup kept : ~(y.request = r /\ y.i = requests[r].i)
    BY <1>1, <1>2, NotChargedYet
  <2> QED
    BY <1>2, <1>5, <1>6, <1>7, <1>8, <2>2, <2>3, <2>4, <2>5, BillAdded
<1> QED
  BY <1>9, <1>10

\* An answer that is put has its row.
LEMMA PutAndLogBills ==
    ASSUME LInv, BillInv, NEW r \in Requests, PutAndLog(r), Only(r)
    PROVE  BillInv'
<1>1. /\ UNCHANGED <<billed, unlogged, escaped, booked, kept>> /\ now' = now /\ world' = world
      /\ requests[r].pc = "put"
  BY DEF PutAndLog, budgetVars, billVars, boundVars
<1>2. BillTypes' /\ Standing' = Standing
  BY <1>1 DEF BillInv, BillTypes, Standing
<1> PICK row : row = [request |-> r, i |-> requests[r].i, at |-> now,
                      cost |-> requests[r].cost, written |-> FALSE]
  OBVIOUS
<1>3. rows' = IF requests[r].cost = 0 THEN rows ELSE rows \cup {row}
  BY DEF PutAndLog
<1>4. ASSUME NEW x \in Standing, IsLogged(x), x.cost # 0 PROVE IsLogged(x)'
  <2>1. x.request \in Requests
    BY DEF BillInv, BillTypes, Standing, BillRecord
  <2>2. CASE \E y \in rows : IsRowOf(y, x)
    BY <1>3, <2>2 DEF IsLogged, IsRowOf
  <2>3. CASE InPut(x) /\ x.request # r
    BY <1>1, <2>1, <2>3 DEF IsLogged, InPut, Only
  <2>4. CASE InPut(x) /\ x.request = r
    <3>1. row \in rows' /\ IsRowOf(row, x)
      BY <1>3, <1>4, <2>4 DEF InPut, IsRowOf
    <3> QED
      BY <3>1 DEF IsLogged, IsRowOf
  <2> QED
    BY <1>4, <2>2, <2>3, <2>4 DEF IsLogged
<1>5. \A x \in Standing : x.cost # 0
  BY DEF BillInv, BillTypes, Standing, BillRecord
<1> QED
  BY <1>1, <1>2, <1>4, <1>5, BillsStand

\* An answer that is dropped has none.
LEMMA PutFailsBills ==
    ASSUME LInv, BillInv, NEW r \in Requests, PutFails(r) \/ PutCancelled(r), Only(r)
    PROVE  BillInv'
<1>1. /\ UNCHANGED <<billed, escaped, booked, kept, rows>> /\ now' = now /\ world' = world
      /\ requests[r].pc = "put"
      /\ unlogged' = unlogged \cup {x \in billed : x.request = r /\ x.i = requests[r].i}
  BY DEF PutFails, PutCancelled, Unlogged, budgetVars, boundVars
<1>2. BillTypes' /\ Standing' = Standing
  BY <1>1 DEF BillInv, BillTypes, Standing
<1>3. ASSUME NEW x \in Standing \ unlogged', IsLogged(x) PROVE IsLogged(x)'
  <2>1. x.request \in Requests /\ x \in billed
    BY DEF BillInv, BillTypes, Standing, BillRecord
  <2>2. CASE \E y \in rows : IsRowOf(y, x)
    BY <1>1, <2>2 DEF IsLogged, IsRowOf
  <2>3. CASE InPut(x)
    <3>1. x.request # r
      BY <1>1, <2>1, <2>3 DEF InPut
    <3> QED
      BY <1>1, <2>1, <2>3, <3>1 DEF IsLogged, InPut, Only
  <2> QED
    BY <1>3, <2>2, <2>3 DEF IsLogged
<1> QED
  BY <1>1, <1>2, <1>3, BillsStand

\* A row that is written tells of the same bill; time passes while nothing is put.
LEMMA LogAndTickBills ==
    ASSUME LInv, BillInv, LogWritten \/ Tick
    PROVE  BillInv'
<1>1. /\ UNCHANGED <<billed, unlogged, escaped, booked, kept>> /\ world' = world
      /\ requests' = requests
  BY DEF LogWritten, Tick, budgetVars, billVars, boundVars
<1>2. BillTypes' /\ Standing' = Standing
  BY <1>1 DEF BillInv, BillTypes, Standing
<1>3. ASSUME NEW x \in Standing, IsLogged(x) PROVE IsLogged(x)'
  <2>1. x.request \in Requests
    BY DEF BillInv, BillTypes, Standing, BillRecord
  <2>2. CASE LogWritten
    <3>1. now' = now
      BY <2>2 DEF LogWritten
    <3>2. PICK row \in rows : rows' = (rows \ {row}) \cup {[row EXCEPT !.written = TRUE]}
      BY <2>2 DEF LogWritten
    <3>3. row \in LoggedRow
      BY DEF LInv, StoreInv
    <3> PICK new : new = [row EXCEPT !.written = TRUE]
      OBVIOUS
    <3>4. /\ new.request = row.request /\ new.i = row.i /\ new.at = row.at
          /\ new.cost = row.cost
      BY <3>3 DEF LoggedRow
    <3>5. \A y \in rows : IsRowOf(y, x) => \E z \in rows' : IsRowOf(z, x)
      BY <3>2, <3>4 DEF IsRowOf
    <3> QED
      BY <1>1, <1>3, <3>1, <3>5 DEF IsLogged, InPut, IsRowOf
  <2>3. CASE Tick
    <3>1. rows' = rows /\ requests[x.request].pc # "put"
      BY <2>1, <2>3 DEF Tick
    <3> QED
      BY <1>3, <3>1 DEF IsLogged, InPut, IsRowOf
  <2> QED
    BY <2>2, <2>3
<1> QED
  BY <1>1, <1>2, <1>3, BillsStand

\* After a restart those are left that have a row, and its item.
LEMMA RestartBills ==
    ASSUME LInv, BillInv, Restart
    PROVE  BillInv'
<1>1. /\ billed' = billed /\ unlogged' = unlogged /\ now' = now /\ world' = world
      /\ escaped' = escaped \cup unlogged \cup Unwritten /\ kept' = {}
      /\ rows' = {row \in rows : row.written}
      /\ booked' = {x \in booked : \E row \in rows : row.written /\ IsRowOf(row, x)}
  BY DEF Restart
<1>2. BillTypes'
  BY <1>1 DEF BillInv, BillTypes
<1>3. Standing' \subseteq Standing \ unlogged /\ Standing' \subseteq billed
  BY <1>1 DEF Standing
<1>4. ASSUME NEW x \in Standing'
      PROVE  /\ \E y \in booked' : IsRowOf(y, x)
             /\ \E row \in rows' : IsRowOf(row, x)
  <2>1. PICK y \in booked : IsRowOf(y, x)
    BY <1>3 DEF BillInv, LoggedInv
  <2>2. x \in billed /\ x \notin Unwritten /\ IsLogged(x)
    BY <1>1, <1>3 DEF BillInv, LoggedInv, Standing
  <2>3. ~InPut(x)
    BY <2>2 DEF Unwritten, InPut
  <2>4. PICK row \in rows : IsRowOf(row, x)
    BY <2>2, <2>3 DEF IsLogged
  <2>5. row.written
    BY <2>2, <2>4 DEF Unwritten, IsRowOf
  <2>6. IsRowOf(row, y)
    BY <2>1, <2>4 DEF IsRowOf
  <2>7. y \in booked' /\ row \in rows'
    BY <1>1, <2>5, <2>6
  <2> QED
    BY <2>1, <2>4, <2>7
<1>5. CoveredInv'
  <2>1. \A x, y \in Standing' : x.request = y.request /\ x.i = y.i => x = y
    BY <1>3 DEF BillInv, CoveredInv
  <2>2. ASSUME NEW x \in Standing'
        PROVE  \E y \in booked' \cup kept' : SameCall(y, x) /\ x.cost <= y.cost
    <3>1. PICK y \in booked' : IsRowOf(y, x)
      BY <1>4
    <3>2. x.cost \in Nat
      BY <1>3 DEF BillInv, BillTypes, BillRecord
    <3> QED
      BY <3>1, <3>2 DEF IsRowOf, SameCall
  <2> QED
    BY <2>1, <2>2 DEF CoveredInv, SameCall
<1>6. LoggedInv'
  <2> SUFFICES ASSUME NEW x \in Standing'
               PROVE  (\E y \in booked' : IsRowOf(y, x)) /\ IsLogged(x)'
    BY DEF LoggedInv, IsRowOf
  <2>1. \E row \in rows' : IsRowOf(row, x)
    BY <1>4
  <2>2. IsLogged(x)'
    BY <2>1 DEF IsLogged, IsRowOf
  <2> QED
    BY <1>4, <2>2
<1> QED
  BY <1>2, <1>5, <1>6 DEF BillInv

\* One request moves at a time.
LEMMA OneMoves ==
    ASSUME RequestInv, RequestInv', NEW r \in Requests,
           \/ RequestStep(r)
           \/ \E tier \in Tiers, prompt \in Prompts : Asked(r, tier, prompt)
    PROVE  Only(r)
<1> SUFFICES \A s \in Requests \ {r} : requests'[s] = requests[s]
  BY DEF Only, RequestInv
<1>1. requests \in [Requests -> Request]
  BY DEF RequestInv
<1>2. CASE \E tier \in Tiers, prompt \in Prompts : Asked(r, tier, prompt)
  BY <1>1, <1>2 DEF Asked
<1>3. CASE \/ Lookup(r) \/ Exhausted(r) \/ SkipInactive(r) \/ CallFree(r) \/ Reserve(r)
           \/ Blocked(r)
  BY <1>1, <1>3 DEF Lookup, Exhausted, SkipInactive, CallFree, Reserve, Blocked, Goto, NextProvider
<1>4. CASE Respond(r) \/ SchemaRetry(r) \/ ProviderFails(r) \/ Cancelled(r)
  BY <1>1, <1>4 DEF Respond, SchemaRetry, ProviderFails, Cancelled, NextProvider
<1>5. CASE PutAndLog(r) \/ PutFails(r) \/ PutCancelled(r)
  BY <1>1, <1>5 DEF PutAndLog, PutFails, PutCancelled, Goto, NextProvider
<1> QED
  BY <1>2, <1>3, <1>4, <1>5 DEF RequestStep

\* Every step of a request.
LEMMA RequestStepBills ==
    ASSUME LInv, LInv', BillInv, NEW r \in Requests, RequestStep(r)
    PROVE  BillInv'
<1>1. Only(r)
  BY OneMoves DEF LInv
<1>2. CASE \/ Lookup(r) \/ Exhausted(r) \/ SkipInactive(r) \/ CallFree(r) \/ Reserve(r)
           \/ Blocked(r)
  <2>1. /\ requests[r].pc # "put" /\ UNCHANGED billVars
        /\ booked' = booked /\ kept' = kept /\ rows' = rows /\ now' = now /\ world' = world
    BY <1>2 DEF Lookup, Exhausted, SkipInactive, CallFree, Reserve, Blocked, Charged, IsNext,
                budgetVars, boundVars
  <2> QED
    BY <1>1, <2>1, QuietBills
<1>3. CASE SchemaRetry(r)
  BY <1>3, RetryBills
<1>4. CASE Respond(r)
  BY <1>1, <1>4, RespondBills
<1>5. CASE ProviderFails(r) \/ Cancelled(r)
  BY <1>1, <1>5, WastedBills
<1>6. CASE PutAndLog(r)
  BY <1>1, <1>6, PutAndLogBills
<1>7. CASE PutFails(r) \/ PutCancelled(r)
  BY <1>1, <1>7, PutFailsBills
<1> QED
  BY <1>2, <1>3, <1>4, <1>5, <1>6, <1>7 DEF RequestStep

\* A request is asked.
LEMMA AskedBills ==
    ASSUME LInv, LInv', BillInv, NEW r \in Requests, NEW tier \in Tiers, NEW prompt \in Prompts,
           requests[r].pc = "idle", Asked(r, tier, prompt)
    PROVE  BillInv'
<1>1. Only(r)
  BY OneMoves DEF LInv
<1>2. /\ UNCHANGED billVars
      /\ booked' = booked /\ kept' = kept /\ rows' = rows /\ now' = now /\ world' = world
  BY DEF Asked, budgetVars, boundVars
<1> QED
  BY <1>1, <1>2, QuietBills

\* Every step of the process.
LEMMA NextBills ==
    ASSUME LInv, LInv', BillInv, [OcrNext]_allVars
    PROVE  BillInv'
<1>0. \A r \in Requests : r \in Nat
  BY RequestsAssumption
<1>1. ASSUME NEW t \in Tasks, AskVision(t) PROVE BillInv'
  <2>1. PICK r \in Requests : /\ IsFree(r, {q \in Requests : q > world.requests})
                              /\ Asked(r, VisionTier, VisionPrompt)
    BY <1>1 DEF AskVision
  <2>2. requests[r].pc = "idle"
    BY <1>0, <2>1 DEF IsFree
  <2> QED
    BY <2>1, <2>2, PagesAssumption, AskedBills
<1>2. ASSUME NEW r \in Requests, Ask(r) PROVE BillInv'
  <2>1. PICK tier \in world.tiers, prompt \in Prompts : Asked(r, tier, prompt)
    BY <1>2 DEF Ask
  <2>2. world.tiers \subseteq Tiers
    BY CostsAssumption DEF LInv, StoreInv
  <2>3. requests[r].pc = "idle"
    BY <1>0, <1>2 DEF Ask, IsFree
  <2> QED
    BY <2>1, <2>2, <2>3, AskedBills
<1>3. UNCHANGED routerVars => BillInv'
  <2> SUFFICES ASSUME UNCHANGED routerVars PROVE BillInv'
    OBVIOUS
  <2>1. /\ UNCHANGED <<billed, unlogged, escaped, booked, kept, rows>> /\ world' = world
        /\ requests' = requests /\ now' = now
    BY DEF routerVars, vars, budgetVars, billVars, boundVars
  <2>2. BillTypes' /\ Standing' = Standing
    BY <2>1 DEF BillInv, BillTypes, Standing
  <2>3. \A x \in Standing : IsLogged(x) => IsLogged(x)'
    BY <2>1 DEF IsLogged, InPut, IsRowOf
  <2> QED
    BY <2>1, <2>2, <2>3, BillsStand
<1>4. ASSUME NEW t \in Tasks, TaskStep(t), ~AskVision(t) PROVE UNCHANGED routerVars
  BY <1>4 DEF TaskStep, Unrasterised, InsertPage, PageFails, WritePage, RoutePage, ClaimVlmPage,
              VisionAnswers, VisionFails, TaskCancelled
<1>5. \A t \in Tasks : StartTask(t) => UNCHANGED routerVars
  BY DEF StartTask
<1>6. Retry \/ UNCHANGED allVars => UNCHANGED routerVars
  BY DEF Retry, allVars
<1>7. RestartAll => BillInv'
  BY RestartBills DEF RestartAll
<1>8. LogWritten \/ Tick => BillInv'
  BY LogAndTickBills
<1>9. \A r \in Requests : RequestStep(r) => BillInv'
  BY RequestStepBills
<1> QED
  BY <1>1, <1>2, <1>3, <1>4, <1>5, <1>6, <1>7, <1>8, <1>9 DEF OcrNext, LoopStep

-----------------------------------------------------------------------------
(* What the invariant says of the budget *)

\* What the ledger counts, by kind.
LEMMA LedgerCost ==
    ASSUME LInv
    PROVE  /\ CostOf(Counted) = Reservations + TotalCost(booked) + TotalCost(kept)
           /\ TotalCost(booked) <= CostOf(Counted)
           /\ TotalCost(booked) \in Nat /\ CostOf(Counted) \in Nat
<1>1. /\ RequestInv /\ StoreInv /\ OnceInv /\ now \in Nat
  BY DEF LInv, StoreInv
<1> DEFINE S == InWindow(booked)
           K == InWindow(kept)
<1>2. /\ \A x \in Held : x \in Item /\ x.at = now /\ x.cost > 0 /\ ~Expired(x)
      /\ \A x \in Ledger : x.cost \in Nat
      /\ Held \subseteq Counted /\ Counted \subseteq Ledger
      /\ IsFiniteSet(Held) /\ IsFiniteSet(Ledger) /\ IsFiniteSet(Counted)
  BY <1>1, LedgerTypes
<1>3. Ledger = (Held \cup S) \cup K
  BY <1>2 DEF Ledger, InWindow
<1>4. S \cap K = {}
  BY <1>1 DEF InWindow, OnceInv
<1>5. Held \cap (booked \cup kept) = {}
  <2> SUFFICES ASSUME NEW r \in InFlight PROVE HeldItem(r) \notin booked \cup kept
    BY DEF Held
  <2>1. r \in Requests /\ requests[r].pc = "call"
    BY <1>1 DEF InFlight, RequestInv
  <2> QED
    BY <1>1, <2>1, NotChargedYet
<1>6. Held \cap S = {} /\ (Held \cup S) \cap K = {}
  BY <1>4, <1>5 DEF InWindow
<1>7. S \in SUBSET Ledger /\ Held \in SUBSET Ledger /\ K \in SUBSET Ledger /\ Held \cup S \in SUBSET Ledger
  BY <1>3
<1>8. IsFiniteSet(S) /\ IsFiniteSet(K) /\ IsFiniteSet(Held \cup S)
  BY <1>2, <1>7, FS_Subset
<1>9. CostOf(S) = TotalCost(booked) /\ CostOf(K) = TotalCost(kept)
  BY DEF CostOf, TotalCost
<1> HIDE DEF S, K
<1>10. CostOf(Held \cup S) = CostOf(Held) + CostOf(S)
  <2>1. \A x \in Held \cup S : x.cost \in Nat
    BY <1>2, <1>7
  <2> QED
    BY <1>2, <1>6, <1>8, <2>1, CostOfTwo
<1>11. CostOf(Ledger) = CostOf(Held \cup S) + CostOf(K)
  <2>1. \A x \in (Held \cup S) \cup K : x.cost \in Nat
    BY <1>2, <1>7
  <2> DEFINE T == Held \cup S
  <2>2. IsFiniteSet(T) /\ T \cap K = {} /\ \A x \in T \cup K : x.cost \in Nat
    BY <1>6, <1>8, <2>1
  <2> HIDE DEF T
  <2>3. CostOf(T \cup K) = CostOf(T) + CostOf(K)
    BY <1>8, <2>2, CostOfTwo
  <2> QED
    BY <1>3, <2>3 DEF T
<1>12. CostOf(Held) = Reservations
  <2> DEFINE f == [r \in InFlight |-> Estimate[Current(requests[r])]]
             g == [x \in Held |-> x.cost]
             item == [r \in InFlight |-> HeldItem(r)]
  <2>1. \A r \in InFlight : HeldItem(r).request = r /\ HeldItem(r).cost = Estimate[Current(requests[r])]
    BY <1>1, HeldTypes
  <2>2. \A r \in InFlight : HeldItem(r) \in Held
    BY DEF Held
  <2>3. \A r \in InFlight : g[item[r]] = f[r]
    BY <2>1, <2>2
  <2>4. \A r, s \in InFlight : item[r] = item[s] => r = s
    BY <2>1
  <2>5. \A r \in InFlight : f[r] \in Nat
    <3>1. \A r \in InFlight : HeldItem(r).cost \in Nat
      BY <1>2, <1>7, <2>2
    <3> QED
      BY <2>1, <3>1
  <2>6. {item[r] : r \in InFlight} = Held
    BY DEF Held
  <2>7. IsFiniteSet(InFlight)
    BY <1>1 DEF StoreInv
  <2>8. Reservations = SumFunctionOnSet(f, InFlight) /\ CostOf(Held) = SumFunctionOnSet(g, Held)
    BY DEF Reservations, CostOf, SumFunction
  <2> HIDE DEF f, g, item
  <2>9. SumFunctionOnSet(g, {item[r] : r \in InFlight}) = SumFunctionOnSet(f, InFlight)
    BY <2>3, <2>4, <2>5, <2>7, SumMatched
  <2> QED
    BY <2>6, <2>8, <2>9
<1>13. CostOf(Counted) = CostOf(Ledger) /\ CostOf(Ledger) \in Nat /\ CostOf(S) \in Nat /\ CostOf(S) <= CostOf(Ledger)
  <2>1. \A x \in Ledger \ Counted : x.cost = 0
    BY <1>2 DEF Counted
  <2>2. Counted \in SUBSET Ledger
    BY <1>2
  <2>3. CostOf(Counted) = CostOf(Ledger) /\ CostOf(Ledger) \in Nat
    BY <1>2, <2>1, <2>2, CostGrows
  <2>4. CostOf(S) <= CostOf(Ledger) /\ CostOf(S) \in Nat
    BY <1>2, <1>7, CostGrows
  <2> QED
    BY <2>3, <2>4
<1> QED
  BY <1>9, <1>10, <1>11, <1>12, <1>13

\* Sums are ordered as their terms are.
LEMMA SumBelow ==
    ASSUME NEW f, NEW g, NEW S, IsFiniteSet(S),
           \A x \in S : f[x] \in Nat /\ g[x] \in Nat /\ f[x] <= g[x]
    PROVE  SumFunctionOnSet(f, S) <= SumFunctionOnSet(g, S)
<1> DEFINE C == {s \in SUBSET S : SumFunctionOnSet(f, s) <= SumFunctionOnSet(g, s)}
<1>1. {} \in C
  <2>1. SumFunctionOnSet(f, {}) = 0 /\ SumFunctionOnSet(g, {}) = 0
    BY SumType
  <2> QED
    BY <2>1
<1>2. ASSUME NEW s \in SUBSET S, NEW x \in S, s \in C, x \notin s PROVE s \cup {x} \in C
  <2>1. IsFiniteSet(s)
    BY FS_Subset
  <2>2. /\ SumFunctionOnSet(f, s \cup {x}) = f[x] + SumFunctionOnSet(f, s)
        /\ SumFunctionOnSet(g, s \cup {x}) = g[x] + SumFunctionOnSet(g, s)
    BY <1>2, <2>1, SumWithOne
  <2>3. SumFunctionOnSet(f, s) \in Nat /\ SumFunctionOnSet(g, s) \in Nat
    BY <2>1, SumType
  <2>4. f[x] \in Nat /\ g[x] \in Nat /\ f[x] <= g[x]
    OBVIOUS
  <2>5. SumFunctionOnSet(f, s) <= SumFunctionOnSet(g, s)
    BY <1>2
  <2>6. SumFunctionOnSet(f, s \cup {x}) <= SumFunctionOnSet(g, s \cup {x})
    BY <2>2, <2>3, <2>4, <2>5
  <2> QED
    BY <1>2, <2>6
<1>3. S \in C
  <2> HIDE DEF C
  <2> QED
    BY <1>1, <1>2, SubsetInduction
<1> QED
  BY <1>3

\* The bills that stand are covered by different items of the ledger.
LEMMA StandingCost ==
    ASSUME LInv, BillInv, Cheap
    PROVE  TotalCost(Standing) <= CostOf(Counted)
<1>1. RequestInv /\ StoreInv
  BY DEF LInv
<1>2. /\ \A x \in Ledger : x.cost \in Nat
      /\ Counted \subseteq Ledger /\ IsFiniteSet(Ledger)
  BY <1>1, LedgerTypes
<1>3. CostOf(Counted) = CostOf(Ledger)
  <2>1. \A x \in Ledger \ Counted : x.cost = 0
    BY <1>2 DEF Counted
  <2>2. Counted \in SUBSET Ledger
    BY <1>2
  <2> QED
    BY <1>2, <2>1, <2>2, CostGrows
<1> DEFINE B == InWindow(Standing)
           item == [x \in B |-> CHOOSE y \in booked \cup kept : SameCall(y, x) /\ x.cost <= y.cost]
           f == [x \in B |-> x.cost]
           fi == [x \in B |-> item[x].cost]
           g == [y \in Ledger |-> y.cost]
<1>4. ASSUME NEW x \in B
      PROVE  /\ item[x] \in Ledger /\ SameCall(item[x], x)
             /\ f[x] \in Nat /\ item[x].cost \in Nat /\ f[x] <= item[x].cost
             /\ fi[x] = item[x].cost /\ g[item[x]] = fi[x]
  <2>1. x \in Standing /\ ~Expired(x)
    BY DEF InWindow
  <2>2. \E y \in booked \cup kept : SameCall(y, x) /\ x.cost <= y.cost
    BY <2>1 DEF BillInv, CoveredInv
  <2>3. item[x] \in booked \cup kept /\ SameCall(item[x], x) /\ x.cost <= item[x].cost
    BY <2>2
  <2>4. fi[x] = item[x].cost /\ f[x] = x.cost
    OBVIOUS
  <2> HIDE DEF item
  <2>5. item[x] \in Ledger
    BY <2>1, <2>3 DEF Ledger, InWindow, SameCall, Expired
  <2>6. x.cost \in Nat
    BY <2>1 DEF BillInv, BillTypes, Standing, BillRecord
  <2>7. g[item[x]] = item[x].cost
    BY <2>5
  <2> HIDE DEF f, fi, g
  <2> QED
    BY <1>2, <2>3, <2>4, <2>5, <2>6, <2>7
<1>5. \A x, y \in B : item[x] = item[y] => x = y
  <2>1. \A x, y \in B : x.request = y.request /\ x.i = y.i => x = y
    BY DEF BillInv, CoveredInv, InWindow
  <2> HIDE DEF B, item, f, fi, g
  <2>2. \A x \in B : item[x].request = x.request /\ item[x].i = x.i
    BY <1>4 DEF SameCall
  <2> QED
    BY <2>1, <2>2
<1>6. IsFiniteSet(B)
  <2>1. B \in SUBSET billed
    BY DEF InWindow, Standing
  <2> QED
    BY <2>1, FS_Subset DEF BillInv, BillTypes
<1>7. TotalCost(Standing) = SumFunctionOnSet(f, B)
  BY DEF TotalCost, SumFunction
<1>8. CostOf(Ledger) = SumFunctionOnSet(g, Ledger)
  BY DEF CostOf, SumFunction
<1>9. \A y \in Ledger : g[y] \in Nat
  BY <1>2
<1> HIDE DEF B, item, f, fi, g
<1> DEFINE image == {item[x] : x \in B}
<1>10. image \in SUBSET Ledger
  BY <1>4
<1>11. SumFunctionOnSet(g, image) = SumFunctionOnSet(fi, B)
  <2>1. \A x \in B : fi[x] \in Nat /\ g[item[x]] = fi[x]
    BY <1>4
  <2> QED
    BY <1>5, <1>6, <2>1, SumMatched
<1>12. SumFunctionOnSet(f, B) <= SumFunctionOnSet(fi, B)
  <2>1. \A x \in B : f[x] \in Nat /\ fi[x] \in Nat /\ f[x] <= fi[x]
    BY <1>4
  <2> QED
    BY <1>6, <2>1, SumBelow
<1> HIDE DEF image
<1>13. SumFunctionOnSet(g, image) <= SumFunctionOnSet(g, Ledger)
  BY <1>2, <1>9, <1>10, SumWithin
<1>14. /\ SumFunctionOnSet(f, B) \in Nat /\ SumFunctionOnSet(fi, B) \in Nat
       /\ SumFunctionOnSet(g, Ledger) \in Nat
  <2>1. \A x \in B : f[x] \in Nat /\ fi[x] \in Nat
    BY <1>4
  <2> QED
    BY <1>2, <1>6, <1>9, <2>1, SumType
<1> QED
  BY <1>3, <1>7, <1>8, <1>11, <1>12, <1>13, <1>14

-----------------------------------------------------------------------------
(* The budget: theorems *)

\* At first nothing is charged.
LEMMA InitBills == Init => BillInv
<1> SUFFICES ASSUME Init PROVE BillInv
  OBVIOUS
<1>1. billed = {} /\ unlogged = {} /\ Standing = {}
  BY DEF Init, Standing
<1> QED
  BY <1>1, FS_EmptySet DEF BillInv, BillTypes, CoveredInv, LoggedInv

\* The deque has an event of its own for every reservation, every exchanged amount and
\* every kept reservation; every bill that has not escaped has one of these that covers
\* it, and unless its answer was dropped, its row.
THEOREM LedgerInvariant == OcrSpec => [](LInv /\ BillInv)
<1>1. OcrInit => LInv /\ BillInv
  BY InitLInv, InitBills DEF OcrInit
<1>2. LInv /\ BillInv /\ [OcrNext]_allVars => (LInv /\ BillInv)'
  BY NextLInv, NextBills
<1> QED
  BY <1>1, <1>2, PTL DEF OcrSpec

\* check_and_reserve, replace_reservation and _prune: however requests overlap, the
\* budget counts each call with a reservation once, by the amount of its last answer.
THEOREM BudgetIsExact == OcrSpec => []LedgerBalanced
<1>1. LInv => LedgerBalanced
  <2> SUFFICES ASSUME LInv, restarts = 0
               PROVE  SpendOf(events) = Reservations + TotalCost(booked) + TotalCost(kept)
    BY DEF LedgerBalanced
  <2>1. CostOf(Counted) = SpendOf(events)
    BY LedgerMatched
  <2> QED
    BY <2>1, LedgerCost
<1> QED
  BY <1>1, LedgerInvariant, PTL

\* hourly_usd: if no call costs more than its estimate, providers have charged no more
\* than the budget in the last hour, also across restarts, errors of the cache and
\* cancellations, but for wrong answers asked for again and what no row tells of.
THEOREM BudgetHolds == OcrSpec => []SpendCapped
<1>1. LInv /\ BillInv => SpendCapped
  <2> SUFFICES ASSUME LInv, BillInv, Cheap
               PROVE  TotalCost(Standing) <= HourlyUsd
    BY DEF SpendCapped, Standing
  <2>1. CostOf(Counted) <= HourlyUsd
    BY DEF LInv, CapInv
  <2>2. CostOf(Counted) \in Nat /\ TotalCost(Standing) <= CostOf(Counted)
    BY LedgerCost, StandingCost
  <2>3. TotalCost(Standing) \in Nat
    <3> DEFINE f == [x \in InWindow(Standing) |-> x.cost]
    <3>1. IsFiniteSet(InWindow(Standing))
      <4>1. InWindow(Standing) \in SUBSET billed
        BY DEF InWindow, Standing
      <4> QED
        BY <4>1, FS_Subset DEF BillInv, BillTypes
    <3>2. \A x \in InWindow(Standing) : f[x] \in Nat
      BY DEF InWindow, Standing, BillInv, BillTypes, BillRecord
    <3>3. TotalCost(Standing) = SumFunctionOnSet(f, InWindow(Standing))
      BY DEF TotalCost, SumFunction
    <3> HIDE DEF f
    <3> QED
      BY <3>1, <3>2, <3>3, SumType
  <2> QED
    BY <2>1, <2>2, <2>3, CostsAssumption
<1> QED
  BY <1>1, LedgerInvariant, PTL

-----------------------------------------------------------------------------
(* The slots of the vision model: the invariant *)

\* Until the model answers, the text at hand is the scan's.
ScanAtHand ==
    \A t \in Tasks : tasks[t].pc \in {"scanned", "claimed", "asked"} => tasks[t].source \notin VlmSources

IInv == OcrTypeOK /\ ScanAtHand /\ SlotsCoverCalls

-----------------------------------------------------------------------------
(* The slots of the vision model: types *)

\* Pages are counted from 1.
LEMMA FirstPage == 1 \in Pages /\ Pages \subseteq Nat /\ PagesOfDocument \subseteq Pages
<1>1. Cardinality(Pages) \in Nat
  BY PagesAssumption, FS_CardinalityType
<1>2. 1 \in Pages /\ Pages \subseteq Nat
  BY <1>1, PagesAssumption
<1> QED
  BY <1>2 DEF PagesOfDocument

\* A task before its first page, and what is left of one that is lost.
LEMMA TaskConstants ==
    /\ NoTask \in Task
    /\ \A t : Lose(t) \in Task
    /\ NoRow \in Row
    /\ NoPages \in [Pages -> [Tasks -> Row]]
<1>1. NoTask \in Task
  BY FirstPage DEF NoTask, Task, Modes
<1>2. [NoTask EXCEPT !.pc = "lost"] \in Task
  BY <1>1 DEF Task, OverPcs
<1>3. NoRow \in Row
  BY DEF NoRow, Row, PageStatuses
<1> QED
  BY <1>1, <1>2, <1>3 DEF Lose, NoPages

\* The next page of a task, or its end.
LEMMA NextPageType ==
    ASSUME OcrTypeOK, NEW t \in Tasks, NextPage(t)
    PROVE  /\ tasks' \in [Tasks -> Task]
           /\ tasks'[t].pc \in {"page", "done"}
           /\ \A u \in Tasks \ {t} : tasks'[u] = tasks[u]
<1> DEFINE next == IF Page(t) + 1 \in PagesOfDocument
                   THEN [NoTask EXCEPT !.pc = "page", !.page = Page(t) + 1]
                   ELSE [NoTask EXCEPT !.pc = "done"]
<1>1. next \in Task /\ next.pc \in {"page", "done"}
  <2>1. CASE Page(t) + 1 \in PagesOfDocument
    BY <2>1, TaskConstants, FirstPage DEF Task, NoTask
  <2>2. CASE Page(t) + 1 \notin PagesOfDocument
    BY <2>2, TaskConstants DEF Task, NoTask, OverPcs
  <2> QED
    BY <2>1, <2>2
<1>2. tasks' = [tasks EXCEPT ![t] = next]
  BY DEF NextPage
<1> HIDE DEF next
<1> QED
  BY <1>1, <1>2 DEF OcrTypeOK

\* A commit of the page's row.
LEMMA RowCommittedType ==
    ASSUME OcrTypeOK, NEW t \in Tasks, NEW status \in PageStatuses,
           NEW text \in {"none"} \cup LocalSources \cup VlmSources,
           RowCommitted(t, status, text)
    PROVE  /\ page' \in [Pages -> [Tasks -> Row]]
           /\ \A x \in Pages \X Tasks :
                 page'[x[1]][x[2]].text = IF x = <<Page(t), t>> THEN text ELSE page[x[1]][x[2]].text
<1> DEFINE row == [status |-> status, text |-> text]
<1>1. row \in Row /\ row.text = text
  BY DEF Row
<1>2. Page(t) \in Pages
  BY DEF OcrTypeOK, Page, Task
<1>3. page' = [page EXCEPT ![Page(t)] = [page[Page(t)] EXCEPT ![t] = row]]
  BY DEF RowCommitted
<1>4. page[Page(t)] \in [Tasks -> Row]
  BY <1>2 DEF OcrTypeOK
<1> HIDE DEF row
<1>5. [page[Page(t)] EXCEPT ![t] = row] \in [Tasks -> Row]
  BY <1>1, <1>4
<1>6. page' \in [Pages -> [Tasks -> Row]]
  BY <1>2, <1>3, <1>5 DEF OcrTypeOK
<1>7. ASSUME NEW p \in Pages, NEW u \in Tasks
      PROVE  page'[p][u].text = IF p = Page(t) /\ u = t THEN text ELSE page[p][u].text
  BY <1>1, <1>2, <1>3, <1>4, <1>7 DEF OcrTypeOK
<1>8. ASSUME NEW x \in Pages \X Tasks
      PROVE  page'[x[1]][x[2]].text = IF x = <<Page(t), t>> THEN text ELSE page[x[1]][x[2]].text
  <2>1. x = <<x[1], x[2]>> /\ x[1] \in Pages /\ x[2] \in Tasks
    OBVIOUS
  <2> QED
    BY <2>1, <1>7
<1> QED
  BY <1>6, <1>8

-----------------------------------------------------------------------------
(* Counting *)

\* Texts and calls can be counted.
LEMMA SetsAreFinite ==
    /\ IsFiniteSet(VlmTexts) /\ Cardinality(VlmTexts) \in Nat
    /\ IsFiniteSet(VlmCalls) /\ Cardinality(VlmCalls) \in Nat
<1>1. IsFiniteSet(Pages \X Tasks)
  BY PagesAssumption, FS_Product
<1>2. VlmTexts \in SUBSET (Pages \X Tasks) /\ VlmCalls \in SUBSET Tasks
  BY DEF VlmTexts, VlmCalls
<1>3. IsFiniteSet(VlmTexts) /\ IsFiniteSet(VlmCalls)
  BY <1>1, <1>2, PagesAssumption, FS_Subset
<1> QED
  BY <1>3, FS_CardinalityType

\* Fewer texts and calls need no more slots.
LEMMA FewerNeedNoMore ==
    ASSUME SlotsCoverCalls, used \in Nat, used' = used,
           VlmTexts' \subseteq VlmTexts, VlmCalls' \subseteq VlmCalls
    PROVE  SlotsCoverCalls'
<1>1. Cardinality(VlmTexts') <= Cardinality(VlmTexts) /\ Cardinality(VlmTexts') \in Nat
  BY SetsAreFinite, FS_Subset, FS_CardinalityType
<1>2. Cardinality(VlmCalls') <= Cardinality(VlmCalls) /\ Cardinality(VlmCalls') \in Nat
  BY SetsAreFinite, FS_Subset, FS_CardinalityType
<1> QED
  BY <1>1, <1>2, SetsAreFinite DEF SlotsCoverCalls

\* A set grows by one at most when it gets an element.
LEMMA OneMore ==
    ASSUME NEW S, IsFiniteSet(S), NEW x
    PROVE  /\ IsFiniteSet(S \cup {x})
           /\ Cardinality(S \cup {x}) \in Nat
           /\ Cardinality(S \cup {x}) <= Cardinality(S) + 1
<1>1. Cardinality(S) \in Nat /\ IsFiniteSet(S \cup {x})
  BY FS_CardinalityType, FS_AddElement
<1>2. CASE x \in S
  <2>1. S \cup {x} = S
    BY <1>2
  <2> QED
    BY <1>1, <2>1
<1>3. CASE x \notin S
  <2>1. Cardinality(S \cup {x}) = Cardinality(S) + 1
    BY <1>3, FS_AddElement
  <2> QED
    BY <1>1, <2>1
<1> QED
  BY <1>2, <1>3

\* A slot is taken for one more call at most.
LEMMA SlotClaimed ==
    ASSUME SlotsCoverCalls, used \in Nat, used < Cap, used' = used + 1, NEW t,
           VlmTexts' \subseteq VlmTexts, VlmCalls' \subseteq VlmCalls \cup {t}
    PROVE  SlotsCoverCalls'
<1>1. Cardinality(VlmTexts') <= Cardinality(VlmTexts) /\ Cardinality(VlmTexts') \in Nat
  BY SetsAreFinite, FS_Subset, FS_CardinalityType
<1>2. /\ IsFiniteSet(VlmCalls \cup {t})
      /\ Cardinality(VlmCalls \cup {t}) \in Nat
      /\ Cardinality(VlmCalls \cup {t}) <= Cardinality(VlmCalls) + 1
  BY SetsAreFinite, OneMore
<1>3. Cardinality(VlmCalls') <= Cardinality(VlmCalls \cup {t}) /\ Cardinality(VlmCalls') \in Nat
  BY <1>2, FS_Subset, FS_CardinalityType
<1> QED
  BY <1>1, <1>2, <1>3, SetsAreFinite, PagesAssumption DEF SlotsCoverCalls

\* A call that is over makes room for its text, or for its slot to be given back.
LEMMA CallOver ==
    ASSUME NEW t \in VlmCalls, VlmCalls' \subseteq VlmCalls \ {t}
    PROVE  /\ Cardinality(VlmCalls') \in Nat
           /\ Cardinality(VlmCalls') + 1 <= Cardinality(VlmCalls)
<1>1. /\ IsFiniteSet(VlmCalls \ {t})
      /\ Cardinality(VlmCalls \ {t}) = Cardinality(VlmCalls) - 1
  BY SetsAreFinite, FS_RemoveElement
<1>2. Cardinality(VlmCalls') <= Cardinality(VlmCalls \ {t}) /\ Cardinality(VlmCalls') \in Nat
  BY <1>1, FS_Subset, FS_CardinalityType
<1> QED
  BY <1>1, <1>2, SetsAreFinite

\* A slot is given back by a call that is over.
LEMMA SlotReturned ==
    ASSUME SlotsCoverCalls, used \in Nat, UnclaimVlmPage, NEW t \in VlmCalls,
           VlmTexts' \subseteq VlmTexts, VlmCalls' \subseteq VlmCalls \ {t}
    PROVE  SlotsCoverCalls' /\ used' \in 0 .. Cap
<1>1. Cardinality(VlmTexts') <= Cardinality(VlmTexts) /\ Cardinality(VlmTexts') \in Nat
  BY SetsAreFinite, FS_Subset, FS_CardinalityType
<1>2. Cardinality(VlmCalls') \in Nat /\ Cardinality(VlmCalls') + 1 <= Cardinality(VlmCalls)
  BY CallOver
<1>3. used >= 1 /\ used' = used - 1
  BY <1>2, SetsAreFinite DEF SlotsCoverCalls, UnclaimVlmPage
<1> QED
  BY <1>1, <1>2, <1>3, SetsAreFinite, PagesAssumption DEF SlotsCoverCalls

\* A call becomes a text.
LEMMA TextWritten ==
    ASSUME SlotsCoverCalls, used \in Nat, used' = used, NEW t \in VlmCalls, NEW x,
           VlmTexts' \subseteq VlmTexts \cup {x}, VlmCalls' \subseteq VlmCalls \ {t}
    PROVE  SlotsCoverCalls'
<1>1. /\ IsFiniteSet(VlmTexts \cup {x})
      /\ Cardinality(VlmTexts \cup {x}) \in Nat
      /\ Cardinality(VlmTexts \cup {x}) <= Cardinality(VlmTexts) + 1
  BY SetsAreFinite, OneMore
<1>2. Cardinality(VlmTexts') <= Cardinality(VlmTexts \cup {x}) /\ Cardinality(VlmTexts') \in Nat
  BY <1>1, FS_Subset, FS_CardinalityType
<1>3. Cardinality(VlmCalls') \in Nat /\ Cardinality(VlmCalls') + 1 <= Cardinality(VlmCalls)
  BY CallOver
<1> QED
  BY <1>1, <1>2, <1>3, SetsAreFinite DEF SlotsCoverCalls

-----------------------------------------------------------------------------
(* Steps *)

\* There are no texts, calls or slots at first.
LEMMA InitIInv ==
    ASSUME OcrInit
    PROVE  IInv
<1>1. OcrTypeOK
  BY TaskConstants, PagesAssumption DEF OcrInit, OcrTypeOK
<1>2. ScanAtHand
  BY DEF OcrInit, ScanAtHand, NoTask
<1>3. VlmTexts = {} /\ VlmCalls = {}
  BY DEF OcrInit, VlmTexts, VlmCalls, NoPages, NoRow, NoTask, VlmSources
<1>4. SlotsCoverCalls
  BY <1>3, FS_EmptySet, PagesAssumption DEF OcrInit, SlotsCoverCalls
<1> QED
  BY <1>1, <1>2, <1>4 DEF IInv

\* A task moves, and neither asks the model nor has its answer.
LEMMA QuietStep ==
    ASSUME IInv, NEW t \in Tasks,
           tasks' \in [Tasks -> Task], \A u \in Tasks \ {t} : tasks'[u] = tasks[u],
           tasks'[t].pc \notin {"claimed", "asked"},
           tasks'[t].pc \in {"scanned", "write"} => tasks'[t].source \notin VlmSources,
           used' = used, page' \in [Pages -> [Tasks -> Row]], VlmTexts' \subseteq VlmTexts
    PROVE  IInv'
<1>1. OcrTypeOK'
  BY DEF IInv, OcrTypeOK
<1>2. ScanAtHand'
  BY DEF IInv, ScanAtHand
<1>3. VlmCalls' \subseteq VlmCalls
  BY DEF VlmCalls
<1>4. SlotsCoverCalls'
  BY <1>3, FewerNeedNoMore, PagesAssumption DEF IInv, OcrTypeOK
<1> QED
  BY <1>1, <1>2, <1>4 DEF IInv

\* Without a commit of a row the texts stay.
LEMMA SamePages ==
    ASSUME OcrTypeOK, page' = page
    PROVE  VlmTexts' = VlmTexts /\ page' \in [Pages -> [Tasks -> Row]]
BY DEF VlmTexts, OcrTypeOK

\* A commit of a row adds at most this row's text.
LEMMA CommittedTexts ==
    ASSUME OcrTypeOK, NEW t \in Tasks, NEW status \in PageStatuses,
           NEW text \in {"none"} \cup LocalSources \cup VlmSources,
           RowCommitted(t, status, text)
    PROVE  /\ page' \in [Pages -> [Tasks -> Row]]
           /\ VlmTexts' \subseteq VlmTexts \cup {<<Page(t), t>>}
           /\ text \notin VlmSources => VlmTexts' \subseteq VlmTexts
<1>1. /\ page' \in [Pages -> [Tasks -> Row]]
      /\ \A x \in Pages \X Tasks :
            page'[x[1]][x[2]].text = IF x = <<Page(t), t>> THEN text ELSE page[x[1]][x[2]].text
  BY RowCommittedType
<1> QED
  BY <1>1 DEF VlmTexts

\* One task's record is changed in place.
LEMMA Changed ==
    ASSUME OcrTypeOK, NEW t \in Tasks, NEW x \in Task, tasks' = [tasks EXCEPT ![t] = x]
    PROVE  /\ tasks' \in [Tasks -> Task]
           /\ tasks'[t] = x
           /\ \A u \in Tasks \ {t} : tasks'[u] = tasks[u]
BY DEF OcrTypeOK

\* A task moves on and keeps its text.
LEMMA PcChanged ==
    ASSUME OcrTypeOK, NEW t \in Tasks, NEW pc \in {"idle", "page"} \cup ReadingPcs \cup OverPcs,
           tasks' = [tasks EXCEPT ![t].pc = pc]
    PROVE  /\ tasks' \in [Tasks -> Task]
           /\ tasks'[t].pc = pc /\ tasks'[t].source = tasks[t].source
           /\ \A u \in Tasks \ {t} : tasks'[u] = tasks[u]
<1>1. [tasks[t] EXCEPT !.pc = pc] \in Task
  BY DEF OcrTypeOK, Task
<1> QED
  BY <1>1 DEF OcrTypeOK, Task

\* A task has its text and is about to write it.
LEMMA SourceChanged ==
    ASSUME OcrTypeOK, NEW t \in Tasks,
           NEW source \in {"none", "vlm_budget_exceeded"} \cup LocalSources \cup VlmSources,
           tasks' = [tasks EXCEPT ![t].pc = "write", ![t].source = source]
    PROVE  /\ tasks' \in [Tasks -> Task]
           /\ tasks'[t].pc = "write" /\ tasks'[t].source = source
           /\ \A u \in Tasks \ {t} : tasks'[u] = tasks[u]
<1>1. [tasks[t] EXCEPT !.pc = "write", !.source = source] \in Task
  BY DEF OcrTypeOK, Task, ReadingPcs
<1> QED
  BY <1>1 DEF OcrTypeOK, Task

\* A task starts, opens a page, or leaves one that it cannot rasterise.
LEMMA BetweenPagesIInv ==
    ASSUME IInv, NEW t \in Tasks, StartTask(t) \/ Unrasterised(t) \/ InsertPage(t)
    PROVE  IInv'
<1>1. OcrTypeOK /\ used' = used /\ page' = page
  BY DEF IInv, StartTask, Unrasterised, InsertPage
<1>2. CASE StartTask(t)
  <2>1. tasks' \in [Tasks -> Task] /\ tasks'[t].pc = "page" /\ \A u \in Tasks \ {t} : tasks'[u] = tasks[u]
    BY <1>1, <1>2, PcChanged DEF StartTask
  <2> QED
    BY <1>1, <2>1, SamePages, QuietStep
<1>3. CASE Unrasterised(t)
  <2>1. /\ tasks' \in [Tasks -> Task] /\ tasks'[t].pc \in {"page", "done"}
        /\ \A u \in Tasks \ {t} : tasks'[u] = tasks[u]
    BY <1>1, <1>3, NextPageType DEF Unrasterised
  <2> QED
    BY <1>1, <2>1, SamePages, QuietStep
<1>4. CASE InsertPage(t)
  <2>1. tasks' \in [Tasks -> Task] /\ tasks'[t].pc = "opened" /\ \A u \in Tasks \ {t} : tasks'[u] = tasks[u]
    BY <1>1, <1>4, PcChanged DEF InsertPage, ReadingPcs
  <2> QED
    BY <1>1, <2>1, SamePages, QuietStep
<1> QED
  BY <1>2, <1>3, <1>4

\* A page that fails has no text of the model.
LEMMA PageFailsIInv ==
    ASSUME IInv, NEW t \in Tasks, PageFails(t)
    PROVE  IInv'
<1>1. OcrTypeOK /\ used' = used /\ RowCommitted(t, "ocr_failed", "none") /\ NextPage(t)
  BY DEF IInv, PageFails
<1>2. page' \in [Pages -> [Tasks -> Row]] /\ VlmTexts' \subseteq VlmTexts
  BY <1>1, CommittedTexts DEF PageStatuses, VlmSources
<1>3. /\ tasks' \in [Tasks -> Task] /\ tasks'[t].pc \in {"page", "done"}
      /\ \A u \in Tasks \ {t} : tasks'[u] = tasks[u]
  BY <1>1, NextPageType
<1> QED
  BY <1>1, <1>2, <1>3, QuietStep

\* The text of the scan, or that of the model, whose call is over.
LEMMA WritePageIInv ==
    ASSUME IInv, NEW t \in Tasks, WritePage(t)
    PROVE  IInv'
<1>1. OcrTypeOK /\ ScanAtHand /\ SlotsCoverCalls /\ used' = used /\ used \in Nat /\ NextPage(t)
  BY PagesAssumption DEF IInv, OcrTypeOK, WritePage
<1>2. /\ tasks' \in [Tasks -> Task] /\ tasks'[t].pc \in {"page", "done"}
      /\ \A u \in Tasks \ {t} : tasks'[u] = tasks[u]
  BY <1>1, NextPageType
<1>3. tasks[t].pc = "write" /\ tasks[t] \in Task
  BY <1>1 DEF WritePage, At, OcrTypeOK
<1>4. CASE tasks[t].source = "vlm_budget_exceeded"
  <2>1. RowCommitted(t, "vlm_budget_exceeded", "paddleocr")
    BY <1>4 DEF WritePage
  <2>2. page' \in [Pages -> [Tasks -> Row]] /\ VlmTexts' \subseteq VlmTexts
    BY <1>1, <2>1, CommittedTexts DEF PageStatuses, VlmSources, LocalSources
  <2> QED
    BY <1>1, <1>2, <2>2, QuietStep
<1>5. CASE tasks[t].source # "vlm_budget_exceeded"
  <2> DEFINE source == tasks[t].source
  <2>1. /\ RowCommitted(t, "ocr_done", source)
        /\ source \in {"none"} \cup LocalSources \cup VlmSources
    BY <1>3, <1>5 DEF WritePage, Task
  <2> HIDE DEF source
  <2>2. /\ page' \in [Pages -> [Tasks -> Row]]
        /\ VlmTexts' \subseteq VlmTexts \cup {<<Page(t), t>>}
        /\ source \notin VlmSources => VlmTexts' \subseteq VlmTexts
    BY <1>1, <2>1, CommittedTexts DEF PageStatuses
  <2>3. CASE source \notin VlmSources
    BY <1>1, <1>2, <2>2, <2>3, QuietStep
  <2>4. CASE source \in VlmSources
    <3>1. t \in VlmCalls /\ VlmCalls' \subseteq VlmCalls \ {t}
      BY <1>2, <1>3, <2>4 DEF VlmCalls, source
    <3>2. SlotsCoverCalls'
      BY <1>1, <2>2, <3>1, TextWritten
    <3>3. OcrTypeOK' /\ ScanAtHand'
      BY <1>1, <1>2, <2>2 DEF OcrTypeOK, ScanAtHand
    <3> QED
      BY <3>2, <3>3 DEF IInv
  <2> QED
    BY <2>3, <2>4
<1> QED
  BY <1>4, <1>5

\* The router of pages ends with a local text at hand.
LEMMA RoutePageIInv ==
    ASSUME IInv, NEW t \in Tasks, RoutePage(t)
    PROVE  IInv'
<1>1. OcrTypeOK /\ used' = used /\ page' = page
  BY DEF IInv, RoutePage
<1>2. PICK type \in PageTypes, first, second, sparse \in BOOLEAN :
          LET mode == Mode(type, sparse, Confident(type, first, second)) IN
          /\ type = "native" => ~world.image /\ first
          /\ second => type = "clean_scan" /\ ~first
          /\ sparse => world.image
          /\ tasks' = [tasks EXCEPT
                 ![t].pc = IF mode = "none" THEN "write" ELSE "scanned",
                 ![t].mode = mode,
                 ![t].source = IF type = "native" THEN "pdfplumber" ELSE "paddleocr"]
  BY Zenon DEF RoutePage
<1> DEFINE mode == Mode(type, sparse, Confident(type, first, second))
           pc == IF mode = "none" THEN "write" ELSE "scanned"
           source == IF type = "native" THEN "pdfplumber" ELSE "paddleocr"
<1>3. mode \in Modes
  BY DEF Mode, Modes
<1>4. pc \in {"write", "scanned"} /\ source \in LocalSources
  BY DEF LocalSources
<1>5. tasks' = [tasks EXCEPT ![t].pc = pc, ![t].mode = mode, ![t].source = source]
  BY <1>2
<1> HIDE DEF mode, pc, source
<1>6. [tasks[t] EXCEPT !.pc = pc, !.mode = mode, !.source = source] \in Task
  BY <1>1, <1>3, <1>4 DEF OcrTypeOK, Task, ReadingPcs
<1>7. /\ tasks' \in [Tasks -> Task] /\ tasks'[t].pc = pc /\ tasks'[t].source = source
      /\ \A u \in Tasks \ {t} : tasks'[u] = tasks[u]
  BY <1>1, <1>5, <1>6 DEF OcrTypeOK, Task
<1>8. pc \notin {"claimed", "asked"} /\ source \notin VlmSources
  BY <1>4 DEF LocalSources, VlmSources
<1> QED
  BY <1>1, <1>7, <1>8, SamePages, QuietStep

\* A slot is taken before the call, or the scan is kept.
LEMMA ClaimVlmPageIInv ==
    ASSUME IInv, NEW t \in Tasks, ClaimVlmPage(t)
    PROVE  IInv'
<1>1. OcrTypeOK /\ ScanAtHand /\ SlotsCoverCalls /\ used \in Nat /\ tasks[t].pc = "scanned"
  BY PagesAssumption DEF IInv, OcrTypeOK, ClaimVlmPage, At
<1>2. page' \in [Pages -> [Tasks -> Row]] /\ VlmTexts' \subseteq VlmTexts
  BY <1>1, CommittedTexts DEF ClaimVlmPage, PageStatuses, VlmSources
<1>3. CASE used < Cap /\ used' = used + 1 /\ tasks' = [tasks EXCEPT ![t].pc = "claimed"]
  <2>1. /\ tasks' \in [Tasks -> Task] /\ tasks'[t].pc = "claimed" /\ tasks'[t].source = tasks[t].source
        /\ \A u \in Tasks \ {t} : tasks'[u] = tasks[u]
    BY <1>1, <1>3, PcChanged DEF ReadingPcs
  <2>2. VlmCalls' \subseteq VlmCalls \cup {t}
    BY <2>1 DEF VlmCalls
  <2>3. SlotsCoverCalls'
    BY <1>1, <1>2, <1>3, <2>2, SlotClaimed
  <2>4. ScanAtHand'
    BY <1>1, <2>1 DEF ScanAtHand
  <2>5. OcrTypeOK'
    BY <1>1, <1>2, <1>3, <2>1, PagesAssumption DEF OcrTypeOK
  <2> QED
    BY <2>3, <2>4, <2>5 DEF IInv
<1>4. CASE /\ UNCHANGED used
           /\ tasks' = [tasks EXCEPT ![t].pc = "write", ![t].source = "vlm_budget_exceeded"]
  <2>1. /\ tasks' \in [Tasks -> Task] /\ tasks'[t].pc = "write" /\ tasks'[t].source = "vlm_budget_exceeded"
        /\ \A u \in Tasks \ {t} : tasks'[u] = tasks[u]
    BY <1>1, <1>4, SourceChanged
  <2> QED
    BY <1>1, <1>2, <1>4, <2>1, QuietStep DEF VlmSources
<1> QED
  BY <1>3, <1>4 DEF ClaimVlmPage

\* The call is at work before and after it is asked, and until its answer is written.
LEMMA CallStaysIInv ==
    ASSUME IInv, NEW t \in Tasks, AskVision(t) \/ VisionAnswers(t)
    PROVE  IInv'
<1>1. OcrTypeOK /\ ScanAtHand /\ SlotsCoverCalls /\ used \in Nat /\ used' = used /\ page' = page
  BY PagesAssumption DEF IInv, OcrTypeOK, AskVision, VisionAnswers
<1>2. t \in VlmCalls /\ tasks[t].source \notin VlmSources
  BY <1>1 DEF AskVision, VisionAnswers, At, VlmCalls, ScanAtHand
<1>3. /\ tasks' \in [Tasks -> Task]
      /\ tasks'[t].pc = "write" \/ (tasks'[t].pc = "asked" /\ tasks'[t].source = tasks[t].source)
      /\ \A u \in Tasks \ {t} : tasks'[u] = tasks[u]
  <2>1. CASE AskVision(t)
    <3>1. PICK r \in Requests : tasks' = [tasks EXCEPT ![t].pc = "asked", ![t].request = r]
      BY <2>1 DEF AskVision
    <3>2. [tasks[t] EXCEPT !.pc = "asked", !.request = r] \in Task
      BY <1>1, <3>1, RequestsAssumption DEF OcrTypeOK, Task, ReadingPcs
    <3> QED
      BY <1>1, <3>1, <3>2 DEF OcrTypeOK, Task
  <2>2. CASE VisionAnswers(t)
    <3>1. VlmSource(tasks[t].mode) \in VlmSources
      BY DEF VlmSource, VlmSources
    <3> QED
      BY <1>1, <2>2, <3>1, SourceChanged DEF VisionAnswers
  <2> QED
    BY <2>1, <2>2
<1>4. OcrTypeOK' /\ ScanAtHand'
  BY <1>1, <1>2, <1>3 DEF OcrTypeOK, ScanAtHand
<1>5. VlmCalls' \subseteq VlmCalls
  BY <1>2, <1>3 DEF VlmCalls
<1>6. SlotsCoverCalls'
  BY <1>1, <1>5, SamePages, FewerNeedNoMore
<1> QED
  BY <1>4, <1>6 DEF IInv

\* A call without an answer is over, and its slot is given back or not.
LEMMA VisionFailsIInv ==
    ASSUME IInv, NEW t \in Tasks, VisionFails(t)
    PROVE  IInv'
<1>1. OcrTypeOK /\ ScanAtHand /\ SlotsCoverCalls /\ used \in Nat /\ page' = page /\ tasks[t].pc = "asked"
  BY PagesAssumption DEF IInv, OcrTypeOK, VisionFails, At
<1>2. tasks[t].source \notin VlmSources
  BY <1>1 DEF ScanAtHand
<1>3. /\ tasks' \in [Tasks -> Task] /\ tasks'[t].pc = "write" /\ tasks'[t].source = tasks[t].source
      /\ \A u \in Tasks \ {t} : tasks'[u] = tasks[u]
  BY <1>1, PcChanged DEF VisionFails, ReadingPcs
<1>4. VlmTexts' = VlmTexts /\ page' \in [Pages -> [Tasks -> Row]]
  BY <1>1, SamePages
<1>5. CASE used' = used
  BY <1>2, <1>3, <1>4, <1>5, QuietStep
<1>6. CASE UnclaimVlmPage
  <2>1. t \in VlmCalls /\ VlmCalls' \subseteq VlmCalls \ {t}
    BY <1>1, <1>2, <1>3 DEF VlmCalls
  <2>2. SlotsCoverCalls' /\ used' \in 0 .. Cap
    BY <1>1, <1>4, <1>6, <2>1, SlotReturned
  <2>3. OcrTypeOK' /\ ScanAtHand'
    BY <1>1, <1>3, <1>4, <2>2 DEF OcrTypeOK, ScanAtHand
  <2> QED
    BY <2>2, <2>3 DEF IInv
<1> QED
  BY <1>5, <1>6 DEF VisionFails

\* A cancelled call is a call less.
LEMMA TaskCancelledIInv ==
    ASSUME IInv, NEW t \in Tasks, TaskCancelled(t)
    PROVE  IInv'
<1>1. OcrTypeOK /\ used' = used /\ page' = page /\ tasks' = [tasks EXCEPT ![t] = Lose(t)]
  BY DEF IInv, TaskCancelled
<1>2. Lose(t) \in Task /\ Lose(t).pc = "lost"
  BY TaskConstants DEF Lose, NoTask
<1>3. tasks' \in [Tasks -> Task] /\ tasks'[t] = Lose(t) /\ \A u \in Tasks \ {t} : tasks'[u] = tasks[u]
  BY <1>1, <1>2, Changed
<1> QED
  BY <1>1, <1>2, <1>3, SamePages, QuietStep

\* A crash loses the calls, and a retry the texts: slots stay.
LEMMA LossIInv ==
    ASSUME IInv, RestartAll \/ Retry
    PROVE  IInv'
<1>1. OcrTypeOK /\ ScanAtHand /\ SlotsCoverCalls /\ used \in Nat /\ used' = used
  BY PagesAssumption DEF IInv, OcrTypeOK, RestartAll, Retry
<1>2. CASE RestartAll
  <2>1. /\ tasks' \in [Tasks -> Task] /\ page' = page
        /\ \A t \in Tasks : tasks'[t].pc \in {"idle"} \cup OverPcs
    <3>1. \A t \in Tasks : Lose(t) \in Task /\ Lose(t).pc = "lost"
      BY TaskConstants DEF Lose, NoTask
    <3> QED
      BY <1>1, <1>2, <3>1 DEF RestartAll, OcrTypeOK, OverPcs
  <2>2. VlmCalls' = {} /\ ScanAtHand'
    BY <2>1 DEF VlmCalls, ScanAtHand, OverPcs
  <2>3. SlotsCoverCalls'
    BY <1>1, <2>1, <2>2, SamePages, FewerNeedNoMore
  <2> QED
    BY <1>1, <2>1, <2>2, <2>3 DEF IInv, OcrTypeOK
<1>3. CASE Retry
  <2>1. tasks' = tasks /\ page' \in [Pages -> [Tasks -> Row]]
    BY <1>3, TaskConstants DEF Retry
  <2>2. VlmTexts' = {}
    BY <1>3 DEF Retry, VlmTexts, NoPages, NoRow, VlmSources
  <2>3. VlmCalls' = VlmCalls
    BY <2>1 DEF VlmCalls
  <2>4. SlotsCoverCalls'
    BY <1>1, <2>2, <2>3, FewerNeedNoMore
  <2> QED
    BY <1>1, <2>1, <2>4 DEF IInv, OcrTypeOK, ScanAtHand
<1> QED
  BY <1>2, <1>3

\* The router's own steps, and steps of nobody.
LEMMA OtherIInv ==
    ASSUME IInv, UNCHANGED ocrVars
    PROVE  IInv'
BY DEF IInv, ocrVars, OcrTypeOK, ScanAtHand, SlotsCoverCalls, VlmTexts, VlmCalls

\* Every step, of the tasks and of the requests beside them.
LEMMA NextIInv ==
    ASSUME IInv, [OcrNext]_allVars
    PROVE  IInv'
<1>1. ASSUME NEW t \in Tasks, TaskStep(t) \/ StartTask(t)
      PROVE  IInv'
  <2>1. CASE StartTask(t) \/ Unrasterised(t) \/ InsertPage(t)
    BY <2>1, BetweenPagesIInv
  <2>2. CASE PageFails(t)
    BY <2>2, PageFailsIInv
  <2>3. CASE WritePage(t)
    BY <2>3, WritePageIInv
  <2>4. CASE RoutePage(t)
    BY <2>4, RoutePageIInv
  <2>5. CASE ClaimVlmPage(t)
    BY <2>5, ClaimVlmPageIInv
  <2>6. CASE AskVision(t) \/ VisionAnswers(t)
    BY <2>6, CallStaysIInv
  <2>7. CASE VisionFails(t)
    BY <2>7, VisionFailsIInv
  <2>8. CASE TaskCancelled(t)
    BY <2>8, TaskCancelledIInv
  <2> QED
    BY <1>1, <2>1, <2>2, <2>3, <2>4, <2>5, <2>6, <2>7, <2>8 DEF TaskStep
<1>2. CASE UNCHANGED ocrVars
  BY <1>2, OtherIInv
<1>3. CASE RestartAll \/ Retry
  BY <1>3, LossIInv
<1>4. UNCHANGED allVars => UNCHANGED ocrVars
  BY DEF allVars
<1> QED
  BY <1>1, <1>2, <1>3, <1>4 DEF OcrNext, LoopStep

-----------------------------------------------------------------------------
(* Theorems *)

\* Types, the scan at hand and the slots hold in every reachable state.
THEOREM InductiveInvariant == OcrSpec => []IInv
<1>1. OcrInit => IInv
  BY InitIInv
<1>2. IInv /\ [OcrNext]_allVars => IInv'
  BY NextIInv
<1> QED
  BY <1>1, <1>2, PTL DEF OcrSpec

\* _try_claim_vlm_page and _unclaim_vlm_page: every text of the vision model and every
\* call at work has a slot, and a document has at most Cap, whatever tasks overlap, die
\* or are retried, and whatever becomes of the calls.
THEOREM SlotsCover == OcrSpec => []SlotsCoverCalls
<1>1. IInv => SlotsCoverCalls
  BY DEF IInv
<1> QED
  BY <1>1, InductiveInvariant, PTL

=============================================================================
