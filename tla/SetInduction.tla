---------------------------- MODULE SetInduction ----------------------------
(***************************************************************************)
(* What the proofs need of minima, of induction over finite sets and of    *)
(* sums of finite functions.  Induction is stated with sets: the library's *)
(* theorems on operators cannot be instantiated.                           *)
(***************************************************************************)
EXTENDS Integers, FiniteSets, Functions, FiniteSetTheorems, WellFoundedInduction, TLAPS

(* A nonempty set of naturals has a smallest element: what ORDER BY ...    *)
(* LIMIT 1 relies on.                                                      *)
LEMMA SmallestOf ==
  ASSUME NEW T, T \subseteq Nat, T # {}
  PROVE  \E x \in T : \A y \in T : ~ (y < x)
<1> DEFINE R == OpToRel(<, Nat)
<1>1. IsWellFoundedOn(R, Nat)
  BY NatLessThanWellFounded, Zenon
<1>2. PICK x \in T : \A y \in T : <<y, x>> \notin R
  <2> HIDE DEF R
  <2> QED BY <1>1, WFMin
<1>3. \A y \in T : ~ (y < x)
  BY <1>2, Zenon DEF OpToRel
<1> QED BY <1>3

LEMMA NatInduct ==
  ASSUME NEW G, 0 \in G, \A n \in Nat : n \in G => n + 1 \in G
  PROVE  Nat \subseteq G
<1> SUFFICES ASSUME Nat \ G # {} PROVE FALSE
  OBVIOUS
<1>1. PICK n \in Nat \ G : \A m \in Nat \ G : ~ (m < n)
  BY SmallestOf
<1>2. n # 0
  BY <1>1
<1>3. n - 1 \in Nat /\ n - 1 < n
  BY <1>1, <1>2
<1>4. n - 1 \in G
  BY <1>1, <1>3
<1>5. (n - 1) + 1 \in G
  BY <1>3, <1>4
<1> QED BY <1>1, <1>5

(* A set of subsets that has the empty set and is closed under adding an   *)
(* element has every finite set.                                           *)
LEMMA FiniteInduct ==
  ASSUME NEW S, IsFiniteSet(S), NEW G, {} \in G,
         \A T \in SUBSET S : \A x \in S \ T : T \in G => T \cup {x} \in G
  PROVE  S \in G
<1> DEFINE H == {n \in Nat : \A T \in SUBSET S : Cardinality(T) = n => T \in G}
<1>1. 0 \in H
  <2> SUFFICES ASSUME NEW T \in SUBSET S, Cardinality(T) = 0 PROVE T \in G
    OBVIOUS
  <2> QED BY FS_EmptySet, FS_Subset
<1>2. ASSUME NEW n \in Nat, n \in H PROVE n + 1 \in H
  <2> SUFFICES ASSUME NEW T \in SUBSET S, Cardinality(T) = n + 1 PROVE T \in G
    OBVIOUS
  <2>1. IsFiniteSet(T)
    BY FS_Subset
  <2>2. PICK x \in T : TRUE
    BY <2>1, FS_EmptySet
  <2>3. Cardinality(T \ {x}) = n
    <3>1. Cardinality(T \ {x}) = Cardinality(T) - 1
      BY <2>1, <2>2, FS_RemoveElement
    <3> QED BY <3>1
  <2>4. T \ {x} \in G
    BY <1>2, <2>3
  <2>5. (T \ {x}) \cup {x} = T
    BY <2>2
  <2>6. T \ {x} \in SUBSET S /\ x \in S \ (T \ {x})
    BY <2>2
  <2> QED BY <2>4, <2>5, <2>6
<1>3. Nat \subseteq H
  <2> HIDE DEF H
  <2> QED BY <1>1, <1>2, NatInduct
<1>4. Cardinality(S) \in Nat
  BY FS_CardinalityType
<1> QED BY <1>3, <1>4

-----------------------------------------------------------------------------

(* SumFunction takes the elements out of its domain in the order CHOOSE    *)
(* gives; the lemmas below make that order irrelevant.                     *)
Taken(s) == CHOOSE x \in s : TRUE

(* g sums f over each set of F, which is closed under taking elements out. *)
SumsOver(g, f, F) ==
  g = [s \in F |-> IF s = {} THEN 0 ELSE f[Taken(s)] + g[s \ {Taken(s)}]]

SumsAll(g, f, S) == SumsOver(g, f, SUBSET S)

IntegersOn(f, S) == \A x \in S : f[x] \in Int

TakesOutAny(g, f, S) == \A r \in SUBSET S : \A z \in r : g[r] = f[z] + g[r \ {z}]

SubsetsUpTo(S, n) == {s \in SUBSET S : Cardinality(s) <= n}

LEMMA TakenFromFinite ==
  ASSUME NEW S, IsFiniteSet(S), NEW s \in SUBSET S, s # {}
  PROVE  /\ Taken(s) \in s
         /\ s \ {Taken(s)} \in SUBSET S
         /\ Cardinality(s) \in Nat /\ Cardinality(s) >= 1
         /\ Cardinality(s \ {Taken(s)}) = Cardinality(s) - 1
<1>1. Taken(s) \in s
  BY DEF Taken
<1>2. IsFiniteSet(s)
  BY FS_Subset
<1>3. Cardinality(s) \in Nat /\ Cardinality(s) # 0
  BY <1>2, FS_CardinalityType, FS_EmptySet
<1>4. Cardinality(s \ {Taken(s)}) = Cardinality(s) - 1
  BY <1>1, <1>2, FS_RemoveElement
<1>5. Cardinality(s) >= 1
  BY <1>3
<1> QED BY <1>1, <1>3, <1>4, <1>5

(* The sums over all subsets exist: built for one more element at a time.  *)
LEMMA SumsExist ==
  ASSUME NEW S, IsFiniteSet(S), NEW f
  PROVE  \E g : SumsAll(g, f, S)
<1> DEFINE G == {n \in Nat : \E g : SumsOver(g, f, SubsetsUpTo(S, n))}
<1>1. 0 \in G
  <2> DEFINE g == [s \in SubsetsUpTo(S, 0) |-> 0]
  <2>1. \A s \in SubsetsUpTo(S, 0) : s = {}
    <3> TAKE s \in SubsetsUpTo(S, 0)
    <3>1. s \in SUBSET S /\ Cardinality(s) <= 0
      BY DEF SubsetsUpTo
    <3>2. s # {} => Cardinality(s) >= 1
      BY <3>1, TakenFromFinite
    <3>3. Cardinality(s) \in Nat
      BY <3>1, FS_Subset, FS_CardinalityType
    <3> QED BY <3>1, <3>2, <3>3
  <2>2. SumsOver(g, f, SubsetsUpTo(S, 0))
    BY <2>1 DEF SumsOver
  <2> QED BY <2>2
<1>2. ASSUME NEW n \in Nat, n \in G PROVE n + 1 \in G
  <2>1. PICK g : SumsOver(g, f, SubsetsUpTo(S, n))
    BY <1>2
  <2> DEFINE h == [s \in SubsetsUpTo(S, n + 1) |->
                     IF s = {} THEN 0 ELSE f[Taken(s)] + g[s \ {Taken(s)}]]
  <2>2. ASSUME NEW s \in SubsetsUpTo(S, n)
        PROVE  s \in SubsetsUpTo(S, n + 1) /\ h[s] = g[s]
    <3>1. s \in SUBSET S /\ Cardinality(s) <= n /\ IsFiniteSet(s)
      BY FS_Subset DEF SubsetsUpTo
    <3>2. Cardinality(s) \in Nat
      BY <3>1, FS_CardinalityType
    <3>3. s \in SubsetsUpTo(S, n + 1)
      BY <3>1, <3>2 DEF SubsetsUpTo
    <3>4. g[s] = IF s = {} THEN 0 ELSE f[Taken(s)] + g[s \ {Taken(s)}]
      BY <2>1 DEF SumsOver
    <3> QED BY <3>3, <3>4
  <2>3. ASSUME NEW s \in SubsetsUpTo(S, n + 1), s # {}
        PROVE  s \ {Taken(s)} \in SubsetsUpTo(S, n)
    <3>1. s \in SUBSET S /\ Cardinality(s) <= n + 1
      BY DEF SubsetsUpTo
    <3> QED BY <2>3, <3>1, TakenFromFinite DEF SubsetsUpTo
  <2>4. h = [s \in SubsetsUpTo(S, n + 1) |->
               IF s = {} THEN 0 ELSE f[Taken(s)] + h[s \ {Taken(s)}]]
    BY <2>2, <2>3
  <2>5. SumsOver(h, f, SubsetsUpTo(S, n + 1))
    <3> HIDE DEF h
    <3> QED BY <2>4 DEF SumsOver
  <2> QED BY <2>5
<1>3. Cardinality(S) \in G
  <2>1. Nat \subseteq G
    <3> HIDE DEF G
    <3> QED BY <1>1, <1>2, NatInduct
  <2> QED BY <2>1, FS_CardinalityType
<1>4. SubsetsUpTo(S, Cardinality(S)) = SUBSET S
  BY FS_Subset DEF SubsetsUpTo
<1> QED BY <1>3, <1>4 DEF SumsAll

LEMMA SumsStep ==
  ASSUME NEW S, NEW f, NEW g, SumsAll(g, f, S), NEW s \in SUBSET S
  PROVE  /\ s = {} => g[s] = 0
         /\ s # {} => g[s] = f[Taken(s)] + g[s \ {Taken(s)}]
BY DEF SumsAll, SumsOver

(* For a claim that every subset has: there is a smallest one without it.  *)
LEMMA SmallestSubset ==
  ASSUME NEW S, IsFiniteSet(S), NEW B, B \subseteq SUBSET S, B # {}
  PROVE  \E s \in B : \A t \in B : ~ (Cardinality(t) < Cardinality(s))
<1> DEFINE N == {Cardinality(s) : s \in B}
<1>1. N \subseteq Nat /\ N # {}
  BY FS_Subset, FS_CardinalityType
<1>2. PICK n \in N : \A m \in N : ~ (m < n)
  <2> HIDE DEF N
  <2> QED BY <1>1, SmallestOf
<1> QED BY <1>2

LEMMA SumsType ==
  ASSUME NEW S, NEW f, NEW g, IsFiniteSet(S), IntegersOn(f, S), SumsAll(g, f, S)
  PROVE  \A s \in SUBSET S : g[s] \in Int
<1> DEFINE B == {s \in SUBSET S : g[s] \notin Int}
<1> SUFFICES ASSUME B # {} PROVE FALSE
  OBVIOUS
<1>1. PICK s \in B : \A t \in B : ~ (Cardinality(t) < Cardinality(s))
  <2>1. B \subseteq SUBSET S
    OBVIOUS
  <2> HIDE DEF B
  <2> QED BY <2>1, SmallestSubset
<1>2. /\ s = {} => g[s] = 0
      /\ s # {} => g[s] = f[Taken(s)] + g[s \ {Taken(s)}]
  <2>1. s \in SUBSET S
    OBVIOUS
  <2> HIDE DEF B
  <2> QED BY <2>1, SumsStep, Z3
<1>3. CASE s = {}
  BY <1>2, <1>3
<1>4. CASE s # {}
  <2>1. s \ {Taken(s)} \notin B
    BY <1>1, <1>4, TakenFromFinite
  <2>2. f[Taken(s)] \in Int /\ g[s \ {Taken(s)}] \in Int
    BY <1>4, <2>1, TakenFromFinite DEF IntegersOn
  <2> QED BY <1>2, <1>4, <2>2
<1> QED BY <1>3, <1>4

(* Any element may be taken out first.                                     *)
LEMMA SumsAnyElement ==
  ASSUME NEW S, NEW f, NEW g, IsFiniteSet(S), IntegersOn(f, S), SumsAll(g, f, S)
  PROVE  TakesOutAny(g, f, S)
<1> DEFINE B == {s \in SUBSET S : \E x \in s : g[s] # f[x] + g[s \ {x}]}
<1> SUFFICES ASSUME B # {} PROVE FALSE
  BY DEF TakesOutAny
<1>1. PICK s \in B : \A t \in B : ~ (Cardinality(t) < Cardinality(s))
  <2>1. B \subseteq SUBSET S
    OBVIOUS
  <2> HIDE DEF B
  <2> QED BY <2>1, SmallestSubset
<1>2. PICK x \in s : g[s] # f[x] + g[s \ {x}]
  OBVIOUS
<1> DEFINE p == Taken(s)
<1>3. p \in s /\ s \ {p} \in SUBSET S /\ g[s] = f[p] + g[s \ {p}]
  <2>1. s \in SUBSET S /\ s # {}
    BY <1>2
  <2>2. g[s] = f[Taken(s)] + g[s \ {Taken(s)}]
    <3> HIDE DEF B
    <3> QED BY <2>1, SumsStep
  <2> HIDE DEF B
  <2> QED BY <2>1, <2>2, TakenFromFinite
<1>4. p # x
  BY <1>2, <1>3
<1>5. IsFiniteSet(s) /\ Cardinality(s) \in Nat
  BY FS_Subset, FS_CardinalityType
<1>6. \A y \in s : Cardinality(s \ {y}) < Cardinality(s)
  <2> TAKE y \in s
  <2>1. Cardinality(s \ {y}) = Cardinality(s) - 1
    BY <1>5, FS_RemoveElement
  <2> QED BY <1>5, <2>1
<1>7. s \ {p} \notin B /\ s \ {x} \notin B
  <2> HIDE DEF B, p
  <2> QED BY <1>1, <1>2, <1>3, <1>6
<1>8. g[s \ {p}] = f[x] + g[(s \ {p}) \ {x}]
  BY <1>3, <1>4, <1>7
<1>9. g[s \ {x}] = f[p] + g[(s \ {x}) \ {p}]
  BY <1>3, <1>4, <1>7
<1>10. (s \ {p}) \ {x} = (s \ {x}) \ {p}
  OBVIOUS
<1>11. f[x] \in Int /\ f[p] \in Int /\ g[(s \ {x}) \ {p}] \in Int
  <2>1. (s \ {x}) \ {p} \in SUBSET S
    OBVIOUS
  <2> HIDE DEF p
  <2> QED BY <1>3, <2>1, SumsType DEF IntegersOn
<1>12. f[p] + (f[x] + g[(s \ {x}) \ {p}]) = f[x] + (f[p] + g[(s \ {x}) \ {p}])
  <2> DEFINE a == f[x]
             b == f[p]
             c == g[(s \ {x}) \ {p}]
  <2>1. a \in Int /\ b \in Int /\ c \in Int
    BY <1>11
  <2> HIDE DEF a, b, c
  <2>2. b + (a + c) = a + (b + c)
    BY <2>1
  <2> QED BY <2>2 DEF a, b, c
<1>13. g[s] = f[p] + (f[x] + g[(s \ {x}) \ {p}])
  BY <1>3, <1>8, <1>10, Zenon
<1>14. f[x] + g[s \ {x}] = f[x] + (f[p] + g[(s \ {x}) \ {p}])
  BY <1>9, Zenon
<1> QED BY <1>2, <1>12, <1>13, <1>14, Zenon

(* Sums over a set depend on the values there only.                        *)
LEMMA SumsAgree ==
  ASSUME NEW S, NEW f, NEW g, NEW T \in SUBSET S, NEW e, NEW h, IsFiniteSet(S),
         SumsAll(g, f, S), SumsAll(h, e, T),
         \A x \in T : e[x] = f[x]
  PROVE  h[T] = g[T]
<1> DEFINE B == {s \in SUBSET T : h[s] # g[s]}
<1>0. IsFiniteSet(T)
  BY FS_Subset
<1>a. SUFFICES ASSUME B # {} PROVE FALSE
  OBVIOUS
<1>1. PICK s \in B : \A t \in B : ~ (Cardinality(t) < Cardinality(s))
  <2>1. B \subseteq SUBSET T
    OBVIOUS
  <2> HIDE DEF B
  <2> QED BY <1>0, <1>a, <2>1, SmallestSubset
<1>2. /\ s = {} => g[s] = 0
      /\ s # {} => g[s] = f[Taken(s)] + g[s \ {Taken(s)}]
  <2>1. s \in SUBSET S
    OBVIOUS
  <2> HIDE DEF B
  <2> QED BY <2>1, SumsStep
<1>3. /\ s = {} => h[s] = 0
      /\ s # {} => h[s] = e[Taken(s)] + h[s \ {Taken(s)}]
  <2>1. s \in SUBSET T
    OBVIOUS
  <2> HIDE DEF B
  <2> QED BY <2>1, SumsStep, Z3
<1>4. s # {}
  BY <1>2, <1>3
<1>5. s \ {Taken(s)} \notin B /\ Taken(s) \in T
  BY <1>0, <1>1, <1>4, TakenFromFinite
<1> QED BY <1>2, <1>3, <1>4, <1>5

-----------------------------------------------------------------------------

LEMMA SumUnfold ==
  ASSUME NEW f, IsFiniteSet(DOMAIN f)
  PROVE  \E g : SumsAll(g, f, DOMAIN f) /\ SumFunction(f) = g[DOMAIN f]
<1> DEFINE g == CHOOSE g : g = [s \in SUBSET DOMAIN f |-> IF s = {} THEN 0
                 ELSE f[CHOOSE x \in s : TRUE] + g[s \ {CHOOSE x \in s : TRUE}]]
<1>1. SumFunction(f) = g[DOMAIN f]
  BY DEF SumFunction, SumFunctionOnSet, FoldFunctionOnSet, MapThenFoldSet
<1>2. SumsAll(g, f, DOMAIN f)
  <2>1. PICK h : SumsAll(h, f, DOMAIN f)
    BY SumsExist
  <2> QED BY <2>1 DEF SumsAll, SumsOver, Taken
<1> HIDE DEF g
<1> QED BY <1>1, <1>2

LEMMA SumEmpty ==
  ASSUME NEW f, DOMAIN f = {}
  PROVE  SumFunction(f) = 0
<1>1. IsFiniteSet(DOMAIN f)
  BY FS_EmptySet
<1>2. PICK g : SumsAll(g, f, DOMAIN f) /\ SumFunction(f) = g[DOMAIN f]
  BY <1>1, SumUnfold
<1> QED BY <1>2, SumsStep

LEMMA SumType ==
  ASSUME NEW f, IsFiniteSet(DOMAIN f), \A x \in DOMAIN f : f[x] \in Int
  PROVE  SumFunction(f) \in Int
BY SumUnfold, SumsType DEF IntegersOn

Without(f, x) == [y \in DOMAIN f \ {x} |-> f[y]]

(* The sum of a function is that of one value and of the others.           *)
LEMMA SumTakeOut ==
  ASSUME NEW f, IsFiniteSet(DOMAIN f), \A y \in DOMAIN f : f[y] \in Int, NEW x \in DOMAIN f
  PROVE  SumFunction(f) = f[x] + SumFunction(Without(f, x))
<1> DEFINE D == DOMAIN f
           e == Without(f, x)
<1>0. IsFiniteSet(D) /\ IntegersOn(f, D)
  BY DEF IntegersOn
<1>1. PICK g : SumsAll(g, f, D) /\ SumFunction(f) = g[D]
  BY SumUnfold
<1>2. g[D] = f[x] + g[D \ {x}]
  <2>1. TakesOutAny(g, f, D)
    <3> HIDE DEF D
    <3> QED BY <1>0, <1>1, SumsAnyElement, Zenon
  <2> QED BY <2>1, Zenon DEF TakesOutAny
<1>3. DOMAIN e = D \ {x} /\ \A y \in D \ {x} : e[y] = f[y]
  BY DEF Without
<1>4. IsFiniteSet(DOMAIN e)
  BY <1>3, FS_Subset
<1>5. PICK h : SumsAll(h, e, DOMAIN e) /\ SumFunction(e) = h[DOMAIN e]
  <2> HIDE DEF e
  <2> QED BY <1>4, SumUnfold
<1>6. h[D \ {x}] = g[D \ {x}]
  <2>1. D \ {x} \in SUBSET D
    OBVIOUS
  <2>2. SumsAll(h, e, D \ {x})
    BY <1>3, <1>5
  <2>3. \A y \in D \ {x} : e[y] = f[y]
    BY <1>3
  <2>4. SumsAll(g, f, D)
    BY <1>1
  <2> HIDE DEF e, D
  <2> QED BY <1>0, <2>1, <2>2, <2>3, <2>4, SumsAgree, Z3
<1>7. SumFunction(e) = g[D \ {x}]
  BY <1>3, <1>5, <1>6
<1> HIDE DEF e, D
<1> QED BY <1>1, <1>2, <1>7, Zenon DEF e

On(f, T) == [y \in T |-> f[y]]

(* Sums grow one element at a time: the step of every induction over them. *)
LEMMA SumGrow ==
  ASSUME NEW f, NEW T, IsFiniteSet(T), NEW x, x \notin T, IntegersOn(f, T \cup {x})
  PROVE  /\ SumFunction(On(f, T)) \in Int
         /\ SumFunction(On(f, T \cup {x})) = f[x] + SumFunction(On(f, T))
<1> DEFINE e == On(f, T \cup {x})
<1>1. DOMAIN e = T \cup {x} /\ \A y \in T \cup {x} : e[y] = f[y]
  BY DEF On
<1>2. IsFiniteSet(DOMAIN e)
  BY <1>1, FS_AddElement
<1>3. \A y \in DOMAIN e : e[y] \in Int
  BY <1>1 DEF IntegersOn
<1>4. x \in DOMAIN e /\ e[x] = f[x]
  BY <1>1
<1>5. Without(e, x) = On(f, T)
  BY <1>1 DEF Without, On
<1>6. SumFunction(e) = e[x] + SumFunction(Without(e, x))
  <2> HIDE DEF e
  <2> QED BY <1>2, <1>3, <1>4, SumTakeOut
<1>7. SumFunction(On(f, T)) \in Int
  <2>1. DOMAIN On(f, T) = T /\ \A y \in T : On(f, T)[y] \in Int
    BY DEF On, IntegersOn
  <2> QED BY <2>1, SumType
<1> QED BY <1>4, <1>5, <1>6, <1>7, Zenon

LEMMA SumOnEmpty ==
  ASSUME NEW f
  PROVE  SumFunction(On(f, {})) = 0
<1>1. DOMAIN On(f, {}) = {}
  BY DEF On
<1> QED BY <1>1, SumEmpty

LEMMA SumOnType ==
  ASSUME NEW f, NEW S, IsFiniteSet(S), IntegersOn(f, S)
  PROVE  SumFunction(On(f, S)) \in Int
<1>1. DOMAIN On(f, S) = S /\ \A y \in S : On(f, S)[y] \in Int
  BY DEF On, IntegersOn
<1> QED BY <1>1, SumType

LEMMA TimesNext ==
  ASSUME NEW n \in Nat, NEW q \in Nat
  PROVE  n * q \in Nat /\ (n + 1) * q = n * q + q
OBVIOUS

(* A sum of naturals is one, and as many numbers up to q as S has elements *)
(* add up to no more than that many times q.                               *)
LEMMA SumWithin ==
  ASSUME NEW f, NEW S, IsFiniteSet(S), \A x \in S : f[x] \in Nat,
         NEW q \in Nat, \A x \in S : f[x] <= q
  PROVE  SumFunction(On(f, S)) \in Nat /\ SumFunction(On(f, S)) <= Cardinality(S) * q
<1> DEFINE G == {T \in SUBSET S : /\ SumFunction(On(f, T)) \in Nat
                                  /\ SumFunction(On(f, T)) <= Cardinality(T) * q}
<1>1. {} \in G
  BY SumOnEmpty, FS_EmptySet
<1>2. ASSUME NEW T \in SUBSET S, NEW x \in S \ T, T \in G PROVE T \cup {x} \in G
  <2>1. IsFiniteSet(T) /\ IntegersOn(f, T \cup {x})
    BY FS_Subset DEF IntegersOn
  <2>2. Cardinality(T) \in Nat /\ Cardinality(T \cup {x}) = Cardinality(T) + 1
    BY <2>1, FS_AddElement, FS_CardinalityType
  <2>3. SumFunction(On(f, T \cup {x})) = f[x] + SumFunction(On(f, T))
    BY <2>1, SumGrow
  <2>4. Cardinality(T) * q \in Nat /\ (Cardinality(T) + 1) * q = Cardinality(T) * q + q
    BY <2>2, TimesNext
  <2>5. SumFunction(On(f, T)) \in Nat /\ SumFunction(On(f, T)) <= Cardinality(T) * q
    BY <1>2
  <2>6. f[x] \in Nat /\ f[x] <= q
    OBVIOUS
  <2>7. f[x] + SumFunction(On(f, T)) \in Nat
    BY <2>5, <2>6
  <2>8. f[x] + SumFunction(On(f, T)) <= Cardinality(T) * q + q
    BY <2>4, <2>5, <2>6
  <2> QED BY <2>2, <2>3, <2>4, <2>7, <2>8
<1>3. S \in G
  <2> HIDE DEF G
  <2> QED BY <1>1, <1>2, FiniteInduct
<1> QED BY <1>3
LEMMA SumOnDomain ==
  ASSUME NEW f, IsFiniteSet(DOMAIN f)
  PROVE  SumFunction(On(f, DOMAIN f)) = SumFunction(f)
<1> DEFINE D == DOMAIN f
           e == On(f, D)
<1>1. DOMAIN e = D /\ \A x \in D : e[x] = f[x]
  BY DEF On
<1>2. PICK g : SumsAll(g, f, D) /\ SumFunction(f) = g[D]
  BY SumUnfold
<1>3. PICK h : SumsAll(h, e, D) /\ SumFunction(e) = h[D]
  <2>1. IsFiniteSet(DOMAIN e)
    BY <1>1
  <2> HIDE DEF e
  <2> QED BY <1>1, <2>1, SumUnfold
<1>4. h[D] = g[D]
  <2>1. D \in SUBSET D /\ IsFiniteSet(D)
    OBVIOUS
  <2>2. SumsAll(g, f, D) /\ SumsAll(h, e, D) /\ \A x \in D : e[x] = f[x]
    BY <1>1, <1>2, <1>3
  <2> HIDE DEF D, e
  <2> QED BY <2>1, <2>2, SumsAgree, Z3
<1> QED BY <1>2, <1>3, <1>4, Zenon

LEMMA SumNatural ==
  ASSUME NEW f, IsFiniteSet(DOMAIN f), \A x \in DOMAIN f : f[x] \in Nat
  PROVE  SumFunction(f) \in Nat
<1> DEFINE D == DOMAIN f
           G == {T \in SUBSET D : SumFunction(On(f, T)) \in Nat}
<1>1. {} \in G
  BY SumOnEmpty
<1>2. ASSUME NEW T \in SUBSET D, NEW x \in D \ T, T \in G PROVE T \cup {x} \in G
  <2>1. IsFiniteSet(T) /\ IntegersOn(f, T \cup {x})
    BY FS_Subset DEF IntegersOn
  <2>2. SumFunction(On(f, T \cup {x})) = f[x] + SumFunction(On(f, T))
    BY <2>1, SumGrow
  <2>3. SumFunction(On(f, T)) \in Nat /\ f[x] \in Nat
    BY <1>2
  <2>4. f[x] + SumFunction(On(f, T)) \in Nat
    BY <2>3
  <2> QED BY <2>2, <2>4
<1>3. D \in G
  <2> HIDE DEF G
  <2> QED BY <1>1, <1>2, FiniteInduct
<1> QED BY <1>3, SumOnDomain

(* Sums of naturals over a set that gains or loses an element.             *)
LEMMA SumAdd ==
  ASSUME NEW f, NEW S, IsFiniteSet(S), NEW x, \A y \in S \cup {x} : f[y] \in Nat
  PROVE  /\ SumFunction(On(f, S)) \in Nat
         /\ SumFunction(On(f, S \cup {x})) \in Nat
         /\ SumFunction(On(f, S \cup {x})) <= SumFunction(On(f, S)) + f[x]
<1>1. ASSUME NEW T, IsFiniteSet(T), \A y \in T : f[y] \in Nat
      PROVE  SumFunction(On(f, T)) \in Nat
  <2>1. DOMAIN On(f, T) = T /\ \A y \in T : On(f, T)[y] \in Nat
    BY <1>1 DEF On
  <2> QED BY <1>1, <2>1, SumNatural
<1>2. IsFiniteSet(S \cup {x})
  BY FS_AddElement
<1>3. SumFunction(On(f, S)) \in Nat /\ SumFunction(On(f, S \cup {x})) \in Nat /\ f[x] \in Nat
  BY <1>1, <1>2
<1>4. CASE x \in S
  <2>1. S \cup {x} = S
    BY <1>4
  <2> QED BY <1>3, <2>1
<1>5. CASE x \notin S
  <2>1. IntegersOn(f, S \cup {x})
    BY DEF IntegersOn
  <2>2. SumFunction(On(f, S \cup {x})) = f[x] + SumFunction(On(f, S))
    BY <1>5, <2>1, SumGrow
  <2> QED BY <1>3, <2>2
<1> QED BY <1>4, <1>5

LEMMA SumDrop ==
  ASSUME NEW f, NEW S, IsFiniteSet(S), NEW x \in S, \A y \in S : f[y] \in Nat
  PROVE  /\ SumFunction(On(f, S \ {x})) \in Nat
         /\ SumFunction(On(f, S)) = f[x] + SumFunction(On(f, S \ {x}))
<1> DEFINE T == S \ {x}
<1>1. IsFiniteSet(T) /\ x \notin T /\ T \cup {x} = S
  BY FS_RemoveElement
<1>2. IntegersOn(f, T \cup {x})
  BY <1>1 DEF IntegersOn
<1>3. \A y \in T \cup {x} : f[y] \in Nat
  BY <1>1
<1> HIDE DEF T
<1>4. SumFunction(On(f, T \cup {x})) = f[x] + SumFunction(On(f, T))
  BY <1>1, <1>2, SumGrow
<1>5. SumFunction(On(f, T)) \in Nat
  BY <1>1, <1>3, SumAdd
<1> QED BY <1>1, <1>4, <1>5 DEF T

=============================================================================
