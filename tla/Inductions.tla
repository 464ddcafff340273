------------------------------- MODULE Inductions -------------------------------
(***************************************************************************)
(* What the proofs of the other modules need to know of the functions that *)
(* the models define by recursion: the sum of a function over a finite set *)
(* (SumFunctionOnSet of Functions: bytes of a cache, counts of a           *)
(* histogram, counters of a server), a value carried from step to step     *)
(* over 0 .. n, the concatenation of the members of a sequence             *)
(* (FlattenSeq of SequencesExt), and a sequence whose members are each     *)
(* replaced by a sequence of their own (Spread).                           *)
(*                                                                         *)
(* TLA+ defines a recursive function as a CHOOSE among the functions that  *)
(* satisfy its equation: each part shows that there is one, and that the   *)
(* equation determines it.  Every induction is made on a smallest set      *)
(* (SmallestSet).                                                          *)
(***************************************************************************)
EXTENDS Integers, SequencesExt, SequenceTheorems, FiniteSetTheorems, TLAPS

(* A set of subsets of a finite set has a smallest member: the induction   *)
(* of this module.                                                         *)
LEMMA SmallestSet ==
    ASSUME NEW S, IsFiniteSet(S), NEW T, T \subseteq SUBSET S, T # {}
    PROVE  \E s \in T : \A u \in T : u \subseteq s => u = s
<1>1. IsWellFoundedOn(StrictSubsetOrdering(S), FiniteSubsetsOf(S))
  BY FS_StrictSubsetOrderingWellFounded
<1>2. T \subseteq FiniteSubsetsOf(S)
  BY FS_FiniteSubsetsOfFinite
<1>3. \E s \in T : \A u \in T : ~ (<<u, s>> \in StrictSubsetOrdering(S))
  BY <1>1, <1>2, WFMin
<1> QED  BY <1>3 DEF StrictSubsetOrdering

(* The element the recursion takes first, and its equation.                *)
Chosen(s) == CHOOSE x \in s : TRUE
IsSum(g, f, S) ==
    g = [s \in SUBSET S |-> IF s = {} THEN 0 ELSE f[Chosen(s)] + g[s \ {Chosen(s)}]]

(* The equation, one step of it at a time.                                 *)
LEMMA SumUnfolds ==
    ASSUME NEW S, NEW f, NEW g, IsSum(g, f, S), NEW s, s \subseteq S
    PROVE  /\ s = {} => g[s] = 0
           /\ s # {} => g[s] = f[Chosen(s)] + g[s \ {Chosen(s)}]
BY DEF IsSum

(* Two such functions agree on the sets they share, if they add the same.  *)
LEMMA SumUnique ==
    ASSUME NEW S, IsFiniteSet(S), NEW T, T \subseteq S, NEW f, NEW e,
           \A x \in T : e[x] = f[x],
           NEW g, IsSum(g, f, S), NEW h, IsSum(h, e, T)
    PROVE  \A s \in SUBSET T : g[s] = h[s]
<1> DEFINE Bad == {s \in SUBSET T : g[s] # h[s]}
<1>1. SUFFICES ASSUME Bad # {} PROVE FALSE
  OBVIOUS
<1>2. PICK s \in Bad : \A u \in Bad : u \subseteq s => u = s
  <2>1. Bad \subseteq SUBSET S
    OBVIOUS
  <2> HIDE DEF Bad
  <2> QED  BY <1>1, <2>1, SmallestSet
<1>3. s # {}
  BY <1>2 DEF IsSum
<1>4. Chosen(s) \in s
  BY <1>3 DEF Chosen
<1>5. g[s \ {Chosen(s)}] = h[s \ {Chosen(s)}]
  BY <1>2, <1>4
<1>6. g[s] = f[Chosen(s)] + g[s \ {Chosen(s)}]
  BY <1>2, <1>3 DEF IsSum
<1>7. h[s] = e[Chosen(s)] + h[s \ {Chosen(s)}]
  BY <1>2, <1>3 DEF IsSum
<1>8. e[Chosen(s)] = f[Chosen(s)]
  BY <1>2, <1>4
<1> QED  BY <1>2, <1>5, <1>6, <1>7, <1>8

(* Some function satisfies the equation.                                   *)
LEMMA SumExists ==
    ASSUME NEW S, IsFiniteSet(S), NEW f
    PROVE  \E g : IsSum(g, f, S)
<1> DEFINE Bad == {T \in SUBSET S : ~ \E g : IsSum(g, f, T)}
<1>1. SUFFICES ASSUME Bad # {} PROVE FALSE
  OBVIOUS
<1>2. PICK T \in Bad : \A u \in Bad : u \subseteq T => u = T
  <2>1. Bad \subseteq SUBSET S
    OBVIOUS
  <2> HIDE DEF Bad
  <2> QED  BY <1>1, <2>1, SmallestSet
<1> DEFINE G(u) == CHOOSE g : IsSum(g, f, u)
           Rest(s) == s \ {Chosen(s)}
           h == [s \in SUBSET T |-> IF s = {} THEN 0 ELSE f[Chosen(s)] + G(Rest(s))[Rest(s)]]
<1>3. ASSUME NEW s \in SUBSET T, s # {} PROVE Rest(s) \subseteq T /\ Rest(s) # T
  <2>1. Chosen(s) \in s
    BY <1>3 DEF Chosen
  <2> QED  BY <2>1
<1>4. ASSUME NEW u \in SUBSET T, u # T PROVE IsSum(G(u), f, u)
  <2>1. u \notin Bad
    BY <1>2, <1>4
  <2>2. \E g : IsSum(g, f, u)
    BY <2>1, <1>2
  <2> QED  BY <2>2
<1>f. \A u \in SUBSET T : IsFiniteSet(u)
  BY FS_Subset, <1>2
<1>5. ASSUME NEW u \in SUBSET T, u # T PROVE h[u] = G(u)[u]
  <2>1. CASE u = {}
    <3>1. G(u)[u] = 0
      <4> HIDE DEF G
      <4> QED  BY <1>4, <1>5, <2>1, SumUnfolds
    <3> QED  BY <2>1, <3>1
  <2>2. CASE u # {}
    <3>1. IsSum(G(u), f, u) /\ IsSum(G(Rest(u)), f, Rest(u))
      BY <1>3, <1>4, <1>5, <2>2
    <3>2. G(u)[u] = f[Chosen(u)] + G(u)[Rest(u)]
      <4>1. u \subseteq u
        OBVIOUS
      <4> HIDE DEF G, h, Bad
      <4>2. IsSum(G(u), f, u)
        BY <3>1
      <4> QED  BY <2>2, <4>1, <4>2, SumUnfolds
    <3>3. G(u)[Rest(u)] = G(Rest(u))[Rest(u)]
      <4> HIDE DEF G
      <4> QED  BY <1>f, <3>1, SumUnique
    <3> HIDE DEF G
    <3> QED  BY <2>2, <3>2, <3>3
  <2> QED  BY <2>1, <2>2
<1>6. IsSum(h, f, T)
  <2>1. ASSUME NEW s \in SUBSET T, s # {} PROVE h[Rest(s)] = G(Rest(s))[Rest(s)]
    <3> HIDE DEF h, G
    <3> QED  BY <1>3, <1>5, <2>1
  <2> DEFINE k == [s \in SUBSET T |-> IF s = {} THEN 0 ELSE f[Chosen(s)] + h[Rest(s)]]
  <2>2. \A s \in SUBSET T : h[s] = k[s]
    <3>1. \A s \in SUBSET T : s # {} => h[s] = f[Chosen(s)] + G(Rest(s))[Rest(s)]
      <4> HIDE DEF G
      <4> QED  OBVIOUS
    <3>2. \A s \in SUBSET T : s # {} => h[s] = f[Chosen(s)] + h[Rest(s)]
      BY <2>1, <3>1
    <3>3. {} \in SUBSET T => h[{}] = 0
      OBVIOUS
    <3> HIDE DEF h, Rest
    <3> QED  BY <3>2, <3>3
  <2>3. DOMAIN h = SUBSET T /\ DOMAIN k = SUBSET T /\ h = [s \in SUBSET T |-> h[s]] /\ k = [s \in SUBSET T |-> k[s]]
    OBVIOUS
  <2>4. h = k
    <3> HIDE DEF h, k
    <3> QED  BY <2>2, <2>3
  <2> QED  BY <2>4 DEF IsSum
<1> QED  BY <1>2, <1>6

(* The sum is what any function that satisfies the equation says.          *)
LEMMA SumIs ==
    ASSUME NEW S, IsFiniteSet(S), NEW f, NEW g, IsSum(g, f, S)
    PROVE  SumFunctionOnSet(f, S) = g[S]
<1> DEFINE h == CHOOSE x : IsSum(x, f, S)
<1>1. IsSum(h, f, S)
  OBVIOUS
<1>2. SumFunctionOnSet(f, S) = h[S]
  BY DEF SumFunctionOnSet, FoldFunctionOnSet, MapThenFoldSet, IsSum, Chosen
<1> HIDE DEF h
<1> QED  BY <1>1, <1>2, SumUnique

(* The order of the terms does not matter.                                 *)
LEMMA SumAnyOrder ==
    ASSUME NEW S, IsFiniteSet(S), NEW f, \A x \in S : f[x] \in Int, NEW g, IsSum(g, f, S)
    PROVE  \A s \in SUBSET S : g[s] \in Int /\ \A x \in s : g[s] = f[x] + g[s \ {x}]
<1> DEFINE Good(s) == g[s] \in Int /\ \A x \in s : g[s] = f[x] + g[s \ {x}]
           Bad == {s \in SUBSET S : ~Good(s)}
<1>1. SUFFICES ASSUME Bad # {} PROVE FALSE
  OBVIOUS
<1>2. PICK s \in Bad : \A u \in Bad : u \subseteq s => u = s
  <2>1. Bad \subseteq SUBSET S
    OBVIOUS
  <2> HIDE DEF Bad
  <2> QED  BY <1>1, <2>1, SmallestSet
<1>3. s # {}
  BY <1>2 DEF IsSum
<1> DEFINE c == Chosen(s)
<1>4. c \in s /\ f[c] \in Int
  BY <1>2, <1>3 DEF Chosen
<1>5. \A x \in s : Good(s \ {x})
  <2>1. \A x \in s : s \ {x} \in SUBSET S /\ s \ {x} \notin Bad
    BY <1>2
  <2> QED  BY <2>1
<1>6. g[s] = f[c] + g[s \ {c}]
  BY <1>2, <1>3 DEF IsSum
<1> HIDE DEF c
<1>7. g[s] \in Int
  <2>1. g[s \ {c}] \in Int
    BY <1>4, <1>5
  <2> QED  BY <1>4, <1>6, <2>1
<1>8. ASSUME NEW x \in s, x # c PROVE g[s] = f[x] + g[s \ {x}]
  <2>1. g[s \ {c}] = f[x] + g[(s \ {c}) \ {x}]
    BY <1>4, <1>5, <1>8
  <2>2. g[s \ {x}] = f[c] + g[(s \ {x}) \ {c}]
    BY <1>4, <1>5, <1>8
  <2>3. (s \ {c}) \ {x} = (s \ {x}) \ {c}
    OBVIOUS
  <2>4. s \ {c} # s /\ s \ {c} \in SUBSET S /\ s \ {c} \notin Bad
    BY <1>2, <1>4
  <2>5. (s \ {c}) \ {x} \in SUBSET S /\ (s \ {c}) \ {x} \notin Bad
    BY <1>2, <1>4
  <2>6. f[x] \in Int /\ g[(s \ {c}) \ {x}] \in Int
    BY <1>2, <2>5
  <2>7. \A a, b, d \in Int : a + (b + d) = b + (a + d)
    OBVIOUS
  <2>8. f[c] + (f[x] + g[(s \ {c}) \ {x}]) = f[x] + (f[c] + g[(s \ {c}) \ {x}])
    BY <1>4, <2>6, <2>7
  <2> QED  BY <1>6, <2>1, <2>2, <2>3, <2>8
<1> QED  BY <1>2, <1>6, <1>7, <1>8

(* No terms add up to zero.                                                *)
LEMMA SumEmpty == ASSUME NEW f PROVE SumFunctionOnSet(f, {}) = 0
<1>1. IsFiniteSet({})
  BY FS_EmptySet
<1>2. PICK g : IsSum(g, f, {})
  BY <1>1, SumExists
<1>3. SumFunctionOnSet(f, {}) = g[{}]
  BY <1>1, <1>2, SumIs
<1>4. g[{}] = 0
  BY <1>2, SumUnfolds
<1> QED  BY <1>3, <1>4

(* The sum is any of its terms and the sum of the others.                  *)
LEMMA SumOfRest ==
    ASSUME NEW S, IsFiniteSet(S), NEW f, \A x \in S : f[x] \in Int
    PROVE  /\ SumFunctionOnSet(f, S) \in Int
           /\ \A x \in S : SumFunctionOnSet(f, S) = f[x] + SumFunctionOnSet(f, S \ {x})
<1>1. PICK g : IsSum(g, f, S)
  BY SumExists
<1>2. SumFunctionOnSet(f, S) = g[S]
  BY <1>1, SumIs
<1>3. ASSUME NEW x \in S PROVE SumFunctionOnSet(f, S \ {x}) = g[S \ {x}]
  <2>1. IsFiniteSet(S \ {x}) /\ S \ {x} \subseteq S
    BY FS_RemoveElement
  <2>2. PICK h : IsSum(h, f, S \ {x})
    BY <2>1, SumExists
  <2>3. SumFunctionOnSet(f, S \ {x}) = h[S \ {x}]
    BY <2>1, <2>2, SumIs
  <2> QED  BY <1>1, <2>1, <2>2, <2>3, SumUnique
<1>4. g[S] \in Int /\ \A x \in S : g[S] = f[x] + g[S \ {x}]
  <2>1. \A s \in SUBSET S : g[s] \in Int /\ \A x \in s : g[s] = f[x] + g[s \ {x}]
    BY <1>1, SumAnyOrder
  <2>2. S \in SUBSET S
    OBVIOUS
  <2> HIDE <1>1
  <2> QED  BY <2>1, <2>2
<1> QED  BY <1>2, <1>3, <1>4

(* The sum depends on the terms only.                                      *)
LEMMA SumOfSame ==
    ASSUME NEW S, IsFiniteSet(S), NEW f, NEW e, \A x \in S : e[x] = f[x]
    PROVE  SumFunctionOnSet(f, S) = SumFunctionOnSet(e, S)
<1>1. PICK g : IsSum(g, f, S)
  BY SumExists
<1>2. PICK h : IsSum(h, e, S)
  BY SumExists
<1> QED  BY <1>1, <1>2, SumIs, SumUnique

(* The smallest of the subsets that would break a claim about sums breaks  *)
(* it not without one of its elements.                                     *)
LEMMA SubsetInduction ==
    ASSUME NEW S, IsFiniteSet(S), NEW Good, {} \in Good,
           \A s \in SUBSET S : \A x \in S \ s : s \in Good => s \cup {x} \in Good
    PROVE  S \in Good
<1> DEFINE Bad == {s \in SUBSET S : s \notin Good}
<1>1. SUFFICES ASSUME Bad # {} PROVE FALSE
  OBVIOUS
<1>2. PICK s \in Bad : \A u \in Bad : u \subseteq s => u = s
  <2>1. Bad \subseteq SUBSET S
    OBVIOUS
  <2> HIDE DEF Bad
  <2> QED  BY <1>1, <2>1, SmallestSet
<1>3. PICK x \in s : TRUE
  BY <1>2
<1>4. s \ {x} \in SUBSET S /\ x \in S \ (s \ {x}) /\ s = (s \ {x}) \cup {x}
  BY <1>2, <1>3
<1>5. s \ {x} \in Good
  BY <1>2, <1>3
<1> QED  BY <1>2, <1>4, <1>5

(* One term more.                                                          *)
LEMMA SumOfMore ==
    ASSUME NEW S, IsFiniteSet(S), NEW x, x \notin S, NEW f, \A y \in S \cup {x} : f[y] \in Int
    PROVE  SumFunctionOnSet(f, S \cup {x}) = SumFunctionOnSet(f, S) + f[x]
<1>1. IsFiniteSet(S \cup {x})
  BY FS_AddElement
<1>2. SumFunctionOnSet(f, S \cup {x}) = f[x] + SumFunctionOnSet(f, (S \cup {x}) \ {x})
  BY <1>1, SumOfRest
<1>3. (S \cup {x}) \ {x} = S
  OBVIOUS
<1>4. SumFunctionOnSet(f, S) \in Int /\ f[x] \in Int
  BY SumOfRest
<1>5. SumFunctionOnSet(f, S \cup {x}) = f[x] + SumFunctionOnSet(f, S)
  BY <1>2, <1>3
<1>6. \A a, b \in Int : a + b = b + a
  OBVIOUS
<1> QED  BY <1>4, <1>5, <1>6

(* The terms of two disjoint sets.                                         *)
LEMMA SumOfUnion ==
    ASSUME NEW S, IsFiniteSet(S), NEW T, IsFiniteSet(T), S \cap T = {},
           NEW f, \A x \in S \cup T : f[x] \in Int
    PROVE  SumFunctionOnSet(f, S \cup T) = SumFunctionOnSet(f, S) + SumFunctionOnSet(f, T)
<1> DEFINE Good == {t \in SUBSET T : SumFunctionOnSet(f, S \cup t)
                                       = SumFunctionOnSet(f, S) + SumFunctionOnSet(f, t)}
<1>0. SumFunctionOnSet(f, S) \in Int
  BY SumOfRest
<1>1. {} \in Good
  <2>1. S \cup {} = S
    OBVIOUS
  <2> QED  BY <1>0, <2>1, SumEmpty
<1>2. ASSUME NEW t \in SUBSET T, NEW x \in T \ t, t \in Good PROVE t \cup {x} \in Good
  <2>1. IsFiniteSet(t)
    BY FS_Subset
  <2>2. IsFiniteSet(S \cup t)
    BY <2>1, FS_Union
  <2>3. x \notin S \cup t /\ S \cup (t \cup {x}) = (S \cup t) \cup {x}
    OBVIOUS
  <2>4. SumFunctionOnSet(f, (S \cup t) \cup {x}) = SumFunctionOnSet(f, S \cup t) + f[x]
    BY <2>2, <2>3, SumOfMore
  <2>5. SumFunctionOnSet(f, t \cup {x}) = SumFunctionOnSet(f, t) + f[x]
    BY <2>1, SumOfMore
  <2>6. SumFunctionOnSet(f, t) \in Int /\ f[x] \in Int
    BY <2>1, SumOfRest
  <2>7. \A a, b, c \in Int : (a + b) + c = a + (b + c)
    OBVIOUS
  <2>8. SumFunctionOnSet(f, S \cup t) = SumFunctionOnSet(f, S) + SumFunctionOnSet(f, t)
    BY <1>2
  <2>9. SumFunctionOnSet(f, (S \cup t) \cup {x}) = SumFunctionOnSet(f, S) + SumFunctionOnSet(f, t \cup {x})
    BY <1>0, <2>4, <2>5, <2>6, <2>7, <2>8
  <2> QED  BY <1>2, <2>3, <2>9
<1>3. T \in Good
  <2> HIDE DEF Good
  <2> QED  BY <1>1, <1>2, SubsetInduction
<1> QED  BY <1>3

(* Counting along an injection.                                            *)
LEMMA SumAlong ==
    ASSUME NEW S, IsFiniteSet(S), NEW h, \A x, y \in S : h[x] = h[y] => x = y,
           NEW f, NEW e, \A x \in S : e[x] = f[h[x]] /\ e[x] \in Int
    PROVE  /\ IsFiniteSet({h[x] : x \in S})
           /\ SumFunctionOnSet(f, {h[x] : x \in S}) = SumFunctionOnSet(e, S)
<1> DEFINE Good == {s \in SUBSET S : /\ IsFiniteSet({h[x] : x \in s})
                                     /\ SumFunctionOnSet(f, {h[x] : x \in s}) = SumFunctionOnSet(e, s)}
<1>1. {} \in Good
  <2>1. {h[x] : x \in {}} = {}
    OBVIOUS
  <2> QED  BY <2>1, SumEmpty, FS_EmptySet
<1>2. ASSUME NEW s \in SUBSET S, NEW x \in S \ s, s \in Good PROVE s \cup {x} \in Good
  <2> DEFINE H == {h[y] : y \in s}
  <2>1. IsFiniteSet(s)
    BY FS_Subset
  <2>2. {h[y] : y \in s \cup {x}} = H \cup {h[x]}
    OBVIOUS
  <2>3. h[x] \notin H
    OBVIOUS
  <2>4. \A k \in H \cup {h[x]} : f[k] \in Int
    OBVIOUS
  <2>5. IsFiniteSet(H) /\ SumFunctionOnSet(f, H) = SumFunctionOnSet(e, s)
    BY <1>2
  <2>6. SumFunctionOnSet(e, s \cup {x}) = SumFunctionOnSet(e, s) + e[x]
    <3>1. x \notin s /\ \A y \in s \cup {x} : e[y] \in Int
      OBVIOUS
    <3> QED  BY <2>1, <3>1, SumOfMore
  <2> HIDE DEF H
  <2>7. SumFunctionOnSet(f, H \cup {h[x]}) = SumFunctionOnSet(f, H) + f[h[x]]
    BY <2>3, <2>4, <2>5, SumOfMore
  <2>8. IsFiniteSet(H \cup {h[x]})
    BY <2>5, FS_AddElement
  <2>9. SumFunctionOnSet(f, H \cup {h[x]}) = SumFunctionOnSet(e, s \cup {x})
    BY <2>5, <2>6, <2>7
  <2> QED  BY <2>2, <2>8, <2>9
<1>3. S \in Good
  <2> HIDE DEF Good
  <2> QED  BY <1>1, <1>2, SubsetInduction
<1> QED  BY <1>3

(* More terms, and larger ones, make no smaller sum.                       *)
LEMMA SumGrows ==
    ASSUME NEW S, IsFiniteSet(S), NEW f, NEW e,
           \A x \in S : f[x] \in Int /\ e[x] \in Int /\ f[x] <= e[x]
    PROVE  SumFunctionOnSet(f, S) <= SumFunctionOnSet(e, S)
<1> DEFINE Good == {s \in SUBSET S : SumFunctionOnSet(f, s) <= SumFunctionOnSet(e, s)}
<1>1. {} \in Good
  BY SumEmpty
<1>2. ASSUME NEW s \in SUBSET S, NEW x \in S \ s, s \in Good PROVE s \cup {x} \in Good
  <2>1. IsFiniteSet(s)
    BY FS_Subset
  <2>2. /\ SumFunctionOnSet(f, s \cup {x}) = SumFunctionOnSet(f, s) + f[x]
        /\ SumFunctionOnSet(e, s \cup {x}) = SumFunctionOnSet(e, s) + e[x]
    BY <2>1, SumOfMore
  <2>3. SumFunctionOnSet(f, s) \in Int /\ SumFunctionOnSet(e, s) \in Int
    BY <2>1, SumOfRest
  <2>4. SumFunctionOnSet(f, s) <= SumFunctionOnSet(e, s) /\ f[x] <= e[x] /\ f[x] \in Int /\ e[x] \in Int
    BY <1>2
  <2>5. SumFunctionOnSet(f, s \cup {x}) <= SumFunctionOnSet(e, s \cup {x})
    BY <2>2, <2>3, <2>4
  <2> QED  BY <2>5
<1>3. S \in Good
  <2> HIDE DEF Good
  <2> QED  BY <1>1, <1>2, SubsetInduction
<1> QED  BY <1>3

(* One term raised by one.                                                 *)
LEMMA SumRaised ==
    ASSUME NEW S, IsFiniteSet(S), NEW f, \A y \in S : f[y] \in Int, NEW x \in S,
           NEW e, e[x] = f[x] + 1, \A y \in S : y # x => e[y] = f[y]
    PROVE  SumFunctionOnSet(e, S) = SumFunctionOnSet(f, S) + 1
<1>1. \A y \in S : e[y] \in Int
  OBVIOUS
<1>2. /\ SumFunctionOnSet(f, S) = f[x] + SumFunctionOnSet(f, S \ {x})
      /\ SumFunctionOnSet(e, S) = e[x] + SumFunctionOnSet(e, S \ {x})
  BY <1>1, SumOfRest
<1>3. IsFiniteSet(S \ {x})
  BY FS_RemoveElement
<1>4. SumFunctionOnSet(f, S \ {x}) = SumFunctionOnSet(e, S \ {x})
  BY <1>3, SumOfSame
<1>5. SumFunctionOnSet(f, S \ {x}) \in Int
  BY <1>3, SumOfRest
<1>6. f[x] \in Int
  OBVIOUS
<1> QED  BY <1>2, <1>4, <1>5, <1>6

(* Zeros add up to zero.                                                   *)
LEMMA SumZero ==
    ASSUME NEW S, IsFiniteSet(S), NEW f, \A x \in S : f[x] = 0
    PROVE  SumFunctionOnSet(f, S) = 0
<1> DEFINE Good == {s \in SUBSET S : SumFunctionOnSet(f, s) = 0}
<1>1. {} \in Good
  BY SumEmpty
<1>2. ASSUME NEW s \in SUBSET S, NEW x \in S \ s, s \in Good PROVE s \cup {x} \in Good
  <2>1. IsFiniteSet(s)
    BY FS_Subset
  <2>2. x \notin s /\ \A y \in s \cup {x} : f[y] \in Int
    OBVIOUS
  <2>3. SumFunctionOnSet(f, s \cup {x}) = SumFunctionOnSet(f, s) + f[x]
    BY <2>1, <2>2, SumOfMore
  <2>4. SumFunctionOnSet(f, s) = 0 /\ f[x] = 0
    BY <1>2
  <2>5. SumFunctionOnSet(f, s \cup {x}) = 0
    BY <2>3, <2>4
  <2> QED  BY <2>5
<1>3. S \in Good
  <2> HIDE DEF Good
  <2> QED  BY <1>1, <1>2, SubsetInduction
<1> QED  BY <1>3

(* Some member of a bounded set of integers is the least.                  *)
LEMMA LeastMember ==
    ASSUME NEW lo \in Int, NEW hi \in Int, NEW E, E \subseteq lo .. hi, E # {}
    PROVE  \E j \in E : \A k \in E : j <= k
<1> DEFINE N == lo .. hi
           T == {lo .. j : j \in E}
<1>1. IsFiniteSet(N)
  <2>1. \A a, b \in Int : IsFiniteSet(a .. b)
    BY FS_Interval
  <2> QED  BY <2>1
<1>2. T \subseteq SUBSET N /\ T # {}
  <2>1. \A j \in E : j \in lo .. hi
    OBVIOUS
  <2>2. \A j \in lo .. hi : lo .. j \in SUBSET N
    OBVIOUS
  <2>3. T # {}
    OBVIOUS
  <2> HIDE DEF N
  <2> QED  BY <2>1, <2>2, <2>3
<1>3. PICK s \in T : \A u \in T : u \subseteq s => u = s
  <2> HIDE DEF T, N
  <2>1. \E s \in T : \A u \in T : u \subseteq s => u = s
    BY <1>1, <1>2, SmallestSet
  <2> QED  BY <2>1
<1>4. PICK j \in E : s = lo .. j
  BY <1>3
<1>5. ASSUME NEW k \in E PROVE j <= k
  <2>1. SUFFICES ASSUME k < j PROVE FALSE
    OBVIOUS
  <2>2. lo .. k \subseteq s
    BY <1>4, <2>1
  <2>3. lo .. k = s
    BY <1>3, <2>2
  <2>4. j \in s /\ j \notin lo .. k
    BY <1>4, <2>1
  <2> QED  BY <2>3, <2>4
<1> QED  BY <1>5

-----------------------------------------------------------------------------
(* Values carried from step to step.                                       *)

(* Induction up to n.                                                      *)
LEMMA UpwardInduction ==
    ASSUME NEW n \in Nat, NEW Good, 0 \in Good,
           \A d \in 0 .. n - 1 : d \in Good => d + 1 \in Good
    PROVE  \A d \in 0 .. n : d \in Good
<1> DEFINE Bad == {0 .. d : d \in {c \in 0 .. n : c \notin Good}}
<1>1. SUFFICES ASSUME Bad # {} PROVE FALSE
  OBVIOUS
<1>2. PICK s \in Bad : \A u \in Bad : u \subseteq s => u = s
  <2>1. Bad \subseteq SUBSET (0 .. n)
    OBVIOUS
  <2>2. IsFiniteSet(0 .. n)
    <3>1. \A a, b \in Int : IsFiniteSet(a .. b)
      BY FS_Interval
    <3> QED  BY <3>1
  <2> DEFINE N == 0 .. n
  <2>3. Bad \subseteq SUBSET N /\ IsFiniteSet(N)
    BY <2>1, <2>2
  <2> HIDE DEF Bad, N
  <2> QED  BY <1>1, <2>3, SmallestSet
<1>3. PICK d \in 0 .. n : s = 0 .. d /\ d \notin Good
  BY <1>2
<1>4. d # 0 /\ d - 1 \in 0 .. n - 1
  BY <1>3
<1>5. d - 1 \notin Good
  <2>1. d - 1 \in Good => d - 1 + 1 \in Good
    BY <1>4
  <2>2. d - 1 + 1 = d
    OBVIOUS
  <2> QED  BY <1>3, <2>1, <2>2
<1>6. 0 .. d - 1 \in Bad
  BY <1>4, <1>5
<1>7. 0 .. d - 1 \subseteq s /\ d \in s /\ d \notin 0 .. d - 1
  BY <1>3, <1>4
<1> QED  BY <1>2, <1>6, <1>7

(* g is what step makes of a value and the number of the step, carried     *)
(* from base to the n-th step.                                             *)
IsCarried(g, base, step, n) == g[0] = base /\ \A m \in 1 .. n : g[m] = step[<<g[m - 1], m>>]

LEMMA CarriedExists ==
    ASSUME NEW n \in Nat, NEW X, NEW base \in X, NEW step \in [X \X (1 .. n) -> X]
    PROVE  \E g \in [0 .. n -> X] : IsCarried(g, base, step, n)
<1> DEFINE Good == {d \in 0 .. n : \E g \in [0 .. d -> X] :
                       g[0] = base /\ \A m \in 1 .. d : g[m] = step[<<g[m - 1], m>>]}
<1>1. 0 \in Good
  <2> DEFINE g == [m \in 0 .. 0 |-> base]
  <2>1. g \in [0 .. 0 -> X] /\ g[0] = base /\ 1 .. 0 = {} /\ 0 \in 0 .. n
    OBVIOUS
  <2> HIDE DEF g
  <2> QED  BY <2>1
<1>2. ASSUME NEW d \in 0 .. n - 1, d \in Good PROVE d + 1 \in Good
  <2>1. PICK g \in [0 .. d -> X] : g[0] = base /\ \A m \in 1 .. d : g[m] = step[<<g[m - 1], m>>]
    BY <1>2
  <2> DEFINE h == [m \in 0 .. d + 1 |-> IF m = d + 1 THEN step[<<g[d], d + 1>>] ELSE g[m]]
  <2>2. <<g[d], d + 1>> \in X \X (1 .. n)
    BY <2>1
  <2>3. step[<<g[d], d + 1>>] \in X
    BY <2>2
  <2>4. h \in [0 .. d + 1 -> X]
    BY <2>3
  <2>5. \A m \in 0 .. d : h[m] = g[m]
    OBVIOUS
  <2>6. h[d + 1] = step[<<g[d], d + 1>>]
    OBVIOUS
  <2>7. ASSUME NEW m \in 1 .. d + 1 PROVE h[m] = step[<<h[m - 1], m>>]
    <3>1. m - 1 \in 0 .. d /\ (m = d + 1 => m - 1 = d) /\ (m # d + 1 => m \in 1 .. d)
      OBVIOUS
    <3>2. h[m - 1] = g[m - 1]
      BY <2>5, <3>1
    <3> HIDE DEF h
    <3>3. CASE m = d + 1
      BY <2>6, <3>1, <3>2, <3>3
    <3>4. CASE m # d + 1
      BY <2>1, <2>5, <3>1, <3>2, <3>4
    <3> QED  BY <3>3, <3>4
  <2>8. h[0] = base
    BY <2>1, <2>5
  <2>9. d + 1 \in 0 .. n
    OBVIOUS
  <2> HIDE DEF h
  <2> QED  BY <2>4, <2>7, <2>8, <2>9
<1>3. n \in Good
  <2>1. \A d \in 0 .. n : d \in Good
    <3> HIDE DEF Good
    <3> QED  BY <1>1, <1>2, UpwardInduction
  <2> HIDE DEF Good
  <2> QED  BY <1>1, <2>1
<1> QED  BY <1>3 DEF IsCarried
(* Two values carried by the same steps are the same.                      *)

SameSteps(g, h, n) == g[0] = h[0] /\ \A m \in 1 .. n : g[m - 1] = h[m - 1] => g[m] = h[m]

LEMMA CarriedUnique ==
    ASSUME NEW n \in Nat, NEW g, NEW h, SameSteps(g, h, n)
    PROVE  \A m \in 0 .. n : g[m] = h[m]
<1> DEFINE Good == {m \in 0 .. n : g[m] = h[m]}
<1>1. 0 \in Good
  BY DEF SameSteps
<1>2. ASSUME NEW d \in 0 .. n - 1, d \in Good PROVE d + 1 \in Good
  <2>1. d + 1 \in 1 .. n /\ d + 1 \in 0 .. n /\ (d + 1) - 1 = d
    OBVIOUS
  <2>2. g[d] = h[d]
    BY <1>2
  <2>3. g[(d + 1) - 1] = h[(d + 1) - 1] => g[d + 1] = h[d + 1]
    BY <2>1 DEF SameSteps
  <2> QED  BY <2>1, <2>2, <2>3
<1>3. \A d \in 0 .. n : d \in Good
  <2> HIDE DEF Good
  <2> QED  BY <1>1, <1>2, UpwardInduction
<1> QED  BY <1>3

-----------------------------------------------------------------------------
(* Concatenation.                                                          *)

(* FlattenSeq puts one member after the other: g[m] is made of the first m.*)
Accumulates(g, q) == g[0] = <<>> /\ \A m \in 1 .. Len(q) : g[m] = g[m - 1] \o q[m]

LEMMA FlattenCarries ==
    ASSUME NEW S, NEW q \in Seq(Seq(S))
    PROVE  \E g \in [0 .. Len(q) -> Seq(S)] : Accumulates(g, q) /\ FlattenSeq(q) = g[Len(q)]
<1> DEFINE n == Len(q)
           X == Seq(S)
           step == [p \in X \X (1 .. n) |-> p[1] \o q[p[2]]]
<1>0. n \in Nat /\ <<>> \in X /\ \A m \in 1 .. n : q[m] \in X
  OBVIOUS
<1>1. step \in [X \X (1 .. n) -> X]
  <2>1. \A x \in X, m \in 1 .. n : x \o q[m] \in X
    BY <1>0
  <2> QED  BY <2>1
<1>2. PICK g \in [0 .. n -> X] : IsCarried(g, <<>>, step, n)
  <2> HIDE DEF n, X, step
  <2> QED  BY <1>0, <1>1, CarriedExists
<1>3. ASSUME NEW m \in 1 .. n PROVE g[m] = g[m - 1] \o q[m]
  <2>1. m - 1 \in 0 .. n
    BY <1>0
  <2>2. g[m - 1] \in X
    BY <2>1
  <2>3. step[<<g[m - 1], m>>] = g[m - 1] \o q[m]
    BY <2>2
  <2> HIDE DEF step
  <2> QED  BY <1>2, <2>3 DEF IsCarried
<1>a. g[0] = <<>>
  BY <1>2 DEF IsCarried
<1>b. Accumulates(g, q)
  BY <1>3, <1>a DEF Accumulates
<1>4. CASE n = 0
  <2>1. q = <<>>
    BY <1>4
  <2>2. FlattenSeq(q) = q
    BY <1>4 DEF FlattenSeq
  <2> QED  BY <1>a, <1>b, <1>4, <2>1, <2>2
<1>5. CASE n # 0
  <2> DEFINE Equation(f) == f = [i \in 1 .. n |-> IF i = 1 THEN q[i] ELSE f[i - 1] \o q[i]]
             one == [i \in 1 .. n |-> g[i]]
             flatten == CHOOSE f : Equation(f)
  <2>1. FlattenSeq(q) = flatten[n]
    BY <1>5 DEF FlattenSeq
  <2>2. Equation(one)
    <3>1. ASSUME NEW i \in 1 .. n PROVE one[i] = IF i = 1 THEN q[i] ELSE one[i - 1] \o q[i]
      <4>1. CASE i = 1
        <5>1. g[1] = <<>> \o q[1]
          <6>1. 1 \in 1 .. n /\ 1 - 1 = 0
            BY <4>1
          <6>2. g[1] = g[1 - 1] \o q[1]
            BY <1>3, <6>1
          <6> QED  BY <1>a, <6>1, <6>2
        <5>2. q[1] \in Seq(S)
          BY <1>0, <4>1
        <5>3. <<>> \o q[1] = q[1]
          BY <5>2, ConcatEmptySeq
        <5> QED  BY <4>1, <5>1, <5>3
      <4>2. CASE i # 1
        <5>1. i - 1 \in 1 .. n
          BY <4>2
        <5>2. one[i] = g[i] /\ one[i - 1] = g[i - 1]
          BY <5>1
        <5> QED  BY <1>3, <4>2, <5>2
      <4> QED  BY <4>1, <4>2
    <3> DEFINE two == [i \in 1 .. n |-> IF i = 1 THEN q[i] ELSE one[i - 1] \o q[i]]
    <3>2. \A i \in 1 .. n : one[i] = two[i]
      <4> HIDE DEF one
      <4> QED  BY <3>1
    <3>3. DOMAIN one = 1 .. n /\ DOMAIN two = 1 .. n /\ one = [i \in 1 .. n |-> one[i]] /\ two = [i \in 1 .. n |-> two[i]]
      OBVIOUS
    <3>4. one = two
      <4> HIDE DEF one, two, n
      <4> QED  BY <3>2, <3>3
    <3> QED  BY <3>4
  <2>3. Equation(flatten)
    <3> HIDE DEF Equation, one
    <3> QED  BY <2>2
  <2> HIDE DEF flatten
  <2>4. \A i \in 1 .. n : flatten[i] = IF i = 1 THEN q[i] ELSE flatten[i - 1] \o q[i]
    BY <2>3
  <2> DEFINE all == [m \in 0 .. n |-> IF m = 0 THEN <<>> ELSE flatten[m]]
  <2>5. ASSUME NEW m \in 1 .. n, all[m - 1] = g[m - 1] PROVE all[m] = g[m]
    <3>1. all[m] = flatten[m]
      OBVIOUS
    <3>2. CASE m = 1
      <4>0. g[m] = g[m - 1] \o q[m]
        BY <1>3
      <4>1. g[m - 1] = <<>>
        <5>1. m - 1 = 0
          BY <3>2
        <5> QED  BY <1>a, <5>1
      <4>2. <<>> \o q[m] = q[m]
        <5>1. q[m] \in Seq(S)
          BY <1>0
        <5> QED  BY <5>1, ConcatEmptySeq
      <4>3. flatten[m] = q[m]
        BY <2>4, <3>2
      <4> HIDE DEF all
      <4> QED  BY <3>1, <4>0, <4>1, <4>2, <4>3
    <3>3. CASE m # 1
      <4>1. all[m - 1] = flatten[m - 1]
        BY <3>3
      <4>2. flatten[m] = flatten[m - 1] \o q[m]
        BY <2>4, <3>3
      <4>3. g[m] = g[m - 1] \o q[m]
        BY <1>3
      <4> HIDE DEF all
      <4> QED  BY <2>5, <3>1, <4>1, <4>2, <4>3
    <3> QED  BY <3>2, <3>3
  <2>6. all[0] = g[0]
    BY <1>0, <1>a
  <2>7. \A m \in 0 .. n : all[m] = g[m]
    <3> HIDE DEF all, n
    <3>1. SameSteps(all, g, n)
      BY <2>5, <2>6 DEF SameSteps
    <3> QED  BY <1>0, <3>1, CarriedUnique
  <2>8. all[n] = flatten[n]
    BY <1>0, <1>5
  <2>9. flatten[n] = g[n]
    <3> HIDE DEF all
    <3> QED  BY <1>0, <2>7, <2>8
  <2> QED  BY <1>b, <2>1, <2>9
<1> QED  BY <1>4, <1>5

LEMMA FlattenIs ==
    ASSUME NEW S, NEW q \in Seq(Seq(S)), NEW h, Accumulates(h, q)
    PROVE  FlattenSeq(q) = h[Len(q)]
<1>1. PICK g \in [0 .. Len(q) -> Seq(S)] : Accumulates(g, q) /\ FlattenSeq(q) = g[Len(q)]
  BY FlattenCarries
<1>2. Len(q) \in Nat
  OBVIOUS
<1>3. SameSteps(g, h, Len(q))
  BY <1>1 DEF SameSteps, Accumulates
<1>4. \A m \in 0 .. Len(q) : g[m] = h[m]
  BY <1>2, <1>3, CarriedUnique
<1> QED  BY <1>1, <1>2, <1>4

LEMMA FlattenTyped ==
    ASSUME NEW S, NEW q \in Seq(Seq(S))
    PROVE  FlattenSeq(q) \in Seq(S)
<1>1. PICK g \in [0 .. Len(q) -> Seq(S)] : Accumulates(g, q) /\ FlattenSeq(q) = g[Len(q)]
  BY FlattenCarries
<1>2. Len(q) \in 0 .. Len(q)
  OBVIOUS
<1>3. g[Len(q)] \in Seq(S)
  BY <1>2
<1> QED  BY <1>1, <1>3

LEMMA FlattenEmpty == FlattenSeq(<<>>) = <<>>
BY DEF FlattenSeq

LEMMA FlattenAppend ==
    ASSUME NEW S, NEW q \in Seq(Seq(S)), NEW x \in Seq(S)
    PROVE  FlattenSeq(Append(q, x)) = FlattenSeq(q) \o x
<1>1. PICK g \in [0 .. Len(q) -> Seq(S)] : Accumulates(g, q) /\ FlattenSeq(q) = g[Len(q)]
  BY FlattenCarries
<1> DEFINE n == Len(q)
           r == Append(q, x)
           h == [m \in 0 .. n + 1 |-> IF m = n + 1 THEN g[n] \o x ELSE g[m]]
<1>2. /\ n \in Nat /\ r \in Seq(Seq(S)) /\ Len(r) = n + 1
      /\ r[n + 1] = x /\ \A m \in 1 .. n : r[m] = q[m]
  OBVIOUS
<1>3. h[0] = <<>>
  BY <1>1, <1>2 DEF Accumulates
<1>4. ASSUME NEW m \in 1 .. Len(r) PROVE h[m] = h[m - 1] \o r[m]
  <2>1. CASE m = n + 1
    <3>1. h[m] = g[n] \o x
      BY <1>2, <2>1
    <3>2. m - 1 = n /\ h[n] = g[n]
      BY <1>2, <2>1
    <3>3. r[m] = x
      BY <1>2, <2>1
    <3> HIDE DEF h, r
    <3> QED  BY <3>1, <3>2, <3>3
  <2>2. CASE m # n + 1
    <3>1. m \in 1 .. n
      BY <1>2, <2>2
    <3>2. h[m] = g[m] /\ h[m - 1] = g[m - 1]
      BY <1>2, <3>1
    <3>3. g[m] = g[m - 1] \o q[m]
      BY <1>1, <3>1 DEF Accumulates
    <3>4. r[m] = q[m]
      BY <1>2, <3>1
    <3> HIDE DEF h, r
    <3> QED  BY <3>2, <3>3, <3>4
  <2> QED  BY <2>1, <2>2
<1>5. Accumulates(h, r)
  <2> HIDE DEF h, r
  <2> QED  BY <1>3, <1>4 DEF Accumulates
<1>6. FlattenSeq(r) = h[Len(r)]
  <2> HIDE DEF h, r
  <2> QED  BY <1>2, <1>5, FlattenIs
<1>7. h[n + 1] = g[n] \o x
  BY <1>2
<1> HIDE DEF h
<1> QED  BY <1>1, <1>2, <1>6, <1>7

LEMMA FlattenOne ==
    ASSUME NEW S, NEW x \in Seq(S)
    PROVE  FlattenSeq(<<x>>) = x
<1>1. <<>> \in Seq(Seq(S)) /\ <<x>> = Append(<<>>, x)
  OBVIOUS
<1>2. FlattenSeq(Append(<<>>, x)) = FlattenSeq(<<>>) \o x
  BY <1>1, FlattenAppend
<1>3. <<>> \o x = x
  OBVIOUS
<1> QED  BY <1>1, <1>2, <1>3, FlattenEmpty

LEMMA Reassociate ==
    ASSUME NEW S
    PROVE  \A u, v, w \in Seq(S) : (u \o v) \o w = u \o (v \o w)
<1> TAKE u, v, w \in Seq(S)
<1> QED  BY ConcatAssociative

LEMMA ConcatAppend ==
    ASSUME NEW S, NEW s \in Seq(S), NEW t \in Seq(S), NEW x \in S
    PROVE  s \o Append(t, x) = Append(s \o t, x)
<1>1. <<x>> \in Seq(S) /\ s \o t \in Seq(S)
  OBVIOUS
<1>2. Append(t, x) = t \o <<x>> /\ Append(s \o t, x) = (s \o t) \o <<x>>
  BY <1>1, AppendIsConcat
<1> DEFINE w == <<x>>
<1>3. w \in Seq(S)
  BY <1>1
<1>4. (s \o t) \o w = s \o (t \o w)
  <2> HIDE DEF w
  <2> QED  BY <1>3, Reassociate
<1> QED  BY <1>2, <1>4

LEMMA FlattenConcat ==
    ASSUME NEW S, NEW p \in Seq(Seq(S)), NEW q \in Seq(Seq(S))
    PROVE  FlattenSeq(p \o q) = FlattenSeq(p) \o FlattenSeq(q)
<1> DEFINE P(d) == SubSeq(q, 1, d)
           Good == {d \in 0 .. Len(q) : FlattenSeq(p \o P(d)) = FlattenSeq(p) \o FlattenSeq(P(d))}
<1>0. Len(q) \in Nat /\ FlattenSeq(p) \in Seq(S)
  BY FlattenTyped
<1>1. 0 \in Good
  <2>1. P(0) = <<>> /\ p \o <<>> = p /\ 0 \in 0 .. Len(q)
    OBVIOUS
  <2>2. FlattenSeq(p) \o <<>> = FlattenSeq(p)
    BY <1>0
  <2> HIDE DEF P
  <2> QED  BY <2>1, <2>2, FlattenEmpty
<1>2. ASSUME NEW d \in 0 .. Len(q) - 1, d \in Good PROVE d + 1 \in Good
  <2> DEFINE x == q[d + 1]
  <2>1. x \in Seq(S)
    BY <1>0
  <2>2. P(d) \in Seq(Seq(S))
    BY <1>0
  <2>3. P(d + 1) = Append(P(d), x)
    BY <1>0
  <2>4. p \o P(d) \in Seq(Seq(S)) /\ p \o Append(P(d), x) = Append(p \o P(d), x)
    <3> HIDE DEF P, x
    <3>1. p \o P(d) \in Seq(Seq(S))
      BY <2>2
    <3>2. p \o Append(P(d), x) = Append(p \o P(d), x)
      BY <2>1, <2>2, ConcatAppend, SMTT(20)
    <3> QED  BY <3>1, <3>2
  <2>5. FlattenSeq(Append(P(d), x)) = FlattenSeq(P(d)) \o x
    <3> HIDE DEF P, x
    <3> QED  BY <2>1, <2>2, FlattenAppend
  <2>6. FlattenSeq(Append(p \o P(d), x)) = FlattenSeq(p \o P(d)) \o x
    <3> HIDE DEF P, x
    <3> QED  BY <2>1, <2>4, FlattenAppend
  <2>7. FlattenSeq(p \o P(d)) = FlattenSeq(p) \o FlattenSeq(P(d))
    BY <1>2
  <2>8. FlattenSeq(P(d)) \in Seq(S)
    <3> HIDE DEF P
    <3> QED  BY <2>2, FlattenTyped
  <2>9. (FlattenSeq(p) \o FlattenSeq(P(d))) \o x = FlattenSeq(p) \o (FlattenSeq(P(d)) \o x)
    <3> HIDE DEF P, x
    <3>1. \A u, v, w \in Seq(S) : (u \o v) \o w = u \o (v \o w)
      BY Reassociate, SMTT(20)
    <3> QED  BY <1>0, <2>1, <2>8, <3>1
  <2>10. d + 1 \in 0 .. Len(q)
    BY <1>0
  <2>11. FlattenSeq(p \o P(d + 1)) = FlattenSeq(p) \o FlattenSeq(P(d + 1))
    <3> HIDE DEF P, x
    <3> QED  BY <2>3, <2>4, <2>5, <2>6, <2>7, <2>9
  <2> HIDE DEF P
  <2> QED  BY <2>10, <2>11
<1>3. \A d \in 0 .. Len(q) : d \in Good
  <2> DEFINE n == Len(q)
  <2>1. n \in Nat /\ \A d \in 0 .. n - 1 : d \in Good => d + 1 \in Good
    BY <1>0, <1>2
  <2> HIDE DEF Good, n
  <2>2. \A d \in 0 .. n : d \in Good
    BY <1>1, <2>1, UpwardInduction
  <2> QED  BY <2>2 DEF n
<1>4. Len(q) \in 0 .. Len(q) /\ P(Len(q)) = q
  BY <1>0
<1> HIDE DEF P
<1> QED  BY <1>3, <1>4

(* Two sequences, put together and taken apart again.                      *)
IsJoin(r, a, b) ==
    /\ Len(r) = Len(a) + Len(b)
    /\ \A i \in 1 .. Len(a) : r[i] = a[i]
    /\ \A i \in 1 .. Len(b) : r[Len(a) + i] = b[i]

LEMMA PutTogether ==
    ASSUME NEW S, NEW a \in Seq(S), NEW b \in Seq(S)
    PROVE  a \o b \in Seq(S) /\ IsJoin(a \o b, a, b)
BY DEF IsJoin

LEMMA TakeApart ==
    ASSUME NEW S, NEW a \in Seq(S), NEW b \in Seq(S)
    PROVE  /\ SubSeq(a \o b, 1, Len(a)) = a
           /\ SubSeq(a \o b, Len(a) + 1, Len(a \o b)) = b
<1> DEFINE c == a \o b
           front == SubSeq(c, 1, Len(a))
           back == SubSeq(c, Len(a) + 1, Len(c))
<1>1. a \in Seq(S) /\ b \in Seq(S) /\ Len(a) \in Nat /\ Len(b) \in Nat
  OBVIOUS
<1>2. /\ c \in Seq(S) /\ Len(c) = Len(a) + Len(b)
      /\ \A i \in 1 .. Len(a) : c[i] = a[i]
      /\ \A i \in 1 .. Len(b) : c[Len(a) + i] = b[i]
  BY <1>1
<1> HIDE DEF c
<1>3. front \in Seq(S) /\ Len(front) = Len(a) /\ \A i \in 1 .. Len(a) : front[i] = c[i]
  BY <1>1, <1>2
<1>4. /\ back \in Seq(S) /\ Len(back) = Len(b)
      /\ \A i \in 1 .. Len(b) : back[i] = c[Len(a) + i]
  BY <1>1, <1>2
<1> HIDE DEF front, back
<1>5. front = a
  BY <1>1, <1>2, <1>3, SeqEqual
<1>6. back = b
  BY <1>1, <1>2, <1>4, SeqEqual
<1> QED  BY <1>5, <1>6 DEF front, back, c

LEMMA TakeMiddle ==
    ASSUME NEW S, NEW a \in Seq(S), NEW x \in Seq(S), NEW r \in Seq(S)
    PROVE  /\ SubSeq((a \o x) \o r, Len(a) + 1, Len(a) + Len(x)) = x
           /\ Len(a) + Len(x) <= Len((a \o x) \o r)
<1> DEFINE u == a \o x
           v == u \o r
           m == Len(a)
           n == Len(x)
           w == SubSeq(v, m + 1, m + n)
<1>1. u \in Seq(S) /\ IsJoin(u, a, x)
  BY PutTogether
<1> HIDE DEF u
<1>2. v \in Seq(S) /\ IsJoin(v, u, r)
  BY <1>1, PutTogether
<1> HIDE DEF v
<1>3. m \in Nat /\ n \in Nat /\ Len(r) \in Nat
  OBVIOUS
<1>4. Len(u) = m + n /\ Len(v) = m + n + Len(r)
  BY <1>1, <1>2 DEF IsJoin
<1>5. ASSUME NEW i \in 1 .. n PROVE v[m + i] = x[i]
  <2>1. m + i \in 1 .. Len(u)
    BY <1>3, <1>4
  <2>2. v[m + i] = u[m + i]
    BY <1>2, <2>1 DEF IsJoin
  <2>3. u[m + i] = x[i]
    BY <1>1 DEF IsJoin
  <2> QED  BY <2>2, <2>3
<1> HIDE DEF m, n
<1>6. w \in Seq(S) /\ Len(w) = n /\ \A i \in 1 .. n : w[i] = v[m + i]
  BY <1>2, <1>3, <1>4
<1> HIDE DEF w
<1>7. w = x
  <2>1. Len(x) = n
    BY DEF n
  <2> QED  BY <1>5, <1>6, <2>1, SeqEqual
<1>8. m + n <= Len(v)
  BY <1>3, <1>4
<1> QED  BY <1>7, <1>8 DEF w, v, u, m, n

-----------------------------------------------------------------------------
(* The members of a sequence, each replaced by a sequence of its own.      *)

Each(b, f) == [i \in DOMAIN b |-> f[b[i]]]
Spread(b, f) == FlattenSeq(Each(b, f))
IsEach(q, b, f) == Len(q) = Len(b) /\ \A i \in 1 .. Len(b) : q[i] = f[b[i]]
Vanish(b, f, from) == \A i \in from .. Len(b) : f[b[i]] = <<>>

LEMMA EachTyped ==
    ASSUME NEW S, NEW R, NEW f \in [S -> Seq(R)], NEW b \in Seq(S)
    PROVE  Each(b, f) \in Seq(Seq(R)) /\ IsEach(Each(b, f), b, f)
<1> DEFINE q == [i \in 1 .. Len(b) |-> f[b[i]]]
<1>1. Len(b) \in Nat /\ DOMAIN b = 1 .. Len(b) /\ \A i \in 1 .. Len(b) : b[i] \in S
  OBVIOUS
<1> DEFINE T == Seq(R)
<1> HIDE DEF T
<1>2. \A i \in 1 .. Len(b) : q[i] \in T
  BY <1>1 DEF T
<1>3. q \in Seq(T) /\ Len(q) = Len(b) /\ \A i \in 1 .. Len(b) : q[i] = f[b[i]]
  <2>1. q = [i \in 1 .. Len(b) |-> q[i]]
    OBVIOUS
  <2>2. \A i \in 1 .. Len(b) : q[i] = f[b[i]]
    OBVIOUS
  <2> HIDE DEF q
  <2> QED  BY <1>1, <1>2, <2>1, <2>2
<1>4. Each(b, f) = q
  BY <1>1 DEF Each
<1> HIDE DEF q
<1> QED  BY <1>3, <1>4 DEF T, IsEach

LEMMA SpreadTyped ==
    ASSUME NEW S, NEW R, NEW f \in [S -> Seq(R)], NEW b \in Seq(S)
    PROVE  Spread(b, f) \in Seq(R)
<1> DEFINE q == Each(b, f)
<1>1. q \in Seq(Seq(R))
  BY EachTyped
<1> HIDE DEF q
<1>2. FlattenSeq(q) \in Seq(R)
  BY <1>1, FlattenTyped
<1> QED  BY <1>2 DEF Spread, q

LEMMA SpreadFirst ==
    ASSUME NEW S, NEW R, NEW f \in [S -> Seq(R)], NEW b \in Seq(S), Len(b) # 0,
           Vanish(b, f, 2)
    PROVE  Spread(b, f) = f[b[1]]
<1> DEFINE q == Each(b, f)
           n == Len(b)
           x == f[b[1]]
           h == [m \in 0 .. n |-> IF m = 0 THEN <<>> ELSE x]
<1>1. n \in Nat \ {0} /\ b[1] \in S
  OBVIOUS
<1>2. q \in Seq(Seq(R)) /\ IsEach(q, b, f)
  BY EachTyped
<1>3. x \in Seq(R)
  BY <1>1
<1>4. Len(q) = n /\ q[1] = x /\ \A i \in 2 .. n : q[i] = <<>>
  <2> HIDE DEF q
  <2>1. \A i \in 2 .. n : i \in 1 .. n
    OBVIOUS
  <2> QED  BY <1>1, <1>2, <2>1 DEF IsEach, Vanish
<1> HIDE DEF q, n, x
<1>5. /\ h[0] = <<>> /\ h[n] = x /\ h[1] = x
      /\ \A m \in 2 .. n : h[m] = x /\ h[m - 1] = x
  BY <1>1
<1>6. x \o <<>> = x /\ <<>> \o x = x
  BY <1>3
<1> HIDE DEF h
<1>7. ASSUME NEW m \in 1 .. n PROVE h[m] = h[m - 1] \o q[m]
  <2>1. CASE m = 1
    <3>1. h[1] = x /\ h[1 - 1] = <<>> /\ q[1] = x
      BY <1>4, <1>5
    <3> QED  BY <1>6, <2>1, <3>1
  <2>2. CASE m # 1
    <3>1. m \in 2 .. n
      BY <1>1, <2>2
    <3>2. h[m] = x /\ h[m - 1] = x /\ q[m] = <<>>
      BY <1>4, <1>5, <3>1
    <3> QED  BY <1>6, <3>2
  <2> QED  BY <2>1, <2>2
<1>8. Accumulates(h, q)
  BY <1>4, <1>5, <1>7 DEF Accumulates
<1>9. FlattenSeq(q) = h[Len(q)]
  BY <1>2, <1>8, FlattenIs
<1> QED  BY <1>4, <1>5, <1>9 DEF Spread, q, x

LEMMA SpreadOne ==
    ASSUME NEW S, NEW R, NEW f \in [S -> Seq(R)], NEW x \in S
    PROVE  Spread(<<x>>, f) = f[x]
<1> DEFINE b == <<x>>
<1>1. b \in Seq(S) /\ Len(b) = 1 /\ b[1] = x
  OBVIOUS
<1> HIDE DEF b
<1>2. Vanish(b, f, 2) /\ Len(b) # 0
  BY <1>1 DEF Vanish
<1>3. Spread(b, f) = f[b[1]]
  BY <1>1, <1>2, SpreadFirst
<1> QED  BY <1>1, <1>3 DEF b

LEMMA SpreadNothing ==
    ASSUME NEW S, NEW R, NEW f \in [S -> Seq(R)], NEW b \in Seq(S),
           Vanish(b, f, 1)
    PROVE  Spread(b, f) = <<>>
<1> DEFINE q == Each(b, f)
<1>1. CASE Len(b) # 0
  <2>1. 1 \in 1 .. Len(b) /\ \A i \in 2 .. Len(b) : i \in 1 .. Len(b)
    BY <1>1
  <2>2. Vanish(b, f, 2) /\ f[b[1]] = <<>>
    BY <2>1 DEF Vanish
  <2> QED  BY <1>1, <2>2, SpreadFirst
<1>2. CASE Len(b) = 0
  <2>0. q \in Seq(Seq(R)) /\ IsEach(q, b, f)
    BY EachTyped
  <2> HIDE DEF q
  <2>1. q \in Seq(Seq(R)) /\ Len(q) = 0
    BY <1>2, <2>0 DEF IsEach
  <2>2. q = <<>>
    BY <2>1, EmptySeq
  <2> QED  BY <2>2, FlattenEmpty DEF Spread, q
<1> QED  BY <1>1, <1>2

LEMMA SpreadJoined ==
    ASSUME NEW S, NEW R, NEW f \in [S -> Seq(R)], NEW a \in Seq(S), NEW b \in Seq(S)
    PROVE  Spread(a \o b, f) = Spread(a, f) \o Spread(b, f)
<1> DEFINE T == Seq(R)
           m == Len(a)
           n == Len(b)
           c == a \o b
           p == Each(a, f)
           q == Each(b, f)
           r == Each(c, f)
           j == p \o q
<1>1. c \in Seq(S) /\ IsJoin(c, a, b)
  BY PutTogether
<1> HIDE DEF c
<1>2. m \in Nat /\ n \in Nat
  OBVIOUS
<1>0. /\ p \in Seq(T) /\ IsEach(p, a, f)
      /\ q \in Seq(T) /\ IsEach(q, b, f)
      /\ r \in Seq(T) /\ IsEach(r, c, f)
  BY <1>1, EachTyped
<1> HIDE DEF p, q, r, T
<1>3. /\ p \in Seq(T) /\ Len(p) = m /\ \A i \in 1 .. m : p[i] = f[a[i]]
      /\ q \in Seq(T) /\ Len(q) = n /\ \A i \in 1 .. n : q[i] = f[b[i]]
      /\ r \in Seq(T) /\ Len(r) = Len(c) /\ \A i \in 1 .. Len(c) : r[i] = f[c[i]]
  BY <1>0 DEF IsEach
<1>4. j \in Seq(T) /\ IsJoin(j, p, q)
  BY <1>3, PutTogether
<1> HIDE DEF j
<1>5. /\ Len(c) = m + n
      /\ \A i \in 1 .. m : c[i] = a[i]
      /\ \A i \in 1 .. n : c[m + i] = b[i]
  BY <1>1 DEF IsJoin
<1> HIDE DEF m, n
<1>6. /\ Len(j) = m + n
      /\ \A i \in 1 .. m : j[i] = p[i]
      /\ \A i \in 1 .. n : j[m + i] = q[i]
  BY <1>3, <1>4 DEF IsJoin
<1>7. ASSUME NEW k \in 1 .. m + n PROVE r[k] = j[k]
  <2>1. CASE k \in 1 .. m
    <3>1. r[k] = f[c[k]] /\ c[k] = a[k] /\ j[k] = p[k] /\ p[k] = f[a[k]]
      BY <1>3, <1>5, <1>6, <2>1
    <3> QED  BY <3>1
  <2>2. CASE k \notin 1 .. m
    <3>1. PICK i \in 1 .. n : k = m + i
      <4>1. k - m \in 1 .. n /\ k = m + (k - m)
        BY <1>2, <2>2
      <4> QED  BY <4>1
    <3>2. r[k] = f[b[i]]
      BY <1>3, <1>5, <3>1
    <3>3. j[k] = f[b[i]]
      BY <1>3, <1>6, <3>1
    <3> QED  BY <3>2, <3>3
  <2> QED  BY <2>1, <2>2
<1>8. r = j
  BY <1>3, <1>4, <1>5, <1>6, <1>7, SeqEqual
<1>9. FlattenSeq(p \o q) = FlattenSeq(p) \o FlattenSeq(q)
  BY <1>3, FlattenConcat DEF T
<1> QED  BY <1>8, <1>9 DEF Spread, c, p, q, r, j
=================================================================================
