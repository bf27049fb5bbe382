------------------------------ MODULE SumProofs ------------------------------
(* What the sum of a function over a finite set does, for the proofs of     *)
(* every component that counts contracts.  A statement about all subsets of *)
(* a finite set is proved from a smallest subset that violates it.          *)
EXTENDS Integers, Functions, FiniteSetTheorems, WellFoundedInduction, TLAPS

(* A set of subsets of a finite set has a smallest one. *)
LEMMA SmallestSubset ==
  ASSUME NEW S, IsFiniteSet(S), NEW Q \in SUBSET SUBSET S, Q # {}
  PROVE  \E T \in Q : \A U \in Q : U \subseteq T => U = T
  <1>. DEFINE R == StrictSubsetOrdering(S)
  <1>1. IsWellFoundedOn(R, SUBSET S)
    BY FS_StrictSubsetOrderingWellFounded, FS_FiniteSubsetsOfFinite
  <1>2. \E x \in Q : \A y \in Q : ~ (<<y, x>> \in R)
    <2>. HIDE DEF R
    <2>. QED BY <1>1, WFMin
  <1>. QED BY <1>2 DEF StrictSubsetOrdering

-----------------------------------------------------------------------------
(* The fold as a function on the subsets of a set.                          *)

Pick(s) == CHOOSE x \in s : TRUE
Rest(s) == s \ {Pick(s)}

FoldStep(f, g, s) == IF s = {} THEN 0 ELSE f[Pick(s)] + g[Rest(s)]
FoldOf(f, g, S) == g = [s \in SUBSET S |-> FoldStep(f, g, s)]

(* The element taken, and the set without it. *)
LEMMA PickIsIn == ASSUME NEW s, s # {} PROVE Pick(s) \in s
  BY DEF Pick

(* The rest of a set is a smaller set. *)
LEMMA RestIsLess ==
  ASSUME NEW s, s # {} PROVE Rest(s) \subseteq s /\ Rest(s) # s
  BY PickIsIn DEF Rest

(* Two folds of f agree wherever both are defined. *)
LEMMA FoldsAgree ==
  ASSUME NEW f, NEW g, NEW h, NEW A, NEW B, FoldOf(f, g, A), FoldOf(f, h, B),
         NEW C, IsFiniteSet(C), C \subseteq A, C \subseteq B
  PROVE  g[C] = h[C]
  <1>. DEFINE Bad == {s \in SUBSET C : g[s] # h[s]}
  <1>1. SUFFICES ASSUME Bad # {} PROVE FALSE
    OBVIOUS
  <1>2. PICK s \in Bad : \A u \in Bad : u \subseteq s => u = s
    <2>1. Bad \in SUBSET SUBSET C
      OBVIOUS
    <2>. HIDE DEF Bad
    <2>. QED BY <1>1, <2>1, SmallestSubset
  <1>3. g[s] = FoldStep(f, g, s) /\ h[s] = FoldStep(f, h, s)
    BY DEF FoldOf
  <1>4. CASE s = {}
    BY <1>3, <1>4 DEF FoldStep
  <1>5. CASE s # {}
    <2>1. Rest(s) \in SUBSET C /\ Rest(s) \notin Bad
      BY <1>2, <1>5, RestIsLess
    <2>. QED BY <1>3, <1>5, <2>1 DEF FoldStep
  <1>. QED BY <1>4, <1>5

(* A finite set has a fold. *)
LEMMA FoldExists ==
  ASSUME NEW f, NEW S, IsFiniteSet(S)
  PROVE  \E g : FoldOf(f, g, S)
  <1>. DEFINE Bad == {s \in SUBSET S : ~ \E g : FoldOf(f, g, s)}
  <1>1. SUFFICES ASSUME Bad # {} PROVE FALSE
    OBVIOUS
  <1>2. PICK T \in Bad : \A u \in Bad : u \subseteq T => u = T
    <2>1. Bad \in SUBSET SUBSET S
      OBVIOUS
    <2>. HIDE DEF Bad
    <2>. QED BY <1>1, <2>1, SmallestSubset
  <1>. DEFINE G(u) == CHOOSE g : FoldOf(f, g, u)
              Value(s) == IF s = {} THEN 0 ELSE f[Pick(s)] + G(Rest(s))[Rest(s)]
              h == [s \in SUBSET T |-> Value(s)]
  <1>3. \A u \in SUBSET T : u # T => FoldOf(f, G(u), u)
    BY <1>2
  <1>4. \A u \in SUBSET T : u # T => Value(u) = G(u)[u]
    <2>. SUFFICES ASSUME NEW u \in SUBSET T, u # T PROVE Value(u) = G(u)[u]
      OBVIOUS
    <2>1. G(u)[u] = FoldStep(f, G(u), u)
      <3>1. FoldOf(f, G(u), u) /\ u \in SUBSET u
        BY <1>3
      <3>. HIDE DEF G
      <3>. QED BY <3>1 DEF FoldOf
    <2>2. CASE u = {}
      BY <2>1, <2>2 DEF FoldStep
    <2>3. CASE u # {}
      <3>1. Rest(u) \in SUBSET T /\ Rest(u) # T /\ Rest(u) \subseteq u
        BY <2>3, RestIsLess
      <3>2. IsFiniteSet(Rest(u))
        BY <3>1, FS_Subset
      <3>3. G(Rest(u))[Rest(u)] = G(u)[Rest(u)]
        <4>1. FoldOf(f, G(u), u) /\ FoldOf(f, G(Rest(u)), Rest(u))
          BY <1>3, <3>1
        <4>. HIDE DEF G
        <4>. QED BY <4>1, <3>1, <3>2, FoldsAgree
      <3>. QED BY <2>1, <2>3, <3>3 DEF FoldStep
    <2>. QED BY <2>2, <2>3
  <1>5. \A s \in SUBSET T : h[s] = FoldStep(f, h, s)
    <2>. SUFFICES ASSUME NEW s \in SUBSET T PROVE h[s] = FoldStep(f, h, s)
      OBVIOUS
    <2>1. CASE s = {}
      BY <2>1 DEF FoldStep
    <2>2. CASE s # {}
      <3>1. Rest(s) \in SUBSET T /\ Rest(s) # T
        BY <2>2, RestIsLess
      <3>2. h[Rest(s)] = G(Rest(s))[Rest(s)]
        <4>1. h[Rest(s)] = Value(Rest(s))
          BY <3>1
        <4>. HIDE DEF Value
        <4>. QED BY <3>1, <4>1, <1>4
      <3>3. h[s] = f[Pick(s)] + G(Rest(s))[Rest(s)]
        BY <2>2
      <3>. HIDE DEF h, G
      <3>. QED BY <2>2, <3>2, <3>3 DEF FoldStep
    <2>. QED BY <2>1, <2>2
  <1>6. FoldOf(f, h, T)
    <2>1. h = [s \in SUBSET T |-> h[s]]
      OBVIOUS
    <2>. HIDE DEF h
    <2>. QED BY <1>5, <2>1 DEF FoldOf
  <1>. QED BY <1>2, <1>6

-----------------------------------------------------------------------------
(* The sum of a function over a set.                                        *)

(* The library's sum is the fold chosen by its definition. *)
LEMMA SumUnfolds ==
  ASSUME NEW f, NEW S
  PROVE  SumFunctionOnSet(f, S) = (CHOOSE g : FoldOf(f, g, S))[S]
  BY DEF SumFunctionOnSet, FoldFunctionOnSet, MapThenFoldSet, FoldOf, FoldStep,
         Pick, Rest

(* Any fold that covers a set gives its sum. *)
LEMMA SumIsFold ==
  ASSUME NEW f, NEW g, NEW A, FoldOf(f, g, A), NEW S, IsFiniteSet(S), S \subseteq A
  PROVE  SumFunctionOnSet(f, S) = g[S]
  <1>. DEFINE h == CHOOSE h : FoldOf(f, h, S)
  <1>1. FoldOf(f, h, S)
    BY FoldExists
  <1>2. SumFunctionOnSet(f, S) = h[S]
    BY SumUnfolds
  <1>. HIDE DEF h
  <1>. QED BY <1>1, <1>2, FoldsAgree

(* Nothing sums to zero. *)
LEMMA SumEmpty ==
  ASSUME NEW f PROVE SumFunctionOnSet(f, {}) = 0
  <1>1. PICK g : FoldOf(f, g, {})
    BY FoldExists, FS_EmptySet
  <1>2. g[{}] = 0
    BY <1>1 DEF FoldOf, FoldStep
  <1>. QED BY <1>1, <1>2, SumIsFold, FS_EmptySet

(* The sum, one element at a time, in the order of the fold. *)
LEMMA SumPick ==
  ASSUME NEW f, NEW S, IsFiniteSet(S), S # {}
  PROVE  SumFunctionOnSet(f, S) = f[Pick(S)] + SumFunctionOnSet(f, Rest(S))
  <1>1. PICK g : FoldOf(f, g, S)
    BY FoldExists
  <1>2. Rest(S) \subseteq S /\ IsFiniteSet(Rest(S))
    BY RestIsLess, FS_Subset
  <1>3. g[S] = f[Pick(S)] + g[Rest(S)]
    BY <1>1 DEF FoldOf, FoldStep
  <1>4. SumFunctionOnSet(f, S) = g[S] /\ SumFunctionOnSet(f, Rest(S)) = g[Rest(S)]
    BY <1>1, <1>2, SumIsFold
  <1>. QED BY <1>3, <1>4

(* The sum of counts is a count. *)
LEMMA SumType ==
  ASSUME NEW f, NEW S, IsFiniteSet(S), \A x \in S : f[x] \in Nat
  PROVE  SumFunctionOnSet(f, S) \in Nat
  <1>. DEFINE Bad == {s \in SUBSET S : SumFunctionOnSet(f, s) \notin Nat}
  <1>1. SUFFICES ASSUME Bad # {} PROVE FALSE
    OBVIOUS
  <1>2. PICK s \in Bad : \A u \in Bad : u \subseteq s => u = s
    <2>1. Bad \in SUBSET SUBSET S
      OBVIOUS
    <2>. HIDE DEF Bad
    <2>. QED BY <1>1, <2>1, SmallestSubset
  <1>3. s # {}
    BY SumEmpty
  <1>4. Rest(s) \in SUBSET S /\ Rest(s) \notin Bad /\ Pick(s) \in S
    BY <1>2, <1>3, RestIsLess, PickIsIn
  <1>5. SumFunctionOnSet(f, Rest(s)) \in Nat /\ f[Pick(s)] \in Nat
    BY <1>4
  <1>6. SumFunctionOnSet(f, s) = f[Pick(s)] + SumFunctionOnSet(f, Rest(s))
    BY <1>3, SumPick, FS_Subset
  <1>. QED BY <1>5, <1>6

(* An element more or less changes the sum by its value. *)
LEMMA SumRemove ==
  ASSUME NEW f, NEW S, IsFiniteSet(S), \A x \in S : f[x] \in Nat, NEW e \in S
  PROVE  SumFunctionOnSet(f, S) = f[e] + SumFunctionOnSet(f, S \ {e})
  <1>. DEFINE Fails(s, x) == SumFunctionOnSet(f, s) # f[x] + SumFunctionOnSet(f, s \ {x})
              Bad == {s \in SUBSET S : \E x \in s : Fails(s, x)}
  <1>1. SUFFICES ASSUME Bad # {} PROVE FALSE
    OBVIOUS
  <1>2. PICK s \in Bad : \A u \in Bad : u \subseteq s => u = s
    <2>1. Bad \in SUBSET SUBSET S
      OBVIOUS
    <2>. HIDE DEF Bad
    <2>. QED BY <1>1, <2>1, SmallestSubset
  <1>3. PICK x \in s : Fails(s, x)
    OBVIOUS
  <1>4. IsFiniteSet(s) /\ s # {}
    BY <1>3, FS_Subset
  <1>. DEFINE p == Pick(s)
              r == s \ {p, x}
  <1>5. SumFunctionOnSet(f, s) = f[p] + SumFunctionOnSet(f, s \ {p}) /\ p \in s
    BY <1>4, SumPick, PickIsIn DEF Rest
  <1>6. x # p
    BY <1>3, <1>5
  <1>7. /\ SumFunctionOnSet(f, s \ {p}) = f[x] + SumFunctionOnSet(f, r)
        /\ SumFunctionOnSet(f, s \ {x}) = f[p] + SumFunctionOnSet(f, r)
    <2>. HIDE DEF p
    <2>1. s \ {p} \in SUBSET S /\ s \ {x} \in SUBSET S /\ s \ {p} # s /\ s \ {x} # s
      BY <1>5
    <2>2. s \ {p} \notin Bad /\ s \ {x} \notin Bad
      BY <1>2, <2>1
    <2>3. (s \ {p}) \ {x} = r /\ (s \ {x}) \ {p} = r
      OBVIOUS
    <2>. QED BY <1>5, <1>6, <2>1, <2>2, <2>3
  <1>8. f[x] \in Nat /\ f[p] \in Nat /\ SumFunctionOnSet(f, r) \in Nat
    <2>1. r \subseteq S /\ IsFiniteSet(r) /\ p \in S /\ x \in S
      BY <1>4, <1>5, FS_Subset
    <2>. QED BY <2>1, SumType
  <1>. HIDE DEF p, r
  <1>. QED BY <1>3, <1>5, <1>7, <1>8

(* An element that joins adds its value. *)
LEMMA SumAdd ==
  ASSUME NEW f, NEW S, IsFiniteSet(S), \A x \in S : f[x] \in Nat,
         NEW e, e \notin S, f[e] \in Nat
  PROVE  SumFunctionOnSet(f, S \cup {e}) = SumFunctionOnSet(f, S) + f[e]
  <1>1. (S \cup {e}) \ {e} = S /\ IsFiniteSet(S \cup {e}) /\ e \in S \cup {e}
    BY FS_AddElement
  <1>2. \A x \in S \cup {e} : f[x] \in Nat
    OBVIOUS
  <1>3. SumFunctionOnSet(f, S \cup {e}) = f[e] + SumFunctionOnSet(f, S)
    BY <1>1, <1>2, SumRemove
  <1>. QED BY <1>3, SumType

(* Functions that agree on a set have the same sum over it. *)
LEMMA SumSame ==
  ASSUME NEW f, NEW g, NEW S, IsFiniteSet(S), \A x \in S : f[x] = g[x]
  PROVE  SumFunctionOnSet(f, S) = SumFunctionOnSet(g, S)
  <1>. DEFINE Bad == {s \in SUBSET S : SumFunctionOnSet(f, s) # SumFunctionOnSet(g, s)}
  <1>1. SUFFICES ASSUME Bad # {} PROVE FALSE
    OBVIOUS
  <1>2. PICK s \in Bad : \A u \in Bad : u \subseteq s => u = s
    <2>1. Bad \in SUBSET SUBSET S
      OBVIOUS
    <2>. HIDE DEF Bad
    <2>. QED BY <1>1, <2>1, SmallestSubset
  <1>3. s # {}
    BY SumEmpty
  <1>4. Rest(s) \in SUBSET S /\ Rest(s) \notin Bad /\ Pick(s) \in S
    BY <1>2, <1>3, RestIsLess, PickIsIn
  <1>5. /\ SumFunctionOnSet(f, s) = f[Pick(s)] + SumFunctionOnSet(f, Rest(s))
        /\ SumFunctionOnSet(g, s) = g[Pick(s)] + SumFunctionOnSet(g, Rest(s))
    BY <1>3, SumPick, FS_Subset
  <1>. QED BY <1>4, <1>5

(* A function that is nowhere greater has no greater sum. *)
LEMMA SumMonotonic ==
  ASSUME NEW f, NEW g, NEW S, IsFiniteSet(S),
         \A x \in S : f[x] \in Nat /\ g[x] \in Nat /\ f[x] <= g[x]
  PROVE  SumFunctionOnSet(f, S) <= SumFunctionOnSet(g, S)
  <1>. DEFINE Bad == {s \in SUBSET S : ~(SumFunctionOnSet(f, s) <= SumFunctionOnSet(g, s))}
  <1>1. SUFFICES ASSUME Bad # {} PROVE FALSE
    OBVIOUS
  <1>2. PICK s \in Bad : \A u \in Bad : u \subseteq s => u = s
    <2>1. Bad \in SUBSET SUBSET S
      OBVIOUS
    <2>. HIDE DEF Bad
    <2>. QED BY <1>1, <2>1, SmallestSubset
  <1>3. s # {}
    BY SumEmpty
  <1>4. Rest(s) \in SUBSET S /\ Rest(s) \notin Bad /\ Pick(s) \in S
    BY <1>2, <1>3, RestIsLess, PickIsIn
  <1>5. /\ SumFunctionOnSet(f, s) = f[Pick(s)] + SumFunctionOnSet(f, Rest(s))
        /\ SumFunctionOnSet(g, s) = g[Pick(s)] + SumFunctionOnSet(g, Rest(s))
    BY <1>3, SumPick, FS_Subset
  <1>6. SumFunctionOnSet(f, Rest(s)) \in Nat /\ SumFunctionOnSet(g, Rest(s)) \in Nat
    BY <1>4, SumType, FS_Subset
  <1>. QED BY <1>4, <1>5, <1>6

(* One value more: the sum of a function that differs in one place.         *)
LEMMA SumChange ==
  ASSUME NEW f, NEW g, NEW S, IsFiniteSet(S),
         \A x \in S : f[x] \in Nat /\ g[x] \in Nat,
         NEW e \in S, \A x \in S \ {e} : f[x] = g[x]
  PROVE  SumFunctionOnSet(g, S) = SumFunctionOnSet(f, S) - f[e] + g[e]
  <1>1. IsFiniteSet(S \ {e}) /\ SumFunctionOnSet(f, S \ {e}) \in Nat
    BY SumType, FS_RemoveElement
  <1>2. SumFunctionOnSet(f, S \ {e}) = SumFunctionOnSet(g, S \ {e})
    BY <1>1, SumSame
  <1>3. /\ SumFunctionOnSet(f, S) = f[e] + SumFunctionOnSet(f, S \ {e})
        /\ SumFunctionOnSet(g, S) = g[e] + SumFunctionOnSet(g, S \ {e})
    BY SumRemove
  <1>. QED BY <1>1, <1>2, <1>3

(* What is worth nothing adds nothing. *)
LEMMA SumSupport ==
  ASSUME NEW f, NEW S, IsFiniteSet(S), \A x \in S : f[x] \in Nat,
         NEW T \in SUBSET S, \A x \in S \ T : f[x] = 0
  PROVE  SumFunctionOnSet(f, S) = SumFunctionOnSet(f, T)
  <1>. DEFINE Bad == {s \in SUBSET S : SumFunctionOnSet(f, s) # SumFunctionOnSet(f, s \cap T)}
  <1>1. Bad = {}
    <2>. SUFFICES ASSUME Bad # {} PROVE FALSE
      OBVIOUS
    <2>1. PICK s \in Bad : \A u \in Bad : u \subseteq s => u = s
      <3>1. Bad \in SUBSET SUBSET S
        OBVIOUS
      <3>. HIDE DEF Bad
      <3>. QED BY <3>1, SmallestSubset
    <2>2. PICK x \in s : x \notin T
      <3>1. SumFunctionOnSet(f, s) # SumFunctionOnSet(f, s \cap T)
        BY <2>1
      <3>2. CASE s \cap T = s
        BY <3>1, <3>2
      <3>. QED BY <3>2
    <2>3. s \ {x} \in SUBSET S /\ s \ {x} \notin Bad /\ (s \ {x}) \cap T = s \cap T
      <3>1. s \ {x} \in SUBSET S /\ s \ {x} # s /\ s \ {x} \subseteq s
        BY <2>1, <2>2
      <3>2. s \ {x} \notin Bad
        BY <2>1, <3>1
      <3>. QED BY <2>2, <3>1, <3>2
    <2>4. SumFunctionOnSet(f, s \ {x}) = SumFunctionOnSet(f, s \cap T)
      BY <2>3
    <2>5. IsFiniteSet(s) /\ IsFiniteSet(s \ {x}) /\ \A y \in s : f[y] \in Nat
      BY <2>1, FS_Subset
    <2>6. SumFunctionOnSet(f, s) = f[x] + SumFunctionOnSet(f, s \ {x})
      BY <2>2, <2>5, SumRemove
    <2>7. f[x] = 0 /\ SumFunctionOnSet(f, s \ {x}) \in Nat
      BY <2>1, <2>2, <2>5, SumType
    <2>. QED BY <2>1, <2>4, <2>6, <2>7
  <1>2. S \notin Bad /\ S \cap T = T
    BY <1>1
  <1>. QED BY <1>2

(* A finite set of numbers has a greatest one. *)
LEMMA GreatestOfSet ==
  ASSUME NEW S, IsFiniteSet(S), S # {}
  PROVE  S \subseteq Int => \E m \in S : \A x \in S : x <= m
  <1>. DEFINE Above(m) == {x \in S : m <= x}
              Q == {Above(m) : m \in S}
  <1>1. PICK T \in Q : \A U \in Q : U \subseteq T => U = T
    <2>1. Q \in SUBSET SUBSET S
      OBVIOUS
    <2>2. Q # {}
      OBVIOUS
    <2>. HIDE DEF Q, Above
    <2>. QED BY <2>1, <2>2, SmallestSubset
  <1>2. PICK m \in S : T = Above(m)
    OBVIOUS
  <1>. HAVE S \subseteq Int
  <1>3. ASSUME NEW x \in S, ~(x <= m) PROVE FALSE
    <2>1. Above(x) \in Q /\ Above(x) \subseteq T
      <3>1. \A y \in S : y \in Int
        OBVIOUS
      <3>2. \A y \in S : x <= y => m <= y
        BY <1>3, <3>1
      <3>. QED BY <1>2, <3>2
    <2>2. m \in T /\ m \notin Above(x)
      BY <1>2, <1>3
    <2>. QED BY <1>1, <2>1, <2>2
  <1>. QED BY <1>2, <1>3

(* The sum over a set is the sum over any part of it and over the rest.     *)
LEMMA SumSplit ==
  ASSUME NEW f, NEW S, IsFiniteSet(S), \A x \in S : f[x] \in Nat, NEW T \in SUBSET S
  PROVE  SumFunctionOnSet(f, S) = SumFunctionOnSet(f, T) + SumFunctionOnSet(f, S \ T)
  <1>. DEFINE Whole(s)  == SumFunctionOnSet(f, s)
              Parts(s)  == SumFunctionOnSet(f, s \cap T) + SumFunctionOnSet(f, s \ T)
              Bad       == {s \in SUBSET S : Whole(s) # Parts(s)}
  <1>1. Bad = {}
    <2>. SUFFICES ASSUME Bad # {} PROVE FALSE
      OBVIOUS
    <2>1. PICK s \in Bad : \A u \in Bad : u \subseteq s => u = s
      <3>1. Bad \in SUBSET SUBSET S
        OBVIOUS
      <3>. HIDE DEF Bad
      <3>. QED BY <3>1, SmallestSubset
    <2>2. s # {}
      <3>1. {} \cap T = {} /\ {} \ T = {} /\ Whole({}) = 0
        BY SumEmpty
      <3>2. Parts({}) = 0
        BY <3>1
      <3>. QED BY <2>1, <3>1, <3>2
    <2>3. PICK x \in s : TRUE
      BY <2>2
    <2>. DEFINE r == s \ {x}
    <2>4. IsFiniteSet(s) /\ \A y \in s : f[y] \in Nat
      BY <2>1, FS_Subset
    <2>5. /\ Whole(s) = f[x] + Whole(r)
          /\ Whole(r) = Parts(r)
      <3>1. r \in SUBSET S /\ r # s /\ r \subseteq s
        BY <2>1, <2>3
      <3>2. r \notin Bad
        BY <2>1, <3>1
      <3>3. Whole(s) = f[x] + Whole(r)
        BY <2>3, <2>4, SumRemove
      <3>. QED BY <3>1, <3>2, <3>3
    <2>6. Parts(s) = f[x] + Parts(r)
      <3>1. \A A \in SUBSET s : IsFiniteSet(A) /\ \A y \in A : f[y] \in Nat
        BY <2>4, FS_Subset
      <3>2. \A A \in SUBSET s : SumFunctionOnSet(f, A) \in Nat
        BY <3>1, SumType
      <3>6. \A A \in SUBSET s : \A y \in A :
               SumFunctionOnSet(f, A) = f[y] + SumFunctionOnSet(f, A \ {y})
        BY <3>1, SumRemove
      <3>3. /\ SumFunctionOnSet(f, r \cap T) \in Nat /\ SumFunctionOnSet(f, r \ T) \in Nat
            /\ f[x] \in Nat
        BY <2>3, <2>4, <3>2
      <3>4. \/ /\ SumFunctionOnSet(f, s \cap T) = f[x] + SumFunctionOnSet(f, r \cap T)
               /\ SumFunctionOnSet(f, s \ T) = SumFunctionOnSet(f, r \ T)
            \/ /\ SumFunctionOnSet(f, s \cap T) = SumFunctionOnSet(f, r \cap T)
               /\ SumFunctionOnSet(f, s \ T) = f[x] + SumFunctionOnSet(f, r \ T)
        <4>1. CASE x \in T
          <5>1. s \ T = r \ T /\ (s \cap T) \ {x} = r \cap T
            BY <2>3, <4>1
          <5>2. s \cap T \in SUBSET s /\ x \in s \cap T
            BY <2>3, <4>1
          <5>3. SumFunctionOnSet(f, s \cap T) = f[x] + SumFunctionOnSet(f, (s \cap T) \ {x})
            BY <3>6, <5>2
          <5>. QED BY <5>1, <5>3
        <4>2. CASE x \notin T
          <5>1. s \cap T = r \cap T /\ (s \ T) \ {x} = r \ T
            BY <2>3, <4>2
          <5>2. s \ T \in SUBSET s /\ x \in s \ T
            BY <2>3, <4>2
          <5>3. SumFunctionOnSet(f, s \ T) = f[x] + SumFunctionOnSet(f, (s \ T) \ {x})
            BY <3>6, <5>2
          <5>. QED BY <5>1, <5>3
        <4>. QED BY <4>1, <4>2
      <3>5. /\ SumFunctionOnSet(f, s \cap T) \in Nat /\ SumFunctionOnSet(f, s \ T) \in Nat
        BY <3>2
      <3>. QED BY <3>3, <3>4, <3>5
    <2>. QED BY <2>1, <2>5, <2>6
  <1>2. S \notin Bad /\ S \cap T = T
    BY <1>1
  <1>. QED BY <1>2

(* A part of a set sums to no more than the whole. *)
LEMMA SumSubset ==
  ASSUME NEW f, NEW S, IsFiniteSet(S), \A x \in S : f[x] \in Nat, NEW T \in SUBSET S
  PROVE  SumFunctionOnSet(f, T) <= SumFunctionOnSet(f, S)
  <1>1. IsFiniteSet(T) /\ IsFiniteSet(S \ T)
    BY FS_Subset
  <1>2. SumFunctionOnSet(f, T) \in Nat /\ SumFunctionOnSet(f, S \ T) \in Nat
    BY <1>1, SumType
  <1>. QED BY <1>2, SumSplit

(* Sets that share nothing sum up.                                          *)
LEMMA SumDisjoint ==
  ASSUME NEW f, NEW S, NEW T, IsFiniteSet(S), IsFiniteSet(T), S \cap T = {},
         \A x \in S \cup T : f[x] \in Nat
  PROVE  SumFunctionOnSet(f, S \cup T) = SumFunctionOnSet(f, S) + SumFunctionOnSet(f, T)
  <1>1. IsFiniteSet(S \cup T) /\ S \in SUBSET (S \cup T) /\ (S \cup T) \ S = T
    BY FS_Union
  <1>. QED BY <1>1, SumSplit

(* The elements of a finite set of numbers have ranks 1, 2, 3... *)
LEMMA Ranks ==
  ASSUME NEW S, IsFiniteSet(S)
  PROVE  S \subseteq Int =>
           /\ Cardinality(S) \in Nat
           /\ \A t \in S : Cardinality({u \in S : u <= t}) \in 1..Cardinality(S)
           /\ \A i \in 1..Cardinality(S) : \E t \in S : Cardinality({u \in S : u <= t}) = i
  <1>. DEFINE Rank(s, t) == Cardinality({u \in s : u <= t})
              Ranked(s) ==
                s \subseteq Int =>
                  /\ \A t \in s : Rank(s, t) \in 1..Cardinality(s)
                  /\ \A i \in 1..Cardinality(s) : \E t \in s : Rank(s, t) = i
              Bad == {s \in SUBSET S : ~Ranked(s)}
  <1>1. Bad = {}
    <2>. SUFFICES ASSUME Bad # {} PROVE FALSE
      OBVIOUS
    <2>1. PICK s \in Bad : \A u \in Bad : u \subseteq s => u = s
      <3>1. Bad \in SUBSET SUBSET S
        OBVIOUS
      <3>. HIDE DEF Bad
      <3>. QED BY <3>1, SmallestSubset
    <2>2. IsFiniteSet(s) /\ s \subseteq Int
      BY <2>1, FS_Subset
    <2>3. s # {}
      <3>1. Cardinality({}) = 0 /\ \A i : i \notin 1..0
        BY FS_EmptySet
      <3>2. Ranked({})
        BY <3>1
      <3>. HIDE DEF Ranked
      <3>. QED BY <2>1, <3>2
    <2>4. PICK m \in s : \A x \in s : x <= m
      BY <2>2, <2>3, GreatestOfSet
    <2>. DEFINE r == s \ {m}
                n == Cardinality(r)
    <2>5. IsFiniteSet(r) /\ n \in Nat /\ Cardinality(s) = n + 1
      <3>1. IsFiniteSet(r) /\ n = Cardinality(s) - 1
        BY <2>2, FS_RemoveElement
      <3>2. n \in Nat /\ Cardinality(s) \in Nat
        BY <2>2, <3>1, FS_CardinalityType
      <3>. QED BY <3>1, <3>2
    <2>6. /\ \A t \in r : Rank(r, t) \in 1..n
          /\ \A i \in 1..n : \E t \in r : Rank(r, t) = i
      <3>1. r \in SUBSET S /\ r # s /\ r \subseteq s
        BY <2>1
      <3>2. Ranked(r)
        <4>. HIDE DEF Ranked
        <4>. QED BY <2>1, <3>1
      <3>. QED BY <2>2, <3>2
    <2>7. \A t \in r : Rank(s, t) = Rank(r, t)
      <3>. SUFFICES ASSUME NEW t \in r PROVE {u \in s : u <= t} = {u \in r : u <= t}
        OBVIOUS
      <3>1. t \in Int /\ m \in Int /\ t <= m /\ t # m
        BY <2>2, <2>4
      <3>2. ~(m <= t)
        BY <3>1
      <3>. QED BY <3>2
    <2>8. Rank(s, m) = n + 1
      <3>1. {u \in s : u <= m} = s
        BY <2>4
      <3>. QED BY <2>5, <3>1
    <2>. HIDE DEF Rank, n
    <2>9. \A t \in s : Rank(s, t) \in 1..(n + 1)
      <3>1. \A t \in r : Rank(s, t) \in 1..n
        BY <2>6, <2>7
      <3>. HIDE DEF r
      <3>2. \A t \in s : t \in r \/ t = m
        BY DEF r
      <3>. QED BY <2>5, <2>8, <3>1, <3>2
    <2>10. \A i \in 1..(n + 1) : \E t \in s : Rank(s, t) = i
      <3>. SUFFICES ASSUME NEW i \in 1..(n + 1) PROVE \E t \in s : Rank(s, t) = i
        OBVIOUS
      <3>1. CASE i = n + 1
        BY <2>8, <3>1
      <3>2. CASE i # n + 1
        <4>1. i \in 1..n
          BY <2>5, <3>2
        <4>2. PICK t \in r : Rank(r, t) = i
          BY <2>6, <4>1
        <4>. QED BY <2>7, <4>2
      <3>. QED BY <3>1, <3>2
    <2>. QED BY <2>1, <2>5, <2>9, <2>10
  <1>2. Ranked(S)
    <2>. HIDE DEF Ranked
    <2>. QED BY <1>1
  <1>. QED BY <1>2, FS_CardinalityType
==============================================================================
