---------------------------- MODULE FiniteFacts ----------------------------
(***************************************************************************)
(* Facts about natural numbers, finite sets and the sums over them that    *)
(* the proofs about the engine rest on.                                    *)
(*                                                                         *)
(* Induction is stated about a set instead of a predicate: a set P of      *)
(* numbers that holds zero and the successor of each member holds them     *)
(* all.  It follows from the order of the numbers being well-founded.      *)
(***************************************************************************)
EXTENDS Integers, FiniteSetsExt, FiniteSetTheorems, WellFoundedInduction, TLAPS

LEMMA LessRelation == OpToRel(<, Nat) = {ss \in Nat \X Nat : ss[1] < ss[2]}
BY DEF OpToRel

(* A set of natural numbers has a least member.                            *)
LEMMA Least ==
    ASSUME NEW S, S \subseteq Nat, S # {}
    PROVE  \E x \in S : \A y \in S : x <= y
<1>1. PICK x \in S : \A y \in S : ~(<<y, x>> \in OpToRel(<, Nat))
      BY NatLessThanWellFounded, WFMin
<1>2. ASSUME NEW y \in S PROVE x <= y
  <2>1. ~(<<y, x>> \in {ss \in Nat \X Nat : ss[1] < ss[2]})
        BY <1>1, LessRelation
  <2>2. <<y, x>> \in Nat \X Nat
        OBVIOUS
  <2>3. ~(y < x)
        BY <2>1, <2>2
  <2>4. QED  BY <2>3
<1>3. QED  BY <1>2

(* Min is the least member.                                                *)
LEMMA MinFacts ==
    ASSUME NEW S, S \subseteq Nat, S # {}
    PROVE  Min(S) \in S /\ \A y \in S : Min(S) <= y
<1>1. \E x \in S : \A y \in S : x <= y
      BY Least
<1>2. QED  BY <1>1 DEF Min

(* Max is the greatest member of a bounded set.                            *)
LEMMA MaxFacts ==
    ASSUME NEW n \in Nat, NEW S, S \subseteq 0..n, S # {}
    PROVE  Max(S) \in S /\ \A y \in S : Max(S) >= y
<1>1. PICK D : D = {n - x : x \in S}
      OBVIOUS
<1>2. D \subseteq Nat /\ D # {}
  <2>1. \A x \in S : n - x \in Nat
        OBVIOUS
  <2>2. QED  BY <1>1, <2>1
<1>3. PICK d \in D : \A e \in D : d <= e
      BY <1>2, Least
<1>4. PICK x \in S : d = n - x
      BY <1>1
<1>5. ASSUME NEW y \in S PROVE x >= y
  <2>1. n - y \in D
        BY <1>1
  <2>2. n - x <= n - y
        BY <1>3, <1>4, <2>1
  <2>3. QED  BY <2>2
<1>6. QED  BY <1>5 DEF Max

(* Induction over the natural numbers.                                     *)
LEMMA SetInduction ==
    ASSUME NEW P, 0 \in P, \A n \in Nat : n \in P => n + 1 \in P
    PROVE  Nat \subseteq P
<1>1. SUFFICES ASSUME Nat \ P # {} PROVE FALSE
      OBVIOUS
<1>2. PICK x \in Nat \ P : \A y \in Nat \ P : x <= y
      BY <1>1, Least
<1>3. x - 1 \in Nat /\ x - 1 \in P
      BY <1>2
<1>4. QED  BY <1>2, <1>3

---------------------------------------------------------------------------
(* Sums *)

(* What the recursive function behind a sum over S, defined on the subsets *)
(* of S, has to be at s.                                                   *)
Rest(F, f, s) ==
    IF s = {} THEN 0 ELSE F[CHOOSE x \in s : TRUE] + f[s \ {CHOOSE x \in s : TRUE}]

Summed(F, S, f) == f = [s \in SUBSET S |-> Rest(F, f, s)]

LEMMA SumDef ==
    ASSUME NEW F, NEW S
    PROVE  SumFunctionOnSet(F, S) = (CHOOSE f : Summed(F, S, f))[S]
BY Zenon DEF SumFunctionOnSet, FoldFunctionOnSet, MapThenFoldSet, Rest, Summed

(* A finite set without one of its members.                                *)
LEMMA OneLess ==
    ASSUME NEW S, IsFiniteSet(S), NEW s \in SUBSET S, NEW x \in s
    PROVE  /\ x \in S /\ s \ {x} \in SUBSET S /\ Cardinality(s) \in Nat
           /\ Cardinality(s \ {x}) = Cardinality(s) - 1 /\ Cardinality(s) > 0
<1>1. IsFiniteSet(s)
      BY FS_Subset
<1>2. Cardinality(s) \in Nat /\ Cardinality(s) # 0
      BY <1>1, FS_CardinalityType, FS_EmptySet
<1>3. Cardinality(s \ {x}) = IF x \in s THEN Cardinality(s) - 1 ELSE Cardinality(s)
      BY <1>1, FS_RemoveElement
<1>4. QED  BY <1>2, <1>3

(* The recursive function exists: on the subsets of at most n members, for *)
(* every n.                                                                *)
LEMMA SumExists ==
    ASSUME NEW S, IsFiniteSet(S), NEW F
    PROVE  \E f : Summed(F, S, f)
<1> DEFINE D(n) == {s \in SUBSET S : Cardinality(s) <= n}
           P == {n \in Nat : \E f : f = [s \in D(n) |-> Rest(F, f, s)]}
<1>1. 0 \in P
  <2>1. ASSUME NEW s \in D(0) PROVE s = {}
    <3>1. s \in SUBSET S /\ Cardinality(s) <= 0
          OBVIOUS
    <3>2. ASSUME NEW x \in s PROVE FALSE
      <4>1. Cardinality(s) \in Nat /\ Cardinality(s) > 0
            BY <3>1, OneLess
      <4>2. QED  BY <3>1, <4>1
    <3>3. QED  BY <3>2
  <2>2. PICK f : f = [s \in D(0) |-> 0]
        OBVIOUS
  <2> HIDE DEF D
  <2>3. f = [s \in D(0) |-> Rest(F, f, s)]
        BY <2>1, <2>2 DEF Rest
  <2>4. QED  BY <2>3
<1>2. ASSUME NEW n \in Nat, n \in P PROVE n + 1 \in P
  <2>1. PICK f : f = [s \in D(n) |-> Rest(F, f, s)]
    <3> HIDE DEF D
    <3> QED  BY <1>2
  <2>2. PICK h : h = [s \in D(n + 1) |-> Rest(F, f, s)]
        OBVIOUS
  <2>3. \A s \in D(n) : h[s] = f[s] /\ s \in D(n + 1)
    <3>1. \A s \in D(n) : s \in D(n + 1)
          BY FS_CardinalityType, FS_Subset
    <3> HIDE DEF D
    <3> QED  BY <2>1, <2>2, <3>1
  <2>4. ASSUME NEW s \in D(n + 1) PROVE Rest(F, f, s) = Rest(F, h, s)
    <3>1. CASE s = {}
          BY <3>1 DEF Rest
    <3>2. CASE s # {}
      <4>1. PICK x : x = CHOOSE y \in s : TRUE
            OBVIOUS
      <4>2. x \in s
            BY <3>2, <4>1
      <4>3. s \in SUBSET S /\ Cardinality(s) <= n + 1
            OBVIOUS
      <4>4. s \ {x} \in D(n)
            BY <4>2, <4>3, OneLess
      <4>5. h[s \ {x}] = f[s \ {x}]
            BY <2>3, <4>4
      <4>6. QED  BY <3>2, <4>1, <4>5 DEF Rest
    <3>3. QED  BY <3>1, <3>2
  <2> HIDE DEF D
  <2>5. h = [s \in D(n + 1) |-> Rest(F, h, s)]
        BY <2>2, <2>4
  <2>6. n + 1 \in Nat
        OBVIOUS
  <2>7. QED  BY <2>5, <2>6
<1>3. Nat \subseteq P
  <2> HIDE DEF P
  <2> QED  BY <1>1, <1>2, SetInduction
<1>4. PICK n : n = Cardinality(S)
      OBVIOUS
<1>5. n \in Nat /\ D(n) = SUBSET S
      BY <1>4, FS_CardinalityType, FS_Subset
<1> HIDE DEF D
<1>6. PICK f : f = [s \in D(n) |-> Rest(F, f, s)]
      BY <1>3, <1>5
<1>7. QED  BY <1>5, <1>6 DEF Summed

(* A sum of natural numbers is a natural number.                           *)
LEMMA SumNat ==
    ASSUME NEW S, IsFiniteSet(S), NEW F, \A x \in S : F[x] \in Nat
    PROVE  SumFunctionOnSet(F, S) \in Nat
<1>1. PICK f : f = CHOOSE h : Summed(F, S, h)
      OBVIOUS
<1>2. Summed(F, S, f)
      BY <1>1, SumExists
<1>3. \A s \in SUBSET S : f[s] = Rest(F, f, s)
      BY <1>2 DEF Summed
<1> DEFINE P == {n \in Nat : \A s \in SUBSET S : Cardinality(s) <= n => f[s] \in Nat}
<1>4. ASSUME NEW s \in SUBSET S, s = {} PROVE f[s] \in Nat
  <2>1. Rest(F, f, s) = 0
        BY <1>4 DEF Rest
  <2>2. QED  BY <1>3, <2>1
<1>5. ASSUME NEW s \in SUBSET S, s # {}
      PROVE  \E x \in s : f[s] = F[x] + f[s \ {x}]
  <2>1. PICK x : x = CHOOSE y \in s : TRUE
        OBVIOUS
  <2>2. x \in s
        BY <1>5, <2>1
  <2>3. f[s] = F[x] + f[s \ {x}]
        BY <1>3, <1>5, <2>1 DEF Rest
  <2>4. QED  BY <2>2, <2>3
<1>6. 0 \in P
  <2>1. ASSUME NEW s \in SUBSET S, Cardinality(s) <= 0 PROVE s = {}
    <3>1. ASSUME NEW x \in s PROVE FALSE
      <4>1. Cardinality(s) \in Nat /\ Cardinality(s) > 0
            BY OneLess
      <4>2. QED  BY <2>1, <4>1
    <3>2. QED  BY <3>1
  <2>2. QED  BY <1>4, <2>1
<1>7. ASSUME NEW n \in Nat, n \in P PROVE n + 1 \in P
  <2>1. ASSUME NEW s \in SUBSET S, Cardinality(s) <= n + 1 PROVE f[s] \in Nat
    <3>1. CASE s # {}
      <4>1. PICK x \in s : f[s] = F[x] + f[s \ {x}]
            BY <1>5, <3>1
      <4>2. x \in S /\ s \ {x} \in SUBSET S /\ Cardinality(s \ {x}) <= n
            BY <2>1, OneLess
      <4>3. f[s \ {x}] \in Nat
            BY <1>7, <4>2
      <4>4. QED  BY <4>1, <4>2, <4>3
    <3>2. QED  BY <1>4, <3>1
  <2>2. QED  BY <2>1
<1>8. Nat \subseteq P
  <2> HIDE DEF P
  <2> QED  BY <1>6, <1>7, SetInduction
<1>9. f[S] \in Nat
  <2>1. Cardinality(S) \in Nat
        BY FS_CardinalityType
  <2>2. Cardinality(S) \in P
        BY <2>1, <1>8
  <2>3. Cardinality(S) <= Cardinality(S) /\ S \in SUBSET S
        BY <2>1
  <2>4. QED  BY <2>2, <2>3
<1>10. QED  BY <1>1, <1>9, SumDef

---------------------------------------------------------------------------
(* Sums over parts of a set, and of functions that differ in places *)

(* Induction over the subsets of a finite set.                             *)
LEMMA SubsetInduction ==
    ASSUME NEW S, IsFiniteSet(S), NEW P, {} \in P,
           \A s \in SUBSET S : s # {} /\ (\A x \in s : s \ {x} \in P) => s \in P
    PROVE  SUBSET S \subseteq P
<1> DEFINE Q == {n \in Nat : \A s \in SUBSET S : Cardinality(s) <= n => s \in P}
<1>1. 0 \in Q
  <2>1. ASSUME NEW s \in SUBSET S, Cardinality(s) <= 0 PROVE s = {}
    <3>1. ASSUME NEW x \in s PROVE FALSE
      <4>1. Cardinality(s) \in Nat /\ Cardinality(s) > 0
            BY OneLess
      <4>2. QED  BY <2>1, <4>1
    <3>2. QED  BY <3>1
  <2>2. QED  BY <2>1
<1>2. ASSUME NEW n \in Nat, n \in Q PROVE n + 1 \in Q
  <2>1. ASSUME NEW s \in SUBSET S, Cardinality(s) <= n + 1 PROVE s \in P
    <3>1. CASE s # {}
      <4>1. ASSUME NEW x \in s PROVE s \ {x} \in P
        <5>1. s \ {x} \in SUBSET S /\ Cardinality(s \ {x}) <= n
              BY <2>1, OneLess
        <5>2. QED  BY <1>2, <5>1
      <4>2. QED  BY <3>1, <4>1
    <3>2. QED  BY <3>1
  <2>2. QED  BY <2>1
<1>3. Nat \subseteq Q
  <2> HIDE DEF Q
  <2> QED  BY <1>1, <1>2, SetInduction
<1>4. ASSUME NEW s \in SUBSET S PROVE s \in P
  <2>1. Cardinality(s) \in Nat
        BY FS_Subset, FS_CardinalityType
  <2>2. Cardinality(s) \in Q /\ Cardinality(s) <= Cardinality(s)
        BY <1>3, <2>1
  <2>3. QED  BY <2>2
<1>5. QED  BY <1>4

(* The recursive functions behind the sums over S and over a part of S     *)
(* agree.                                                                  *)
LEMMA SumPart ==
    ASSUME NEW S, IsFiniteSet(S), NEW F, NEW f, Summed(F, S, f), NEW T \in SUBSET S
    PROVE  SumFunctionOnSet(F, T) = f[T]
<1>1. IsFiniteSet(T)
      BY FS_Subset
<1>2. PICK h : h = CHOOSE e : Summed(F, T, e)
      OBVIOUS
<1>3. Summed(F, T, h)
      BY <1>1, <1>2, SumExists
<1> DEFINE P == {s \in SUBSET T : f[s] = h[s]}
<1>4. \A s \in SUBSET T : f[s] = Rest(F, f, s) /\ h[s] = Rest(F, h, s)
  <2>1. \A s \in SUBSET T : s \in SUBSET S
        OBVIOUS
  <2>2. QED  BY <1>3, <2>1 DEF Summed
<1>5. {} \in P
  <2>1. Rest(F, f, {}) = 0 /\ Rest(F, h, {}) = 0
        BY DEF Rest
  <2>2. QED  BY <1>4, <2>1
<1>6. ASSUME NEW s \in SUBSET T, s # {}, \A x \in s : s \ {x} \in P PROVE s \in P
  <2>1. PICK c : c = CHOOSE x \in s : TRUE
        OBVIOUS
  <2>2. c \in s
        BY <1>6, <2>1
  <2>3. f[s \ {c}] = h[s \ {c}]
        BY <1>6, <2>2
  <2>4. Rest(F, f, s) = Rest(F, h, s)
        BY <1>6, <2>1, <2>3 DEF Rest
  <2>5. QED  BY <1>4, <2>4
<1>7. SUBSET T \subseteq P
  <2> HIDE DEF P
  <2> QED  BY <1>1, <1>5, <1>6, SubsetInduction
<1>8. f[T] = h[T]
      BY <1>7
<1>9. QED  BY <1>2, <1>8, SumDef

LEMMA SumEmpty ==
    ASSUME NEW F
    PROVE  SumFunctionOnSet(F, {}) = 0
<1>1. IsFiniteSet({})
      BY FS_EmptySet
<1>2. PICK f : Summed(F, {}, f)
      BY <1>1, SumExists
<1>3. SumFunctionOnSet(F, {}) = f[{}]
      BY <1>1, <1>2, SumPart
<1>4. f[{}] = Rest(F, f, {})
      BY <1>2 DEF Summed
<1>5. QED  BY <1>3, <1>4 DEF Rest

(* A sum is that of one member and of the others.                          *)
LEMMA SumChoose ==
    ASSUME NEW S, IsFiniteSet(S), NEW F, S # {}
    PROVE  \E c \in S : SumFunctionOnSet(F, S) = F[c] + SumFunctionOnSet(F, S \ {c})
<1>1. PICK f : Summed(F, S, f)
      BY SumExists
<1>2. PICK c : c = CHOOSE x \in S : TRUE
      OBVIOUS
<1>3. c \in S
      BY <1>2
<1>4. f[S] = Rest(F, f, S)
      BY <1>1 DEF Summed
<1>5. f[S] = F[c] + f[S \ {c}]
      BY <1>2, <1>4 DEF Rest
<1>6. SumFunctionOnSet(F, S) = f[S]
  <2>1. S \in SUBSET S
        OBVIOUS
  <2>2. QED  BY <1>1, <2>1, SumPart
<1>7. SumFunctionOnSet(F, S \ {c}) = f[S \ {c}]
  <2>1. S \ {c} \in SUBSET S
        OBVIOUS
  <2>2. QED  BY <1>1, <2>1, SumPart
<1>8. QED  BY <1>3, <1>5, <1>6, <1>7

LEMMA SumInt ==
    ASSUME NEW S, IsFiniteSet(S), NEW F, \A x \in S : F[x] \in Int
    PROVE  \A s \in SUBSET S : SumFunctionOnSet(F, s) \in Int
<1> DEFINE P == {s \in SUBSET S : SumFunctionOnSet(F, s) \in Int}
<1>1. {} \in P
      BY SumEmpty
<1>2. ASSUME NEW s \in SUBSET S, s # {}, \A x \in s : s \ {x} \in P PROVE s \in P
  <2>1. PICK c \in s : SumFunctionOnSet(F, s) = F[c] + SumFunctionOnSet(F, s \ {c})
        BY <1>2, SumChoose, FS_Subset
  <2>2. F[c] \in Int /\ SumFunctionOnSet(F, s \ {c}) \in Int
        BY <1>2
  <2>3. QED  BY <2>1, <2>2
<1>3. SUBSET S \subseteq P
  <2> HIDE DEF P
  <2> QED  BY <1>1, <1>2, SubsetInduction
<1>4. QED  BY <1>3

(* The member that is taken out does not matter.                           *)
LEMMA SumRemove ==
    ASSUME NEW S, IsFiniteSet(S), NEW F, \A x \in S : F[x] \in Int, NEW y \in S
    PROVE  SumFunctionOnSet(F, S) = F[y] + SumFunctionOnSet(F, S \ {y})
<1> DEFINE P == {s \in SUBSET S : \A x \in s :
                    SumFunctionOnSet(F, s) = F[x] + SumFunctionOnSet(F, s \ {x})}
<1>1. {} \in P
      OBVIOUS
<1>2. ASSUME NEW s \in SUBSET S, s # {}, \A x \in s : s \ {x} \in P PROVE s \in P
  <2>1. PICK c \in s : SumFunctionOnSet(F, s) = F[c] + SumFunctionOnSet(F, s \ {c})
        BY <1>2, SumChoose, FS_Subset
  <2>2. ASSUME NEW x \in s, x # c
        PROVE  SumFunctionOnSet(F, s) = F[x] + SumFunctionOnSet(F, s \ {x})
    <3>1. PICK r : r = (s \ {c}) \ {x}
          OBVIOUS
    <3>2. SumFunctionOnSet(F, s \ {c}) = F[x] + SumFunctionOnSet(F, r)
          BY <1>2, <2>2, <3>1
    <3>3. r = (s \ {x}) \ {c} /\ c \in s \ {x} /\ r \in SUBSET S
          BY <2>2, <3>1
    <3>4. SumFunctionOnSet(F, s \ {x}) = F[c] + SumFunctionOnSet(F, r)
      <4>1. s \ {x} \in P
            BY <1>2, <2>2
      <4>2. QED  BY <3>3, <4>1
    <3>5. F[x] \in Int /\ F[c] \in Int /\ SumFunctionOnSet(F, r) \in Int
          BY <3>3, SumInt
    <3>6. QED  BY <2>1, <3>2, <3>4, <3>5
  <2>3. QED  BY <2>1, <2>2
<1>3. SUBSET S \subseteq P
  <2> HIDE DEF P
  <2> QED  BY <1>1, <1>2, SubsetInduction
<1>4. S \in P
      BY <1>3
<1>5. QED  BY <1>4

(* Only the values on the set matter.                                      *)
LEMMA SumSame ==
    ASSUME NEW S, IsFiniteSet(S), NEW F, NEW G, \A x \in S : F[x] = G[x]
    PROVE  SumFunctionOnSet(F, S) = SumFunctionOnSet(G, S)
<1>1. PICK f : Summed(F, S, f)
      BY SumExists
<1>2. PICK h : Summed(G, S, h)
      BY SumExists
<1>3. \A s \in SUBSET S : f[s] = Rest(F, f, s) /\ h[s] = Rest(G, h, s)
      BY <1>1, <1>2 DEF Summed
<1> DEFINE P == {s \in SUBSET S : f[s] = h[s]}
<1>4. {} \in P
  <2>1. Rest(F, f, {}) = 0 /\ Rest(G, h, {}) = 0
        BY DEF Rest
  <2>2. QED  BY <1>3, <2>1
<1>5. ASSUME NEW s \in SUBSET S, s # {}, \A x \in s : s \ {x} \in P PROVE s \in P
  <2>1. PICK c : c = CHOOSE x \in s : TRUE
        OBVIOUS
  <2>2. c \in s
        BY <1>5, <2>1
  <2>3. f[s \ {c}] = h[s \ {c}] /\ F[c] = G[c]
        BY <1>5, <2>2
  <2>4. Rest(F, f, s) = Rest(G, h, s)
        BY <1>5, <2>1, <2>3 DEF Rest
  <2>5. QED  BY <1>3, <2>4
<1>6. SUBSET S \subseteq P
  <2> HIDE DEF P
  <2> QED  BY <1>4, <1>5, SubsetInduction
<1>7. f[S] = h[S] /\ S \in SUBSET S
      BY <1>6
<1>8. QED  BY <1>1, <1>2, <1>7, SumPart

(* A change at one member changes the sum by as much.                      *)
LEMMA SumOne ==
    ASSUME NEW S, IsFiniteSet(S), NEW F, NEW G, NEW y \in S,
           \A x \in S : F[x] \in Int /\ G[x] \in Int,
           \A x \in S : x # y => G[x] = F[x]
    PROVE  /\ SumFunctionOnSet(G, S) = SumFunctionOnSet(F, S) + G[y] - F[y]
           /\ SumFunctionOnSet(F, S) \in Int
<1>1. PICK T : T = S \ {y}
      OBVIOUS
<1>2. SumFunctionOnSet(F, T) = SumFunctionOnSet(G, T)
  <2>1. IsFiniteSet(T) /\ \A x \in T : F[x] = G[x]
        BY <1>1, FS_Subset
  <2>2. QED  BY <2>1, SumSame
<1>3. SumFunctionOnSet(F, S) = F[y] + SumFunctionOnSet(F, T)
      BY <1>1, SumRemove
<1>4. SumFunctionOnSet(G, S) = G[y] + SumFunctionOnSet(G, T)
      BY <1>1, SumRemove
<1>5. SumFunctionOnSet(F, T) \in Int
      BY <1>1, SumInt
<1>6. QED  BY <1>2, <1>3, <1>4, <1>5

(* The sum of sums.                                                        *)
LEMMA SumPlus ==
    ASSUME NEW S, IsFiniteSet(S), NEW F, NEW G, NEW H,
           \A x \in S : F[x] \in Int /\ G[x] \in Int /\ H[x] = F[x] + G[x]
    PROVE  SumFunctionOnSet(H, S) = SumFunctionOnSet(F, S) + SumFunctionOnSet(G, S)
<1> DEFINE P == {s \in SUBSET S :
                    SumFunctionOnSet(H, s) = SumFunctionOnSet(F, s) + SumFunctionOnSet(G, s)}
<1>1. {} \in P
      BY SumEmpty
<1>2. ASSUME NEW s \in SUBSET S, s # {}, \A x \in s : s \ {x} \in P PROVE s \in P
  <2>1. IsFiniteSet(s)
        BY FS_Subset
  <2>2. PICK c \in s : SumFunctionOnSet(H, s) = H[c] + SumFunctionOnSet(H, s \ {c})
        BY <1>2, <2>1, SumChoose
  <2>3. PICK r : r = s \ {c}
        OBVIOUS
  <2>4. SumFunctionOnSet(H, r) = SumFunctionOnSet(F, r) + SumFunctionOnSet(G, r)
        BY <1>2, <2>3
  <2>5. SumFunctionOnSet(F, s) = F[c] + SumFunctionOnSet(F, r)
        BY <2>1, <2>3, SumRemove
  <2>6. SumFunctionOnSet(G, s) = G[c] + SumFunctionOnSet(G, r)
        BY <2>1, <2>3, SumRemove
  <2>7. /\ SumFunctionOnSet(F, r) \in Int /\ SumFunctionOnSet(G, r) \in Int
        /\ F[c] \in Int /\ G[c] \in Int /\ H[c] = F[c] + G[c]
        BY <2>3, SumInt
  <2>8. QED  BY <2>2, <2>3, <2>4, <2>5, <2>6, <2>7
<1>3. SUBSET S \subseteq P
  <2> HIDE DEF P
  <2> QED  BY <1>1, <1>2, SubsetInduction
<1>4. S \in P
      BY <1>3
<1>5. QED  BY <1>4

(* A sum over a part of a set, as one over the whole set.                  *)
LEMMA SumWithin ==
    ASSUME NEW S, IsFiniteSet(S), NEW T \in SUBSET S, NEW F, NEW G,
           \A x \in S : F[x] \in Int,
           \A x \in S : G[x] = IF x \in T THEN F[x] ELSE 0
    PROVE  SumFunctionOnSet(G, S) = SumFunctionOnSet(F, T)
<1> DEFINE P == {s \in SUBSET S : SumFunctionOnSet(G, s) = SumFunctionOnSet(F, s \cap T)}
<1>1. {} \in P
  <2>1. {} \cap T = {}
        OBVIOUS
  <2>2. QED  BY <2>1, SumEmpty
<1>2. ASSUME NEW s \in SUBSET S, s # {}, \A x \in s : s \ {x} \in P PROVE s \in P
  <2>1. IsFiniteSet(s) /\ IsFiniteSet(s \cap T)
        BY FS_Subset
  <2>2. PICK c \in s : SumFunctionOnSet(G, s) = G[c] + SumFunctionOnSet(G, s \ {c})
        BY <1>2, <2>1, SumChoose
  <2>3. PICK r : r = s \cap T
        OBVIOUS
  <2>4. SumFunctionOnSet(G, s \ {c}) = SumFunctionOnSet(F, (s \ {c}) \cap T)
        BY <1>2
  <2>5. CASE c \in T
    <3>1. (s \ {c}) \cap T = r \ {c} /\ c \in r
          BY <2>3, <2>5
    <3>2. SumFunctionOnSet(F, r) = F[c] + SumFunctionOnSet(F, r \ {c})
          BY <2>1, <2>3, <3>1, SumRemove
    <3>3. G[c] = F[c]
          BY <2>5
    <3>4. QED  BY <2>2, <2>3, <2>4, <3>1, <3>2, <3>3
  <2>6. CASE c \notin T
    <3>1. (s \ {c}) \cap T = r /\ r \in SUBSET S
          BY <2>3, <2>6
    <3>2. G[c] = 0 /\ SumFunctionOnSet(F, r) \in Int
          BY <2>6, <3>1, SumInt
    <3>3. QED  BY <2>2, <2>3, <2>4, <3>1, <3>2
  <2>7. QED  BY <2>5, <2>6
<1>3. SUBSET S \subseteq P
  <2> HIDE DEF P
  <2> QED  BY <1>1, <1>2, SubsetInduction
<1>4. S \in P /\ S \cap T = T
      BY <1>3
<1>5. QED  BY <1>4

(* A sum of numbers up to k.                                               *)
LEMMA SumBound ==
    ASSUME NEW S, IsFiniteSet(S), NEW k \in Nat, NEW F, \A x \in S : F[x] \in Int /\ F[x] <= k
    PROVE  SumFunctionOnSet(F, S) <= k * Cardinality(S)
<1> DEFINE P == {s \in SUBSET S : SumFunctionOnSet(F, s) <= k * Cardinality(s)}
<1>1. {} \in P
  <2>1. SumFunctionOnSet(F, {}) = 0 /\ Cardinality({}) = 0
        BY SumEmpty, FS_EmptySet
  <2>2. k * 0 = 0
        OBVIOUS
  <2>3. QED  BY <2>1, <2>2
<1>2. ASSUME NEW s \in SUBSET S, s # {}, \A x \in s : s \ {x} \in P PROVE s \in P
  <2>1. IsFiniteSet(s)
        BY FS_Subset
  <2>2. PICK c \in s : SumFunctionOnSet(F, s) = F[c] + SumFunctionOnSet(F, s \ {c})
        BY <1>2, <2>1, SumChoose
  <2>3. PICK n \in Nat : n = Cardinality(s)
        BY <2>1, FS_CardinalityType
  <2>4. Cardinality(s \ {c}) = n - 1
        BY <2>1, <2>3, FS_RemoveElement
  <2>5. k * (n - 1) = k * n - k /\ k * n \in Int
        OBVIOUS
  <2>6. F[c] \in Int /\ F[c] <= k /\ SumFunctionOnSet(F, s \ {c}) \in Int
        BY SumInt
  <2>7. SumFunctionOnSet(F, s \ {c}) <= k * n - k
    <3>1. s \ {c} \in P
          BY <1>2
    <3>2. QED  BY <2>4, <2>5, <3>1
  <2>8. SumFunctionOnSet(F, s) <= k * n
        BY <2>2, <2>5, <2>6, <2>7
  <2>9. QED  BY <2>3, <2>8
<1>3. SUBSET S \subseteq P
  <2> HIDE DEF P
  <2> QED  BY <1>1, <1>2, SubsetInduction
<1>4. S \in P
      BY <1>3
<1>5. QED  BY <1>4

===========================================================================
