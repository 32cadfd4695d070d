------------------------------ MODULE FoldFacts ------------------------------
(***************************************************************************)
(* Facts about the folds of the community modules that the models use and  *)
(* the provers know nothing of: the greatest and the least of two, a sum   *)
(* over a finite set (SumFunctionOnSet), and a fold along a sequence       *)
(* (FoldLeft).  Each is proved from the iteration the community modules    *)
(* choose, by the least counterexample: a natural, or a subset of a finite *)
(* set.                                                                    *)
(*                                                                         *)
(* A fold's step is the constant FoldStep, of three parameters, the value  *)
(* so far and the next element; a module that folds along a sequence takes *)
(* the facts with INSTANCE ... WITH FoldStep <- its own. A module that     *)
(* only sums has no use for it.                                            *)
(***************************************************************************)
EXTENDS Integers, SequencesExt, FiniteSetTheorems, WellFoundedInduction, TLAPS

CONSTANT FoldStep(_, _, _, _, _)   \* FoldStep(c, d, e, so far, element)

(* A non-empty set of naturals has a least one: the induction the proofs   *)
(* here rest on.                                                           *)
LEMMA LeastNat ==
    ASSUME NEW T \in SUBSET Nat, T # {}
    PROVE  \E x \in T : \A y \in T : x <= y
<1> DEFINE R == OpToRel(<, Nat)
<1>1. IsWellFoundedOn(R, Nat)
  BY NatLessThanWellFounded
<1>2. PICK x \in T : \A y \in T : <<y, x>> \notin R
  <2> HIDE DEF R
  <2> QED BY <1>1, WFMin
<1>3. \A y \in T : ~(y < x)
  BY <1>2 DEF OpToRel
<1> QED BY <1>3

(* What holds at 0 and passes from each number to the next holds up to n.  *)
LEMMA Upward ==
    ASSUME NEW n \in Nat, NEW T, 0 \in T, \A k \in 1..n : k - 1 \in T => k \in T
    PROVE  \A k \in 0..n : k \in T
<1> DEFINE bad == { k \in 0..n : k \notin T }
<1> SUFFICES ASSUME bad # {} PROVE FALSE
  OBVIOUS
<1>1. PICK m \in bad : \A k \in bad : m <= k
  <2>1. bad \in SUBSET Nat
    OBVIOUS
  <2> HIDE DEF bad
  <2> QED BY <2>1, LeastNat
<1>2. m \in 1..n /\ m - 1 \in 0..n /\ m - 1 \notin bad
  BY <1>1
<1> QED BY <1>1, <1>2

(* What holds at n and passes from each number to the one before it holds  *)
(* down to 0.                                                              *)
LEMMA Downward ==
    ASSUME NEW n \in Nat, NEW T, n \in T, \A k \in 1..n : k \in T => k - 1 \in T
    PROVE  \A k \in 0..n : k \in T
<1> DEFINE U == { j \in 0..n : n - j \in T }
<1>1. 0 \in U
  OBVIOUS
<1>2. ASSUME NEW j \in 1..n, j - 1 \in U PROVE j \in U
  <2>1. n - (j - 1) \in 1..n /\ n - (j - 1) \in T /\ (n - (j - 1)) - 1 = n - j
    BY <1>2
  <2>2. n - j \in T
    BY <2>1
  <2> QED BY <2>2
<1>3. \A j \in 0..n : j \in U
  <2> HIDE DEF U
  <2> QED BY <1>1, <1>2, Upward
<1>4. ASSUME NEW k \in 0..n PROVE k \in T
  <2>1. n - k \in 0..n /\ n - (n - k) = k
    OBVIOUS
  <2>2. n - k \in U
    BY <1>3, <2>1
  <2> QED BY <2>1, <2>2
<1> QED BY <1>4

(* Among subsets of a finite set, a non-empty family has a minimal one.    *)
LEMMA SmallestSubset ==
    ASSUME NEW S, IsFiniteSet(S), NEW F \in SUBSET (SUBSET S), F # {}
    PROVE  \E T \in F : \A U \in F : U \subseteq T => U = T
<1> DEFINE R == StrictSubsetOrdering(S)
<1>1. F \subseteq FiniteSubsetsOf(S)
  BY FS_Subset DEF FiniteSubsetsOf
<1>2. IsWellFoundedOn(R, FiniteSubsetsOf(S))
  BY FS_StrictSubsetOrderingWellFounded
<1>3. PICK T \in F : \A U \in F : <<U, T>> \notin R
  <2> HIDE DEF R
  <2> QED BY <1>1, <1>2, WFMin
<1> QED BY <1>3 DEF StrictSubsetOrdering

(* The greater and the lesser of two integers.                             *)
LEMMA MaxOfTwo ==
    ASSUME NEW a \in Int, NEW b \in Int
    PROVE  Max({a, b}) = IF a >= b THEN a ELSE b
<1>1. \A x : (x \in {a, b} /\ \A y \in {a, b} : x >= y) => x = IF a >= b THEN a ELSE b
    OBVIOUS
<1>2. LET m == IF a >= b THEN a ELSE b
        IN  m \in {a, b} /\ \A y \in {a, b} : m >= y
    OBVIOUS
<1>3. \E x \in {a, b} : \A y \in {a, b} : x >= y
    BY <1>2
<1> QED BY <1>1, <1>3 DEF Max

(* The same of the lesser.                                                 *)
LEMMA MinOfTwo ==
    ASSUME NEW a \in Int, NEW b \in Int
    PROVE  Min({a, b}) = IF a <= b THEN a ELSE b
<1>1. \A x : (x \in {a, b} /\ \A y \in {a, b} : x <= y) => x = IF a <= b THEN a ELSE b
    OBVIOUS
<1>2. LET m == IF a <= b THEN a ELSE b
        IN  m \in {a, b} /\ \A y \in {a, b} : m <= y
    OBVIOUS
<1>3. \E x \in {a, b} : \A y \in {a, b} : x <= y
    BY <1>2
<1> QED BY <1>1, <1>3 DEF Min

-----------------------------------------------------------------------------
(* Sums over finite sets.                                                  *)
AnyOf(s) == CHOOSE x \in s : TRUE

(* What the iteration of a sum over S defines.                             *)
IsSummer(f, S, it) ==
    it = [s \in SUBSET S |-> IF s = {} THEN 0 ELSE f[AnyOf(s)] + it[s \ {AnyOf(s)}]]

(* A sum over S is what the iteration of a sum makes of S.                 *)
LEMMA SumIs ==
    ASSUME NEW f, NEW S
    PROVE  SumFunctionOnSet(f, S) = (CHOOSE it : IsSummer(f, S, it))[S]
BY DEF SumFunctionOnSet, FoldFunctionOnSet, MapThenFoldSet, IsSummer, AnyOf

(* Iterations over different sets agree on the sets both are about.        *)
LEMMA SummersAgree ==
    ASSUME NEW f, NEW S, NEW T, NEW g, NEW h, IsFiniteSet(S),
           IsSummer(f, S, g), IsSummer(f, T, h)
    PROVE  \A s \in SUBSET S : s \subseteq T => g[s] = h[s]
<1> DEFINE bad == { s \in SUBSET S : s \subseteq T /\ g[s] # h[s] }
<1> SUFFICES ASSUME bad # {} PROVE FALSE
  OBVIOUS
<1>0. bad \in SUBSET (SUBSET S)
  OBVIOUS
<1>1. PICK s \in bad : \A u \in bad : u \subseteq s => u = s
  <2> HIDE DEF bad
  <2> QED BY <1>0, SmallestSubset
<1>2. CASE s = {}
  BY <1>2 DEF IsSummer
<1>3. CASE s # {}
  <2> DEFINE r == s \ {AnyOf(s)}
  <2>1. AnyOf(s) \in s
    BY <1>3 DEF AnyOf
  <2>2. r \in SUBSET S /\ r \subseteq T /\ r # s
    BY <2>1
  <2>3. g[r] = h[r]
    BY <1>1, <2>2
  <2>4. g[s] = f[AnyOf(s)] + g[r] /\ h[s] = f[AnyOf(s)] + h[r]
    BY <1>3 DEF IsSummer
  <2> QED BY <2>3, <2>4
<1> QED BY <1>2, <1>3

(* There is such an iteration over every finite set.                       *)
LEMMA SummerExists ==
    ASSUME NEW f, NEW S, IsFiniteSet(S)
    PROVE  \E it : IsSummer(f, S, it)
<1> DEFINE bad == { s \in SUBSET S : ~ \E it : IsSummer(f, s, it) }
<1> SUFFICES ASSUME bad # {} PROVE FALSE
  OBVIOUS
<1>0. bad \in SUBSET (SUBSET S)
  OBVIOUS
<1>1. PICK T \in bad : \A u \in bad : u \subseteq T => u = T
  <2> HIDE DEF bad
  <2> QED BY <1>0, SmallestSubset
<1> DEFINE Of(s) == CHOOSE it : IsSummer(f, s, it)
           rest(s) == s \ {AnyOf(s)}
           g == [s \in SUBSET T |-> IF s = {} THEN 0 ELSE f[AnyOf(s)] + Of(rest(s))[rest(s)]]
<1>2. \A s \in SUBSET T : s # T => IsSummer(f, s, Of(s))
  <2> SUFFICES ASSUME NEW s \in SUBSET T, s # T PROVE IsSummer(f, s, Of(s))
    OBVIOUS
  <2>1. s \notin bad
    BY <1>1
  <2>2. \E it : IsSummer(f, s, it)
    BY <1>1, <2>1
  <2> QED BY <2>2
<1>3. \A s \in SUBSET T : s # {} => AnyOf(s) \in s /\ rest(s) \in SUBSET T /\ rest(s) # T
  BY DEF AnyOf
<1>4. ASSUME NEW s \in SUBSET T, s # {}
      PROVE  g[rest(s)] = Of(rest(s))[rest(s)]
  <2> DEFINE r == rest(s)
  <2>1. r \in SUBSET T /\ r # T /\ IsSummer(f, r, Of(r))
    BY <1>2, <1>3, <1>4
  <2>2. Of(r)[r] = IF r = {} THEN 0 ELSE f[AnyOf(r)] + Of(r)[rest(r)]
    <3> HIDE DEF Of
    <3> QED BY <2>1 DEF IsSummer
  <2>3. CASE r = {}
    <3> HIDE DEF Of
    <3> QED BY <2>1, <2>2, <2>3
  <2>4. CASE r # {}
    <3>1. rest(r) \in SUBSET T /\ rest(r) # T /\ rest(r) \subseteq r
      BY <1>3, <2>1, <2>4
    <3>2. IsSummer(f, rest(r), Of(rest(r)))
      BY <1>2, <3>1
    <3>3. IsFiniteSet(rest(r))
      BY <3>1, <1>1, FS_Subset
    <3>4. Of(rest(r))[rest(r)] = Of(r)[rest(r)]
      <4> HIDE DEF Of, r, rest
      <4> QED BY <2>1, <3>1, <3>2, <3>3, SummersAgree
    <3>5. g[r] = f[AnyOf(r)] + Of(rest(r))[rest(r)]
      BY <2>1, <2>4
    <3> HIDE DEF Of, g, rest
    <3> QED BY <2>2, <2>4, <3>4, <3>5
  <2> QED BY <2>3, <2>4
<1>5. IsSummer(f, T, g)
  <2>1. \A s \in SUBSET T : s # {} => g[s] = f[AnyOf(s)] + g[rest(s)]
    BY <1>3, <1>4
  <2>2. g = [s \in SUBSET T |-> g[s]]
    OBVIOUS
  <2>3. g[{}] = 0
    OBVIOUS
  <2> HIDE DEF g
  <2> QED BY <2>1, <2>2, <2>3 DEF IsSummer
<1> QED BY <1>1, <1>5

(* A sum is what any one element gives and the sum of the rest.            *)
LEMMA SumStep ==
    ASSUME NEW f, NEW S, IsFiniteSet(S)
    PROVE  SumFunctionOnSet(f, S)
             = IF S = {} THEN 0 ELSE f[AnyOf(S)] + SumFunctionOnSet(f, S \ {AnyOf(S)})
<1> DEFINE r == S \ {AnyOf(S)}
           g == CHOOSE it : IsSummer(f, S, it)
           h == CHOOSE it : IsSummer(f, r, it)
<1>1. IsFiniteSet(r)
  BY FS_Subset
<1>2. IsSummer(f, S, g)
  BY SummerExists
<1>3. IsSummer(f, r, h)
  <2> HIDE DEF r
  <2> QED BY <1>1, SummerExists
<1>4. SumFunctionOnSet(f, S) = g[S] /\ SumFunctionOnSet(f, r) = h[r]
  BY SumIs
<1>5. g[S] = IF S = {} THEN 0 ELSE f[AnyOf(S)] + g[r]
  <2> HIDE DEF g
  <2> QED BY <1>2 DEF IsSummer
<1>6. g[r] = h[r]
  <2>1. r \in SUBSET r /\ r \subseteq S
    OBVIOUS
  <2> HIDE DEF g, h, r
  <2> QED BY <1>1, <1>2, <1>3, <2>1, SummersAgree
<1> HIDE DEF g, h
<1> QED BY <1>4, <1>5, <1>6

(* Nothing summed is zero.                                                 *)
LEMMA SumNothing == ASSUME NEW f PROVE SumFunctionOnSet(f, {}) = 0
BY SumStep, FS_EmptySet

(* A sum of integers is an integer.                                        *)
LEMMA SumType ==
    ASSUME NEW f, NEW S, IsFiniteSet(S), \A x \in S : f[x] \in Int
    PROVE  SumFunctionOnSet(f, S) \in Int
<1> DEFINE bad == { s \in SUBSET S : SumFunctionOnSet(f, s) \notin Int }
<1> SUFFICES ASSUME bad # {} PROVE FALSE
  OBVIOUS
<1>0. bad \in SUBSET (SUBSET S)
  OBVIOUS
<1>1. PICK s \in bad : \A u \in bad : u \subseteq s => u = s
  <2> HIDE DEF bad
  <2> QED BY <1>0, SmallestSubset
<1>2. IsFiniteSet(s)
  BY FS_Subset
<1>3. CASE s = {}
  BY <1>1, <1>3, SumNothing
<1>4. CASE s # {}
  <2>1. AnyOf(s) \in s
    BY <1>4 DEF AnyOf
  <2>2. SumFunctionOnSet(f, s \ {AnyOf(s)}) \in Int
    BY <1>1, <2>1
  <2>3. SumFunctionOnSet(f, s) = f[AnyOf(s)] + SumFunctionOnSet(f, s \ {AnyOf(s)})
    BY <1>2, <1>4, SumStep
  <2> QED BY <2>1, <2>2, <2>3
<1> QED BY <1>3, <1>4

(* A sum depends on the values summed and nothing else.                    *)
LEMMA SumSame ==
    ASSUME NEW f, NEW g, NEW S, IsFiniteSet(S), \A x \in S : f[x] = g[x]
    PROVE  SumFunctionOnSet(f, S) = SumFunctionOnSet(g, S)
<1> DEFINE bad == { s \in SUBSET S : SumFunctionOnSet(f, s) # SumFunctionOnSet(g, s) }
<1> SUFFICES ASSUME bad # {} PROVE FALSE
  OBVIOUS
<1>0. bad \in SUBSET (SUBSET S)
  OBVIOUS
<1>1. PICK s \in bad : \A u \in bad : u \subseteq s => u = s
  <2> HIDE DEF bad
  <2> QED BY <1>0, SmallestSubset
<1>2. IsFiniteSet(s)
  BY FS_Subset
<1>3. CASE s = {}
  BY <1>1, <1>3, SumNothing
<1>4. CASE s # {}
  <2>1. AnyOf(s) \in s
    BY <1>4 DEF AnyOf
  <2>2. SumFunctionOnSet(f, s \ {AnyOf(s)}) = SumFunctionOnSet(g, s \ {AnyOf(s)})
    BY <1>1, <2>1
  <2>3. /\ SumFunctionOnSet(f, s) = f[AnyOf(s)] + SumFunctionOnSet(f, s \ {AnyOf(s)})
        /\ SumFunctionOnSet(g, s) = g[AnyOf(s)] + SumFunctionOnSet(g, s \ {AnyOf(s)})
    BY <1>2, <1>4, SumStep
  <2> QED BY <2>1, <2>2, <2>3
<1> QED BY <1>3, <1>4

(* Whichever element is taken out, its value is what the sum loses.        *)
LEMMA SumWithout ==
    ASSUME NEW f, NEW S, IsFiniteSet(S), \A x \in S : f[x] \in Int, NEW x \in S
    PROVE  SumFunctionOnSet(f, S) = f[x] + SumFunctionOnSet(f, S \ {x})
<1> DEFINE Fits(s) == \A y \in s : SumFunctionOnSet(f, s) = f[y] + SumFunctionOnSet(f, s \ {y})
           bad == { s \in SUBSET S : ~Fits(s) }
<1> SUFFICES ASSUME bad # {} PROVE FALSE
  OBVIOUS
<1>0. bad \in SUBSET (SUBSET S)
  OBVIOUS
<1>1. PICK s \in bad : \A u \in bad : u \subseteq s => u = s
  <2> HIDE DEF bad
  <2> QED BY <1>0, SmallestSubset
<1>2. PICK y \in s : SumFunctionOnSet(f, s) # f[y] + SumFunctionOnSet(f, s \ {y})
  BY <1>1
<1> DEFINE p == AnyOf(s)
           r == s \ {p}
           t == s \ {y}
           c == (s \ {p}) \ {y}
<1>3. p \in s
  BY <1>2 DEF AnyOf
<1>4. IsFiniteSet(s) /\ IsFiniteSet(r) /\ IsFiniteSet(t) /\ IsFiniteSet(c)
  BY FS_Subset
<1>5. SumFunctionOnSet(f, s) = f[p] + SumFunctionOnSet(f, r)
  BY <1>2, <1>4, SumStep
<1>6. y # p
  BY <1>2, <1>5
<1>7. SumFunctionOnSet(f, r) = f[y] + SumFunctionOnSet(f, c)
  <2>1. r \in SUBSET S /\ r \subseteq s /\ r # s /\ y \in r
    BY <1>2, <1>3, <1>6
  <2>2. Fits(r)
    BY <1>1, <2>1
  <2> QED BY <2>1, <2>2
<1>8. SumFunctionOnSet(f, t) = f[p] + SumFunctionOnSet(f, c)
  <2>1. t \in SUBSET S /\ t \subseteq s /\ t # s /\ p \in t /\ c = t \ {p}
    BY <1>2, <1>3, <1>6
  <2>2. Fits(t)
    BY <1>1, <2>1
  <2> QED BY <2>1, <2>2
<1>9. f[p] \in Int /\ f[y] \in Int /\ SumFunctionOnSet(f, c) \in Int
  BY <1>2, <1>3, <1>4, SumType
<1> HIDE DEF r, t, c, p
<1> QED BY <1>2, <1>5, <1>7, <1>8, <1>9 DEF t

(* What one element more adds.                                             *)
LEMMA SumWith ==
    ASSUME NEW f, NEW S, IsFiniteSet(S), NEW x, x \notin S, \A y \in S \union {x} : f[y] \in Int
    PROVE  SumFunctionOnSet(f, S \union {x}) = SumFunctionOnSet(f, S) + f[x]
<1> DEFINE T == S \union {x}
<1>1. IsFiniteSet(T) /\ T \ {x} = S /\ x \in T
  BY FS_AddElement
<1>2. SumFunctionOnSet(f, S) \in Int /\ f[x] \in Int
  BY SumType
<1>3. \A y \in T : f[y] \in Int
  OBVIOUS
<1> HIDE DEF T
<1>4. SumFunctionOnSet(f, T) = f[x] + SumFunctionOnSet(f, T \ {x})
  BY <1>1, <1>3, SumWithout
<1>5. SumFunctionOnSet(f, T) = f[x] + SumFunctionOnSet(f, S)
  BY <1>1, <1>4, Zenon
<1>6. SumFunctionOnSet(f, T) = SumFunctionOnSet(f, S) + f[x]
  BY <1>2, <1>5
<1> QED BY <1>6 DEF T

(* f summed over S and g over R differ in nothing but t.                   *)
DifferAt(f, g, S, R, t) ==
    /\ IsFiniteSet(S) /\ IsFiniteSet(R)
    /\ S \ {t} = R \ {t}
    /\ \A x \in S : f[x] \in Int
    /\ \A x \in R : g[x] \in Int
    /\ \A x \in S \ {t} : f[x] = g[x]

(* Then the sum changes by what t gave and what it gives.                  *)
LEMMA SumChange ==
    ASSUME NEW f, NEW g, NEW S, NEW R, NEW t, DifferAt(f, g, S, R, t)
    PROVE  SumFunctionOnSet(g, R) =
             SumFunctionOnSet(f, S) - (IF t \in S THEN f[t] ELSE 0)
                                    + (IF t \in R THEN g[t] ELSE 0)
<1> DEFINE rest == S \ {t}
<1> USE DEF DifferAt
<1>1. IsFiniteSet(rest) /\ rest = R \ {t}
  BY FS_Subset
<1>2. SumFunctionOnSet(f, rest) = SumFunctionOnSet(g, rest)
  BY <1>1, SumSame
<1>3. SumFunctionOnSet(f, rest) \in Int
  BY <1>1, SumType
<1>4. SumFunctionOnSet(f, S) = SumFunctionOnSet(f, rest) + (IF t \in S THEN f[t] ELSE 0)
  <2>1. CASE t \in S
    <3>1. SumFunctionOnSet(f, S) = f[t] + SumFunctionOnSet(f, rest)
      BY <2>1, SumWithout
    <3> HIDE DEF rest
    <3> QED BY <2>1, <1>3, <3>1
  <2>2. CASE t \notin S
    <3>1. rest = S
      BY <2>2
    <3> HIDE DEF rest
    <3> QED BY <2>2, <1>3, <3>1
  <2> QED BY <2>1, <2>2
<1>5. SumFunctionOnSet(g, R) = SumFunctionOnSet(f, rest) + (IF t \in R THEN g[t] ELSE 0)
  <2>1. CASE t \in R
    <3>1. SumFunctionOnSet(g, R) = g[t] + SumFunctionOnSet(g, R \ {t})
      BY <2>1, SumWithout
    <3>2. SumFunctionOnSet(g, R \ {t}) = SumFunctionOnSet(g, rest)
      BY <1>1, Zenon
    <3> HIDE DEF rest
    <3> QED BY <2>1, <1>2, <1>3, <3>1, <3>2
  <2>2. CASE t \notin R
    <3>1. rest = R
      BY <1>1, <2>2
    <3> HIDE DEF rest
    <3> QED BY <2>2, <1>2, <1>3, <3>1
  <2> QED BY <2>1, <2>2
<1>6. (IF t \in S THEN f[t] ELSE 0) \in Int /\ (IF t \in R THEN g[t] ELSE 0) \in Int
  OBVIOUS
<1> HIDE DEF rest
<1> QED BY <1>3, <1>4, <1>5, <1>6

(* A sum of so many times each is so many times the sum.                   *)
LEMMA SumTimes ==
    ASSUME NEW f, NEW g, NEW S, IsFiniteSet(S), NEW u \in Int,
           \A x \in S : f[x] \in Int /\ g[x] = u * f[x]
    PROVE  SumFunctionOnSet(g, S) = u * SumFunctionOnSet(f, S)
<1> DEFINE bad == { s \in SUBSET S : SumFunctionOnSet(g, s) # u * SumFunctionOnSet(f, s) }
<1> SUFFICES ASSUME bad # {} PROVE FALSE
  OBVIOUS
<1>0. bad \in SUBSET (SUBSET S)
  OBVIOUS
<1>1. PICK s \in bad : \A v \in bad : v \subseteq s => v = s
  <2> HIDE DEF bad
  <2> QED BY <1>0, SmallestSubset
<1>2. IsFiniteSet(s)
  BY FS_Subset
<1>3. CASE s = {}
  <2>1. SumFunctionOnSet(g, s) = 0 /\ SumFunctionOnSet(f, s) = 0
    BY <1>3, SumNothing
  <2> QED BY <1>1, <2>1
<1>4. CASE s # {}
  <2> DEFINE x == AnyOf(s)
             r == s \ {x}
             a == SumFunctionOnSet(f, r)
             b == SumFunctionOnSet(g, r)
  <2>1. x \in s
    BY <1>4 DEF AnyOf
  <2>2. b = u * a
    BY <1>1, <2>1
  <2>3. /\ SumFunctionOnSet(g, s) = g[x] + b
        /\ SumFunctionOnSet(f, s) = f[x] + a
    BY <1>2, <1>4, SumStep
  <2>4. f[x] \in Int /\ g[x] = u * f[x]
    BY <2>1
  <2>5. a \in Int
    <3>1. IsFiniteSet(r) /\ \A y \in r : f[y] \in Int
      BY <1>2, FS_Subset
    <3> HIDE DEF r
    <3> QED BY <3>1, SumType
  <2> HIDE DEF x, a, b
  <2>6. u * (f[x] + a) = u * f[x] + u * a
    BY <2>4, <2>5
  <2> QED BY <1>1, <2>2, <2>3, <2>4, <2>6
<1> QED BY <1>3, <1>4

(* Two sums over one set are the sum of both.                              *)
LEMMA SumPlus ==
    ASSUME NEW f, NEW g, NEW h, NEW S, IsFiniteSet(S),
           \A x \in S : f[x] \in Int /\ g[x] \in Int /\ h[x] = f[x] + g[x]
    PROVE  SumFunctionOnSet(h, S) = SumFunctionOnSet(f, S) + SumFunctionOnSet(g, S)
<1> DEFINE bad == { s \in SUBSET S :
                      SumFunctionOnSet(h, s) # SumFunctionOnSet(f, s) + SumFunctionOnSet(g, s) }
<1> SUFFICES ASSUME bad # {} PROVE FALSE
  OBVIOUS
<1>0. bad \in SUBSET (SUBSET S)
  OBVIOUS
<1>1. PICK s \in bad : \A v \in bad : v \subseteq s => v = s
  <2> HIDE DEF bad
  <2> QED BY <1>0, SmallestSubset
<1>2. IsFiniteSet(s)
  BY FS_Subset
<1>3. CASE s = {}
  <2>1. SumFunctionOnSet(h, s) = 0 /\ SumFunctionOnSet(f, s) = 0 /\ SumFunctionOnSet(g, s) = 0
    BY <1>3, SumNothing
  <2> QED BY <1>1, <2>1
<1>4. CASE s # {}
  <2> DEFINE x == AnyOf(s)
             r == s \ {x}
             a == SumFunctionOnSet(f, r)
             b == SumFunctionOnSet(g, r)
             c == SumFunctionOnSet(h, r)
  <2>1. x \in s
    BY <1>4 DEF AnyOf
  <2>2. c = a + b
    BY <1>1, <2>1
  <2>3. /\ SumFunctionOnSet(h, s) = h[x] + c
        /\ SumFunctionOnSet(f, s) = f[x] + a
        /\ SumFunctionOnSet(g, s) = g[x] + b
    BY <1>2, <1>4, SumStep
  <2>4. f[x] \in Int /\ g[x] \in Int /\ h[x] = f[x] + g[x]
    BY <2>1
  <2>5. a \in Int /\ b \in Int
    <3>1. IsFiniteSet(r) /\ \A y \in r : f[y] \in Int /\ g[y] \in Int
      BY <1>2, FS_Subset
    <3> HIDE DEF r
    <3> QED BY <3>1, SumType
  <2> HIDE DEF x, a, b, c
  <2> QED BY <1>1, <2>2, <2>3, <2>4, <2>5
<1> QED BY <1>3, <1>4

(* A sum of naturals is a natural.                                         *)
LEMMA SumNat ==
    ASSUME NEW f, NEW S, IsFiniteSet(S), \A x \in S : f[x] \in Nat
    PROVE  SumFunctionOnSet(f, S) \in Nat
<1> DEFINE bad == { s \in SUBSET S : SumFunctionOnSet(f, s) \notin Nat }
<1> SUFFICES ASSUME bad # {} PROVE FALSE
  OBVIOUS
<1>0. bad \in SUBSET (SUBSET S)
  OBVIOUS
<1>1. PICK s \in bad : \A u \in bad : u \subseteq s => u = s
  <2> HIDE DEF bad
  <2> QED BY <1>0, SmallestSubset
<1>2. IsFiniteSet(s)
  BY FS_Subset
<1>3. CASE s = {}
  BY <1>1, <1>3, SumNothing
<1>4. CASE s # {}
  <2>1. AnyOf(s) \in s
    BY <1>4 DEF AnyOf
  <2>2. SumFunctionOnSet(f, s \ {AnyOf(s)}) \in Nat
    BY <1>1, <2>1
  <2>3. SumFunctionOnSet(f, s) = f[AnyOf(s)] + SumFunctionOnSet(f, s \ {AnyOf(s)})
    BY <1>2, <1>4, SumStep
  <2> QED BY <2>1, <2>2, <2>3
<1> QED BY <1>3, <1>4

(* Two sets with nothing in common add up apart.                           *)
LEMMA SumApart ==
    ASSUME NEW f, NEW A, NEW B, IsFiniteSet(A), IsFiniteSet(B), A \intersect B = {},
           \A x \in A \union B : f[x] \in Int
    PROVE  SumFunctionOnSet(f, A \union B) = SumFunctionOnSet(f, A) + SumFunctionOnSet(f, B)
<1> DEFINE bad == { b \in SUBSET B :
               SumFunctionOnSet(f, A \union b) # SumFunctionOnSet(f, A) + SumFunctionOnSet(f, b) }
<1> SUFFICES ASSUME bad # {} PROVE FALSE
  OBVIOUS
<1>0. bad \in SUBSET (SUBSET B)
  OBVIOUS
<1>1. PICK b \in bad : \A u \in bad : u \subseteq b => u = b
  <2> HIDE DEF bad
  <2> QED BY <1>0, SmallestSubset
<1>2. SumFunctionOnSet(f, A) \in Int
  BY SumType
<1>3. CASE b = {}
  <2>1. A \union b = A
    BY <1>3
  <2> QED BY <1>1, <1>2, <1>3, <2>1, SumNothing
<1>4. CASE b # {}
  <2>1. PICK y \in b : TRUE
    BY <1>4
  <2> DEFINE r == b \ {y}
             c == A \union r
  <2>2. r \in SUBSET B /\ r \subseteq b /\ r # b /\ b = r \union {y} /\ y \notin r
    BY <1>1, <2>1
  <2>3. SumFunctionOnSet(f, c) = SumFunctionOnSet(f, A) + SumFunctionOnSet(f, r)
    BY <1>1, <2>2
  <2>4. A \union b = c \union {y} /\ y \notin c
    BY <1>1, <2>1
  <2>5. IsFiniteSet(r) /\ IsFiniteSet(c)
    BY <2>2, FS_Subset, FS_Union
  <2>6. \A x \in c \union {y} : f[x] \in Int
    BY <1>1, <2>1
  <2>7. \A x \in r \union {y} : f[x] \in Int
    BY <2>6
  <2> HIDE DEF c, r
  <2>8. SumFunctionOnSet(f, c \union {y}) = SumFunctionOnSet(f, c) + f[y]
    BY <2>4, <2>5, <2>6, SumWith
  <2>9. SumFunctionOnSet(f, r \union {y}) = SumFunctionOnSet(f, r) + f[y]
    BY <2>2, <2>5, <2>7, SumWith
  <2>10. SumFunctionOnSet(f, r) \in Int /\ f[y] \in Int
    BY <2>5, <2>7, SumType
  <2>11. SumFunctionOnSet(f, A \union b) = SumFunctionOnSet(f, c) + f[y]
    BY <2>4, <2>8
  <2>12. SumFunctionOnSet(f, b) = SumFunctionOnSet(f, r) + f[y]
    BY <2>2, <2>9
  <2>13. SumFunctionOnSet(f, A \union b) = SumFunctionOnSet(f, A) + SumFunctionOnSet(f, b)
    BY <1>2, <2>3, <2>10, <2>11, <2>12
  <2> QED BY <1>1, <2>13
<1> QED BY <1>3, <1>4

(* A sum over rows, one for each of some keys, is a sum over the keys.     *)
LEMMA SumImage ==
    ASSUME NEW f, NEW g, NEW row, NEW K, IsFiniteSet(K),
           \A j, k \in K : row[j] = row[k] => j = k,
           \A k \in K : f[row[k]] = g[k] /\ g[k] \in Int
    PROVE  SumFunctionOnSet(f, { row[k] : k \in K }) = SumFunctionOnSet(g, K)
<1> DEFINE Im(b) == { row[k] : k \in b }
           bad == { b \in SUBSET K : SumFunctionOnSet(f, Im(b)) # SumFunctionOnSet(g, b) }
<1> SUFFICES ASSUME bad # {} PROVE FALSE
  OBVIOUS
<1>0. bad \in SUBSET (SUBSET K)
  OBVIOUS
<1>1. PICK b \in bad : \A u \in bad : u \subseteq b => u = b
  <2> HIDE DEF bad
  <2> QED BY <1>0, SmallestSubset
<1>2. CASE b = {}
  <2>1. Im(b) = {}
    BY <1>2
  <2> HIDE DEF Im
  <2> QED BY <1>1, <1>2, <2>1, SumNothing
<1>3. CASE b # {}
  <2>1. PICK y \in b : TRUE
    BY <1>3
  <2> DEFINE r == b \ {y}
  <2>2. r \in SUBSET K /\ r \subseteq b /\ r # b /\ b = r \union {y} /\ y \notin r
    BY <1>1, <2>1
  <2>3. SumFunctionOnSet(f, Im(r)) = SumFunctionOnSet(g, r)
    BY <1>1, <2>2
  <2>4. Im(b) = Im(r) \union {row[y]} /\ row[y] \notin Im(r)
    BY <1>1, <2>1
  <2>5. IsFiniteSet(r) /\ IsFiniteSet(Im(r))
    <3>1. IsFiniteSet(r)
      BY <2>2, FS_Subset
    <3> DEFINE h == [k \in r |-> row[k]]
    <3>2. h \in Surjection(r, Im(r))
      BY DEF Surjection
    <3> HIDE DEF h, r, Im
    <3> QED BY <3>1, <3>2, FS_Surjection
  <2>6. (\A x \in Im(r) \union {row[y]} : f[x] \in Int) /\ (\A k \in r \union {y} : g[k] \in Int)
    BY <1>1, <2>1
  <2>7. f[row[y]] = g[y]
    BY <1>1, <2>1
  <2> HIDE DEF Im, r
  <2>8. SumFunctionOnSet(f, Im(r) \union {row[y]}) = SumFunctionOnSet(f, Im(r)) + f[row[y]]
    BY <2>4, <2>5, <2>6, SumWith
  <2>9. SumFunctionOnSet(g, r \union {y}) = SumFunctionOnSet(g, r) + g[y]
    BY <2>2, <2>5, <2>6, SumWith
  <2>10. SumFunctionOnSet(f, Im(b)) = SumFunctionOnSet(g, b)
    BY <2>2, <2>3, <2>4, <2>7, <2>8, <2>9
  <2> QED BY <1>1, <2>10
<1> QED BY <1>2, <1>3

(* A set cut into parts adds up to its parts' sums.                        *)
LEMMA SumParts ==
    ASSUME NEW f, NEW S, IsFiniteSet(S), \A x \in S : f[x] \in Int,
           NEW W, IsFiniteSet(W), NEW part,
           \A w \in W : part[w] \subseteq S,
           \A x \in S : \E w \in W : x \in part[w],
           \A v, w \in W : v # w => part[v] \intersect part[w] = {},
           NEW g, \A w \in W : g[w] = SumFunctionOnSet(f, part[w])
    PROVE  SumFunctionOnSet(g, W) = SumFunctionOnSet(f, S)
<1> DEFINE All(V) == UNION { part[w] : w \in V }
           bad == { V \in SUBSET W : SumFunctionOnSet(g, V) # SumFunctionOnSet(f, All(V)) }
<1>1. bad = {}
  <2> SUFFICES ASSUME bad # {} PROVE FALSE
    OBVIOUS
  <2>0. bad \in SUBSET (SUBSET W)
    OBVIOUS
  <2>1. PICK V \in bad : \A U \in bad : U \subseteq V => U = V
    <3> HIDE DEF bad
    <3> QED BY <2>0, SmallestSubset
  <2>2. CASE V = {}
    <3>1. All(V) = {}
      BY <2>2
    <3> HIDE DEF All
    <3> QED BY <2>1, <2>2, <3>1, SumNothing
  <2>3. CASE V # {}
    <3>1. PICK w \in V : TRUE
      BY <2>3
    <3> DEFINE U == V \ {w}
    <3>2. U \in SUBSET W /\ U \subseteq V /\ U # V /\ V = U \union {w} /\ w \notin U /\ w \in W
      BY <2>1, <3>1
    <3>3. SumFunctionOnSet(g, U) = SumFunctionOnSet(f, All(U))
      BY <2>1, <3>2
    <3>4. All(V) = All(U) \union part[w] /\ All(U) \subseteq S
      BY <3>2
    <3>5. All(U) \intersect part[w] = {}
      BY <3>2
    <3>6. IsFiniteSet(All(U)) /\ IsFiniteSet(part[w]) /\ IsFiniteSet(U)
      BY <3>2, <3>4, FS_Subset
    <3>7. \A v \in U \union {w} : g[v] \in Int
      <4> TAKE v \in U \union {w}
      <4>1. v \in W
        BY <3>2
      <4>2. IsFiniteSet(part[v]) /\ \A x \in part[v] : f[x] \in Int
        BY <4>1, FS_Subset
      <4> QED BY <4>1, <4>2, SumType
    <3>8. \A x \in All(U) \union part[w] : f[x] \in Int
      BY <3>2, <3>4
    <3> HIDE DEF All, U, bad
    <3>9. SumFunctionOnSet(f, All(U) \union part[w])
            = SumFunctionOnSet(f, All(U)) + SumFunctionOnSet(f, part[w])
      BY <3>5, <3>6, <3>8, SumApart
    <3>10. SumFunctionOnSet(g, U \union {w}) = SumFunctionOnSet(g, U) + g[w]
      BY <3>2, <3>6, <3>7, SumWith
    <3>11. SumFunctionOnSet(g, V) = SumFunctionOnSet(f, All(V))
      BY <3>2, <3>3, <3>4, <3>9, <3>10
    <3> QED BY <2>1, <3>11 DEF bad
  <2> QED BY <2>2, <2>3
<1>2. All(W) = S
  OBVIOUS
<1>3. W \in SUBSET W /\ W \notin bad
  BY <1>1
<1> HIDE DEF All
<1>4. SumFunctionOnSet(g, W) = SumFunctionOnSet(f, All(W))
  BY <1>3
<1> QED BY <1>2, <1>4

-----------------------------------------------------------------------------
(* What the iteration of a fold over the places S of seq defines.          *)
IsFolder(c, d, e, base, seq, S, it) ==
    it = [s \in SUBSET S |->
             IF s = {} THEN base ELSE FoldStep(c, d, e, it[s \ {Max(s)}], seq[Max(s)])]

(* What FoldLeft makes of the steps, its definitions expanded.             *)
Folded(c, d, e, base, seq) ==
    (CHOOSE it : IsFolder(c, d, e, base, seq, DOMAIN seq, it))[DOMAIN seq]

(* The greatest of some places up to m is m when m is one of them.         *)
LEMMA LastPlace ==
    ASSUME NEW m \in Nat, NEW s \in SUBSET (1..m), m \in s
    PROVE  Max(s) = m
<1>1. m \in s /\ \A y \in s : m >= y
  OBVIOUS
<1>2. \A x \in s : (\A y \in s : x >= y) => x = m
  BY <1>1
<1> QED BY <1>1, <1>2 DEF Max

(* The iteration of a fold over the first n places exists.                 *)
LEMMA FolderExists ==
    ASSUME NEW c, NEW d, NEW e, NEW base, NEW seq, NEW n \in Nat
    PROVE  \E it : IsFolder(c, d, e, base, seq, 1..n, it)
<1> DEFINE Has(k) == \E it : IsFolder(c, d, e, base, seq, 1..k, it)
           bad == { k \in Nat : ~Has(k) }
<1> SUFFICES ASSUME bad # {} PROVE FALSE
  OBVIOUS
<1>1. PICK m \in bad : \A k \in bad : m <= k
  <2>1. bad \in SUBSET Nat
    OBVIOUS
  <2> HIDE DEF bad
  <2> QED BY <2>1, LeastNat
<1>2. CASE m = 0
  <2> DEFINE g == [s \in SUBSET (1..0) |-> base]
  <2>1. \A s \in SUBSET (1..0) : s = {}
    OBVIOUS
  <2>2. IsFolder(c, d, e, base, seq, 1..0, g)
    BY <2>1 DEF IsFolder
  <2> QED BY <1>1, <1>2, <2>2
<1>3. CASE m # 0
  <2>1. m \in Nat /\ m - 1 \in Nat /\ m - 1 \notin bad
    BY <1>1, <1>3
  <2>2. PICK g : IsFolder(c, d, e, base, seq, 1..(m-1), g)
    BY <2>1
  <2> DEFINE h == [s \in SUBSET (1..m) |->
                     IF s \in SUBSET (1..(m-1)) THEN g[s]
                     ELSE FoldStep(c, d, e, g[s \ {m}], seq[m])]
  <2>3. ASSUME NEW s \in SUBSET (1..m)
        PROVE  h[s] = IF s = {} THEN base
                      ELSE FoldStep(c, d, e, h[s \ {Max(s)}], seq[Max(s)])
    <3>1. CASE s \in SUBSET (1..(m-1))
      <4>1. s \ {Max(s)} \in SUBSET (1..(m-1)) /\ s \ {Max(s)} \in SUBSET (1..m)
        BY <2>1, <3>1
      <4>2. h[s] = g[s] /\ h[s \ {Max(s)}] = g[s \ {Max(s)}]
        BY <3>1, <4>1
      <4>3. g[s] = IF s = {} THEN base
                   ELSE FoldStep(c, d, e, g[s \ {Max(s)}], seq[Max(s)])
        BY <2>2, <3>1 DEF IsFolder
      <4> HIDE DEF h
      <4> QED BY <4>2, <4>3
    <3>2. CASE s \notin SUBSET (1..(m-1))
      <4>1. m \in s
        BY <2>1, <3>2
      <4>2. Max(s) = m
        BY <2>1, <4>1, LastPlace
      <4>3. s \ {m} \in SUBSET (1..(m-1)) /\ s \ {m} \in SUBSET (1..m)
        BY <2>1
      <4>4. h[s] = FoldStep(c, d, e, g[s \ {m}], seq[m]) /\ h[s \ {m}] = g[s \ {m}]
        BY <3>2, <4>3
      <4> HIDE DEF h
      <4> QED BY <4>1, <4>2, <4>4
    <3> QED BY <3>1, <3>2
  <2>4. IsFolder(c, d, e, base, seq, 1..m, h)
    <3>1. h = [s \in SUBSET (1..m) |-> h[s]]
      OBVIOUS
    <3> HIDE DEF h
    <3> QED BY <2>3, <3>1 DEF IsFolder
  <2> QED BY <1>1, <2>4
<1> QED BY <1>2, <1>3

(* A run of the steps over seq, from base.                                 *)
IsRun(c, d, e, base, seq, run) ==
    /\ run[0] = base
    /\ \A k \in 1..Len(seq) : run[k] = FoldStep(c, d, e, run[k - 1], seq[k])

(* A fold over a sequence ends where its run does.                         *)
LEMMA FoldIsRun ==
    ASSUME NEW c, NEW d, NEW e, NEW base, NEW A, NEW seq \in Seq(A)
    PROVE  \E run : /\ IsRun(c, d, e, base, seq, run)
                    /\ Folded(c, d, e, base, seq) = run[Len(seq)]
<1> DEFINE n == Len(seq)
           it == CHOOSE i : IsFolder(c, d, e, base, seq, DOMAIN seq, i)
           run == [k \in 0..n |-> it[1..k]]
<1>1. n \in Nat /\ DOMAIN seq = 1..n
  OBVIOUS
<1>2. IsFolder(c, d, e, base, seq, 1..n, it)
  <2> HIDE DEF n
  <2> QED BY <1>1, FolderExists
<1>3. SUFFICES \E r : IsRun(c, d, e, base, seq, r) /\ it[DOMAIN seq] = r[Len(seq)]
  BY DEF Folded
<1>4. \A k \in 0..n : run[k] = it[1..k]
  OBVIOUS
<1> HIDE DEF it, run, n
<1>5. run[0] = base
  <2>1. 1..0 = {} /\ {} \in SUBSET (1..n)
    OBVIOUS
  <2>2. it[{}] = base
    BY <1>2, <2>1 DEF IsFolder
  <2> QED BY <1>1, <1>4, <2>1, <2>2
<1>6. ASSUME NEW k \in 1..n PROVE run[k] = FoldStep(c, d, e, run[k - 1], seq[k])
  <2>1. 1..k \in SUBSET (1..n) /\ 1..k # {} /\ k \in Nat /\ k \in 1..k /\ (1..k) \ {k} = 1..(k - 1)
    BY <1>1
  <2>2. Max(1..k) = k
    BY <2>1, LastPlace
  <2>3. it[1..k] = FoldStep(c, d, e, it[(1..k) \ {k}], seq[k])
    BY <1>2, <2>1, <2>2 DEF IsFolder
  <2>4. run[k] = it[1..k] /\ run[k - 1] = it[1..(k - 1)]
    BY <1>1, <1>4
  <2> QED BY <2>1, <2>3, <2>4
<1> QED BY <1>1, <1>3, <1>4, <1>5, <1>6 DEF IsRun, n

(* The sequences agree up to place n.                                      *)
SameUpTo(seq, long, n) ==
    /\ n \in Nat /\ Len(seq) \in Nat /\ Len(long) \in Nat
    /\ n <= Len(seq) /\ n <= Len(long)
    /\ \A k \in 1..n : seq[k] = long[k]

(* Two runs over sequences that agree up to a place agree up to there.     *)
LEMMA RunsAgree ==
    ASSUME NEW c, NEW d, NEW e, NEW base, NEW seq, NEW long, NEW n,
           SameUpTo(seq, long, n),
           NEW run, NEW other, IsRun(c, d, e, base, seq, run), IsRun(c, d, e, base, long, other)
    PROVE  run[n] = other[n]
<1> USE DEF SameUpTo
<1> DEFINE bad == { k \in 0..n : run[k] # other[k] }
<1> SUFFICES ASSUME bad # {} PROVE FALSE
  OBVIOUS
<1>1. PICK m \in bad : \A k \in bad : m <= k
  <2>1. bad \in SUBSET Nat
    OBVIOUS
  <2> HIDE DEF bad
  <2> QED BY <2>1, LeastNat
<1>2. m # 0
  BY <1>1 DEF IsRun
<1>3. m \in 1..n /\ m - 1 \in 0..n /\ m - 1 \notin bad
  BY <1>1, <1>2
<1>4. run[m - 1] = other[m - 1]
  BY <1>3
<1>5. run[m] = FoldStep(c, d, e, run[m - 1], seq[m]) /\ other[m] = FoldStep(c, d, e, other[m - 1], long[m])
  BY <1>3 DEF IsRun
<1> QED BY <1>1, <1>3, <1>4, <1>5

(* A fold over nothing is its base.                                        *)
LEMMA FoldNothing ==
    ASSUME NEW c, NEW d, NEW e, NEW base
    PROVE  Folded(c, d, e, base, <<>>) = base
<1>1. <<>> \in Seq({}) /\ Len(<<>>) = 0
  OBVIOUS
<1>2. PICK run : IsRun(c, d, e, base, <<>>, run) /\ Folded(c, d, e, base, <<>>) = run[Len(<<>>)]
  BY <1>1, FoldIsRun
<1> QED BY <1>1, <1>2 DEF IsRun

(* One place more is one step more.                                        *)
LEMMA FoldAppend ==
    ASSUME NEW c, NEW d, NEW e, NEW base, NEW A, NEW seq \in Seq(A), NEW a \in A
    PROVE  Folded(c, d, e, base, Append(seq, a)) = FoldStep(c, d, e, Folded(c, d, e, base, seq), a)
<1> DEFINE long == Append(seq, a)
           n == Len(seq)
<1>1. /\ long \in Seq(A) /\ Len(long) = n + 1 /\ n \in Nat /\ long[n + 1] = a
      /\ \A k \in 1..n : seq[k] = long[k]
  OBVIOUS
<1> HIDE DEF long
<1>2. PICK run : IsRun(c, d, e, base, seq, run) /\ Folded(c, d, e, base, seq) = run[n]
  BY FoldIsRun
<1>3. PICK other : IsRun(c, d, e, base, long, other)
                     /\ Folded(c, d, e, base, long) = other[Len(long)]
  BY <1>1, FoldIsRun
<1>4. run[n] = other[n]
  <2>1. SameUpTo(seq, long, n)
    BY <1>1 DEF SameUpTo
  <2> HIDE DEF n
  <2> QED BY <1>2, <1>3, <2>1, RunsAgree
<1>5. other[n + 1] = FoldStep(c, d, e, other[n], a)
  <2>1. n + 1 \in 1..Len(long) /\ (n + 1) - 1 = n
    BY <1>1
  <2> QED BY <1>1, <1>3, <2>1 DEF IsRun
<1> QED BY <1>1, <1>2, <1>3, <1>4, <1>5 DEF long

(* A fold over one element is one step.                                    *)
LEMMA FoldOne ==
    ASSUME NEW c, NEW d, NEW e, NEW base, NEW a
    PROVE  Folded(c, d, e, base, <<a>>) = FoldStep(c, d, e, base, a)
<1>1. <<a>> \in Seq({a}) /\ Len(<<a>>) = 1 /\ 1 \in 1..Len(<<a>>) /\ <<a>>[1] = a
  OBVIOUS
<1>2. PICK run : /\ IsRun(c, d, e, base, <<a>>, run)
                 /\ Folded(c, d, e, base, <<a>>) = run[Len(<<a>>)]
  BY <1>1, FoldIsRun
<1>3. run[0] = base /\ run[1] = FoldStep(c, d, e, run[1 - 1], <<a>>[1])
  BY <1>1, <1>2 DEF IsRun
<1> QED BY <1>1, <1>2, <1>3
=============================================================================
