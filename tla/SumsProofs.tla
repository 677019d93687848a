----------------------------- MODULE SumsProofs -----------------------------
(***************************************************************************)
(* What proofs need of SumOf.  The library's induction theorems cannot be  *)
(* used with these provers, so induction is told of a least                *)
(* counterexample: if a set of finite sets is not empty it has a smallest  *)
(* one (SmallestSet), and whatever fails of some set fails of one all of   *)
(* whose proper subsets it holds of.  With it a fold is what its equations *)
(* say (SumIs), and the equations give the facts the models need: the      *)
(* empty sum, taking a member out, and replacing or adding one.            *)
(***************************************************************************)
EXTENDS Sums, FiniteSetTheorems, WellFoundedInduction, TLAPS

\* The order of the naturals.
Less == OpToRel(<, Nat)

\* The naturals are well founded by <.
LEMMA LessIs == IsWellFoundedOn(Less, Nat) /\ \A x, y \in Nat : x < y => <<x, y>> \in Less
<1>1. IsWellFoundedOn(Less, Nat)
  BY NatLessThanWellFounded DEF Less
<1>2. \A x, y \in Nat : x < y => <<x, y>> \in Less
  BY DEF Less, OpToRel
<1>3. QED
  BY <1>1, <1>2

\* A set of naturals has a least member: induction, told of the least
\* counterexample.
LEMMA LeastNatural ==
    ASSUME NEW T, T \subseteq Nat, T # {}
    PROVE  \E x \in T : \A y \in T : x <= y
<1>1. PICK x \in T : \A y \in T : <<y, x>> \notin Less
  BY LessIs, WFMin, ZenonT(60)
<1>2. ASSUME NEW y \in T
      PROVE  x <= y
  <2>1. ~(y < x)
    BY <1>1, LessIs
  <2>2. QED
    BY <2>1
<1>3. QED
  BY <1>2

\* Among finite sets of which something is said, one of the smallest.
LEMMA SmallestSet ==
    ASSUME NEW F, F # {}, \A S \in F : IsFiniteSet(S)
    PROVE  \E S \in F : \A R \in F : Cardinality(S) <= Cardinality(R)
<1> DEFINE sizes == {Cardinality(S) : S \in F}
<1>1. sizes \subseteq Nat /\ sizes # {}
  BY FS_CardinalityType
<1>2. PICK n \in sizes : \A m \in sizes : n <= m
  BY <1>1, LeastNatural
<1>3. QED
  BY <1>2

\* The member a fold takes first.
Some(S) == CHOOSE x \in S : TRUE

\* A finite set without the member CHOOSE gives is smaller.
LEMMA WithoutSome ==
    ASSUME NEW S, IsFiniteSet(S), S # {}
    PROVE  /\ Some(S) \in S
           /\ IsFiniteSet(S \ {Some(S)})
           /\ Cardinality(S \ {Some(S)}) < Cardinality(S)
<1>1. Some(S) \in S
  BY DEF Some
<1>2. IsFiniteSet(S \ {Some(S)}) /\ Cardinality(S \ {Some(S)}) = Cardinality(S) - 1
  BY <1>1, FS_RemoveElement
<1>3. Cardinality(S) \in Nat
  BY FS_CardinalityType
<1>4. QED
  BY <1>1, <1>2, <1>3

\* it gives the sums of f over the subsets of S.
IsSum(it, f, S) ==
    it = [s \in SUBSET S |-> IF s = {} THEN 0 ELSE f[Some(s)] + it[s \ {Some(s)}]]

It(f, S) == CHOOSE it : IsSum(it, f, S)

\* SumOf is what the recursion of a fold gives.
LEMMA SumIs ==
    ASSUME NEW f, NEW S
    PROVE  SumOf(f, S) = It(f, S)[S]
BY DEF SumOf, FoldFunctionOnSet, MapThenFoldSet, It, IsSum, Some

\* The recursion has one solution on the subsets two solutions share ...
LEMMA SumUnique ==
    ASSUME NEW f, NEW S, IsFiniteSet(S), NEW R \in SUBSET S,
           NEW it, IsSum(it, f, S), NEW jt, IsSum(jt, f, R)
    PROVE  \A s \in SUBSET R : it[s] = jt[s]
<1> DEFINE Bad == {s \in SUBSET R : it[s] # jt[s]}
<1> SUFFICES ASSUME Bad # {} PROVE FALSE
  OBVIOUS
<1>1. \A s \in SUBSET S : IsFiniteSet(s)
  BY FS_Subset
<1>2. PICK s \in Bad : \A r \in Bad : Cardinality(s) <= Cardinality(r)
  BY <1>1, SmallestSet
<1>3. /\ it[s] = IF s = {} THEN 0 ELSE f[Some(s)] + it[s \ {Some(s)}]
      /\ jt[s] = IF s = {} THEN 0 ELSE f[Some(s)] + jt[s \ {Some(s)}]
  BY DEF IsSum
<1>4. s # {}
  BY <1>3
<1>5. s \ {Some(s)} \notin Bad
  BY <1>1, <1>2, <1>4, WithoutSome, FS_CardinalityType
<1>6. QED
  BY <1>3, <1>4, <1>5

\* ... and has one for every finite set.
LEMMA SumExists ==
    ASSUME NEW f, NEW S, IsFiniteSet(S)
    PROVE  IsSum(It(f, S), f, S)
<1> DEFINE Bad == {s \in SUBSET S : ~IsSum(It(f, s), f, s)}
<1> SUFFICES ASSUME Bad # {} PROVE FALSE
  OBVIOUS
<1>1. \A s \in SUBSET S : IsFiniteSet(s)
  BY FS_Subset
<1>2. PICK s \in Bad : \A r \in Bad : Cardinality(s) <= Cardinality(r)
  BY <1>1, SmallestSet
<1> DEFINE Value(r) == It(f, r)[r]
           it == [r \in SUBSET s |-> IF r = {} THEN 0 ELSE f[Some(r)] + Value(r \ {Some(r)})]
<1>3. ASSUME NEW r \in SUBSET s, r # {}
      PROVE  it[r \ {Some(r)}] = Value(r \ {Some(r)})
  <2> DEFINE v == r \ {Some(r)}
  <2>1. /\ v \in SUBSET s /\ v \in SUBSET S /\ r \in SUBSET S
        /\ Cardinality(v) < Cardinality(r) /\ Cardinality(r) <= Cardinality(s)
    BY <1>1, <1>3, WithoutSome, FS_Subset
  <2>2. v \notin Bad
    BY <1>1, <1>2, <2>1, FS_CardinalityType
  <2>3. IsSum(It(f, v), f, v)
    BY <2>1, <2>2
  <2>4. It(f, v)[v] = IF v = {} THEN 0 ELSE f[Some(v)] + It(f, v)[v \ {Some(v)}]
    BY <2>3 DEF IsSum
  <2>5. CASE v = {}
    BY <2>1, <2>4, <2>5
  <2>6. CASE v # {}
    <3> DEFINE u == v \ {Some(v)}
    <3>1. u \in SUBSET v /\ u \in SUBSET S /\ Cardinality(u) < Cardinality(v)
      BY <1>1, <2>1, <2>6, WithoutSome
    <3>2. u \notin Bad
      BY <1>1, <1>2, <2>1, <3>1, FS_CardinalityType
    <3>3. It(f, v)[u] = It(f, u)[u]
      BY <1>1, <2>1, <2>3, <3>1, <3>2, SumUnique
    <3>4. QED
      BY <2>1, <2>4, <2>6, <3>3
  <2>7. QED
    BY <2>5, <2>6
<1>4. IsSum(it, f, s)
  BY <1>3 DEF IsSum
<1>5. IsSum(It(f, s), f, s)
  BY <1>4 DEF It
<1>6. QED
  BY <1>2, <1>5

\* Nothing adds up to 0.
LEMMA SumEmpty ==
    ASSUME NEW f
    PROVE  SumOf(f, {}) = 0
<1>1. IsSum(It(f, {}), f, {})
  BY FS_EmptySet, SumExists
<1>2. QED
  BY <1>1, SumIs DEF IsSum

\* The sum takes a member out, whichever CHOOSE gives.
LEMMA SumUnfold ==
    ASSUME NEW f, NEW S, IsFiniteSet(S), S # {}
    PROVE  SumOf(f, S) = f[Some(S)] + SumOf(f, S \ {Some(S)})
<1> DEFINE R == S \ {Some(S)}
<1>1. IsFiniteSet(R) /\ R \in SUBSET S
  BY WithoutSome
<1>2. IsSum(It(f, S), f, S) /\ IsSum(It(f, R), f, R)
  BY <1>1, SumExists
<1>3. It(f, S)[R] = It(f, R)[R]
  <2> HIDE DEF R
  <2>1. R \in SUBSET R
    OBVIOUS
  <2>2. QED
    BY <1>1, <1>2, <2>1, SumUnique
<1>4. It(f, S)[S] = f[Some(S)] + It(f, S)[R]
  BY <1>2 DEF IsSum
<1>5. QED
  BY <1>3, <1>4, SumIs

\* A sum of integers is one.
LEMMA SumType ==
    ASSUME NEW f, NEW S, IsFiniteSet(S), \A x \in S : f[x] \in Int
    PROVE  SumOf(f, S) \in Int
<1> DEFINE Bad == {s \in SUBSET S : SumOf(f, s) \notin Int}
<1> SUFFICES ASSUME Bad # {} PROVE FALSE
  OBVIOUS
<1>1. \A s \in SUBSET S : IsFiniteSet(s)
  BY FS_Subset
<1>2. PICK s \in Bad : \A r \in Bad : Cardinality(s) <= Cardinality(r)
  BY <1>1, SmallestSet
<1>3. s # {}
  BY <1>2, SumEmpty
<1>4. s \ {Some(s)} \notin Bad /\ Some(s) \in S
  BY <1>1, <1>2, <1>3, WithoutSome, FS_CardinalityType
<1>5. SumOf(f, s) = f[Some(s)] + SumOf(f, s \ {Some(s)})
  BY <1>1, <1>3, SumUnfold
<1>6. QED
  BY <1>4, <1>5

\* Whichever member is taken out, the sum is its value and the others'.
LEMMA SumTakeOut ==
    ASSUME NEW f, NEW S, IsFiniteSet(S), \A x \in S : f[x] \in Int, NEW x \in S
    PROVE  SumOf(f, S) = f[x] + SumOf(f, S \ {x})
<1> DEFINE Bad == {s \in SUBSET S : \E z \in s : SumOf(f, s) # f[z] + SumOf(f, s \ {z})}
<1> SUFFICES ASSUME Bad # {} PROVE FALSE
  OBVIOUS
<1>1. \A s \in SUBSET S : IsFiniteSet(s) /\ SumOf(f, s) \in Int
  BY FS_Subset, SumType
<1>2. PICK s \in Bad : \A r \in Bad : Cardinality(s) <= Cardinality(r)
  BY <1>1, SmallestSet
<1>3. PICK z \in s : SumOf(f, s) # f[z] + SumOf(f, s \ {z})
  BY <1>2
<1> DEFINE y == Some(s)
<1>4. y \in s /\ SumOf(f, s) = f[y] + SumOf(f, s \ {y})
  BY <1>1, <1>3, SumUnfold, WithoutSome
<1>5. y # z
  BY <1>3, <1>4
<1>6. ASSUME NEW v \in s
      PROVE  s \ {v} \in SUBSET S /\ s \ {v} \notin Bad
  <2>1. s \ {v} \in SUBSET S /\ Cardinality(s \ {v}) = Cardinality(s) - 1
    BY <1>1, FS_RemoveElement
  <2>2. Cardinality(s) \in Nat
    BY <1>1, FS_CardinalityType
  <2>3. QED
    BY <1>2, <2>1, <2>2
<1>7. SumOf(f, s \ {y}) = f[z] + SumOf(f, (s \ {y}) \ {z})
  BY <1>4, <1>5, <1>6
<1>8. SumOf(f, s \ {z}) = f[y] + SumOf(f, (s \ {z}) \ {y})
  BY <1>4, <1>5, <1>6
<1>9. (s \ {y}) \ {z} = (s \ {z}) \ {y}
  OBVIOUS
<1>10. /\ SumOf(f, (s \ {z}) \ {y}) \in Int /\ f[y] \in Int /\ f[z] \in Int
  BY <1>1, <1>4
<1>11. SumOf(f, s) = f[y] + (f[z] + SumOf(f, (s \ {z}) \ {y}))
  BY <1>4, <1>7, <1>9
<1>12. QED
  <2> HIDE DEF y
  <2>1. \A a, b, c \in Int : a + (b + c) = b + (a + c)
    OBVIOUS
  <2>2. QED
    BY <1>3, <1>8, <1>10, <1>11, <2>1

\* One more member adds its value.
LEMMA SumAdd ==
    ASSUME NEW f, NEW S, IsFiniteSet(S), NEW x, x \notin S,
           \A y \in S \cup {x} : f[y] \in Int
    PROVE  SumOf(f, S \cup {x}) = SumOf(f, S) + f[x]
<1>1. IsFiniteSet(S \cup {x}) /\ (S \cup {x}) \ {x} = S
  BY FS_AddElement
<1>2. SumOf(f, S \cup {x}) = f[x] + SumOf(f, S)
  BY <1>1, SumTakeOut
<1>3. QED
  BY <1>1, <1>2, SumType

\* Functions that agree on a set have one sum over it.
LEMMA SumCong ==
    ASSUME NEW f, NEW g, NEW S, IsFiniteSet(S), \A x \in S : f[x] = g[x]
    PROVE  SumOf(f, S) = SumOf(g, S)
<1> DEFINE Bad == {s \in SUBSET S : SumOf(f, s) # SumOf(g, s)}
<1> SUFFICES ASSUME Bad # {} PROVE FALSE
  OBVIOUS
<1>1. \A s \in SUBSET S : IsFiniteSet(s)
  BY FS_Subset
<1>2. PICK s \in Bad : \A r \in Bad : Cardinality(s) <= Cardinality(r)
  BY <1>1, SmallestSet
<1>3. s # {}
  BY <1>2, SumEmpty
<1>4. s \ {Some(s)} \notin Bad /\ s \ {Some(s)} \in SUBSET S /\ Some(s) \in S
  BY <1>1, <1>2, <1>3, WithoutSome, FS_CardinalityType
<1>5. /\ SumOf(f, s) = f[Some(s)] + SumOf(f, s \ {Some(s)})
      /\ SumOf(g, s) = g[Some(s)] + SumOf(g, s \ {Some(s)})
  BY <1>1, <1>3, SumUnfold
<1>6. QED
  BY <1>2, <1>4, <1>5

\* A table with one row more, of what another column of it said.
LEMMA SumGrows ==
    ASSUME NEW f, NEW g, NEW S, IsFiniteSet(S), NEW x, x \notin S,
           \A y \in S : f[y] = g[y], \A y \in S \cup {x} : g[y] \in Int
    PROVE  SumOf(g, S \cup {x}) = SumOf(f, S) + g[x]
<1>1. SumOf(g, S \cup {x}) = SumOf(g, S) + g[x]
  BY SumAdd
<1>2. SumOf(f, S) = SumOf(g, S)
  BY SumCong
<1>3. QED
  BY <1>1, <1>2

\* A table with one row less.
LEMMA SumShrinks ==
    ASSUME NEW f, NEW g, NEW S, IsFiniteSet(S), NEW x \in S,
           \A y \in S \ {x} : f[y] = g[y], \A y \in S : f[y] \in Int
    PROVE  SumOf(f, S) = f[x] + SumOf(g, S \ {x})
<1>1. SumOf(f, S) = f[x] + SumOf(f, S \ {x})
  BY SumTakeOut
<1>2. IsFiniteSet(S \ {x})
  BY FS_RemoveElement
<1>3. SumOf(f, S \ {x}) = SumOf(g, S \ {x})
  BY <1>2, SumCong
<1>4. QED
  BY <1>1, <1>3

\* A sum over the members of a set is one over their images, none of them two's.
LEMMA SumImage ==
    ASSUME NEW f, NEW g, NEW h, NEW S, IsFiniteSet(S),
           \A x, y \in S : h[x] = h[y] => x = y,
           \A x \in S : g[h[x]] = f[x] /\ f[x] \in Int
    PROVE  SumOf(g, {h[x] : x \in S}) = SumOf(f, S)
<1> DEFINE image(s) == {h[x] : x \in s}
           Bad == {s \in SUBSET S : SumOf(g, image(s)) # SumOf(f, s)}
<1> SUFFICES ASSUME Bad # {} PROVE FALSE
  OBVIOUS
<1>1. \A s \in SUBSET S : IsFiniteSet(s)
  BY FS_Subset
<1>2. PICK s \in Bad : \A r \in Bad : Cardinality(s) <= Cardinality(r)
  BY <1>1, SmallestSet
<1>3. s # {}
  <2>1. image({}) = {}
    OBVIOUS
  <2>2. QED
    BY <1>2, <2>1, SumEmpty
<1> DEFINE x == Some(s)
           r == s \ {x}
<1>4. r \notin Bad /\ r \in SUBSET S /\ x \in s /\ s \in SUBSET S /\ IsFiniteSet(r)
  BY <1>1, <1>2, <1>3, WithoutSome, FS_CardinalityType
<1>5. SumOf(f, s) = f[x] + SumOf(f, r)
  BY <1>1, <1>2, <1>3, SumUnfold
<1>6. image(s) = image(r) \cup {h[x]} /\ h[x] \notin image(r)
  BY <1>4
<1>7. IsFiniteSet(image(r))
  <2> DEFINE k == [y \in r |-> h[y]]
  <2>1. k \in Surjection(r, image(r))
    BY DEF Surjection
  <2> HIDE DEF k, r
  <2>2. QED
    BY <1>4, <2>1, FS_Surjection
<1>8. \A y \in image(r) \cup {h[x]} : g[y] \in Int
  BY <1>4
<1>9. SumOf(g, image(s)) = SumOf(g, image(r)) + g[h[x]]
  <2> DEFINE T == image(r)
  <2> HIDE DEF r, x, image
  <2>1. SumOf(g, T \cup {h[x]}) = SumOf(g, T) + g[h[x]]
    BY <1>6, <1>7, <1>8, SumAdd DEF T
  <2>2. QED
    BY <1>6, <2>1
<1>10. SumOf(g, image(r)) = SumOf(f, r)
  BY <1>4
<1>11. SumOf(f, r) \in Int
  BY <1>4, SumType
<1>12. QED
  BY <1>2, <1>4, <1>5, <1>9, <1>10, <1>11
=============================================================================
