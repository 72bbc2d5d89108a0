----------------------- MODULE AnalyticsEngine_proofs -----------------------
(***************************************************************************)
(* The analytics engine, for every value of the constants: its types; that *)
(* the snapshots add up to what the session counted; that a client which   *)
(* follows the deltas has the frame; that the liquidity tracker follows    *)
(* the shadow book and every replenishment has a decrease of its own; and  *)
(* that the cells of the heatmap have what was traded in them and what     *)
(* came to rest there.                                                     *)
(***************************************************************************)
EXTENDS AnalyticsInv, FiniteSetTheorems, SequenceTheorems, TLAPS

-----------------------------------------------------------------------------
(* Sums over finite sets. *)

AddOn(a, e) == e + a

Adding == INSTANCE FoldTheorems WITH Op <- AddOn

\* The instance has definitions of its own for what is finite.
LEMMA SameFinite ==
  ASSUME NEW D
  PROVE  /\ IsFiniteSet(D) <=> Adding!IsFiniteSet(D)
         /\ FiniteSubsetsOf(D) = Adding!FiniteSubsetsOf(D)
<1>1. \A S : IsFiniteSet(S) <=> Adding!IsFiniteSet(S)
  BY DEF IsFiniteSet, Adding!IsFiniteSet
<1>2. FiniteSubsetsOf(D) = Adding!FiniteSubsetsOf(D)
  BY <1>1 DEF FiniteSubsetsOf, Adding!FiniteSubsetsOf
<1> QED BY <1>1, <1>2

\* The element that a sum takes next.
Chosen(D) == [s \in SUBSET D |-> CHOOSE x \in s : TRUE]

\* A sum is a fold that takes the elements one by one.
LEMMA SumIter ==
  ASSUME NEW D, IsFiniteSet(D), NEW f, DOMAIN f = D
  PROVE  \E iter : Adding!IsFold(iter, 0, f, Chosen(D), D) /\ SumFunction(f) = iter[D]
<1> DEFINE Rec(iter) == [s \in SUBSET D |->
                           IF s = {} THEN 0 ELSE f[CHOOSE x \in s : TRUE] + iter[s \ {CHOOSE x \in s : TRUE}]]
           it == CHOOSE iter : iter = Rec(iter)
<1>1. SumFunction(f) = it[D]
  BY DEF SumFunction, SumFunctionOnSet, FoldFunctionOnSet, MapThenFoldSet
<1>2. \A iter : Adding!IsFold(iter, 0, f, Chosen(D), D) <=> iter = Rec(iter)
  BY DEF Adding!IsFold, Chosen, AddOn
<1>4. \E iter : Adding!IsFold(iter, 0, f, Chosen(D), D)
  <2> DEFINE ch == Chosen(D)
  <2>1. \A s \in SUBSET D : s # {} => ch[s] \in s
    BY DEF Chosen
  <2> HIDE DEF ch
  <2>2. \E iter : Adding!IsFold(iter, 0, f, ch, D)
    BY <2>1, SameFinite, Adding!FoldExists
  <2> QED BY <2>2 DEF ch
<1>5. it = Rec(it)
  <2> HIDE DEF Rec
  <2> QED BY <1>2, <1>4
<1>6. Adding!IsFold(it, 0, f, Chosen(D), D)
  <2> HIDE DEF it
  <2> QED BY <1>2, <1>5
<1> QED
  <2> HIDE DEF it
  <2> QED BY <1>1, <1>6

Part(f, D) == [x \in D |-> f[x]]

\* The sum over a part of a set is the fold's value for the part.
LEMMA SumParts ==
  ASSUME NEW D, IsFiniteSet(D), NEW f, DOMAIN f = D
  PROVE  \E iter : /\ Adding!IsFold(iter, 0, f, Chosen(D), D)
                   /\ \A s \in SUBSET D : SumFunction(Part(f, s)) = iter[s]
<1>1. PICK iter : Adding!IsFold(iter, 0, f, Chosen(D), D)
  BY SumIter
<1>2. ASSUME NEW s \in SUBSET D
      PROVE  SumFunction(Part(f, s)) = iter[s]
  <2>1. IsFiniteSet(s)
    BY FS_Subset
  <2> DEFINE g == Part(f, s)
             ch == Chosen(s)
             dh == Chosen(D)
  <2>2. DOMAIN g = s /\ \A x \in s : g[x] = f[x]
    BY DEF Part
  <2>3. \A t \in SUBSET s : t # {} => ch[t] \in t /\ dh[t] = ch[t]
    BY DEF Chosen
  <2> HIDE DEF g
  <2>4. PICK jter : Adding!IsFold(jter, 0, g, ch, s) /\ SumFunction(g) = jter[s]
    BY <2>1, <2>2, SumIter
  <2>5. Adding!IsFold(iter, 0, f, dh, D)
    BY <1>1
  <2> HIDE DEF ch, dh
  <2>6. jter[s] = iter[s]
    <3>1. s \subseteq D /\ \A x \in s : g[x] = f[x]
      BY <2>2
    <3>2. \A t \in SUBSET s : t # {} => ch[t] \in t /\ dh[t] = ch[t]
      BY <2>3
    <3>3. Adding!IsFold(jter, 0, g, ch, s)
      BY <2>4
    <3> QED BY <2>1, <2>5, <3>1, <3>2, <3>3, SameFinite, Adding!FoldsAgree
  <2> QED BY <2>4, <2>6 DEF g
<1> QED BY <1>1, <1>2

\* The sum of no numbers.
LEMMA SumEmpty ==
  ASSUME NEW f, DOMAIN f = {}
  PROVE  SumFunction(f) = 0
<1>1. IsFiniteSet({})
  BY FS_EmptySet
<1>2. PICK iter : Adding!IsFold(iter, 0, f, Chosen({}), {}) /\ SumFunction(f) = iter[{}]
  BY <1>1, SumIter
<1>3. iter[{}] = 0
  BY <1>2, Zenon DEF Adding!IsFold
<1> QED BY <1>2, <1>3

\* Any number may be taken out of a sum.
LEMMA SumTakesOut ==
  ASSUME NEW D, IsFiniteSet(D), NEW f \in [D -> Int]
  PROVE  \A s \in SUBSET D :
           /\ SumFunction(Part(f, s)) \in Int
           /\ \A x \in s : SumFunction(Part(f, s)) = f[x] + SumFunction(Part(f, s \ {x}))
<1>1. PICK iter : /\ Adding!IsFold(iter, 0, f, Chosen(D), D)
                  /\ \A s \in SUBSET D : SumFunction(Part(f, s)) = iter[s]
  BY SumParts
<1>2. iter[{}] = 0
  BY <1>1, Zenon DEF Adding!IsFold
<1>3. \A s \in SUBSET D : s # {} => \E c \in s : iter[s] = f[c] + iter[s \ {c}]
  <2>1. \A s \in SUBSET D : s # {} => Chosen(D)[s] \in s
    BY DEF Chosen
  <2>2. \A s \in SUBSET D : s # {} =>
          iter[s] = AddOn(iter[s \ {Chosen(D)[s]}], f[Chosen(D)[s]])
    BY <1>1, Zenon DEF Adding!IsFold
  <2> QED BY <2>1, <2>2 DEF AddOn
<1> DEFINE Good == {s \in SUBSET D : iter[s] \in Int /\ \A x \in s : iter[s] = f[x] + iter[s \ {x}]}
           Bad == (SUBSET D) \ Good
<1>4. Bad = {}
  <2> SUFFICES ASSUME Bad # {}
               PROVE  FALSE
    OBVIOUS
  <2>1. Bad \in SUBSET Adding!FiniteSubsetsOf(D)
    <3>1. SUBSET D = FiniteSubsetsOf(D)
      BY FS_Subset DEF FiniteSubsetsOf
    <3> QED BY <3>1, SameFinite
  <2>2. PICK s \in Bad : \A t \in Bad : ~(t \subseteq s /\ t # s)
    <3> HIDE DEF Bad
    <3> QED BY <2>1, Adding!SmallestSet
  <2>3. s \in SUBSET D /\ s # {}
    <3>1. {} \in Good
      BY <1>2
    <3> QED BY <2>2, <3>1
  <2>4. PICK c \in s : iter[s] = f[c] + iter[s \ {c}]
    BY <1>3, <2>3
  <2>5. \A t \in SUBSET s : t # s => t \in Good
    BY <2>2, <2>3
  <2>6. s \ {c} \in Good
    BY <2>4, <2>5
  <2>7. iter[s] \in Int
    BY <2>3, <2>4, <2>6
  <2>8. ASSUME NEW x \in s, x # c
        PROVE  iter[s] = f[x] + iter[s \ {x}]
    <3>1. s \ {x} \in Good /\ c \in s \ {x} /\ x \in s \ {c}
      BY <2>5, <2>8
    <3>2. iter[s \ {c}] = f[x] + iter[(s \ {c}) \ {x}]
      BY <2>6, <3>1
    <3>3. iter[s \ {x}] = f[c] + iter[(s \ {x}) \ {c}]
      BY <3>1
    <3>4. (s \ {x}) \ {c} = (s \ {c}) \ {x}
      OBVIOUS
    <3>5. (s \ {c}) \ {x} \in Good
      BY <2>5, <2>4
    <3>6. iter[(s \ {c}) \ {x}] \in Int /\ f[x] \in Int /\ f[c] \in Int
      BY <2>3, <3>5
    <3> HIDE DEF Good, Bad
    <3>7. /\ iter[s] = f[c] + iter[s \ {c}]
          /\ iter[s \ {c}] = f[x] + iter[(s \ {c}) \ {x}]
          /\ iter[s \ {x}] = f[c] + iter[(s \ {c}) \ {x}]
      BY <2>4, <3>2, <3>3, <3>4, Zenon
    <3> QED BY <3>6, <3>7
  <2> QED BY <2>2, <2>3, <2>4, <2>7, <2>8
<1>5. ASSUME NEW s \in SUBSET D
      PROVE  /\ SumFunction(Part(f, s)) \in Int
             /\ \A x \in s : SumFunction(Part(f, s)) = f[x] + SumFunction(Part(f, s \ {x}))
  <2>1. s \in Good
    BY <1>4
  <2>2. SumFunction(Part(f, s)) = iter[s]
    BY <1>1
  <2>3. \A x \in s : s \ {x} \in SUBSET D
    OBVIOUS
  <2>4. \A x \in s : SumFunction(Part(f, s \ {x})) = iter[s \ {x}]
    BY <1>1, <2>3, Zenon
  <2> QED BY <2>1, <2>2, <2>4
<1> QED BY <1>5

\* A function is its own whole part.
LEMMA SumTakesOne ==
  ASSUME NEW D, IsFiniteSet(D), NEW f \in [D -> Int]
  PROVE  /\ SumFunction(f) \in Int
         /\ \A x \in D : SumFunction(f) = f[x] + SumFunction(Part(f, D \ {x}))
<1>1. Part(f, D) = f
  BY DEF Part
<1>2. D \in SUBSET D
  OBVIOUS
<1>3. /\ SumFunction(Part(f, D)) \in Int
      /\ \A x \in D : SumFunction(Part(f, D)) = f[x] + SumFunction(Part(f, D \ {x}))
  BY <1>2, SumTakesOut
<1> QED BY <1>1, <1>3

\* What the parts of a set keep one element at a time, the whole has.
LEMMA SumInduction ==
  ASSUME NEW D, IsFiniteSet(D), NEW Fam, {} \in Fam,
         \A s \in SUBSET D : \A x \in s : s \ {x} \in Fam => s \in Fam
  PROVE  D \in Fam
<1>1. SUBSET D \subseteq Fam
  BY SameFinite, Adding!SubsetInduction
<1> QED BY <1>1

\* Finitely many numbers have a bound.
LEMMA FiniteBound ==
  ASSUME NEW D \in SUBSET Nat, IsFiniteSet(D)
  PROVE  \E n \in Nat : \A x \in D : x <= n
<1> DEFINE Fam == {s \in SUBSET D : \E n \in Nat : \A x \in s : x <= n}
<1>1. {} \in Fam
  OBVIOUS
<1>2. ASSUME NEW s \in SUBSET D, NEW x \in s, s \ {x} \in Fam
      PROVE  s \in Fam
  <2>1. PICK n \in Nat : \A y \in s \ {x} : y <= n
    BY <1>2
  <2> DEFINE m == IF x > n THEN x ELSE n
  <2>2. x \in Nat /\ m \in Nat /\ x <= m /\ n <= m
    OBVIOUS
  <2>3. \A y \in s : y \in Nat /\ (y = x \/ y <= n)
    BY <2>1
  <2> HIDE DEF m
  <2>4. \A y \in s : y <= m
    BY <2>2, <2>3
  <2> QED BY <2>2, <2>4
<1>3. D \in Fam
  <2> HIDE DEF Fam
  <2> QED BY <1>1, <1>2, SumInduction
<1> QED BY <1>3

\* A finite set of numbers that is not empty has a largest and a smallest one.
LEMMA MaxAndMin ==
  ASSUME NEW D \in SUBSET Nat, IsFiniteSet(D), D # {}
  PROVE  /\ Max(D) \in D /\ \A x \in D : x <= Max(D)
         /\ Min(D) \in D /\ \A x \in D : Min(D) <= x
<1>1. PICK n \in Nat : \A x \in D : x <= n
  BY FiniteBound
<1> DEFINE T == {n - x : x \in D}
<1>2. T \in SUBSET Nat /\ T # {}
  <2>1. \A x \in D : n - x \in Nat
    BY <1>1
  <2> QED BY <2>1
<1>3. PICK k \in T : \A m \in T : k <= m
  <2> HIDE DEF T
  <2> QED BY <1>2, Adding!SmallestNumber
<1>4. PICK x \in D : k = n - x
  BY <1>3
<1>5. \A y \in D : x >= y
  <2>1. \A y \in D : n - y \in T
    OBVIOUS
  <2>2. \A y \in D : n - x <= n - y
    BY <1>3, <1>4, <2>1
  <2> QED BY <2>2
<1>6. \E z \in D : \A y \in D : z >= y
  BY <1>5
<1>7. \E z \in D : \A y \in D : z <= y
  BY Adding!SmallestNumber
<1>8. Max(D) \in D /\ \A y \in D : Max(D) >= y
  BY <1>6 DEF Max
<1>9. Min(D) \in D /\ \A y \in D : Min(D) <= y
  BY <1>7 DEF Min
<1>10. \A y \in D : y <= Max(D)
  BY <1>8
<1> QED BY <1>8, <1>9, <1>10

\* A sum of natural numbers is one.
LEMMA SumNat ==
  ASSUME NEW D, IsFiniteSet(D), NEW f \in [D -> Nat]
  PROVE  SumFunction(f) \in Nat
<1> DEFINE Fam == {s \in SUBSET D : SumFunction(Part(f, s)) \in Nat}
<1>1. {} \in Fam
  <2>1. DOMAIN Part(f, {}) = {}
    BY DEF Part
  <2> QED BY <2>1, SumEmpty
<1>2. ASSUME NEW s \in SUBSET D, NEW x \in s, s \ {x} \in Fam
      PROVE  s \in Fam
  <2>1. f \in [D -> Int] /\ f[x] \in Nat
    OBVIOUS
  <2>2. SumFunction(Part(f, s)) = f[x] + SumFunction(Part(f, s \ {x}))
    BY <2>1, SumTakesOut
  <2> QED BY <1>2, <2>1, <2>2
<1>3. D \in Fam
  <2> HIDE DEF Fam
  <2> QED BY <1>1, <1>2, SumInduction
<1>4. Part(f, D) = f
  BY DEF Part
<1> QED BY <1>3, <1>4

\* A sum changes with a number of it.
LEMMA SumChanges ==
  ASSUME NEW D, IsFiniteSet(D), NEW f \in [D -> Int], NEW g \in [D -> Int], NEW x \in D,
         \A y \in D \ {x} : g[y] = f[y]
  PROVE  SumFunction(g) = SumFunction(f) + g[x] - f[x] /\ SumFunction(f) \in Int
<1> DEFINE r == Part(f, D \ {x})
<1>1. r = Part(g, D \ {x})
  BY DEF Part
<1>2. SumFunction(f) = f[x] + SumFunction(r)
  BY SumTakesOne
<1>3. SumFunction(g) = g[x] + SumFunction(Part(g, D \ {x}))
  BY SumTakesOne
<1>4. SumFunction(r) \in Int
  <2>1. IsFiniteSet(D \ {x}) /\ r \in [D \ {x} -> Int]
    BY FS_Subset DEF Part
  <2> HIDE DEF r
  <2> QED BY <2>1, SumTakesOne
<1>5. SumFunction(g) = g[x] + SumFunction(r)
  BY <1>1, <1>3, Zenon
<1>6. g[x] \in Int /\ f[x] \in Int
  OBVIOUS
<1> HIDE DEF r
<1> QED BY <1>2, <1>4, <1>5, <1>6

\* A sum grows with a number more.
LEMMA SumGrows ==
  ASSUME NEW E, NEW D \in SUBSET E, IsFiniteSet(D), NEW x \in E, x \notin D, E \ {x} \subseteq D,
         NEW f \in [D -> Int], NEW g \in [E -> Int], \A y \in D : g[y] = f[y]
  PROVE  SumFunction(g) = SumFunction(f) + g[x] /\ SumFunction(f) \in Int
<1>1. E = D \cup {x} /\ E \ {x} = D
  OBVIOUS
<1>2. IsFiniteSet(E)
  BY <1>1, FS_AddElement
<1>3. Part(g, E \ {x}) = f
  BY <1>1 DEF Part
<1>4. SumFunction(g) = g[x] + SumFunction(Part(g, E \ {x}))
  BY <1>1, <1>2, SumTakesOne
<1>5. SumFunction(f) \in Int
  BY SumTakesOne
<1>6. g[x] \in Int
  BY <1>1
<1> QED BY <1>3, <1>4, <1>5, <1>6

\* What is 0 adds nothing to a sum.
LEMMA SumSkips ==
  ASSUME NEW E, IsFiniteSet(E), NEW D \in SUBSET E, NEW f \in [D -> Int], NEW g \in [E -> Int],
         \A x \in D : g[x] = f[x], \A x \in E \ D : g[x] = 0
  PROVE  SumFunction(g) = SumFunction(f) /\ SumFunction(f) \in Int
<1> DEFINE Fam == {s \in SUBSET E : SumFunction(Part(g, s)) = SumFunction(Part(f, s \cap D))}
<1>0. IsFiniteSet(D)
  BY FS_Subset
<1>1. {} \in Fam
  <2>1. DOMAIN Part(g, {}) = {} /\ DOMAIN Part(f, {} \cap D) = {}
    BY DEF Part
  <2> QED BY <2>1, SumEmpty
<1>2. ASSUME NEW s \in SUBSET E, NEW x \in s, s \ {x} \in Fam
      PROVE  s \in Fam
  <2>1. /\ SumFunction(Part(g, s)) = g[x] + SumFunction(Part(g, s \ {x}))
        /\ SumFunction(Part(g, s \ {x})) \in Int
    <3>1. s \ {x} \in SUBSET E
      OBVIOUS
    <3> QED BY <3>1, SumTakesOut
  <2>2. CASE x \in D
    <3> DEFINE t == s \cap D
    <3>1. (s \ {x}) \cap D = t \ {x} /\ x \in t /\ t \in SUBSET D
      BY <2>2
    <3>2. SumFunction(Part(f, t)) = f[x] + SumFunction(Part(f, t \ {x}))
      <4> HIDE DEF t
      <4> QED BY <1>0, <3>1, SumTakesOut
    <3>3. SumFunction(Part(g, s \ {x})) = SumFunction(Part(f, t \ {x}))
      BY <1>2, <3>1
    <3>4. SumFunction(Part(g, s)) = SumFunction(Part(f, t))
      BY <2>1, <2>2, <3>2, <3>3
    <3> QED BY <3>4
  <2>3. CASE x \notin D
    <3>1. (s \ {x}) \cap D = s \cap D /\ g[x] = 0
      BY <2>3
    <3>2. SumFunction(Part(g, s \ {x})) = SumFunction(Part(f, s \cap D))
      BY <1>2, <3>1
    <3>3. SumFunction(Part(g, s)) = 0 + SumFunction(Part(g, s \ {x}))
      BY <2>1, <3>1, Zenon
    <3>4. SumFunction(Part(g, s)) = SumFunction(Part(g, s \ {x}))
      BY <2>1, <3>3
    <3> QED BY <3>2, <3>4
  <2> QED BY <2>2, <2>3
<1>3. E \in Fam
  <2> HIDE DEF Fam
  <2> QED BY <1>1, <1>2, SumInduction
<1>4. Part(g, E) = g /\ Part(f, E \cap D) = f
  BY DEF Part
<1>5. SumFunction(f) \in Int
  BY <1>0, SumTakesOne
<1> QED BY <1>3, <1>4, <1>5

\* A sum of zeros.
LEMMA SumZeros ==
  ASSUME NEW D, IsFiniteSet(D), NEW f \in [D -> Int], \A x \in D : f[x] = 0
  PROVE  SumFunction(f) = 0
<1> DEFINE none == {}
           d == Part(f, none)
<1>1. d \in [none -> Int] /\ DOMAIN d = {}
  BY DEF Part
<1>2. none \in SUBSET D
  OBVIOUS
<1> HIDE DEF none
<1>3. \A x \in none : f[x] = d[x]
  BY DEF Part
<1>4. \A x \in D \ none : f[x] = 0
  OBVIOUS
<1>5. d \in [none -> Int]
  BY <1>1
<1> HIDE DEF d
<1>6. SumFunction(f) = SumFunction(d)
  BY <1>2, <1>3, <1>4, <1>5, SumSkips
<1> QED BY <1>1, <1>6, SumEmpty

\* A sum is no less than one of smaller numbers.
LEMMA SumLeq ==
  ASSUME NEW D, IsFiniteSet(D), NEW f \in [D -> Int], NEW g \in [D -> Int],
         \A x \in D : f[x] <= g[x]
  PROVE  SumFunction(f) <= SumFunction(g)
<1> DEFINE Fam == {s \in SUBSET D : SumFunction(Part(f, s)) <= SumFunction(Part(g, s))}
<1>1. {} \in Fam
  <2>1. DOMAIN Part(f, {}) = {} /\ DOMAIN Part(g, {}) = {}
    BY DEF Part
  <2>2. SumFunction(Part(f, {})) = 0 /\ SumFunction(Part(g, {})) = 0
    BY <2>1, SumEmpty
  <2> QED BY <2>2
<1>2. ASSUME NEW s \in SUBSET D, NEW x \in s, s \ {x} \in Fam
      PROVE  s \in Fam
  <2>1. s \ {x} \in SUBSET D
    OBVIOUS
  <2>2. /\ SumFunction(Part(f, s)) = f[x] + SumFunction(Part(f, s \ {x}))
        /\ SumFunction(Part(f, s \ {x})) \in Int
        /\ SumFunction(Part(g, s)) = g[x] + SumFunction(Part(g, s \ {x}))
        /\ SumFunction(Part(g, s \ {x})) \in Int
    BY <2>1, SumTakesOut
  <2>3. f[x] \in Int /\ g[x] \in Int /\ f[x] <= g[x]
    OBVIOUS
  <2>4. SumFunction(Part(f, s \ {x})) <= SumFunction(Part(g, s \ {x}))
    BY <1>2
  <2>5. SumFunction(Part(f, s)) <= SumFunction(Part(g, s))
    BY <2>2, <2>3, <2>4
  <2> QED BY <2>5
<1>3. D \in Fam
  <2> HIDE DEF Fam
  <2> QED BY <1>1, <1>2, SumInduction
<1>4. Part(f, D) = f /\ Part(g, D) = g
  BY DEF Part
<1> QED BY <1>3, <1>4

\* g has the entries of f under the names b gives them.
Renaming(b, f, g) == \A x \in DOMAIN g : g[x] = f[b[x]]

\* A sum is the same under other names.
LEMMA SumRenames ==
  ASSUME NEW D, IsFiniteSet(D), NEW E, NEW b \in Bijection(D, E), NEW f \in [E -> Int],
         NEW g \in [D -> Int], Renaming(b, f, g)
  PROVE  SumFunction(g) = SumFunction(f) /\ SumFunction(f) \in Int
<1> DEFINE img(s) == {b[x] : x \in s}
           Fam == {s \in SUBSET D : SumFunction(Part(g, s)) = SumFunction(Part(f, img(s)))}
<1>0. /\ IsFiniteSet(E) /\ b \in [D -> E] /\ \A x, y \in D : b[x] = b[y] => x = y
      /\ \A e \in E : \E x \in D : b[x] = e
  <2>1. b \in [D -> E] /\ (\A x, y \in D : b[x] = b[y] => x = y) /\ \A e \in E : \E x \in D : b[x] = e
    BY DEF Bijection, Injection, Surjection, IsInjective
  <2>2. IsFiniteSet(E)
    BY FS_Surjection DEF Bijection
  <2> QED BY <2>1, <2>2
<1>1. {} \in Fam
  <2>1. DOMAIN Part(g, {}) = {} /\ DOMAIN Part(f, img({})) = {}
    BY DEF Part
  <2> QED BY <2>1, SumEmpty
<1>2. ASSUME NEW s \in SUBSET D, NEW x \in s, s \ {x} \in Fam
      PROVE  s \in Fam
  <2>1. img(s \ {x}) = img(s) \ {b[x]} /\ b[x] \in img(s) /\ img(s) \in SUBSET E
    BY <1>0
  <2>2. SumFunction(Part(f, img(s))) = f[b[x]] + SumFunction(Part(f, img(s) \ {b[x]}))
    <3> DEFINE t == img(s)
               y == b[x]
    <3>1. t \in SUBSET E /\ y \in t
      BY <2>1
    <3> HIDE DEF t, y
    <3>2. SumFunction(Part(f, t)) = f[y] + SumFunction(Part(f, t \ {y}))
      BY <1>0, <3>1, SumTakesOut
    <3> QED BY <3>2 DEF t, y
  <2>3. SumFunction(Part(g, s)) = g[x] + SumFunction(Part(g, s \ {x}))
    BY SumTakesOut
  <2>4. g[x] = f[b[x]]
    BY DEF Renaming
  <2>5. SumFunction(Part(g, s \ {x})) = SumFunction(Part(f, img(s \ {x})))
    BY <1>2
  <2> HIDE DEF img
  <2> QED BY <2>1, <2>2, <2>3, <2>4, <2>5
<1>3. D \in Fam
  <2> HIDE DEF Fam
  <2> QED BY <1>1, <1>2, SumInduction
<1>4. img(D) = E
  BY <1>0
<1>5. Part(g, D) = g /\ Part(f, E) = f
  BY DEF Part
<1>6. SumFunction(f) \in Int
  BY <1>0, SumTakesOne
<1> HIDE DEF img
<1> QED BY <1>3, <1>4, <1>5, <1>6

\* A change of a level, and with its time.
LevelChanges == [side : Sides, price : Prices, old : Nat, new : Nat]
DatedChanges == [at : Nat, change : LevelChanges]
Counters ==
  [buy : Nat, sell : Nat, delta : Int, large : Nat, sweeps : Nat, absorptions : Nat,
   replenishments : Nat, anomalies : Nat]

\* A heatmap is a map of finitely many cells.
ProperHeatmap(cells) ==
  /\ IsHeatmap(cells) /\ IsFiniteSet(DOMAIN cells)
  /\ cells = [k \in DOMAIN cells |-> cells[k]]

\* The types of all that the invariants are about.
Typed ==
  /\ book \in Books
  /\ flow \in Flows /\ IsFiniteSet(flow.open)
  /\ \A i \in DOMAIN flow.completed : flow.completed[i].start < flow.completed[i].end
  /\ liquidity \in LiquidityTrackers
  /\ clusters \in ClusterTrackers
  /\ absorption \in Detectors
  /\ ProperHeatmap(heatmap)
  /\ detected \in [large : Nat, sweeps : Nat]
  /\ interval \in Counters /\ reported \in Counters
  /\ lastEvent \in Nat \cup {NoTime} /\ lastSnapshot \in Nat \cup {NoTime}
  /\ bookCrossed \in BOOLEAN
  /\ scenario \in Scenarios /\ left \in Nat
  /\ clocks \in [trades : Nat, depth : Nat]
  /\ tape \in Seq(Trades) /\ changes \in Seq(DatedChanges)
  /\ base \in [Keys -> Nat] /\ losses \in Nat /\ latest \in Nat

-----------------------------------------------------------------------------
(* The types of what the operators yield. *)

\* The constants are numbers.
LEMMA Constants ==
  /\ Prices \subseteq Nat \ {0} /\ IsFiniteSet(Prices)
  /\ Intervals \subseteq Nat \ {0} /\ IsFiniteSet(Intervals)
  /\ CellMs \in Nat \ {0} /\ SweepLevels \in Nat \ {0} /\ SweepVolume \in Nat \ {0}
  /\ AbsorptionVolume \in Nat \ {0}
  /\ RetentionMs \in Nat /\ SnapshotMs \in Nat /\ ImbalanceDepth \in Nat
  /\ LargeQuantity \in Nat /\ ClusterMs \in Nat /\ ClusterRange \in Nat /\ SweepMs \in Nat
  /\ AbsorptionMs \in Nat /\ AbsorptionTrades \in Nat /\ ReplenishmentMs \in Nat
BY AnalyticsAssumption

\* There are finitely many levels.
LEMMA KeysFinite == IsFiniteSet(Keys)
<1>1. IsFiniteSet({"Bid"}) /\ IsFiniteSet({"Ask"})
  BY FS_Singleton
<1>2. IsFiniteSet({"Bid"} \cup {"Ask"})
  BY <1>1, FS_Union
<1>3. Sides = {"Bid"} \cup {"Ask"}
  BY DEF Sides
<1>4. IsFiniteSet(Sides \X Prices)
  BY <1>2, <1>3, Constants, FS_Product
<1> QED BY <1>4 DEF Keys

\* What a map has that something was put into.
LEMMA PutIs ==
  ASSUME NEW f, NEW key, NEW value
  PROVE  /\ DOMAIN Put(f, key, value) = DOMAIN f \cup {key}
         /\ \A k \in DOMAIN f \cup {key} :
              Put(f, key, value)[k] = IF k = key THEN value ELSE f[k]
         /\ Put(f, key, value)
              = [k \in DOMAIN Put(f, key, value) |-> Put(f, key, value)[k]]
BY DEF Put, Over

\* A time is in its slot.
LEMMA SlotIs ==
  ASSUME NEW ts \in Nat, NEW width \in Nat \ {0}
  PROVE  /\ SlotOf(ts, width) \in Nat
         /\ SlotOf(ts, width) <= ts /\ ts < SlotOf(ts, width) + width
BY DEF SlotOf

\* A cutoff is a time.
LEMMA CutoffNat == ASSUME NEW now \in Nat PROVE Cutoff(now) \in Nat
BY Constants DEF Cutoff, SatSub

\* A saturating subtraction stays in Nat.
LEMMA Monus == ASSUME NEW a \in Nat, NEW b \in Nat PROVE SatSub(a, b) \in Nat
BY DEF SatSub

\* What is left from the first of some positions on is the end of the list.
LEMMA FromFirstIs ==
  ASSUME NEW S, NEW list \in Seq(S), NEW positions \in SUBSET DOMAIN list
  PROVE  /\ FromFirst(list, positions) \in Seq(S)
         /\ \E n \in 0..Len(list) :
              /\ Len(FromFirst(list, positions)) = Len(list) - n
              /\ \A i \in 1 .. Len(list) - n : FromFirst(list, positions)[i] = list[i + n]
              /\ \A i \in 1..n : i \notin positions
<1>0. Len(list) \in Nat /\ DOMAIN list = 1..Len(list)
  BY LenProperties
<1>1. CASE positions = {}
  <2>1. FromFirst(list, positions) = <<>>
    BY <1>1 DEF FromFirst
  <2>2. <<>> \in Seq(S) /\ Len(<<>>) = 0
    BY EmptySeq
  <2> DEFINE n == Len(list)
  <2>3. n \in 0..Len(list) /\ Len(FromFirst(list, positions)) = Len(list) - n
    BY <1>0, <2>1, <2>2
  <2>4. 1 .. Len(list) - n = {}
    BY <1>0
  <2> HIDE DEF n
  <2> QED BY <1>1, <2>1, <2>2, <2>3, <2>4
<1>2. CASE positions # {}
  <2>1. positions \in SUBSET Nat
    BY <1>0
  <2>2. \E m \in positions : \A i \in positions : m <= i
    BY <1>2, <2>1, Adding!SmallestNumber
  <2> DEFINE m == Min(positions)
  <2>3. m \in positions /\ \A i \in positions : m <= i
    BY <2>2 DEF Min
  <2> HIDE DEF m
  <2>4. m \in 1..Len(list)
    BY <1>0, <2>3
  <2> DEFINE rest == SubSeq(list, m, Len(list))
  <2>5. FromFirst(list, positions) = rest
    BY <1>2 DEF FromFirst, m
  <2>6. /\ rest \in Seq(S) /\ Len(rest) = Len(list) - m + 1
        /\ \A i \in 1 .. Len(list) - m + 1 : rest[i] = list[m + i - 1]
    <3>1. \A i \in m..Len(list) : list[i] \in S
      BY <1>0, <2>4, ElementOfSeq
    <3>2. m \in Int /\ Len(list) \in Int /\ m <= Len(list)
      BY <1>0, <2>4
    <3> QED BY <3>1, <3>2, SubSeqProperties
  <2> HIDE DEF rest
  <2> DEFINE n == m - 1
  <2>7. n \in 0..Len(list) /\ Len(rest) = Len(list) - n
    BY <1>0, <2>4, <2>6
  <2>8. \A i \in 1 .. Len(list) - n : rest[i] = list[i + n]
    BY <1>0, <2>4, <2>6
  <2>9. \A i \in 1..n : i \notin positions
    BY <2>3, <2>4
  <2> HIDE DEF n
  <2> QED BY <2>5, <2>6, <2>7, <2>8, <2>9
<1> QED BY <1>1, <1>2

\* Trade flow.
LEMMA WithTradeType ==
  ASSUME NEW v \in Volumes, NEW trade \in Trades
  PROVE  /\ WithTrade(v, trade) \in Volumes
         /\ Bought(trade) \in Nat /\ Sold(trade) \in Nat
         /\ Bought(trade) + Sold(trade) = trade.qty
<1>1. /\ Bought(trade) \in Nat /\ Sold(trade) \in Nat
      /\ Bought(trade) + Sold(trade) = trade.qty
  BY DEF Trades, Bought, Sold, Aggressors
<1> DEFINE b == v.buy + Bought(trade)
           s == v.sell + Sold(trade)
           d == v.delta + Bought(trade) - Sold(trade)
           n == v.count + 1
<1>2. b \in Nat /\ s \in Nat /\ d \in Int /\ n \in Nat
  BY <1>1 DEF Volumes
<1>3. WithTrade(v, trade) = [v EXCEPT !.buy = b, !.sell = s, !.delta = d, !.count = n]
  BY DEF WithTrade
<1>4. WithTrade(v, trade) \in Volumes
  <2> HIDE DEF b, s, d, n
  <2> QED BY <1>2, <1>3 DEF Volumes
<1> QED BY <1>1, <1>4

\* What an open bucket holds before a trade, or nothing.
LEMMA VolumeBeforeType ==
  ASSUME NEW f \in Flows, NEW trade \in Trades, NEW w \in Intervals
  PROVE  VolumeBefore(f, trade, w) \in Volumes
<1>1. NoVolume \in Volumes
  BY DEF NoVolume, Volumes
<1>2. \A b \in Joined(f, trade) : b.volume \in Volumes
  BY DEF Joined, Flows, OpenBuckets
<1> QED BY <1>1, <1>2 DEF VolumeBefore

\* The buckets of a trade are finitely many, and so are those that it completes.
LEMMA FlowSets ==
  ASSUME NEW f \in Flows, IsFiniteSet(f.open), NEW trade \in Trades
  PROVE  /\ Entered(f, trade) \subseteq OpenBuckets /\ IsFiniteSet(Entered(f, trade))
         /\ Completed(f, trade) \subseteq ClosedBuckets /\ IsFiniteSet(Completed(f, trade))
         /\ Passed(f, trade) \subseteq f.open /\ Joined(f, trade) \subseteq f.open
         /\ \A b \in Completed(f, trade) : b.start < b.end
<1>0. trade.ts \in Nat /\ f.totals \in Volumes /\ f.open \subseteq OpenBuckets
  BY DEF Trades, Flows
<1>1. \A w \in Intervals : SlotOf(trade.ts, w) \in Nat
  BY <1>0, Constants, SlotIs
<1>2. \A w \in Intervals : WithTrade(VolumeBefore(f, trade, w), trade) \in Volumes
  BY VolumeBeforeType, WithTradeType
<1> DEFINE enter == [w \in Intervals |->
                       [interval |-> w, start |-> SlotOf(trade.ts, w),
                        volume |-> WithTrade(VolumeBefore(f, trade, w), trade)]]
           finish == [b \in Passed(f, trade) |->
                        Finalized(b, SlotOf(trade.ts, b.interval), WithTrade(f.totals, trade).delta)]
<1>3. Entered(f, trade) \subseteq OpenBuckets
  BY <1>1, <1>2 DEF Entered, OpenBuckets
<1>4. enter \in Surjection(Intervals, Entered(f, trade))
  BY DEF Entered, Surjection
<1>5. IsFiniteSet(Entered(f, trade))
  <2> HIDE DEF enter
  <2> QED BY <1>4, Constants, FS_Surjection
<1>6. Passed(f, trade) \subseteq f.open /\ Joined(f, trade) \subseteq f.open
  BY DEF Passed, Joined
<1>7. WithTrade(f.totals, trade).delta \in Int
  BY <1>0, WithTradeType DEF Volumes
<1>8. ASSUME NEW b \in Passed(f, trade)
      PROVE  LET c == Finalized(b, SlotOf(trade.ts, b.interval), WithTrade(f.totals, trade).delta)
             IN  c \in ClosedBuckets /\ c.start < c.end
  <2>1. b \in OpenBuckets /\ b.start < SlotOf(trade.ts, b.interval)
    BY <1>0 DEF Passed
  <2>2. SlotOf(trade.ts, b.interval) \in Nat
    BY <1>1, <2>1 DEF OpenBuckets
  <2> HIDE DEF enter, finish
  <2> QED BY <1>7, <2>1, <2>2 DEF Finalized, OpenBuckets, ClosedBuckets
<1>9. Completed(f, trade) \subseteq ClosedBuckets /\ \A b \in Completed(f, trade) : b.start < b.end
  BY <1>8 DEF Completed
<1>10. finish \in Surjection(Passed(f, trade), Completed(f, trade))
  BY DEF Completed, Surjection
<1>11. IsFiniteSet(Passed(f, trade))
  BY <1>6, FS_Subset
<1>12. IsFiniteSet(Completed(f, trade))
  <2> HIDE DEF finish
  <2> QED BY <1>10, <1>11, FS_Surjection
<1> QED BY <1>3, <1>5, <1>6, <1>9, <1>12

\* A finite set has a list of its elements, each of them once.
LEMMA ListOfSet ==
  ASSUME NEW S, IsFiniteSet(S)
  PROVE  /\ SetToSeq(S) \in Seq(S) /\ Len(SetToSeq(S)) = Cardinality(S)
         /\ SetToSeq(S) \in Bijection(1..Cardinality(S), S)
         /\ Cardinality(S) \in Nat
<1>0. Cardinality(S) \in Nat
  BY FS_CardinalityType
<1> DEFINE n == Cardinality(S)
           list == SetToSeq(S)
<1>1. \E f \in [1..n -> S] : IsInjective(f)
  BY FS_CardinalityType DEF ExistsBijection, Bijection, Injection
<1>2. list \in [1..n -> S] /\ IsInjective(list)
  BY <1>1 DEF SetToSeq
<1> HIDE DEF list
<1>3. Cardinality(1..n) = n
  BY <1>0, FS_Interval
<1>4. list \in Injection(1..n, S)
  BY <1>2 DEF Injection
<1>5. list \in Surjection(1..n, S)
  BY <1>3, <1>4, FS_Injection
<1>6. list \in Bijection(1..n, S)
  BY <1>4, <1>5 DEF Bijection
<1>7. list \in Seq(S) /\ Len(list) = n
  BY <1>0, <1>2, LenProperties
<1> QED BY <1>0, <1>6, <1>7 DEF list

\* The flow with a trade; what it completes has begun before it ended.
LEMMA FlowTradeType ==
  ASSUME NEW f \in Flows, IsFiniteSet(f.open),
         \A i \in DOMAIN f.completed : f.completed[i].start < f.completed[i].end,
         NEW trade \in Trades
  PROVE  LET g == FlowTrade(f, trade)
         IN  /\ g \in Flows /\ IsFiniteSet(g.open)
             /\ \A i \in DOMAIN g.completed : g.completed[i].start < g.completed[i].end
<1> DEFINE totals == WithTrade(f.totals, trade)
           profile == [f.profile EXCEPT ![trade.price] = WithTrade(@, trade)]
           open == (f.open \ (Joined(f, trade) \cup Passed(f, trade))) \cup Entered(f, trade)
           more == SetToSeq(Completed(f, trade))
           completed == f.completed \o more
<1>1. totals \in Volumes /\ profile \in [Prices -> Volumes]
  <2>1. f.totals \in Volumes /\ f.profile \in [Prices -> Volumes] /\ trade.price \in Prices
    BY DEF Flows, Trades
  <2> QED BY <2>1, WithTradeType
<1>2. open \in SUBSET OpenBuckets /\ IsFiniteSet(open)
  <2>1. f.open \subseteq OpenBuckets
    BY DEF Flows
  <2>2. IsFiniteSet(f.open \ (Joined(f, trade) \cup Passed(f, trade)))
    BY FS_Subset
  <2> QED BY <2>1, <2>2, FlowSets, FS_Union
<1>3. /\ f.completed \in Seq(ClosedBuckets) /\ more \in Seq(ClosedBuckets)
      /\ \A i \in DOMAIN more : more[i].start < more[i].end
  <2>1. more \in Seq(Completed(f, trade))
    BY FlowSets, ListOfSet
  <2>2. \A i \in DOMAIN more : more[i] \in Completed(f, trade)
    <3> HIDE DEF more
    <3> QED BY <2>1, ElementOfSeq, LenProperties
  <2>3. more \in Seq(ClosedBuckets)
    <3> HIDE DEF more
    <3> QED BY <2>1, FlowSets, SeqMonotonic
  <2> QED BY <2>2, <2>3, FlowSets DEF Flows
<1>4. completed \in Seq(ClosedBuckets) /\ \A i \in DOMAIN completed : completed[i].start < completed[i].end
  <2> HIDE DEF more
  <2>1. /\ completed \in Seq(ClosedBuckets) /\ Len(completed) = Len(f.completed) + Len(more)
        /\ \A i \in 1..Len(completed) :
             completed[i] = IF i <= Len(f.completed) THEN f.completed[i] ELSE more[i - Len(f.completed)]
    BY <1>3, ConcatProperties
  <2>2. /\ Len(f.completed) \in Nat /\ DOMAIN f.completed = 1..Len(f.completed)
        /\ Len(more) \in Nat /\ DOMAIN more = 1..Len(more) /\ DOMAIN completed = 1..Len(completed)
    BY <1>3, <2>1, LenProperties
  <2>3. ASSUME NEW i \in 1..Len(completed)
        PROVE  completed[i].start < completed[i].end
    <3> HIDE DEF completed
    <3>1. CASE i <= Len(f.completed)
      <4>1. i \in DOMAIN f.completed /\ completed[i] = f.completed[i]
        BY <2>1, <2>2, <3>1
      <4> QED BY <4>1
    <3>2. CASE ~(i <= Len(f.completed))
      <4>1. i - Len(f.completed) \in 1..Len(more) /\ completed[i] = more[i - Len(f.completed)]
        BY <2>1, <2>2, <3>2
      <4> QED BY <1>3, <2>2, <4>1
    <3> QED BY <3>1, <3>2
  <2> QED BY <2>1, <2>2, <2>3
<1>5. FlowTrade(f, trade)
        = [f EXCEPT !.totals = totals, !.profile = profile, !.open = open, !.completed = completed]
  BY DEF FlowTrade, Flows
<1> HIDE DEF totals, profile, open, more, completed
<1>6. FlowTrade(f, trade) \in Flows
  BY <1>1, <1>2, <1>4, <1>5 DEF Flows
<1>7. FlowTrade(f, trade).open = open /\ FlowTrade(f, trade).completed = completed
  BY <1>5 DEF Flows
<1> QED BY <1>2, <1>4, <1>6, <1>7

\* A large trade counts in the profile and leaves the buckets alone.
LEMMA RecordLargeType ==
  ASSUME NEW f \in Flows, NEW price \in Prices
  PROVE  /\ RecordLargeTrade(f, price) \in Flows
         /\ RecordLargeTrade(f, price).open = f.open
         /\ RecordLargeTrade(f, price).completed = f.completed
<1> DEFINE large == [f.large EXCEPT ![price] = @ + 1]
<1>1. large \in [Prices -> Nat]
  <2>1. f.large \in [Prices -> Nat]
    BY DEF Flows
  <2>2. f.large[price] + 1 \in Nat
    BY <2>1
  <2> QED BY <2>1, <2>2
<1>2. RecordLargeTrade(f, price) = [f EXCEPT !.large = large]
  BY DEF RecordLargeTrade
<1> HIDE DEF large
<1> QED BY <1>1, <1>2 DEF Flows

\* Pruning drops completed buckets at the front, which ended before the cutoff.
LEMMA PruneFlowIs ==
  ASSUME NEW f \in Flows, NEW now \in Nat
  PROVE  LET g == PruneFlow(f, now)
         IN  /\ g \in Flows
             /\ g.totals = f.totals /\ g.profile = f.profile /\ g.large = f.large /\ g.open = f.open
             /\ \E n \in 0..Len(f.completed) :
                  /\ Len(g.completed) = Len(f.completed) - n
                  /\ \A i \in 1 .. Len(f.completed) - n : g.completed[i] = f.completed[i + n]
                  /\ \A i \in 1..n : f.completed[i].end < Cutoff(now)
<1> DEFINE list == f.completed
           positions == {i \in DOMAIN list : ~(list[i].end < Cutoff(now))}
           rest == FromFirst(list, positions)
<1>1. list \in Seq(ClosedBuckets) /\ positions \in SUBSET DOMAIN list
  BY DEF Flows
<1>2. PruneFlow(f, now) = [f EXCEPT !.completed = rest]
  BY DEF PruneFlow, WithoutOldFront
<1>3. \A i \in DOMAIN list : i \notin positions => list[i].end < Cutoff(now)
  OBVIOUS
<1>4. DOMAIN list = 1..Len(list) /\ Len(list) \in Nat
  BY <1>1, LenProperties
<1> HIDE DEF positions, rest
<1>5. rest \in Seq(ClosedBuckets)
  BY <1>1, FromFirstIs DEF rest
<1>6. PICK n \in 0..Len(list) :
        /\ Len(rest) = Len(list) - n
        /\ \A i \in 1 .. Len(list) - n : rest[i] = list[i + n]
        /\ \A i \in 1..n : i \notin positions
  <2> HIDE DEF list
  <2> QED BY <1>1, FromFirstIs DEF rest
<1>7. \A i \in 1..n : list[i].end < Cutoff(now)
  BY <1>3, <1>4, <1>6
<1>8. PruneFlow(f, now) \in Flows
  BY <1>2, <1>5 DEF Flows
<1>9. /\ PruneFlow(f, now).totals = f.totals /\ PruneFlow(f, now).profile = f.profile
      /\ PruneFlow(f, now).large = f.large /\ PruneFlow(f, now).open = f.open
      /\ PruneFlow(f, now).completed = rest
  BY <1>2 DEF Flows
<1> QED BY <1>6, <1>7, <1>8, <1>9

\* What is left of the completed buckets is as it was.
LEMMA PrunedBuckets ==
  ASSUME NEW f \in Flows, NEW now \in Nat, IsFiniteSet(f.open),
         \A i \in DOMAIN f.completed : f.completed[i].start < f.completed[i].end
  PROVE  LET g == PruneFlow(f, now)
         IN  /\ g \in Flows /\ IsFiniteSet(g.open)
             /\ \A i \in DOMAIN g.completed : g.completed[i].start < g.completed[i].end
<1> DEFINE g == PruneFlow(f, now)
<1>1. g \in Flows /\ g.open = f.open
  BY PruneFlowIs
<1>2. PICK n \in 0..Len(f.completed) :
        /\ Len(g.completed) = Len(f.completed) - n
        /\ \A i \in 1 .. Len(f.completed) - n : g.completed[i] = f.completed[i + n]
        /\ \A i \in 1..n : f.completed[i].end < Cutoff(now)
  BY PruneFlowIs
<1> HIDE DEF g
<1>3. /\ f.completed \in Seq(ClosedBuckets) /\ g.completed \in Seq(ClosedBuckets)
  BY <1>1 DEF Flows
<1>4. /\ Len(f.completed) \in Nat /\ DOMAIN f.completed = 1..Len(f.completed)
      /\ DOMAIN g.completed = 1..Len(g.completed)
  BY <1>3, LenProperties
<1>5. \A i \in DOMAIN g.completed :
        i + n \in DOMAIN f.completed /\ g.completed[i] = f.completed[i + n]
  BY <1>2, <1>4
<1> QED BY <1>1, <1>5 DEF g

\* Clusters.
LEMMA ClusterWithTradeType ==
  ASSUME NEW c \in TradeClusters, NEW trade \in Trades
  PROVE  ClusterWithTrade(c, trade) \in TradeClusters
<1> DEFINE buy == c.buy + Bought(trade)
           sell == c.sell + Sold(trade)
           end == trade.ts
           high == IF trade.price > c.high THEN trade.price ELSE c.high
           low == IF trade.price < c.low THEN trade.price ELSE c.low
           count == c.count + 1
           largest == IF trade.qty > c.largest THEN trade.qty ELSE c.largest
           levels == IF trade.price # c.last THEN c.levels + 1 ELSE c.levels
           monotonic == c.monotonic /\ GoesWith(c.side, trade.price, c.last)
           side == IF buy >= sell THEN "Buy" ELSE "Sell"
           last == trade.price
<1>1. /\ c.buy \in Nat /\ c.sell \in Nat /\ c.high \in Prices /\ c.low \in Prices /\ c.count \in Nat
      /\ c.largest \in Nat /\ c.levels \in Nat /\ c.monotonic \in BOOLEAN
      /\ trade.ts \in Nat /\ trade.price \in Prices /\ trade.qty \in Nat
  BY DEF TradeClusters, Trades
<1>2. buy \in Nat /\ sell \in Nat /\ count \in Nat /\ levels \in Nat
  <2>1. Bought(trade) \in Nat /\ Sold(trade) \in Nat
    BY DEF Bought, Sold, Trades
  <2> QED BY <1>1, <2>1
<1>3. /\ end \in Nat /\ high \in Prices /\ low \in Prices /\ largest \in Nat /\ monotonic \in BOOLEAN
      /\ side \in Aggressors /\ last \in Prices
  BY <1>1 DEF Aggressors
<1> DEFINE c1 == [c EXCEPT !.end = end, !.high = high, !.low = low, !.buy = buy]
           c2 == [c1 EXCEPT !.sell = sell, !.count = count, !.largest = largest]
           c3 == [c2 EXCEPT !.levels = levels, !.monotonic = monotonic, !.last = last, !.side = side]
<1>4. ClusterWithTrade(c, trade) = c3
  BY DEF ClusterWithTrade
<1> HIDE DEF buy, sell, end, high, low, count, largest, levels, monotonic, side, last
<1>5. c1 \in TradeClusters
  BY <1>2, <1>3 DEF TradeClusters
<1> HIDE DEF c1
<1>6. c2 \in TradeClusters
  BY <1>2, <1>3, <1>5 DEF TradeClusters
<1> HIDE DEF c2
<1>7. c3 \in TradeClusters
  BY <1>2, <1>3, <1>6 DEF TradeClusters
<1> QED BY <1>4, <1>7

\* The tracker of clusters with a trade.
LEMMA ClusterTradeType ==
  ASSUME NEW t \in ClusterTrackers, NEW trade \in Trades
  PROVE  /\ ClusterTrade(t, trade) \in ClusterTrackers
         /\ NewCluster(trade) \in TradeClusters
<1>1. NewCluster(trade) \in TradeClusters
  BY DEF NewCluster, TradeClusters, Trades
<1>2. t.open \in TradeClusters \cup {None} /\ t.closed \in Seq(TradeClusters)
  BY DEF ClusterTrackers
<1> DEFINE fresh == ClusterWithTrade(NewCluster(trade), trade)
           grown == ClusterWithTrade(IF t.open = None THEN NewCluster(trade) ELSE t.open, trade)
           closed == Append(t.closed, t.open)
<1>3. fresh \in TradeClusters /\ grown \in TradeClusters
  BY <1>1, <1>2, ClusterWithTradeType
<1>4. CASE ClosedBy(t, trade) # None
  <2>1. t.open \in TradeClusters
    BY <1>2, <1>4 DEF ClosedBy
  <2>2. closed \in Seq(TradeClusters)
    BY <1>2, <2>1, AppendProperties
  <2>3. ClusterTrade(t, trade) = [open |-> fresh, closed |-> closed]
    BY <1>4 DEF ClusterTrade
  <2> HIDE DEF fresh, closed
  <2>4. ClusterTrade(t, trade) \in ClusterTrackers
    BY <1>3, <2>2, <2>3 DEF ClusterTrackers
  <2> QED BY <1>1, <2>4
<1>5. CASE ~(ClosedBy(t, trade) # None)
  <2>1. ClusterTrade(t, trade) = [t EXCEPT !.open = grown]
    BY <1>5 DEF ClusterTrade
  <2> HIDE DEF grown
  <2>2. ClusterTrade(t, trade) \in ClusterTrackers
    BY <1>3, <2>1 DEF ClusterTrackers
  <2> QED BY <1>1, <2>2
<1> QED BY <1>4, <1>5

\* Pruning drops closed clusters at the front.
LEMMA PruneClustersIs ==
  ASSUME NEW t \in ClusterTrackers, NEW now \in Nat
  PROVE  LET u == PruneClusters(t, now)
         IN  /\ u \in ClusterTrackers /\ u.open = t.open
             /\ \E n \in 0..Len(t.closed) :
                  /\ Len(u.closed) = Len(t.closed) - n
                  /\ \A i \in 1 .. Len(t.closed) - n : u.closed[i] = t.closed[i + n]
<1> DEFINE list == t.closed
           positions == {i \in DOMAIN list : ~(list[i].end < Cutoff(now))}
           rest == FromFirst(list, positions)
<1>1. list \in Seq(TradeClusters) /\ positions \in SUBSET DOMAIN list
  BY DEF ClusterTrackers
<1>2. PruneClusters(t, now) = [t EXCEPT !.closed = rest]
  BY DEF PruneClusters, WithoutOldFront
<1> HIDE DEF positions, rest
<1>3. rest \in Seq(TradeClusters)
  BY <1>1, FromFirstIs DEF rest
<1>4. PICK n \in 0..Len(list) :
        /\ Len(rest) = Len(list) - n
        /\ \A i \in 1 .. Len(list) - n : rest[i] = list[i + n]
        /\ \A i \in 1..n : i \notin positions
  <2> HIDE DEF list
  <2> QED BY <1>1, FromFirstIs DEF rest
<1>5. PruneClusters(t, now) \in ClusterTrackers
  BY <1>2, <1>3 DEF ClusterTrackers
<1>6. PruneClusters(t, now).open = t.open /\ PruneClusters(t, now).closed = rest
  BY <1>2 DEF ClusterTrackers
<1> QED BY <1>4, <1>5, <1>6

\* The book.
Writing == INSTANCE FoldTheorems WITH Op <- WriteLevel

\* A book in the midst of an update.
UpdatedBooks == [levels : [Keys -> Nat], changes : Seq(LevelChanges)]

\* One write of a level, and the change that it is.
LEMMA WriteLevelType ==
  ASSUME NEW u \in UpdatedBooks, NEW w \in Writes
  PROVE  /\ WriteLevel(u, w) \in UpdatedBooks
         /\ Change(u, w.key, w.qty) \in LevelChanges
<1> DEFINE change == Change(u, w.key, w.qty)
           levels == [u.levels EXCEPT ![w.key] = w.qty]
           longer == IF IsReported(change) THEN Append(u.changes, change) ELSE u.changes
<1>1. u.levels \in [Keys -> Nat] /\ u.changes \in Seq(LevelChanges) /\ w.key \in Keys /\ w.qty \in Nat
  BY DEF UpdatedBooks, Writes
<1>2. change \in LevelChanges
  BY <1>1 DEF Change, LevelChanges, Keys
<1>3. levels \in [Keys -> Nat]
  BY <1>1
<1>4. longer \in Seq(LevelChanges)
  <2> HIDE DEF change
  <2> QED BY <1>1, <1>2, AppendProperties
<1>5. WriteLevel(u, w) = [levels |-> levels, changes |-> longer]
  BY DEF WriteLevel
<1> HIDE DEF levels, longer
<1> QED BY <1>2, <1>3, <1>4, <1>5 DEF UpdatedBooks

\* The book of an update is a fold over its writes.
LEMMA UpdatedIs ==
  ASSUME NEW levels \in [Keys -> Nat], NEW b, b.levels = levels, NEW writes \in Seq(Writes)
  PROVE  /\ Updated(b, writes) = Writing!Fold([levels |-> levels, changes |-> <<>>], writes)
         /\ [levels |-> levels, changes |-> <<>>] \in UpdatedBooks
         /\ Updated(b, writes) \in UpdatedBooks
<1> DEFINE start == [levels |-> levels, changes |-> <<>>]
<1>1. start \in UpdatedBooks
  <2>1. <<>> \in Seq(LevelChanges)
    BY EmptySeq
  <2> QED BY <2>1 DEF UpdatedBooks
<1>2. Updated(b, writes) = Writing!Fold(start, writes)
  BY DEF Updated, Writing!Fold, FoldLeft, MapThenFoldSet, Max,
         Writing!FoldLeft, Writing!MapThenFoldSet, Writing!Max
<1> HIDE DEF start
<1>3. Writing!Fold(start, writes) \in UpdatedBooks
  <2>1. \A u \in UpdatedBooks : \A w \in Writes : WriteLevel(u, w) \in UpdatedBooks
    BY WriteLevelType
  <2> QED BY <1>1, <2>1, Writing!FoldKeeps
<1> QED BY <1>1, <1>2, <1>3 DEF start

\* An update writes levels, counts nothing, and reports changes of levels.
LEMMA ApplyUpdateType ==
  ASSUME NEW b \in Books, NEW writes \in Seq(Writes)
  PROVE  /\ ApplyUpdate(b, writes) \in Books
         /\ ApplyUpdate(b, writes).levels = Updated(b, writes).levels
         /\ ApplyUpdate(b, writes).crossed = b.crossed
         /\ ReportedChanges(b, writes) \in Seq(LevelChanges)
<1>1. b.levels \in [Keys -> Nat]
  BY DEF Books
<1>2. Updated(b, writes) \in UpdatedBooks
  BY <1>1, UpdatedIs
<1> DEFINE levels == Updated(b, writes).levels
<1>3. levels \in [Keys -> Nat] /\ ReportedChanges(b, writes) \in Seq(LevelChanges)
  BY <1>2 DEF UpdatedBooks, ReportedChanges
<1>4. ApplyUpdate(b, writes) = [b EXCEPT !.levels = levels]
  BY DEF ApplyUpdate
<1> HIDE DEF levels
<1>5. ApplyUpdate(b, writes) \in Books /\ ApplyUpdate(b, writes).levels = levels
      /\ ApplyUpdate(b, writes).crossed = b.crossed
  BY <1>3, <1>4 DEF Books
<1> QED BY <1>3, <1>5 DEF levels

\* What the other operations of the shadow book yield.
LEMMA BookTypes ==
  ASSUME NEW b \in Books, NEW levels \in [Keys -> Nat]
  PROVE  /\ ApplySnapshot(b, levels) \in Books /\ RecordCrossed(b) \in Books
         /\ SetReady(b, TRUE) \in Books /\ SetReady(b, FALSE) \in Books
         /\ RecordCrossed(b).levels = b.levels /\ RecordCrossed(b).crossed = b.crossed + 1
         /\ ApplySnapshot(b, levels).levels = levels /\ ApplySnapshot(b, levels).crossed = b.crossed
         /\ SetReady(b, TRUE).levels = b.levels /\ SetReady(b, FALSE).levels = NewBook.levels
         /\ SetReady(b, TRUE).crossed = b.crossed /\ SetReady(b, FALSE).crossed = b.crossed
         /\ NewBook.levels \in [Keys -> Nat] /\ NewBook \in Books
<1>1. NewBook.levels \in [Keys -> Nat] /\ NewBook \in Books
  BY DEF NewBook, Books
<1>2. RecordCrossed(b) \in Books /\ RecordCrossed(b).levels = b.levels /\ RecordCrossed(b).crossed = b.crossed + 1
  <2> DEFINE n == b.crossed + 1
  <2>1. n \in Nat
    BY DEF Books
  <2>2. RecordCrossed(b) = [b EXCEPT !.crossed = n]
    BY DEF RecordCrossed
  <2> HIDE DEF n
  <2>3. RecordCrossed(b) \in Books /\ RecordCrossed(b).levels = b.levels /\ RecordCrossed(b).crossed = n
    BY <2>1, <2>2 DEF Books
  <2> QED BY <2>3 DEF n
<1>3. /\ ApplySnapshot(b, levels) \in Books
      /\ ApplySnapshot(b, levels).levels = levels /\ ApplySnapshot(b, levels).crossed = b.crossed
  BY DEF ApplySnapshot, Books
<1>4. /\ SetReady(b, TRUE) \in Books /\ SetReady(b, FALSE) \in Books
      /\ SetReady(b, TRUE).levels = b.levels /\ SetReady(b, FALSE).levels = NewBook.levels
      /\ SetReady(b, TRUE).crossed = b.crossed /\ SetReady(b, FALSE).crossed = b.crossed
  <2> DEFINE none == NewBook.levels
  <2>1. none \in [Keys -> Nat]
    BY <1>1
  <2>2. SetReady(b, FALSE) = [b EXCEPT !.ready = FALSE, !.levels = none]
    BY DEF SetReady
  <2>3. SetReady(b, TRUE) = [b EXCEPT !.ready = TRUE, !.levels = b.levels]
    BY DEF SetReady
  <2> HIDE DEF none
  <2>4. SetReady(b, FALSE) \in Books /\ SetReady(b, FALSE).levels = none /\ SetReady(b, FALSE).crossed = b.crossed
    BY <2>1, <2>2 DEF Books
  <2>5. SetReady(b, TRUE) \in Books /\ SetReady(b, TRUE).levels = b.levels /\ SetReady(b, TRUE).crossed = b.crossed
    BY <2>3 DEF Books
  <2> QED BY <2>4, <2>5 DEF none
<1> QED BY <1>1, <1>2, <1>3, <1>4

\* The best prices are prices.
LEMMA BestIsPrice ==
  ASSUME NEW b \in Books
  PROVE  BestBid(b) \in Prices \cup {NoPrice} /\ BestAsk(b) \in Prices \cup {NoPrice}
<1>1. ASSUME NEW S \in SUBSET Prices, S # {}
      PROVE  Max(S) \in S /\ Min(S) \in S
  <2>1. S \in SUBSET Nat /\ IsFiniteSet(S)
    BY <1>1, Constants, FS_Subset
  <2> QED BY <1>1, <2>1, MaxAndMin
<1>2. \A side \in Sides : Displayed(b, side) \in SUBSET Prices
  BY DEF Displayed
<1> QED BY <1>1, <1>2 DEF BestBid, BestAsk, Sides

\* The volume near the top of one side.
LEMMA DepthVolumeType ==
  ASSUME NEW b \in Books, NEW side \in Sides
  PROVE  DepthVolume(b, side) \in Nat
<1> DEFINE D == TopLevels(b, side)
           f == [p \in D |-> b.levels[<<side, p>>]]
<1>1. D \subseteq Prices
  BY DEF TopLevels, Displayed
<1>2. IsFiniteSet(D)
  BY <1>1, Constants, FS_Subset
<1>3. f \in [D -> Nat]
  <2>1. \A p \in D : <<side, p>> \in Keys
    BY <1>1 DEF Keys
  <2> QED BY <2>1 DEF Books
<1>4. DepthVolume(b, side) = SumFunction(f)
  BY DEF DepthVolume, SumOver
<1> HIDE DEF D, f
<1> QED BY <1>2, <1>3, <1>4, SumNat

-----------------------------------------------------------------------------
(* Liquidity. *)

\* What is not there is no record of what is.
LEMMA NoneIsNone ==
  None \notin Persistences /\ None \notin TradeClusters /\ None \notin AbsorptionWindows
<1>1. DOMAIN None = {"none"}
  BY DEF None
<1>2. \A r \in Persistences : "peak" \in DOMAIN r
  BY DEF Persistences
<1>3. \A r \in TradeClusters : "high" \in DOMAIN r
  BY DEF TradeClusters
<1>4. \A r \in AbsorptionWindows : "trades" \in DOMAIN r
  BY DEF AbsorptionWindows
<1> QED BY <1>1, <1>2, <1>3, <1>4

\* A list is one shorter without one of its elements.
LEMMA RemoveAtIs ==
  ASSUME NEW S, NEW list \in Seq(S), NEW i \in 1..Len(list)
  PROVE  RemoveAt(list, i) \in Seq(S) /\ Len(RemoveAt(list, i)) = Len(list) - 1
<1> DEFINE front == SubSeq(list, 1, i - 1)
           rest == SubSeq(list, i + 1, Len(list))
<1>1. Len(list) \in Nat
  BY LenProperties
<1>2. \A j \in 1..Len(list) : list[j] \in S
  BY ElementOfSeq
<1>3. front \in Seq(S) /\ Len(front) = i - 1
  <2>1. 1 \in Int /\ i - 1 \in Int /\ \A j \in 1 .. i - 1 : list[j] \in S
    BY <1>1, <1>2
  <2>2. front \in Seq(S) /\ Len(front) = IF 1 <= i - 1 THEN i - 1 - 1 + 1 ELSE 0
    BY <2>1, SubSeqProperties
  <2> QED BY <1>1, <2>2
<1>4. rest \in Seq(S) /\ Len(rest) = Len(list) - i
  <2>1. i + 1 \in Int /\ Len(list) \in Int /\ \A j \in i + 1 .. Len(list) : list[j] \in S
    BY <1>1, <1>2
  <2>2. rest \in Seq(S) /\ Len(rest) = IF i + 1 <= Len(list) THEN Len(list) - (i + 1) + 1 ELSE 0
    BY <2>1, SubSeqProperties
  <2> QED BY <1>1, <2>2
<1>5. RemoveAt(list, i) = front \o rest
  BY DEF RemoveAt
<1> HIDE DEF front, rest
<1>6. front \o rest \in Seq(S) /\ Len(front \o rest) = Len(front) + Len(rest)
  BY <1>3, <1>4, ConcatProperties
<1> QED BY <1>1, <1>3, <1>4, <1>5, <1>6

\* The life of a level.
LEMMA SeenIs ==
  ASSUME NEW level \in Persistences \cup {None}, NEW qty \in Nat, NEW ts \in Nat
  PROVE  Seen(level, qty, ts) \in Persistences /\ Seen(level, qty, ts).current = qty
<1>1. CASE level = None
  BY <1>1 DEF Seen, Persistences
<1>2. CASE level # None
  <2> DEFINE peak == IF qty > level.peak THEN qty ELSE level.peak
  <2>1. level \in Persistences
    BY <1>2
  <2>2. peak \in Nat
    BY <2>1 DEF Persistences
  <2>3. Seen(level, qty, ts) = [level EXCEPT !.seen = ts, !.current = qty, !.peak = peak]
    BY <1>2 DEF Seen
  <2> HIDE DEF peak
  <2> QED BY <2>1, <2>2, <2>3 DEF Persistences
<1> QED BY <1>1, <1>2

\* What a change of a level does to the tracker: a decrease is one that waits, and a
\* replenishment one that waits no more.
LEMMA LiquidityChangeIs ==
  ASSUME NEW t \in LiquidityTrackers, NEW c \in LevelChanges, NEW at \in Nat
  PROVE  LET u == LiquidityChange(t, c, at)
             k == KeyOf(c)
         IN  /\ u \in LiquidityTrackers /\ k \in Keys
             /\ u.added = t.added + SatSub(c.new, c.old)
             /\ u.removed = t.removed + SatSub(c.old, c.new)
             /\ \A j \in Keys \ {k} : u.levels[j] = t.levels[j] /\ u.decreases[j] = t.decreases[j]
             /\ c.old = c.new => u.levels[k] = t.levels[k]
             /\ c.old # c.new => u.levels[k] # None /\ u.levels[k].current = c.new
             /\ u.replenished + Len(u.decreases[k])
                  = t.replenished + Len(t.decreases[k]) + OneIf(IsDecrease(c))
             /\ u.replenished >= t.replenished
<1> DEFINE k == KeyOf(c)
           list == t.decreases[k]
           u == LiquidityChange(t, c, at)
<1>1. /\ c.side \in Sides /\ c.price \in Prices /\ c.old \in Nat /\ c.new \in Nat /\ k \in Keys
      /\ t.added \in Nat /\ t.removed \in Nat /\ t.replenished \in Nat
      /\ t.levels \in [Keys -> Persistences \cup {None}] /\ t.decreases \in [Keys -> Seq(Nat)]
  BY DEF LevelChanges, LiquidityTrackers, KeyOf, Keys
<1>2. list \in Seq(Nat) /\ Len(list) \in Nat /\ DOMAIN list = 1..Len(list)
  <2>1. list \in Seq(Nat)
    BY <1>1
  <2> HIDE DEF list
  <2> QED BY <2>1, LenProperties
<1>3. CASE c.old = c.new
  <2>1. u = t
    BY <1>3 DEF LiquidityChange
  <2>2. SatSub(c.new, c.old) = 0 /\ SatSub(c.old, c.new) = 0 /\ OneIf(IsDecrease(c)) = 0
    BY <1>1, <1>3 DEF SatSub, IsDecrease, OneIf
  <2> HIDE DEF k, u
  <2>3. Len(t.decreases[k]) \in Nat
    BY <1>2
  <2> QED BY <1>1, <1>3, <2>1, <2>2, <2>3 DEF k, u
<1>4. CASE c.old # c.new
  <2> DEFINE first == Min(Replenishable(t, c, at))
             kept == CASE IsDecrease(c) -> Append(list, at)
                       [] Replenishes(t, c, at) -> RemoveAt(list, first)
                       [] OTHER -> list
             more == IF Replenishes(t, c, at) THEN t.replenished + 1 ELSE t.replenished
             added == t.added + SatSub(c.new, c.old)
             removed == t.removed + SatSub(c.old, c.new)
             level == Seen(t.levels[k], c.new, at)
             decreases == [t.decreases EXCEPT ![k] = kept]
             levels == [t.levels EXCEPT ![k] = level]
  <2>0. SatSub(c.new, c.old) \in Nat /\ SatSub(c.old, c.new) \in Nat
    BY <1>1, Monus
  <2>1. added \in Nat /\ removed \in Nat
    <3> HIDE DEF k, u, list, first, kept, more, level, decreases, levels
    <3> QED BY <1>1, <2>0
  <2>2. /\ kept \in Seq(Nat) /\ more \in Nat /\ more >= t.replenished
        /\ more + Len(kept) = t.replenished + Len(list) + OneIf(IsDecrease(c))
    <3>1. CASE IsDecrease(c)
      <4>1. ~Replenishes(t, c, at)
        BY <1>1, <3>1 DEF Replenishes, IsDecrease, IsIncrease
      <4>2. kept = Append(list, at) /\ more = t.replenished
        BY <3>1, <4>1
      <4> HIDE DEF kept, more, list, k, u, level, added, removed
      <4>3. Append(list, at) \in Seq(Nat) /\ Len(Append(list, at)) = Len(list) + 1
        BY <1>2, AppendProperties
      <4>4. kept \in Seq(Nat) /\ Len(kept) = Len(list) + 1 /\ more = t.replenished
        BY <4>2, <4>3, Zenon
      <4>5. OneIf(IsDecrease(c)) = 1
        BY <3>1 DEF OneIf
      <4> DEFINE one == OneIf(IsDecrease(c))
      <4>6. one = 1
        BY <4>5
      <4> HIDE DEF one
      <4> DEFINE n == Len(list)
                 m == Len(kept)
                 rep == t.replenished
      <4>8. n \in Nat /\ m = n + 1 /\ rep \in Nat /\ more = rep
        BY <1>1, <1>2, <4>4
      <4> HIDE DEF n, m, rep
      <4>9. more + m = rep + n + one
        BY <4>6, <4>8
      <4>7. more + Len(kept) = t.replenished + Len(list) + one
        BY <4>9 DEF n, m, rep
      <4> QED BY <1>1, <4>4, <4>7 DEF one
    <3>2. CASE Replenishes(t, c, at)
      <4>1. ~IsDecrease(c)
        BY <1>1, <3>2 DEF Replenishes, IsDecrease, IsIncrease
      <4>2. kept = RemoveAt(list, first) /\ more = t.replenished + 1
        BY <3>2, <4>1
      <4>3. first \in 1..Len(list)
        <5> DEFINE R == Replenishable(t, c, at)
        <5>1. R \in SUBSET (1..Len(list)) /\ R # {}
          BY <1>2, <3>2 DEF Replenishes, Replenishable
        <5> HIDE DEF R, kept, more, list, k, u, level, added, removed, first
        <5>2. R \in SUBSET Nat /\ IsFiniteSet(R)
          <6>1. IsFiniteSet(1..Len(list))
            BY <1>2, FS_Interval
          <6>2. IsFiniteSet(R)
            BY <5>1, <6>1, FS_Subset
          <6> QED BY <1>2, <5>1, <6>2
        <5>3. Min(R) \in R
          BY <5>1, <5>2, MaxAndMin
        <5> QED BY <5>1, <5>3 DEF R, first
      <4> HIDE DEF first, list, kept, more, k, u, level, added, removed
      <4>4. RemoveAt(list, first) \in Seq(Nat) /\ Len(RemoveAt(list, first)) = Len(list) - 1
        BY <1>2, <4>3, RemoveAtIs
      <4>5. kept \in Seq(Nat) /\ Len(kept) = Len(list) - 1 /\ more = t.replenished + 1
        BY <4>2, <4>4, Zenon
      <4>6. OneIf(IsDecrease(c)) = 0
        BY <4>1 DEF OneIf
      <4> DEFINE one == OneIf(IsDecrease(c))
      <4>7. one = 0
        BY <4>6
      <4> HIDE DEF one
      <4>8. more + Len(kept) = t.replenished + Len(list) + one
        BY <1>1, <1>2, <4>5, <4>7
      <4>9. more \in Nat /\ more >= t.replenished
        BY <1>1, <4>5
      <4> QED BY <4>5, <4>8, <4>9 DEF one
    <3>3. CASE ~IsDecrease(c) /\ ~Replenishes(t, c, at)
      <4>1. kept = list
        BY <3>3
      <4> QED BY <1>1, <1>2, <3>3, <4>1 DEF OneIf
    <3> QED BY <3>1, <3>2, <3>3
  <2>3. level \in Persistences /\ level.current = c.new
    BY <1>1, SeenIs
  <2>4. u = [t EXCEPT !.added = added, !.removed = removed, !.decreases = decreases,
                      !.replenished = more, !.levels = levels]
    BY <1>4 DEF LiquidityChange, LiquidityTrackers
  <2> HIDE DEF added, removed, kept, more, level, u, k, list
  <2>5. decreases \in [Keys -> Seq(Nat)] /\ levels \in [Keys -> Persistences \cup {None}]
    BY <1>1, <2>2, <2>3
  <2>6. /\ levels[k] = level /\ decreases[k] = kept
        /\ \A j \in Keys \ {k} : levels[j] = t.levels[j] /\ decreases[j] = t.decreases[j]
    BY <1>1
  <2> HIDE DEF decreases, levels
  <2>7. u \in LiquidityTrackers
    <3> DEFINE u1 == [t EXCEPT !.added = added, !.removed = removed]
               u2 == [u1 EXCEPT !.decreases = decreases, !.replenished = more, !.levels = levels]
    <3>1. u = u2
      BY <2>4
    <3>2. u1 \in LiquidityTrackers
      BY <2>1 DEF LiquidityTrackers
    <3> HIDE DEF u1
    <3>3. u2 \in LiquidityTrackers
      BY <2>2, <2>5, <3>2 DEF LiquidityTrackers
    <3> QED BY <3>1, <3>3
  <2>8. /\ u.added = added /\ u.removed = removed /\ u.decreases = decreases
        /\ u.replenished = more /\ u.levels = levels
    BY <2>4 DEF LiquidityTrackers
  <2>9. level # None
    BY <2>3, NoneIsNone
  <2>10. /\ u.added = t.added + SatSub(c.new, c.old) /\ u.removed = t.removed + SatSub(c.old, c.new)
    BY <2>8 DEF added, removed
  <2>11. u.replenished + Len(u.decreases[k])
           = t.replenished + Len(t.decreases[k]) + OneIf(IsDecrease(c))
    BY <2>2, <2>6, <2>8 DEF list
  <2>12. \A j \in Keys \ {k} : u.levels[j] = t.levels[j] /\ u.decreases[j] = t.decreases[j]
    BY <2>6, <2>8
  <2>13. u.levels[k] # None /\ u.levels[k].current = c.new
    BY <2>3, <2>6, <2>8, <2>9
  <2> QED BY <1>1, <1>4, <2>2, <2>7, <2>8, <2>10, <2>11, <2>12, <2>13 DEF k, u
<1> QED BY <1>3, <1>4

\* Pruning forgets levels that are gone and decreases that are over.
LEMMA PruneLiquidityIs ==
  ASSUME NEW t \in LiquidityTrackers, NEW now \in Nat
  PROVE  LET u == PruneLiquidity(t, now)
         IN  /\ u \in LiquidityTrackers
             /\ u.added = t.added /\ u.removed = t.removed /\ u.replenished = t.replenished
             /\ \A k \in Keys : u.levels[k] \in {t.levels[k], None}
             /\ \A k \in Keys : Len(u.decreases[k]) <= Len(t.decreases[k])
<1> DEFINE gone == {k \in Keys : /\ t.levels[k] # None
                                 /\ t.levels[k].seen < Cutoff(now)
                                 /\ t.levels[k].current = 0}
           late(k) == {i \in DOMAIN t.decreases[k] : ~(t.decreases[k][i] + ReplenishmentMs < now)}
           levels == [k \in Keys |-> IF k \in gone THEN None ELSE t.levels[k]]
           decreases == [k \in Keys |-> IF k \in gone THEN <<>> ELSE FromFirst(t.decreases[k], late(k))]
<1>1. /\ t.levels \in [Keys -> Persistences \cup {None}] /\ t.decreases \in [Keys -> Seq(Nat)]
  BY DEF LiquidityTrackers
<1>2. levels \in [Keys -> Persistences \cup {None}] /\ \A k \in Keys : levels[k] \in {t.levels[k], None}
  <2> HIDE DEF gone
  <2> QED BY <1>1
<1>3. \A k \in Keys : decreases[k] \in Seq(Nat) /\ Len(decreases[k]) <= Len(t.decreases[k])
  <2> TAKE k \in Keys
  <2> DEFINE list == t.decreases[k]
             positions == late(k)
             rest == FromFirst(list, positions)
  <2>1. list \in Seq(Nat) /\ positions \in SUBSET DOMAIN list
    BY <1>1
  <2>2. Len(list) \in Nat /\ <<>> \in Seq(Nat) /\ Len(<<>>) = 0
    <3>1. list \in Seq(Nat)
      BY <2>1
    <3> HIDE DEF list
    <3> QED BY <3>1, LenProperties, EmptySeq
  <2>3. rest \in Seq(Nat) /\ Len(rest) <= Len(list)
    <3> HIDE DEF list, positions
    <3>1. rest \in Seq(Nat)
      BY <2>1, FromFirstIs
    <3>2. PICK n \in 0..Len(list) :
            /\ Len(rest) = Len(list) - n
            /\ \A i \in 1 .. Len(list) - n : rest[i] = list[i + n]
            /\ \A i \in 1..n : i \notin positions
      BY <2>1, FromFirstIs
    <3> HIDE DEF rest
    <3> QED BY <2>2, <3>1, <3>2
  <2>4. decreases[k] = IF k \in gone THEN <<>> ELSE rest
    OBVIOUS
  <2> HIDE DEF gone, rest, list, decreases
  <2>5. decreases[k] \in Seq(Nat) /\ Len(decreases[k]) <= Len(list)
    BY <2>2, <2>3, <2>4
  <2> QED BY <2>5 DEF list
<1>4. PruneLiquidity(t, now) = [t EXCEPT !.levels = levels, !.decreases = decreases]
  BY DEF PruneLiquidity, WithoutOldFront
<1>5. decreases \in [Keys -> Seq(Nat)]
  <2>1. decreases = [k \in Keys |-> decreases[k]]
    OBVIOUS
  <2> HIDE DEF decreases
  <2> QED BY <1>3, <2>1
<1> HIDE DEF levels, decreases
<1>6. /\ PruneLiquidity(t, now) \in LiquidityTrackers
      /\ PruneLiquidity(t, now).levels = levels /\ PruneLiquidity(t, now).decreases = decreases
      /\ PruneLiquidity(t, now).added = t.added /\ PruneLiquidity(t, now).removed = t.removed
      /\ PruneLiquidity(t, now).replenished = t.replenished
  BY <1>2, <1>4, <1>5 DEF LiquidityTrackers
<1> QED BY <1>2, <1>3, <1>6

\* A tracker that is reset, and one that is cleared.
LEMMA ResetsAre ==
  ASSUME NEW t \in LiquidityTrackers
  PROVE  /\ ResetInterval(t) \in LiquidityTrackers
         /\ ResetInterval(t).added = 0 /\ ResetInterval(t).removed = 0
         /\ ResetInterval(t).levels = t.levels /\ ResetInterval(t).decreases = t.decreases
         /\ ResetInterval(t).replenished = t.replenished
         /\ Clear(t) \in LiquidityTrackers /\ Clear(t).replenished = t.replenished
         /\ Clear(t).added = 0 /\ Clear(t).removed = 0
         /\ \A k \in Keys : Clear(t).levels[k] = None /\ Clear(t).decreases[k] = <<>>
         /\ NewLiquidity \in LiquidityTrackers /\ NewLiquidity.replenished = 0
         /\ NewLiquidity.added = 0 /\ NewLiquidity.removed = 0
         /\ \A k \in Keys : NewLiquidity.levels[k] = None /\ NewLiquidity.decreases[k] = <<>>
<1>1. /\ NewLiquidity \in LiquidityTrackers /\ NewLiquidity.replenished = 0
      /\ NewLiquidity.added = 0 /\ NewLiquidity.removed = 0
      /\ \A k \in Keys : NewLiquidity.levels[k] = None /\ NewLiquidity.decreases[k] = <<>>
  <2>1. <<>> \in Seq(Nat)
    BY EmptySeq
  <2>2. [k \in Keys |-> <<>>] \in [Keys -> Seq(Nat)] /\ [k \in Keys |-> None] \in [Keys -> Persistences \cup {None}]
    BY <2>1
  <2> QED BY <2>2 DEF NewLiquidity, LiquidityTrackers
<1>2. /\ Clear(t) \in LiquidityTrackers /\ Clear(t).replenished = t.replenished
      /\ Clear(t).added = 0 /\ Clear(t).removed = 0
      /\ Clear(t).levels = NewLiquidity.levels /\ Clear(t).decreases = NewLiquidity.decreases
  BY <1>1 DEF Clear, LiquidityTrackers
<1>3. /\ ResetInterval(t) \in LiquidityTrackers
      /\ ResetInterval(t).added = 0 /\ ResetInterval(t).removed = 0
      /\ ResetInterval(t).levels = t.levels /\ ResetInterval(t).decreases = t.decreases
      /\ ResetInterval(t).replenished = t.replenished
  BY DEF ResetInterval, LiquidityTrackers
<1> QED BY <1>1, <1>2, <1>3

-----------------------------------------------------------------------------
(* Absorption. *)

\* What a window has collected; nothing, if there is none.
TradesIn(w) == IF w = None THEN 0 ELSE w.trades
VolumeIn(w) == IF w = None THEN 0 ELSE w.volume

\* A window that a trade opens has collected that trade.
LEMMA OpenWindowIs ==
  ASSUME NEW trade \in Trades, NEW best \in Prices, NEW opposing \in Nat
  PROVE  LET w == OpenWindow(trade, best, opposing)
         IN  w \in AbsorptionWindows /\ TradesIn(w) = 1 /\ VolumeIn(w) = trade.qty
<1> DEFINE w == OpenWindow(trade, best, opposing)
<1>1. w \in AbsorptionWindows /\ w.trades = 1 /\ w.volume = trade.qty
  BY DEF OpenWindow, AbsorptionWindows, Trades
<1> HIDE DEF w
<1>2. w # None
  BY <1>1, NoneIsNone
<1> QED BY <1>1, <1>2 DEF TradesIn, VolumeIn, w

\* A window with one more trade has collected one more.
LEMMA WindowWithTradeIs ==
  ASSUME NEW w \in AbsorptionWindows, NEW trade \in Trades, NEW best \in Prices
  PROVE  LET v == WindowWithTrade(w, trade, best)
         IN  /\ v \in AbsorptionWindows
             /\ TradesIn(v) = TradesIn(w) + 1 /\ VolumeIn(v) = VolumeIn(w) + trade.qty
<1> DEFINE d == Displacement(w, trade, best)
           trades == w.trades + 1
           volume == w.volume + trade.qty
           closed == trade.ts
           displacement == IF d > w.displacement THEN d ELSE w.displacement
           v == WindowWithTrade(w, trade, best)
<1>1. /\ w.trades \in Nat /\ w.volume \in Nat /\ w.displacement \in Nat /\ w.reference \in Prices
      /\ trade.qty \in Nat /\ trade.ts \in Nat
  BY DEF AbsorptionWindows, Trades
<1>2. d \in Nat
  <2>1. best \in Nat /\ w.reference \in Nat
    BY <1>1, Constants
  <2> QED BY <2>1, Monus DEF Displacement
<1>3. trades \in Nat /\ volume \in Nat /\ closed \in Nat /\ displacement \in Nat
  BY <1>1, <1>2
<1>4. v = [w EXCEPT !.trades = trades, !.volume = volume, !.closed = closed,
                    !.displacement = displacement]
  BY DEF WindowWithTrade
<1> HIDE DEF trades, volume, closed, displacement, v
<1>5. v \in AbsorptionWindows /\ v.trades = trades /\ v.volume = volume
  BY <1>3, <1>4 DEF AbsorptionWindows
<1>6. v # None /\ w # None
  BY <1>5, NoneIsNone
<1> QED BY <1>5, <1>6 DEF TradesIn, VolumeIn, v, trades, volume

\* A trade either is in one window, which opens with it or is open, or it closes one: as a
\* candidate, with the evidence that takes, or not.
LEMMA AbsorptionTradeIs ==
  ASSUME NEW d \in Detectors, NEW trade \in Trades, NEW best \in Prices, NEW opposing \in Nat
  PROVE  LET u == AbsorptionTrade(d, trade, best, opposing)
             p == trade.price
             w == d.windows[p]
             v == u.windows[p]
         IN  /\ u \in Detectors /\ p \in Prices
             /\ \A q \in Prices \ {p} : u.windows[q] = d.windows[q]
             /\ \/ /\ u.count = d.count
                   /\ TradesIn(v) = TradesIn(w) + 1 /\ VolumeIn(v) = VolumeIn(w) + trade.qty
                   /\ Candidate(d, trade) = None
                \/ /\ u.count = d.count /\ TradesIn(v) = 0 /\ VolumeIn(v) = 0
                   /\ Candidate(d, trade) = None
                \/ /\ u.count = d.count + 1 /\ TradesIn(v) = 0 /\ VolumeIn(v) = 0
                   /\ TradesIn(w) >= AbsorptionTrades /\ VolumeIn(w) >= AbsorptionVolume
                   /\ Candidate(d, trade) # None
<1> DEFINE p == trade.price
           w == d.windows[p]
           u == AbsorptionTrade(d, trade, best, opposing)
           new == CASE Expires(d, trade) -> None
                    [] w = None -> OpenWindow(trade, best, opposing)
                    [] OTHER -> WindowWithTrade(w, trade, best)
           more == d.count + (IF Candidate(d, trade) = None THEN 0 ELSE 1)
           windows == [d.windows EXCEPT ![p] = new]
<1>1. /\ p \in Prices /\ d.windows \in [Prices -> AbsorptionWindows \cup {None}] /\ d.count \in Nat
      /\ w \in AbsorptionWindows \cup {None}
  BY DEF Detectors, Trades
<1>2. u = [windows |-> windows, count |-> more]
  BY DEF AbsorptionTrade
<1>3. more \in Nat
  BY <1>1
<1>4. /\ new \in AbsorptionWindows \cup {None}
      /\ \/ /\ more = d.count /\ Candidate(d, trade) = None
            /\ TradesIn(new) = TradesIn(w) + 1 /\ VolumeIn(new) = VolumeIn(w) + trade.qty
         \/ /\ more = d.count /\ Candidate(d, trade) = None
            /\ TradesIn(new) = 0 /\ VolumeIn(new) = 0
         \/ /\ more = d.count + 1 /\ Candidate(d, trade) # None
            /\ TradesIn(new) = 0 /\ VolumeIn(new) = 0
            /\ TradesIn(w) >= AbsorptionTrades /\ VolumeIn(w) >= AbsorptionVolume
  <2>1. CASE Expires(d, trade)
    <3>0. new = None
      <4>1. w # None
        BY <2>1 DEF Expires
      <4> HIDE DEF w
      <4> QED BY <2>1, <4>1
    <3>1. new = None /\ TradesIn(new) = 0 /\ VolumeIn(new) = 0
      <4> HIDE DEF new
      <4> QED BY <3>0 DEF TradesIn, VolumeIn
    <3>2. CASE Candidate(d, trade) = None
      <4>1. more = d.count
        BY <1>1, <3>2
      <4> QED BY <3>1, <3>2, <4>1
    <3>3. CASE Candidate(d, trade) # None
      <4>1. IsAbsorption(w)
        BY <3>3 DEF Candidate
      <4>2. TradesIn(w) >= AbsorptionTrades /\ VolumeIn(w) >= AbsorptionVolume
        BY <2>1, <4>1 DEF IsAbsorption, TradesIn, VolumeIn, Expires
      <4>3. more = d.count + 1
        BY <3>3
      <4> QED BY <3>1, <3>3, <4>2, <4>3
    <3> QED BY <3>2, <3>3
  <2>2. CASE ~Expires(d, trade)
    <3>1. Candidate(d, trade) = None /\ more = d.count
      BY <1>1, <2>2 DEF Candidate
    <3>2. CASE w = None
      <4>1. new = OpenWindow(trade, best, opposing)
        BY <2>2, <3>2
      <4>2. TradesIn(w) = 0 /\ VolumeIn(w) = 0 /\ trade.qty \in Nat
        BY <3>2 DEF TradesIn, VolumeIn, Trades
      <4> HIDE DEF new, w, more
      <4>3. new \in AbsorptionWindows /\ TradesIn(new) = 1 /\ VolumeIn(new) = trade.qty
        BY <4>1, OpenWindowIs
      <4> QED BY <3>1, <4>2, <4>3
    <3>3. CASE w # None
      <4>1. new = WindowWithTrade(w, trade, best) /\ w \in AbsorptionWindows
        BY <1>1, <2>2, <3>3
      <4> HIDE DEF new, w, more
      <4>2. /\ new \in AbsorptionWindows
            /\ TradesIn(new) = TradesIn(w) + 1 /\ VolumeIn(new) = VolumeIn(w) + trade.qty
        BY <4>1, WindowWithTradeIs
      <4> QED BY <3>1, <4>2
    <3> QED BY <3>2, <3>3
  <2> QED BY <2>1, <2>2
<1> HIDE DEF new, more
<1>5. windows \in [Prices -> AbsorptionWindows \cup {None}] /\ windows[p] = new
      /\ \A q \in Prices \ {p} : windows[q] = d.windows[q]
  BY <1>1, <1>4
<1> HIDE DEF windows
<1>6. u \in Detectors /\ u.windows = windows /\ u.count = more
  BY <1>2, <1>3, <1>5 DEF Detectors
<1> HIDE DEF u, w
<1>7. u.windows[p] = new /\ \A q \in Prices \ {p} : u.windows[q] = d.windows[q]
  BY <1>5, <1>6
<1> QED BY <1>1, <1>4, <1>6, <1>7 DEF u, w

\* A change of a level leaves the evidence alone.
LEMMA AbsorptionChangeIs ==
  ASSUME NEW d \in Detectors, NEW c \in LevelChanges, NEW at \in Nat
  PROVE  LET u == AbsorptionChange(d, c, at)
         IN  /\ u \in Detectors /\ u.count = d.count
             /\ \A p \in Prices : /\ TradesIn(u.windows[p]) = TradesIn(d.windows[p])
                                  /\ VolumeIn(u.windows[p]) = VolumeIn(d.windows[p])
<1> DEFINE windows == [p \in Prices |-> IF Opposes(d.windows[p], c.price, at)
                                        THEN Opposed(d.windows[p], c) ELSE d.windows[p]]
<1>1. c.new \in Nat /\ c.old \in Nat /\ d.windows \in [Prices -> AbsorptionWindows \cup {None}]
  BY DEF LevelChanges, Detectors
<1>2. ASSUME NEW w \in AbsorptionWindows
      PROVE  /\ Opposed(w, c) \in AbsorptionWindows
             /\ TradesIn(Opposed(w, c)) = TradesIn(w) /\ VolumeIn(Opposed(w, c)) = VolumeIn(w)
  <2> DEFINE more == w.replenished + (IF c.new > c.old THEN c.new ELSE 0)
             new == c.new
             v == [w EXCEPT !.replenished = more, !.opposingClose = new]
  <2>1. more \in Nat /\ new \in Nat
    BY <1>1 DEF AbsorptionWindows
  <2>2. Opposed(w, c) = v
    BY DEF Opposed
  <2> HIDE DEF more, new
  <2>3. v \in AbsorptionWindows /\ v.trades = w.trades /\ v.volume = w.volume
    BY <2>1 DEF AbsorptionWindows
  <2>4. v # None /\ w # None
    BY <2>3, NoneIsNone
  <2> HIDE DEF v
  <2> QED BY <2>2, <2>3, <2>4 DEF TradesIn, VolumeIn
<1>3. AbsorptionChange(d, c, at) = [d EXCEPT !.windows = windows]
  BY DEF AbsorptionChange
<1>4. \A p \in Prices : /\ windows[p] \in AbsorptionWindows \cup {None}
                        /\ TradesIn(windows[p]) = TradesIn(d.windows[p])
                        /\ VolumeIn(windows[p]) = VolumeIn(d.windows[p])
  <2> TAKE p \in Prices
  <2>1. CASE ~Opposes(d.windows[p], c.price, at)
    <3>1. windows[p] = d.windows[p]
      BY <2>1
    <3> HIDE DEF windows
    <3> QED BY <1>1, <3>1
  <2>2. CASE Opposes(d.windows[p], c.price, at)
    <3>1. d.windows[p] \in AbsorptionWindows
      BY <1>1, <2>2 DEF Opposes
    <3>2. windows[p] = Opposed(d.windows[p], c)
      BY <2>2
    <3> HIDE DEF windows
    <3> QED BY <1>2, <3>1, <3>2
  <2> QED BY <2>1, <2>2
<1>5. windows \in [Prices -> AbsorptionWindows \cup {None}]
  <2>1. windows = [p \in Prices |-> windows[p]]
    OBVIOUS
  <2> HIDE DEF windows
  <2> QED BY <1>4, <2>1
<1> HIDE DEF windows
<1>6. /\ AbsorptionChange(d, c, at) \in Detectors
      /\ AbsorptionChange(d, c, at).windows = windows /\ AbsorptionChange(d, c, at).count = d.count
  BY <1>3, <1>5 DEF Detectors
<1> QED BY <1>4, <1>6

-----------------------------------------------------------------------------
(* The heatmap. *)

CellKeys == Nat \X Prices

\* What a map of cells is with a cell put into it, and without some of them.
LEMMA CellsWith ==
  ASSUME NEW cells, ProperHeatmap(cells), NEW key \in CellKeys, NEW cell \in Cells,
         NEW u, u = Put(cells, key, cell)
  PROVE  /\ ProperHeatmap(u) /\ CellAt(u, key) = cell
         /\ \A k \in CellKeys \ {key} : CellAt(u, k) = CellAt(cells, k)
<1>1. /\ DOMAIN u = DOMAIN cells \cup {key}
      /\ \A k \in DOMAIN cells \cup {key} : u[k] = IF k = key THEN cell ELSE cells[k]
      /\ u = [k \in DOMAIN u |-> u[k]]
  BY DEF Put, Over
<1>2. /\ DOMAIN cells \subseteq CellKeys /\ IsFiniteSet(DOMAIN cells)
      /\ \A k \in DOMAIN cells : cells[k] \in Cells
  BY DEF ProperHeatmap, IsHeatmap, CellKeys
<1>3. IsFiniteSet(DOMAIN u)
  BY <1>1, <1>2, FS_AddElement
<1>4. DOMAIN u \subseteq CellKeys /\ \A k \in DOMAIN u : u[k] \in Cells
  BY <1>1, <1>2
<1>5. ProperHeatmap(u)
  BY <1>1, <1>3, <1>4, Zenon DEF ProperHeatmap, IsHeatmap, CellKeys
<1>6. CellAt(u, key) = cell /\ \A k \in CellKeys \ {key} : CellAt(u, k) = CellAt(cells, k)
  BY <1>1 DEF CellAt
<1> QED BY <1>5, <1>6

\* The cells that are dropped are empty, the others are what they were.
LEMMA CellsWithout ==
  ASSUME NEW cells, ProperHeatmap(cells), NEW keys, NEW u, u = Drop(cells, keys)
  PROVE  /\ ProperHeatmap(u)
         /\ \A k \in CellKeys : k \in keys => CellAt(u, k) = EmptyCell
         /\ \A k \in CellKeys : k \notin keys => CellAt(u, k) = CellAt(cells, k)
<1>1. /\ DOMAIN u = DOMAIN cells \ keys /\ \A k \in DOMAIN u : u[k] = cells[k]
      /\ u = [k \in DOMAIN u |-> u[k]]
  BY DEF Drop
<1>2. /\ DOMAIN cells \subseteq CellKeys /\ IsFiniteSet(DOMAIN cells)
      /\ \A k \in DOMAIN cells : cells[k] \in Cells
  BY DEF ProperHeatmap, IsHeatmap, CellKeys
<1>3. IsFiniteSet(DOMAIN u)
  BY <1>1, <1>2, FS_Subset
<1>4. DOMAIN u \subseteq CellKeys /\ \A k \in DOMAIN u : u[k] \in Cells
  BY <1>1, <1>2
<1>5. ProperHeatmap(u)
  BY <1>1, <1>3, <1>4, Zenon DEF ProperHeatmap, IsHeatmap, CellKeys
<1>6. /\ \A k \in CellKeys : k \in keys => CellAt(u, k) = EmptyCell
      /\ \A k \in CellKeys : k \notin keys => CellAt(u, k) = CellAt(cells, k)
  BY <1>1 DEF CellAt
<1> QED BY <1>5, <1>6

\* The cell that nothing has happened in.
LEMMA EmptyCellType == EmptyCell \in Cells
BY DEF EmptyCell, Cells

\* What is at a place of the heatmap.
LEMMA CellAtType ==
  ASSUME NEW cells, ProperHeatmap(cells), NEW k
  PROVE  CellAt(cells, k) \in Cells
BY EmptyCellType DEF ProperHeatmap, IsHeatmap, CellAt

\* The place of a time and a price.
LEMMA CellKeyType ==
  ASSUME NEW ts \in Nat, NEW p \in Prices
  PROVE  CellKey(ts, p) \in CellKeys
<1>1. SlotOf(ts, CellMs) \in Nat
  BY Constants, SlotIs
<1> QED BY <1>1 DEF CellKey, CellKeys

\* Two cells of the same executed volume, and of the same resting liquidity.
SameVolume(c, d) == d.buy = c.buy /\ d.sell = c.sell /\ d.delta = c.delta /\ d.trades = c.trades
SameResting(c, d) ==
  d.bid = c.bid /\ d.ask = c.ask /\ d.added = c.added /\ d.removed = c.removed

\* A map of cells with a signal marked in it.
Marked(cells, u) ==
  /\ ProperHeatmap(u)
  /\ \A k \in CellKeys : /\ SameVolume(CellAt(cells, k), CellAt(u, k))
                         /\ SameResting(CellAt(cells, k), CellAt(u, k))

\* A trade counts in its cell and in no other.
LEMMA CellTradeIs ==
  ASSUME NEW cells, ProperHeatmap(cells), NEW trade \in Trades
  PROVE  LET u == CellTrade(cells, trade)
             key == CellKey(trade.ts, trade.price)
         IN  /\ ProperHeatmap(u) /\ key \in CellKeys
             /\ \A k \in CellKeys \ {key} : CellAt(u, k) = CellAt(cells, k)
             /\ SameResting(CellAt(cells, key), CellAt(u, key))
             /\ CellAt(u, key).buy = CellAt(cells, key).buy + Bought(trade)
             /\ CellAt(u, key).sell = CellAt(cells, key).sell + Sold(trade)
             /\ CellAt(u, key).delta = CellAt(cells, key).delta + Bought(trade) - Sold(trade)
             /\ CellAt(u, key).trades = CellAt(cells, key).trades + 1
<1> DEFINE u == CellTrade(cells, trade)
           key == CellKey(trade.ts, trade.price)
           c == CellAt(cells, key)
           trades == c.trades + 1
           buy == c.buy + Bought(trade)
           sell == c.sell + Sold(trade)
           delta == c.delta + Bought(trade) - Sold(trade)
           d == [c EXCEPT !.trades = trades, !.buy = buy, !.sell = sell, !.delta = delta]
<1>1. key \in CellKeys
  <2>1. trade.ts \in Nat /\ trade.price \in Prices
    BY DEF Trades
  <2> QED BY <2>1, CellKeyType
<1>2. u = Put(cells, key, d)
  BY DEF CellTrade
<1> HIDE DEF u, key
<1>3. c \in Cells
  BY CellAtType
<1> HIDE DEF c
<1>4. trades \in Nat /\ buy \in Nat /\ sell \in Nat /\ delta \in Int
  <2>1. Bought(trade) \in Nat /\ Sold(trade) \in Nat
    BY DEF Bought, Sold, Trades
  <2> QED BY <1>3, <2>1 DEF Cells
<1> HIDE DEF trades, buy, sell, delta
<1>5. d \in Cells /\ SameResting(c, d)
      /\ d.trades = trades /\ d.buy = buy /\ d.sell = sell /\ d.delta = delta
  BY <1>3, <1>4 DEF Cells, SameResting
<1> HIDE DEF d
<1>6. /\ ProperHeatmap(u) /\ CellAt(u, key) = d
      /\ \A k \in CellKeys \ {key} : CellAt(u, k) = CellAt(cells, k)
  BY <1>1, <1>2, <1>5, CellsWith
<1> QED BY <1>1, <1>5, <1>6 DEF u, key, c, trades, buy, sell, delta

\* A cell that differs in nothing else is marked.
LEMMA MarksIn ==
  ASSUME NEW cells, ProperHeatmap(cells), NEW key \in CellKeys, NEW d \in Cells,
         SameVolume(CellAt(cells, key), d), SameResting(CellAt(cells, key), d)
  PROVE  Marked(cells, Put(cells, key, d))
<1> DEFINE u == Put(cells, key, d)
<1>0. u = Put(cells, key, d)
  OBVIOUS
<1> HIDE DEF u
<1>1. /\ ProperHeatmap(u) /\ CellAt(u, key) = d
      /\ \A k \in CellKeys \ {key} : CellAt(u, k) = CellAt(cells, k)
  BY <1>0, CellsWith
<1>2. ASSUME NEW k \in CellKeys
      PROVE  SameVolume(CellAt(cells, k), CellAt(u, k)) /\ SameResting(CellAt(cells, k), CellAt(u, k))
  <2>1. CASE k = key
    <3>1. CellAt(u, k) = d
      BY <1>1, <2>1
    <3> QED BY <2>1, <3>1
  <2>2. CASE k # key
    <3>1. CellAt(u, k) = CellAt(cells, k)
      BY <1>1, <2>2
    <3> QED BY <3>1 DEF SameVolume, SameResting
  <2> QED BY <2>1, <2>2
<1> QED BY <1>1, <1>2 DEF Marked, u

\* Marking a large trade changes neither volumes nor what rests.
LEMMA CellLargeIs ==
  ASSUME NEW cells, ProperHeatmap(cells), NEW trade \in Trades
  PROVE  Marked(cells, CellLarge(cells, trade))
<1> DEFINE key == CellKey(trade.ts, trade.price)
           c == CellAt(cells, key)
           n == c.large + trade.qty
           d == [c EXCEPT !.large = n]
<1>1. key \in CellKeys /\ trade.qty \in Nat
  BY CellKeyType DEF Trades
<1>2. c \in Cells
  BY CellAtType
<1>3. CellLarge(cells, trade) = Put(cells, key, d)
  BY DEF CellLarge
<1> HIDE DEF key, c
<1>4. n \in Nat
  BY <1>1, <1>2 DEF Cells
<1> HIDE DEF n
<1>5. d \in Cells /\ SameVolume(c, d) /\ SameResting(c, d)
  BY <1>2, <1>4 DEF Cells, SameVolume, SameResting
<1> HIDE DEF d
<1> QED BY <1>1, <1>3, <1>5, MarksIn DEF c

\* Nor do the marks of a sweep, an absorption and a replenishment.
LEMMA CellSignals ==
  ASSUME NEW cells, ProperHeatmap(cells), NEW price \in Prices, NEW ts \in Nat
  PROVE  /\ Marked(cells, CellSweep(cells, price, ts))
         /\ Marked(cells, CellAbsorption(cells, price, ts))
         /\ Marked(cells, CellReplenishment(cells, price, ts))
<1> DEFINE key == CellKey(ts, price)
           c == CellAt(cells, key)
           s == c.swept + 1
           a == c.absorbed + 1
           r == c.replenished + 1
           ds == [c EXCEPT !.swept = s]
           da == [c EXCEPT !.absorbed = a]
           dr == [c EXCEPT !.replenished = r]
<1>1. key \in CellKeys
  BY CellKeyType
<1>2. c \in Cells
  BY CellAtType
<1>3. /\ CellSweep(cells, price, ts) = Put(cells, key, ds)
      /\ CellAbsorption(cells, price, ts) = Put(cells, key, da)
      /\ CellReplenishment(cells, price, ts) = Put(cells, key, dr)
  BY DEF CellSweep, CellAbsorption, CellReplenishment
<1> HIDE DEF key, c
<1>4. s \in Nat /\ a \in Nat /\ r \in Nat
  BY <1>2 DEF Cells
<1> HIDE DEF s, a, r
<1>5. ds \in Cells /\ SameVolume(c, ds) /\ SameResting(c, ds)
  BY <1>2, <1>4 DEF Cells, SameVolume, SameResting
<1>6. da \in Cells /\ SameVolume(c, da) /\ SameResting(c, da)
  BY <1>2, <1>4 DEF Cells, SameVolume, SameResting
<1>7. dr \in Cells /\ SameVolume(c, dr) /\ SameResting(c, dr)
  BY <1>2, <1>4 DEF Cells, SameVolume, SameResting
<1> HIDE DEF ds, da, dr
<1>8. Marked(cells, Put(cells, key, ds))
  BY <1>1, <1>5, MarksIn DEF c
<1>9. Marked(cells, Put(cells, key, da))
  BY <1>1, <1>6, MarksIn DEF c
<1>10. Marked(cells, Put(cells, key, dr))
  BY <1>1, <1>7, MarksIn DEF c
<1> QED BY <1>3, <1>8, <1>9, <1>10

\* What a cell has on a side.
Rests(c, side) == IF side = "Bid" THEN c.bid ELSE c.ask

\* A change of a level is in its cell, and its cell in balance with it.
LEMMA CellChangeIs ==
  ASSUME NEW cells, ProperHeatmap(cells), NEW change \in LevelChanges, NEW ts \in Nat
  PROVE  LET u == CellChange(cells, change, ts)
             key == CellKey(ts, change.price)
             c == CellAt(cells, key)
             d == CellAt(u, key)
         IN  /\ ProperHeatmap(u) /\ key \in CellKeys
             /\ \A k \in CellKeys \ {key} : CellAt(u, k) = CellAt(cells, k)
             /\ SameVolume(c, d)
             /\ Rests(d, change.side) = change.new
             /\ \A side \in Sides \ {change.side} : Rests(d, side) = Rests(c, side)
             /\ d.added - d.removed
                  = c.added - c.removed + change.new - Rests(c, change.side)
<1> DEFINE u == CellChange(cells, change, ts)
           key == CellKey(ts, change.price)
           c == CellAt(cells, key)
           had == IF change.side = "Bid" THEN c.bid ELSE c.ask
           added == c.added + SatSub(change.new, had)
           removed == c.removed + SatSub(had, change.new)
           counted == [c EXCEPT !.added = added, !.removed = removed]
           new == change.new
           d == IF change.side = "Bid" THEN [counted EXCEPT !.bid = new] ELSE [counted EXCEPT !.ask = new]
<1>1. /\ key \in CellKeys /\ change.side \in Sides /\ change.new \in Nat /\ new \in Nat
  BY CellKeyType DEF LevelChanges
<1>2. c \in Cells
  BY CellAtType
<1>3. u = Put(cells, key, d)
  BY DEF CellChange
<1>4. /\ c.bid \in Nat /\ c.ask \in Nat /\ c.added \in Nat /\ c.removed \in Nat /\ had \in Nat
      /\ had = Rests(c, change.side)
  BY <1>2 DEF Cells, Rests
<1> HIDE DEF u, key, c, had
<1>5. added \in Nat /\ removed \in Nat /\ added - removed = c.added - c.removed + new - had
  <2>1. CASE new > had
    BY <1>1, <1>4, <2>1 DEF SatSub
  <2>2. CASE ~(new > had)
    BY <1>1, <1>4, <2>2 DEF SatSub
  <2> QED BY <2>1, <2>2
<1> HIDE DEF added, removed
<1>6. /\ counted \in Cells /\ SameVolume(c, counted) /\ counted.added = added
      /\ counted.removed = removed /\ counted.bid = c.bid /\ counted.ask = c.ask
  BY <1>2, <1>5 DEF Cells, SameVolume
<1> HIDE DEF counted, new
<1>7. /\ d \in Cells /\ SameVolume(c, d) /\ d.added = added /\ d.removed = removed
      /\ Rests(d, change.side) = new
      /\ \A side \in Sides \ {change.side} : Rests(d, side) = Rests(c, side)
  <2>1. CASE change.side = "Bid"
    <3> DEFINE e == [counted EXCEPT !.bid = new]
    <3>1. d = e
      BY <2>1
    <3>2. /\ e \in Cells /\ SameVolume(c, e) /\ e.added = added /\ e.removed = removed
          /\ e.bid = new /\ e.ask = c.ask
      BY <1>1, <1>6 DEF Cells, SameVolume
    <3> HIDE DEF d, e
    <3> QED BY <2>1, <3>1, <3>2 DEF Rests, Sides
  <2>2. CASE change.side # "Bid"
    <3> DEFINE e == [counted EXCEPT !.ask = new]
    <3>1. d = e
      BY <2>2
    <3>2. /\ e \in Cells /\ SameVolume(c, e) /\ e.added = added /\ e.removed = removed
          /\ e.ask = new /\ e.bid = c.bid
      BY <1>1, <1>6 DEF Cells, SameVolume
    <3> HIDE DEF d, e
    <3> QED BY <1>1, <2>2, <3>1, <3>2 DEF Rests, Sides
  <2> QED BY <2>1, <2>2
<1> HIDE DEF d
<1>8. /\ ProperHeatmap(u) /\ CellAt(u, key) = d
      /\ \A k \in CellKeys \ {key} : CellAt(u, k) = CellAt(cells, k)
  BY <1>1, <1>3, <1>7, CellsWith
<1>10. d.added - d.removed = c.added - c.removed + new - Rests(c, change.side)
  BY <1>4, <1>5, <1>7
<1> QED BY <1>1, <1>7, <1>8, <1>10 DEF u, key, c, new

\* Pruning the heatmap empties the cells of old buckets.
LEMMA PruneHeatmapIs ==
  ASSUME NEW cells, ProperHeatmap(cells), NEW now
  PROVE  LET u == PruneHeatmap(cells, now)
         IN  /\ ProperHeatmap(u)
             /\ \A k \in CellKeys : CellAt(u, k) \in {CellAt(cells, k), EmptyCell}
             /\ \A k \in CellKeys : ~(k[1] < Cutoff(now)) => CellAt(u, k) = CellAt(cells, k)
<1> DEFINE old == {k \in DOMAIN cells : k[1] < Cutoff(now)}
           u == PruneHeatmap(cells, now)
<1>1. u = Drop(cells, old)
  BY DEF PruneHeatmap
<1>2. \A k \in CellKeys : ~(k[1] < Cutoff(now)) => k \notin old
  OBVIOUS
<1> HIDE DEF old, u
<1>3. /\ ProperHeatmap(u)
      /\ \A k \in CellKeys : k \in old => CellAt(u, k) = EmptyCell
      /\ \A k \in CellKeys : k \notin old => CellAt(u, k) = CellAt(cells, k)
  BY <1>1, CellsWithout
<1> QED BY <1>2, <1>3 DEF u

-----------------------------------------------------------------------------
(* The folds over the changes of an update. *)

Marking == INSTANCE FoldTheorems WITH Op <- MarkChange
Opposing == INSTANCE FoldTheorems WITH Op <- Oppose

ProperHeatmaps == UNION {[D -> Cells] : D \in {D \in SUBSET CellKeys : IsFiniteSet(D)}}

\* The proper heatmaps are a set.
LEMMA HeatmapsAre ==
  ASSUME NEW cells
  PROVE  ProperHeatmap(cells) <=> cells \in ProperHeatmaps
BY DEF ProperHeatmap, ProperHeatmaps, IsHeatmap, CellKeys

Marks == [cells : ProperHeatmaps, tracker : LiquidityTrackers]

\* The changes of an update, with its time.
LEMMA DatedType ==
  ASSUME NEW list \in Seq(LevelChanges), NEW ts \in Nat
  PROVE  /\ Dated(list, ts) \in Seq(DatedChanges) /\ Len(Dated(list, ts)) = Len(list)
         /\ \A i \in 1..Len(list) : /\ Dated(list, ts)[i].at = ts
                                    /\ Dated(list, ts)[i].change = list[i]
<1>1. Len(list) \in Nat /\ DOMAIN list = 1..Len(list) /\ \A i \in 1..Len(list) : list[i] \in LevelChanges
  BY LenProperties, ElementOfSeq
<1> DEFINE d == Dated(list, ts)
<1>2. d \in [1..Len(list) -> DatedChanges]
  BY <1>1 DEF Dated, DatedChanges
<1>3. \A i \in 1..Len(list) : d[i].at = ts /\ d[i].change = list[i]
  BY <1>1 DEF Dated
<1> HIDE DEF d
<1>4. d \in Seq(DatedChanges) /\ Len(d) = Len(list)
  BY <1>1, <1>2, LenProperties
<1> QED BY <1>3, <1>4 DEF d

\* One change keeps the types.
LEMMA MarkChangeType ==
  ASSUME NEW acc \in Marks, NEW c \in DatedChanges
  PROVE  /\ MarkChange(acc, c) \in Marks
         /\ MarkChange(acc, c).tracker = LiquidityChange(acc.tracker, c.change, c.at)
         /\ Marked(CellChange(acc.cells, c.change, c.at), MarkChange(acc, c).cells)
<1>1. /\ acc.tracker \in LiquidityTrackers /\ ProperHeatmap(acc.cells)
      /\ c.at \in Nat /\ c.change \in LevelChanges /\ c.change.price \in Prices
  BY HeatmapsAre DEF Marks, DatedChanges, LevelChanges
<1> DEFINE cells == CellChange(acc.cells, c.change, c.at)
           marked == CellReplenishment(cells, c.change.price, c.at)
           tracker == LiquidityChange(acc.tracker, c.change, c.at)
           all == IF Replenishes(acc.tracker, c.change, c.at) THEN marked ELSE cells
<1>2. ProperHeatmap(cells)
  BY <1>1, CellChangeIs
<1>3. tracker \in LiquidityTrackers
  BY <1>1, LiquidityChangeIs
<1>4. MarkChange(acc, c) = [cells |-> all, tracker |-> tracker]
  BY DEF MarkChange
<1> HIDE DEF cells, tracker
<1>5. Marked(cells, marked)
  BY <1>1, <1>2, CellSignals
<1>6. Marked(cells, cells)
  BY <1>2 DEF Marked, SameVolume, SameResting
<1>7. Marked(cells, all)
  BY <1>5, <1>6
<1> HIDE DEF all
<1>8. all \in ProperHeatmaps
  BY <1>7, HeatmapsAre DEF Marked
<1> QED BY <1>3, <1>4, <1>7, <1>8 DEF Marks, cells, tracker

\* The heatmap and the tracker after some changes, by induction over them.
LEMMA WithChangesType ==
  ASSUME NEW list \in Seq(DatedChanges), heatmap \in ProperHeatmaps, liquidity \in LiquidityTrackers
  PROVE  /\ HeatmapWithChanges(list) = Marking!Fold([cells |-> heatmap, tracker |-> liquidity], list)
         /\ [cells |-> heatmap, tracker |-> liquidity] \in Marks
         /\ HeatmapWithChanges(list) \in Marks
         /\ HeatmapWithChanges(list).tracker.replenished >= liquidity.replenished
<1> DEFINE start == [cells |-> heatmap, tracker |-> liquidity]
<1>1. start \in Marks
  BY DEF Marks
<1>2. HeatmapWithChanges(list) = Marking!Fold(start, list)
  BY DEF HeatmapWithChanges, Marking!Fold, FoldLeft, MapThenFoldSet, Max,
         Marking!FoldLeft, Marking!MapThenFoldSet, Marking!Max
<1> DEFINE T == {acc \in Marks : acc.tracker.replenished >= liquidity.replenished}
<1>3. ASSUME NEW x \in T, NEW e \in DatedChanges
      PROVE  MarkChange(x, e) \in T
  <2> DEFINE y == MarkChange(x, e)
             t == x.tracker
  <2>1. t \in LiquidityTrackers /\ e.at \in Nat /\ e.change \in LevelChanges
    BY DEF Marks, DatedChanges
  <2>2. y \in Marks /\ y.tracker = LiquidityChange(t, e.change, e.at)
    BY MarkChangeType
  <2> HIDE DEF y, t
  <2>3. y.tracker.replenished >= t.replenished /\ y.tracker \in LiquidityTrackers
    BY <2>1, <2>2, LiquidityChangeIs
  <2>4. t.replenished \in Nat /\ y.tracker.replenished \in Nat /\ liquidity.replenished \in Nat
    BY <2>1, <2>3 DEF LiquidityTrackers
  <2>5. t.replenished >= liquidity.replenished
    BY DEF t
  <2>6. y.tracker.replenished >= liquidity.replenished
    BY <2>3, <2>4, <2>5
  <2>7. y \in T
    BY <2>2, <2>6
  <2> QED BY <2>7 DEF y
<1>4. start \in T
  BY <1>1 DEF LiquidityTrackers
<1> HIDE DEF start
<1>5. Marking!Fold(start, list) \in T
  <2> HIDE DEF T
  <2> QED BY <1>3, <1>4, Marking!FoldKeeps
<1> QED BY <1>1, <1>2, <1>5 DEF start

\* The absorption detector after some changes, by induction over them: the same evidence.
LEMMA OpposedIs ==
  ASSUME NEW list \in Seq(DatedChanges), absorption \in Detectors
  PROVE  LET u == AbsorptionWithChanges(list)
         IN  /\ u \in Detectors /\ u.count = absorption.count
             /\ \A p \in Prices : /\ TradesIn(u.windows[p]) = TradesIn(absorption.windows[p])
                                  /\ VolumeIn(u.windows[p]) = VolumeIn(absorption.windows[p])
<1> DEFINE T == {u \in Detectors :
                   /\ u.count = absorption.count
                   /\ \A p \in Prices : /\ TradesIn(u.windows[p]) = TradesIn(absorption.windows[p])
                                        /\ VolumeIn(u.windows[p]) = VolumeIn(absorption.windows[p])}
<1>1. AbsorptionWithChanges(list) = Opposing!Fold(absorption, list)
  BY DEF AbsorptionWithChanges, Opposing!Fold, FoldLeft, MapThenFoldSet, Max,
         Opposing!FoldLeft, Opposing!MapThenFoldSet, Opposing!Max
<1>2. ASSUME NEW u \in T, NEW e \in DatedChanges
      PROVE  Oppose(u, e) \in T
  <2>1. e.at \in Nat /\ e.change \in LevelChanges /\ u \in Detectors
    BY DEF DatedChanges
  <2> DEFINE v == Oppose(u, e)
  <2>2. v = AbsorptionChange(u, e.change, e.at)
    BY DEF Oppose
  <2> HIDE DEF v
  <2>3. /\ v \in Detectors /\ v.count = u.count
        /\ \A p \in Prices : /\ TradesIn(v.windows[p]) = TradesIn(u.windows[p])
                             /\ VolumeIn(v.windows[p]) = VolumeIn(u.windows[p])
    BY <2>1, <2>2, AbsorptionChangeIs
  <2>4. v \in T
    BY <2>3
  <2> QED BY <2>4 DEF v
<1>3. absorption \in T
  OBVIOUS
<1>4. Opposing!Fold(absorption, list) \in T
  <2> HIDE DEF T
  <2> QED BY <1>2, <1>3, Opposing!FoldKeeps
<1> QED BY <1>1, <1>4

-----------------------------------------------------------------------------
(* The type invariant is inductive. *)

\* Counters are added field by field.
LEMMA SumOfCountersType ==
  ASSUME NEW a \in Counters, NEW b \in Counters
  PROVE  /\ SumOfCounters(a, b) \in Counters
         /\ \A field \in DOMAIN NoCounters : SumOfCounters(a, b)[field] = a[field] + b[field]
         /\ DOMAIN NoCounters = {"buy", "sell", "delta", "large", "sweeps", "absorptions",
                                 "replenishments", "anomalies"}
         /\ NoCounters \in Counters
<1>1. /\ DOMAIN NoCounters = {"buy", "sell", "delta", "large", "sweeps", "absorptions",
                              "replenishments", "anomalies"}
      /\ NoCounters \in Counters
  BY DEF NoCounters, Counters
<1>2. SumOfCounters(a, b) = [field \in DOMAIN NoCounters |-> a[field] + b[field]]
  BY DEF SumOfCounters
<1> DEFINE s == SumOfCounters(a, b)
           r == [buy |-> a.buy + b.buy, sell |-> a.sell + b.sell, delta |-> a.delta + b.delta,
                 large |-> a.large + b.large, sweeps |-> a.sweeps + b.sweeps,
                 absorptions |-> a.absorptions + b.absorptions,
                 replenishments |-> a.replenishments + b.replenishments,
                 anomalies |-> a.anomalies + b.anomalies]
<1>3. r \in Counters
  BY DEF Counters
<1>4. s = r
  <2>1. DOMAIN r = DOMAIN NoCounters
    BY <1>1
  <2>2. \A field \in DOMAIN r : r[field] = a[field] + b[field]
    BY <1>1
  <2>3. r = [field \in DOMAIN r |-> r[field]]
    OBVIOUS
  <2> HIDE DEF r
  <2> QED BY <1>2, <2>1, <2>2, <2>3
<1> QED BY <1>1, <1>2, <1>3, <1>4

\* The end of a trade or an update, whether it finalizes a snapshot or not.
LEMMA FinalizeType ==
  ASSUME Typed, NEW ts \in Nat, NEW count \in Counters, NEW levels \in [Keys -> Nat],
         NEW tracker \in LiquidityTrackers, NEW crossed \in BOOLEAN,
         MaybeFinalize(ts, count, levels, tracker, crossed)
  PROVE  /\ liquidity' \in LiquidityTrackers
         /\ interval' \in Counters /\ reported' \in Counters
         /\ lastSnapshot' \in Nat \cup {NoTime} /\ bookCrossed' \in BOOLEAN
         /\ base' \in [Keys -> Nat]
<1>1. /\ reported \in Counters /\ lastSnapshot \in Nat \cup {NoTime} /\ base \in [Keys -> Nat]
  BY DEF Typed
<1>2. SumOfCounters(reported, count) \in Counters /\ NoCounters \in Counters
  BY <1>1, SumOfCountersType
<1>3. /\ PruneLiquidity(ResetInterval(tracker), ts) \in LiquidityTrackers
      /\ PruneLiquidity(tracker, ts) \in LiquidityTrackers
  BY ResetsAre, PruneLiquidityIs
<1>4. CASE SnapshotDue(ts)
  <2>1. Emit(ts, count, levels, tracker)
    BY <1>4 DEF MaybeFinalize
  <2> QED BY <1>2, <1>3, <2>1 DEF Emit
<1>5. CASE ~SnapshotDue(ts)
  <2>1. /\ interval' = count /\ bookCrossed' = crossed
        /\ liquidity' = PruneLiquidity(tracker, ts)
        /\ UNCHANGED <<lastSnapshot, reported, base>>
    BY <1>5 DEF MaybeFinalize
  <2> QED BY <1>1, <1>3, <2>1
<1> QED BY <1>4, <1>5

\* Pruning what every event prunes.
LEMMA PruneRestType ==
  ASSUME Typed, NEW now \in Nat, PruneRest(now)
  PROVE  /\ ProperHeatmap(heatmap') /\ clusters' \in ClusterTrackers
         /\ flow' \in Flows /\ IsFiniteSet(flow'.open)
         /\ \A i \in DOMAIN flow'.completed : flow'.completed[i].start < flow'.completed[i].end
<1>1. /\ ProperHeatmap(heatmap) /\ clusters \in ClusterTrackers /\ flow \in Flows
      /\ IsFiniteSet(flow.open)
      /\ \A i \in DOMAIN flow.completed : flow.completed[i].start < flow.completed[i].end
  BY DEF Typed
<1>2. heatmap' = PruneHeatmap(heatmap, now) /\ clusters' = PruneClusters(clusters, now)
      /\ flow' = PruneFlow(flow, now)
  BY DEF PruneRest
<1>3. ProperHeatmap(heatmap')
  BY <1>1, <1>2, PruneHeatmapIs
<1>4. clusters' \in ClusterTrackers
  BY <1>1, <1>2, PruneClustersIs
<1>5. /\ flow' \in Flows /\ IsFiniteSet(flow'.open)
      /\ \A i \in DOMAIN flow'.completed : flow'.completed[i].start < flow'.completed[i].end
  BY <1>1, <1>2, PrunedBuckets
<1> QED BY <1>3, <1>4, <1>5

\* What a trade completes, and what the detector is told about it.
LEMMA TradeParts ==
  ASSUME Typed, NEW trade \in Trades
  PROVE  /\ Sweep(trade) \in TradeClusters \cup {None}
         /\ Absorbed(trade) \in AbsorptionWindows \cup {None}
         /\ Observed(trade) => BestFor(trade) \in Prices
         /\ OpposingFor(trade) \in Nat
<1>1. /\ book \in Books /\ clusters \in ClusterTrackers /\ absorption \in Detectors
      /\ trade.price \in Prices
  BY DEF Typed, Trades
<1>2. Sweep(trade) \in TradeClusters \cup {None}
  BY <1>1 DEF Sweep, ClosedBy, ClusterTrackers
<1>3. Absorbed(trade) \in AbsorptionWindows \cup {None}
  BY <1>1 DEF Absorbed, Candidate, Detectors
<1>4. Observed(trade) => BestFor(trade) \in Prices
  BY <1>1, BestIsPrice DEF Observed, BestFor
<1>5. OpposingFor(trade) \in Nat
  <2>1. DepthVolume(book, "Ask") \in Nat /\ DepthVolume(book, "Bid") \in Nat
    BY <1>1, DepthVolumeType DEF Sides
  <2> QED BY <2>1 DEF OpposingFor
<1> QED BY <1>2, <1>3, <1>4, <1>5

\* The signals that a trade completes are marks.
LEMMA HeatmapWithTradeIs ==
  ASSUME Typed, NEW trade \in Trades
  PROVE  Marked(CellTrade(heatmap, trade), HeatmapWithTrade(trade))
<1> DEFINE traded == CellTrade(heatmap, trade)
           large == IF IsLarge(trade) THEN CellLarge(traded, trade) ELSE traded
           sweep == Sweep(trade)
           swept == IF sweep = None THEN large ELSE CellSweep(large, sweep.last, sweep.end)
           window == Absorbed(trade)
           all == IF window = None THEN swept ELSE CellAbsorption(swept, trade.price, window.closed)
<1>1. ProperHeatmap(heatmap) /\ trade.price \in Prices
  BY DEF Typed, Trades
<1>2. ProperHeatmap(traded)
  BY <1>1, CellTradeIs
<1>3. HeatmapWithTrade(trade) = all
  BY DEF HeatmapWithTrade
<1>4. sweep \in TradeClusters \cup {None} /\ window \in AbsorptionWindows \cup {None}
  BY TradeParts
<1> HIDE DEF traded, sweep, window
<1>5. \A c : ProperHeatmap(c) => Marked(c, c)
  BY DEF Marked, SameVolume, SameResting
<1>6. \A a, b, c : Marked(a, b) /\ Marked(b, c) => Marked(a, c)
  BY DEF Marked, SameVolume, SameResting
<1>7. Marked(traded, large)
  BY <1>2, <1>5, CellLargeIs
<1> HIDE DEF large
<1>8. ProperHeatmap(large)
  BY <1>7 DEF Marked
<1>9. Marked(large, swept)
  <2>1. CASE sweep = None
    BY <1>5, <1>8, <2>1
  <2>2. CASE sweep # None
    <3>1. sweep.last \in Prices /\ sweep.end \in Nat
      BY <1>4, <2>2 DEF TradeClusters
    <3>2. Marked(large, CellSweep(large, sweep.last, sweep.end))
      BY <1>8, <3>1, CellSignals
    <3> QED BY <2>2, <3>2
  <2> QED BY <2>1, <2>2
<1> HIDE DEF swept
<1>10. ProperHeatmap(swept)
  BY <1>9 DEF Marked
<1>11. Marked(swept, all)
  <2>1. CASE window = None
    BY <1>5, <1>10, <2>1
  <2>2. CASE window # None
    <3>1. window.closed \in Nat
      BY <1>4, <2>2 DEF AbsorptionWindows
    <3>2. Marked(swept, CellAbsorption(swept, trade.price, window.closed))
      BY <1>1, <1>10, <3>1, CellSignals
    <3> QED BY <2>2, <3>2
  <2> QED BY <2>1, <2>2
<1> HIDE DEF all
<1>12. Marked(traded, all)
  BY <1>6, <1>7, <1>9, <1>11
<1> QED BY <1>3, <1>12 DEF traded

\* A trade in the interval's counters.
LEMMA CountedTradeType ==
  ASSUME Typed, NEW trade \in Trades
  PROVE  LET c == CountedTrade(trade)
         IN  /\ c \in Counters
             /\ c.buy = interval.buy + Bought(trade) /\ c.sell = interval.sell + Sold(trade)
             /\ c.delta = interval.delta + Bought(trade) - Sold(trade)
             /\ c.large = interval.large + OneIf(IsLarge(trade))
             /\ c.sweeps = interval.sweeps + OneIf(Sweep(trade) # None)
             /\ c.absorptions = interval.absorptions + OneIf(Absorbed(trade) # None)
             /\ c.replenishments = interval.replenishments /\ c.anomalies = interval.anomalies
<1> DEFINE buy == interval.buy + Bought(trade)
           sell == interval.sell + Sold(trade)
           delta == interval.delta + Bought(trade) - Sold(trade)
           large == interval.large + OneIf(IsLarge(trade))
           sweeps == interval.sweeps + OneIf(Sweep(trade) # None)
           absorptions == interval.absorptions + OneIf(Absorbed(trade) # None)
           c1 == [interval EXCEPT !.buy = buy, !.sell = sell, !.delta = delta]
           c2 == [c1 EXCEPT !.large = large, !.sweeps = sweeps, !.absorptions = absorptions]
<1>1. interval \in Counters
  BY DEF Typed
<1>2. Bought(trade) \in Nat /\ Sold(trade) \in Nat
  BY DEF Bought, Sold, Trades
<1>3. buy \in Nat /\ sell \in Nat /\ delta \in Int
  BY <1>1, <1>2 DEF Counters
<1>4. large \in Nat /\ sweeps \in Nat /\ absorptions \in Nat
  BY <1>1 DEF Counters, OneIf
<1>5. CountedTrade(trade) = c2
  BY DEF CountedTrade
<1> HIDE DEF buy, sell, delta, large, sweeps, absorptions
<1>6. /\ c1 \in Counters /\ c1.buy = buy /\ c1.sell = sell /\ c1.delta = delta
      /\ c1.replenishments = interval.replenishments /\ c1.anomalies = interval.anomalies
  BY <1>1, <1>3 DEF Counters
<1> HIDE DEF c1
<1>7. /\ c2 \in Counters /\ c2.buy = buy /\ c2.sell = sell /\ c2.delta = delta
      /\ c2.large = large /\ c2.sweeps = sweeps /\ c2.absorptions = absorptions
      /\ c2.replenishments = interval.replenishments /\ c2.anomalies = interval.anomalies
  BY <1>4, <1>6 DEF Counters
<1> QED BY <1>5, <1>7 DEF buy, sell, delta, large, sweeps, absorptions

\* A scenario has events of these types.
LEMMA ScenarioTypes ==
  ASSUME Typed
  PROVE  /\ scenario.length \in Nat
         /\ \A t \in scenario.trades : /\ t.step \in Steps /\ t.price \in Prices /\ t.qty \in Nat
                                       /\ t.aggressor \in Aggressors
         /\ \A u \in scenario.updates : u.step \in Steps /\ u.writes \in Seq(Writes)
         /\ scenario.snapshots \subseteq [Keys -> Nat]
<1>1. scenario \in Scenarios
  BY DEF Typed
<1>2. /\ scenario.length \in Nat
      /\ scenario.trades \subseteq [step : Steps, price : Prices, qty : Nat, aggressor : Aggressors]
      /\ \A u \in scenario.updates : u.step \in Steps /\ u.writes \in Seq(Writes)
      /\ scenario.snapshots \subseteq [Keys -> Nat]
  BY <1>1, ScenarioAssumption
<1> QED BY <1>2

\* The times of events.
LEMMA TimeTypes ==
  ASSUME Typed
  PROVE  /\ EventTime \in Nat /\ latest \in Nat
         /\ \A clock \in Nat : \A step \in Steps : Moved(clock, step) \in Nat
         /\ \A ts \in Nat : Later(ts) \in Nat /\ Later(ts) >= latest /\ Later(ts) >= ts
<1>1. latest \in Nat /\ lastEvent \in Nat \cup {NoTime}
  BY DEF Typed
<1>2. EventTime \in Nat
  BY <1>1 DEF EventTime, NoTime
<1>3. \A clock \in Nat : \A step \in Steps : Moved(clock, step) \in Nat
  BY DEF Moved, Steps, SatSub
<1>4. \A ts \in Nat : Later(ts) \in Nat /\ Later(ts) >= latest /\ Later(ts) >= ts
  BY <1>1 DEF Later
<1> QED BY <1>1, <1>2, <1>3, <1>4

\* What is left of a scenario.
LEMMA ArrivesType ==
  ASSUME Typed, Arrives
  PROVE  scenario' \in Scenarios /\ left' \in Nat
BY DEF Typed, Arrives

\* A trade keeps every part of the engine typed.
LEMMA ProcessTradeTyped ==
  ASSUME Typed, NEW trade \in Trades, ProcessTrade(trade)
  PROVE  /\ book' \in Books
         /\ flow' \in Flows /\ IsFiniteSet(flow'.open)
         /\ \A i \in DOMAIN flow'.completed : flow'.completed[i].start < flow'.completed[i].end
         /\ liquidity' \in LiquidityTrackers /\ clusters' \in ClusterTrackers
         /\ absorption' \in Detectors /\ ProperHeatmap(heatmap')
         /\ detected' \in [large : Nat, sweeps : Nat]
         /\ interval' \in Counters /\ reported' \in Counters
         /\ lastEvent' \in Nat \cup {NoTime} /\ lastSnapshot' \in Nat \cup {NoTime}
         /\ bookCrossed' \in BOOLEAN /\ base' \in [Keys -> Nat]
<1>1. /\ trade.ts \in Nat /\ trade.price \in Prices
      /\ book \in Books /\ flow \in Flows /\ IsFiniteSet(flow.open)
      /\ \A i \in DOMAIN flow.completed : flow.completed[i].start < flow.completed[i].end
      /\ liquidity \in LiquidityTrackers /\ clusters \in ClusterTrackers
      /\ absorption \in Detectors /\ ProperHeatmap(heatmap)
      /\ detected \in [large : Nat, sweeps : Nat] /\ bookCrossed \in BOOLEAN
      /\ book.levels \in [Keys -> Nat]
  BY DEF Typed, Trades, Books
<1>2. /\ flow' \in Flows /\ IsFiniteSet(flow'.open)
      /\ \A i \in DOMAIN flow'.completed : flow'.completed[i].start < flow'.completed[i].end
  <2> DEFINE f == FlowTrade(flow, trade)
             g == FlowWithTrade(trade)
  <2>1. /\ f \in Flows /\ IsFiniteSet(f.open)
        /\ \A i \in DOMAIN f.completed : f.completed[i].start < f.completed[i].end
    BY <1>1, FlowTradeType
  <2>2. g = IF IsLarge(trade) THEN RecordLargeTrade(f, trade.price) ELSE f
    BY DEF FlowWithTrade
  <2>3. flow' = PruneFlow(g, trade.ts)
    BY DEF ProcessTrade
  <2> HIDE DEF f, g
  <2>4. /\ RecordLargeTrade(f, trade.price) \in Flows
        /\ RecordLargeTrade(f, trade.price).open = f.open
        /\ RecordLargeTrade(f, trade.price).completed = f.completed
    BY <1>1, <2>1, RecordLargeType
  <2>5. g \in Flows /\ g.open = f.open /\ g.completed = f.completed
    BY <2>1, <2>2, <2>4
  <2>6. IsFiniteSet(g.open) /\ \A i \in DOMAIN g.completed : g.completed[i].start < g.completed[i].end
    BY <2>1, <2>5
  <2> QED BY <1>1, <2>3, <2>5, <2>6, PrunedBuckets
<1>3. clusters' \in ClusterTrackers
  <2>1. ClusterTrade(clusters, trade) \in ClusterTrackers
    BY <1>1, ClusterTradeType
  <2>2. clusters' = PruneClusters(ClusterTrade(clusters, trade), trade.ts)
    BY DEF ProcessTrade
  <2> QED BY <1>1, <2>1, <2>2, PruneClustersIs
<1>4. ProperHeatmap(heatmap')
  <2>1. ProperHeatmap(HeatmapWithTrade(trade))
    BY HeatmapWithTradeIs DEF Marked
  <2>2. heatmap' = PruneHeatmap(HeatmapWithTrade(trade), trade.ts)
    BY DEF ProcessTrade
  <2> QED BY <2>1, <2>2, PruneHeatmapIs
<1>5. absorption' \in Detectors
  <2>1. CASE Observed(trade)
    <3>1. BestFor(trade) \in Prices /\ OpposingFor(trade) \in Nat
      BY <2>1, TradeParts
    <3>2. absorption' = AbsorptionTrade(absorption, trade, BestFor(trade), OpposingFor(trade))
      BY <2>1 DEF ProcessTrade
    <3> QED BY <1>1, <3>1, <3>2, AbsorptionTradeIs
  <2>2. CASE ~Observed(trade)
    <3>1. absorption' = absorption
      BY <2>2 DEF ProcessTrade
    <3> QED BY <1>1, <3>1
  <2> QED BY <2>1, <2>2
<1>6. detected' \in [large : Nat, sweeps : Nat]
  <2> DEFINE large == detected.large + OneIf(IsLarge(trade))
             sweeps == detected.sweeps + OneIf(Sweep(trade) # None)
  <2>1. large \in Nat /\ sweeps \in Nat
    BY <1>1 DEF OneIf
  <2>2. detected' = [large |-> large, sweeps |-> sweeps]
    BY DEF ProcessTrade
  <2> HIDE DEF large, sweeps
  <2> QED BY <2>1, <2>2
<1>7. /\ liquidity' \in LiquidityTrackers
      /\ interval' \in Counters /\ reported' \in Counters
      /\ lastSnapshot' \in Nat \cup {NoTime} /\ bookCrossed' \in BOOLEAN
      /\ base' \in [Keys -> Nat]
  <2> DEFINE count == CountedTrade(trade)
             levels == book.levels
             tracker == liquidity
             crossed == bookCrossed
  <2>1. count \in Counters
    BY CountedTradeType
  <2>2. MaybeFinalize(trade.ts, count, levels, tracker, crossed)
    BY DEF ProcessTrade
  <2>3. levels \in [Keys -> Nat] /\ tracker \in LiquidityTrackers /\ crossed \in BOOLEAN
    BY <1>1
  <2> HIDE DEF count, levels, tracker, crossed
  <2> QED BY <1>1, <2>1, <2>2, <2>3, FinalizeType
<1>8. book' \in Books /\ lastEvent' \in Nat \cup {NoTime}
  BY <1>1 DEF ProcessTrade
<1> QED BY <1>2, <1>3, <1>4, <1>5, <1>6, <1>7, <1>8

\* The action of a trade, with the trade that it takes.
LEMMA OnTradeTyped ==
  ASSUME Typed, OnTrade
  PROVE  /\ Typed'
         /\ \E trade \in Trades : ProcessTrade(trade) /\ tape' = Append(tape, trade)
                                  /\ latest' = Later(trade.ts)
<1>1. PICK t \in scenario.trades :
        LET ts == Moved(clocks.trades, t.step)
            trade == [ts |-> ts, price |-> t.price, qty |-> t.qty, aggressor |-> t.aggressor]
        IN  /\ ProcessTrade(trade)
            /\ clocks' = [clocks EXCEPT !.trades = ts]
            /\ tape' = Append(tape, trade)
            /\ latest' = Later(ts)
  BY DEF OnTrade
<1> DEFINE ts == Moved(clocks.trades, t.step)
           trade == [ts |-> ts, price |-> t.price, qty |-> t.qty, aggressor |-> t.aggressor]
<1>2. /\ ProcessTrade(trade) /\ clocks' = [clocks EXCEPT !.trades = ts]
      /\ tape' = Append(tape, trade) /\ latest' = Later(ts) /\ trade.ts = ts
  BY <1>1
<1>3. t.step \in Steps /\ t.price \in Prices /\ t.qty \in Nat /\ t.aggressor \in Aggressors
  BY ScenarioTypes
<1>4. clocks \in [trades : Nat, depth : Nat] /\ tape \in Seq(Trades) /\ changes \in Seq(DatedChanges)
      /\ losses \in Nat
  BY DEF Typed
<1>5. ts \in Nat
  BY <1>3, <1>4, TimeTypes
<1> HIDE DEF ts
<1>6. trade \in Trades
  BY <1>3, <1>5 DEF Trades
<1> HIDE DEF trade
<1>7. clocks' \in [trades : Nat, depth : Nat] /\ latest' \in Nat
  BY <1>2, <1>4, <1>5, TimeTypes
<1>8. tape' \in Seq(Trades)
  BY <1>2, <1>4, <1>6, AppendProperties
<1>9. scenario' \in Scenarios /\ left' \in Nat
  BY ArrivesType DEF OnTrade
<1>10. changes' = changes /\ losses' = losses
  BY DEF OnTrade
<1>11. Typed'
  <2> HIDE DEF Typed
  <2>1. /\ book' \in Books
        /\ flow' \in Flows /\ IsFiniteSet(flow'.open)
        /\ \A i \in DOMAIN flow'.completed : flow'.completed[i].start < flow'.completed[i].end
        /\ liquidity' \in LiquidityTrackers /\ clusters' \in ClusterTrackers
        /\ absorption' \in Detectors /\ ProperHeatmap(heatmap')
        /\ detected' \in [large : Nat, sweeps : Nat]
        /\ interval' \in Counters /\ reported' \in Counters
        /\ lastEvent' \in Nat \cup {NoTime} /\ lastSnapshot' \in Nat \cup {NoTime}
        /\ bookCrossed' \in BOOLEAN /\ base' \in [Keys -> Nat]
    BY <1>2, <1>6, ProcessTradeTyped
  <2> QED BY <1>4, <1>7, <1>8, <1>9, <1>10, <2>1 DEF Typed
<1>12. latest' = Later(trade.ts)
  BY <1>2
<1> QED BY <1>2, <1>6, <1>11, <1>12

\* What an update is made of.
UpdateList(writes, ts) == Dated(ReportedChanges(book, writes), ts)

\* What an update is made of: a typed list, and what the fold over it yields.
LEMMA UpdateParts ==
  ASSUME Typed, NEW writes \in Seq(Writes), NEW ts \in Nat
  PROVE  /\ UpdateList(writes, ts) \in Seq(DatedChanges)
         /\ ApplyUpdate(book, writes) \in Books
         /\ ApplyUpdate(book, writes).levels \in [Keys -> Nat]
         /\ ApplyUpdate(book, writes).crossed = book.crossed
         /\ HeatmapWithChanges(UpdateList(writes, ts)) \in Marks
         /\ ProperHeatmap(HeatmapWithChanges(UpdateList(writes, ts)).cells)
         /\ HeatmapWithChanges(UpdateList(writes, ts)).tracker \in LiquidityTrackers
         /\ HeatmapWithChanges(UpdateList(writes, ts)).tracker.replenished >= liquidity.replenished
         /\ AbsorptionWithChanges(UpdateList(writes, ts)) \in Detectors
<1> DEFINE list == UpdateList(writes, ts)
<1>1. book \in Books /\ ProperHeatmap(heatmap) /\ liquidity \in LiquidityTrackers /\ absorption \in Detectors
  BY DEF Typed
<1>2. /\ ApplyUpdate(book, writes) \in Books /\ ApplyUpdate(book, writes).crossed = book.crossed
      /\ ReportedChanges(book, writes) \in Seq(LevelChanges)
  BY <1>1, ApplyUpdateType
<1>3. ApplyUpdate(book, writes).levels \in [Keys -> Nat]
  BY <1>2 DEF Books
<1>4. list \in Seq(DatedChanges)
  BY <1>2, DatedType DEF UpdateList
<1> HIDE DEF list
<1>5. heatmap \in ProperHeatmaps
  BY <1>1, HeatmapsAre
<1>6. HeatmapWithChanges(list) \in Marks
      /\ HeatmapWithChanges(list).tracker.replenished >= liquidity.replenished
  BY <1>1, <1>4, <1>5, WithChangesType
<1>7. /\ ProperHeatmap(HeatmapWithChanges(list).cells)
      /\ HeatmapWithChanges(list).tracker \in LiquidityTrackers
  BY <1>6, HeatmapsAre DEF Marks
<1>8. AbsorptionWithChanges(list) \in Detectors
  BY <1>1, <1>4, OpposedIs
<1> QED BY <1>2, <1>3, <1>4, <1>6, <1>7, <1>8 DEF list

CountedUpdate(writes, ts) ==
  [interval EXCEPT
     !.replenishments = @ + HeatmapWithChanges(UpdateList(writes, ts)).tracker.replenished
                          - liquidity.replenished,
     !.anomalies = @ + OneIf(Crosses(IsCrossed(ApplyUpdate(book, writes))))]

\* An update in the interval's counters.
LEMMA CountedUpdateType ==
  ASSUME Typed, NEW writes \in Seq(Writes), NEW ts \in Nat
  PROVE  LET c == CountedUpdate(writes, ts)
         IN  /\ c \in Counters
             /\ c.replenishments - interval.replenishments
                  = HeatmapWithChanges(UpdateList(writes, ts)).tracker.replenished - liquidity.replenished
             /\ c.anomalies = interval.anomalies + OneIf(Crosses(IsCrossed(ApplyUpdate(book, writes))))
             /\ c.buy = interval.buy /\ c.sell = interval.sell /\ c.delta = interval.delta
             /\ c.large = interval.large /\ c.sweeps = interval.sweeps
             /\ c.absorptions = interval.absorptions
<1> DEFINE t == HeatmapWithChanges(UpdateList(writes, ts)).tracker
           r == interval.replenishments + t.replenished - liquidity.replenished
           one == OneIf(Crosses(IsCrossed(ApplyUpdate(book, writes))))
           a == interval.anomalies + one
<1>1. interval \in Counters /\ liquidity \in LiquidityTrackers
  BY DEF Typed
<1>2. t \in LiquidityTrackers /\ t.replenished >= liquidity.replenished
  BY UpdateParts
<1>3. one \in Nat
  BY DEF OneIf
<1>4. CountedUpdate(writes, ts) = [interval EXCEPT !.replenishments = r, !.anomalies = a]
  BY DEF CountedUpdate
<1> HIDE DEF t, one
<1>5. /\ r \in Nat /\ a \in Nat
      /\ r - interval.replenishments = t.replenished - liquidity.replenished
  <2>1. /\ interval.replenishments \in Nat /\ t.replenished \in Nat /\ liquidity.replenished \in Nat
        /\ interval.anomalies \in Nat
    BY <1>1, <1>2 DEF Counters, LiquidityTrackers
  <2> DEFINE i == interval.replenishments
             n == t.replenished
             m == liquidity.replenished
  <2>2. i \in Nat /\ n \in Nat /\ m \in Nat /\ n >= m /\ r = i + n - m
    BY <1>2, <2>1
  <2>3. a \in Nat
    BY <1>3, <2>1
  <2> HIDE DEF i, n, m, r, a
  <2>4. r \in Nat /\ r - i = n - m
    BY <2>2
  <2> QED BY <2>3, <2>4 DEF i, n, m
<1> HIDE DEF r
<1>6. LET c == CountedUpdate(writes, ts)
      IN  /\ c \in Counters /\ c.replenishments = r /\ c.anomalies = a
          /\ c.buy = interval.buy /\ c.sell = interval.sell /\ c.delta = interval.delta
          /\ c.large = interval.large /\ c.sweeps = interval.sweeps
          /\ c.absorptions = interval.absorptions
  <2> HIDE DEF a
  <2> QED BY <1>1, <1>4, <1>5 DEF Counters
<1> QED BY <1>5, <1>6 DEF t, one

\* What an update assigns.
LEMMA ProcessUpdateIs ==
  ASSUME NEW writes, NEW ts, ProcessUpdate(writes, ts)
  PROVE  LET updated == ApplyUpdate(book, writes)
             folded == HeatmapWithChanges(UpdateList(writes, ts))
         IN  /\ lastEvent' = ts
             /\ book' = IF Crosses(IsCrossed(updated)) THEN RecordCrossed(updated) ELSE updated
             /\ absorption' = AbsorptionWithChanges(UpdateList(writes, ts))
             /\ MaybeFinalize(ts, CountedUpdate(writes, ts), updated.levels, folded.tracker,
                              IsCrossed(updated))
             /\ heatmap' = PruneHeatmap(folded.cells, ts)
             /\ clusters' = PruneClusters(clusters, ts)
             /\ flow' = PruneFlow(flow, ts)
             /\ detected' = detected
BY DEF ProcessUpdate, UpdateList, CountedUpdate

\* An update keeps every part of the engine typed.
LEMMA ProcessUpdateTyped ==
  ASSUME Typed, NEW writes \in Seq(Writes), NEW ts \in Nat, ProcessUpdate(writes, ts)
  PROVE  /\ book' \in Books
         /\ flow' \in Flows /\ IsFiniteSet(flow'.open)
         /\ \A i \in DOMAIN flow'.completed : flow'.completed[i].start < flow'.completed[i].end
         /\ liquidity' \in LiquidityTrackers /\ clusters' \in ClusterTrackers
         /\ absorption' \in Detectors /\ ProperHeatmap(heatmap')
         /\ detected' \in [large : Nat, sweeps : Nat]
         /\ interval' \in Counters /\ reported' \in Counters
         /\ lastEvent' \in Nat \cup {NoTime} /\ lastSnapshot' \in Nat \cup {NoTime}
         /\ bookCrossed' \in BOOLEAN /\ base' \in [Keys -> Nat]
<1> DEFINE updated == ApplyUpdate(book, writes)
           folded == HeatmapWithChanges(UpdateList(writes, ts))
           list == UpdateList(writes, ts)
           count == CountedUpdate(writes, ts)
           crossed == IsCrossed(updated)
<1>1. /\ flow \in Flows /\ IsFiniteSet(flow.open)
      /\ \A i \in DOMAIN flow.completed : flow.completed[i].start < flow.completed[i].end
      /\ clusters \in ClusterTrackers /\ detected \in [large : Nat, sweeps : Nat]
  BY DEF Typed
<1>2. /\ updated \in Books /\ updated.levels \in [Keys -> Nat]
      /\ ProperHeatmap(folded.cells) /\ folded.tracker \in LiquidityTrackers
      /\ AbsorptionWithChanges(list) \in Detectors
  BY UpdateParts
<1>3. count \in Counters
  BY CountedUpdateType
<1>4. crossed \in BOOLEAN
  BY DEF IsCrossed
<1>5. /\ lastEvent' = ts
      /\ book' = IF Crosses(crossed) THEN RecordCrossed(updated) ELSE updated
      /\ absorption' = AbsorptionWithChanges(list)
      /\ MaybeFinalize(ts, count, updated.levels, folded.tracker, crossed)
      /\ heatmap' = PruneHeatmap(folded.cells, ts)
      /\ clusters' = PruneClusters(clusters, ts)
      /\ flow' = PruneFlow(flow, ts)
      /\ detected' = detected
  BY ProcessUpdateIs
<1> HIDE DEF updated, folded, list, count, crossed
<1>6. book' \in Books
  <2>1. RecordCrossed(updated) \in Books
    BY <1>2, BookTypes
  <2> QED BY <1>2, <1>5, <2>1
<1>7. /\ flow' \in Flows /\ IsFiniteSet(flow'.open)
      /\ \A i \in DOMAIN flow'.completed : flow'.completed[i].start < flow'.completed[i].end
  BY <1>1, <1>5, PrunedBuckets
<1>8. clusters' \in ClusterTrackers /\ ProperHeatmap(heatmap')
  BY <1>1, <1>2, <1>5, PruneClustersIs, PruneHeatmapIs
<1>9. /\ liquidity' \in LiquidityTrackers
      /\ interval' \in Counters /\ reported' \in Counters
      /\ lastSnapshot' \in Nat \cup {NoTime} /\ bookCrossed' \in BOOLEAN
      /\ base' \in [Keys -> Nat]
  <2> DEFINE levels == updated.levels
             tracker == folded.tracker
  <2>1. levels \in [Keys -> Nat] /\ tracker \in LiquidityTrackers
        /\ MaybeFinalize(ts, count, levels, tracker, crossed)
    BY <1>2, <1>5
  <2> HIDE DEF levels, tracker
  <2> QED BY <1>3, <1>4, <2>1, FinalizeType
<1> QED BY <1>1, <1>2, <1>5, <1>6, <1>7, <1>8, <1>9

\* The action of an update, with the writes that it takes.
LEMMA OnUpdateTyped ==
  ASSUME Typed, OnUpdate
  PROVE  /\ Typed'
         /\ \E writes \in Seq(Writes), ts \in Nat :
              /\ ProcessUpdate(writes, ts) /\ changes' = changes \o UpdateList(writes, ts)
              /\ latest' = Later(ts)
<1>1. PICK u \in scenario.updates :
        LET ts == Moved(clocks.depth, u.step)
        IN  /\ ProcessUpdate(u.writes, ts)
            /\ clocks' = [clocks EXCEPT !.depth = ts]
            /\ changes' = changes \o Dated(ReportedChanges(book, u.writes), ts)
            /\ latest' = Later(ts)
  BY DEF OnUpdate
<1> DEFINE ts == Moved(clocks.depth, u.step)
           writes == u.writes
<1>2. /\ ProcessUpdate(writes, ts) /\ clocks' = [clocks EXCEPT !.depth = ts]
      /\ changes' = changes \o UpdateList(writes, ts) /\ latest' = Later(ts)
  BY <1>1 DEF UpdateList
<1>3. u.step \in Steps /\ writes \in Seq(Writes)
  BY ScenarioTypes
<1>4. clocks \in [trades : Nat, depth : Nat] /\ tape \in Seq(Trades) /\ changes \in Seq(DatedChanges)
      /\ losses \in Nat
  BY DEF Typed
<1>5. ts \in Nat
  BY <1>3, <1>4, TimeTypes
<1> HIDE DEF ts, writes
<1>7. clocks' \in [trades : Nat, depth : Nat] /\ latest' \in Nat
  BY <1>2, <1>4, <1>5, TimeTypes
<1>8. changes' \in Seq(DatedChanges)
  <2>1. UpdateList(writes, ts) \in Seq(DatedChanges)
    BY <1>3, <1>5, UpdateParts
  <2> QED BY <1>2, <1>4, <2>1, ConcatProperties
<1>9. scenario' \in Scenarios /\ left' \in Nat
  BY ArrivesType DEF OnUpdate
<1>10. tape' = tape /\ losses' = losses
  BY DEF OnUpdate
<1>11. Typed'
  <2> HIDE DEF Typed
  <2>1. /\ book' \in Books
        /\ flow' \in Flows /\ IsFiniteSet(flow'.open)
        /\ \A i \in DOMAIN flow'.completed : flow'.completed[i].start < flow'.completed[i].end
        /\ liquidity' \in LiquidityTrackers /\ clusters' \in ClusterTrackers
        /\ absorption' \in Detectors /\ ProperHeatmap(heatmap')
        /\ detected' \in [large : Nat, sweeps : Nat]
        /\ interval' \in Counters /\ reported' \in Counters
        /\ lastEvent' \in Nat \cup {NoTime} /\ lastSnapshot' \in Nat \cup {NoTime}
        /\ bookCrossed' \in BOOLEAN /\ base' \in [Keys -> Nat]
    BY <1>2, <1>3, <1>5, ProcessUpdateTyped
  <2> QED BY <1>4, <1>7, <1>8, <1>9, <1>10, <2>1 DEF Typed
<1> QED BY <1>2, <1>3, <1>5, <1>11

\* The action of a snapshot, with the levels that it takes.
LEMMA OnSnapshotTyped ==
  ASSUME Typed, OnSnapshot
  PROVE  /\ Typed'
         /\ \E levels \in [Keys -> Nat] :
              LET loaded == ApplySnapshot(book, levels)
                  crossed == IsCrossed(loaded)
              IN  /\ book' = IF crossed THEN RecordCrossed(loaded) ELSE loaded
                  /\ interval' = [interval EXCEPT !.anomalies = @ + OneIf(crossed)]
                  /\ base' = levels
<1>1. PICK levels \in scenario.snapshots :
        LET loaded == ApplySnapshot(book, levels)
            crossed == IsCrossed(loaded)
        IN  /\ book' = IF crossed THEN RecordCrossed(loaded) ELSE loaded
            /\ bookCrossed' = crossed
            /\ interval' = [interval EXCEPT !.anomalies = @ + OneIf(crossed)]
            /\ base' = levels
  BY DEF OnSnapshot
<1>2. levels \in [Keys -> Nat]
  BY ScenarioTypes
<1> DEFINE loaded == ApplySnapshot(book, levels)
           crossed == IsCrossed(loaded)
           one == OneIf(crossed)
<1>3. book \in Books /\ interval \in Counters /\ liquidity \in LiquidityTrackers
  BY DEF Typed
<1>4. loaded \in Books
  BY <1>2, <1>3, BookTypes
<1>5. crossed \in BOOLEAN /\ one \in Nat
  BY DEF IsCrossed, OneIf
<1>6. /\ book' = IF crossed THEN RecordCrossed(loaded) ELSE loaded
      /\ bookCrossed' = crossed /\ base' = levels
      /\ interval' = [interval EXCEPT !.anomalies = @ + one]
  BY <1>1
<1> HIDE DEF loaded, crossed, one
<1>7. book' \in Books
  <2>1. RecordCrossed(loaded) \in Books
    BY <1>2, <1>4, BookTypes
  <2> QED BY <1>4, <1>6, <2>1
<1>8. interval' \in Counters
  <2> DEFINE a == interval.anomalies + one
  <2>1. a \in Nat
    BY <1>3, <1>5 DEF Counters
  <2>2. interval' = [interval EXCEPT !.anomalies = a]
    BY <1>6
  <2> HIDE DEF a
  <2> QED BY <1>3, <2>1, <2>2 DEF Counters
<1>9. EventTime \in Nat
  BY TimeTypes
<1>10. liquidity' \in LiquidityTrackers
  <2>1. liquidity' = PruneLiquidity(Clear(liquidity), EventTime)
    BY DEF OnSnapshot
  <2>2. Clear(liquidity) \in LiquidityTrackers
    BY <1>3, ResetsAre
  <2> QED BY <1>9, <2>1, <2>2, PruneLiquidityIs
<1>11. /\ ProperHeatmap(heatmap') /\ clusters' \in ClusterTrackers
       /\ flow' \in Flows /\ IsFiniteSet(flow'.open)
       /\ \A i \in DOMAIN flow'.completed : flow'.completed[i].start < flow'.completed[i].end
  BY <1>9, PruneRestType DEF OnSnapshot
<1>12. scenario' \in Scenarios /\ left' \in Nat
  BY ArrivesType DEF OnSnapshot
<1>13. UNCHANGED <<absorption, detected, lastEvent, lastSnapshot, clocks, tape, changes,
                   reported, losses, latest>>
  BY DEF OnSnapshot
<1>14. Typed'
  BY <1>2, <1>5, <1>6, <1>7, <1>8, <1>10, <1>11, <1>12, <1>13 DEF Typed
<1>15. \E l \in [Keys -> Nat] :
         LET load == ApplySnapshot(book, l)
             cross == IsCrossed(load)
         IN  /\ book' = IF cross THEN RecordCrossed(load) ELSE load
             /\ interval' = [interval EXCEPT !.anomalies = @ + OneIf(cross)]
             /\ base' = l
  BY <1>1, <1>2, Zenon
<1> QED BY <1>14, <1>15

\* The signals of the synchronizer.
LEMMA SignalsTyped ==
  ASSUME Typed, OnSynchronized \/ OnResyncStarted \/ OnConnectionLost
  PROVE  Typed'
<1>1. book \in Books /\ interval \in Counters /\ liquidity \in LiquidityTrackers /\ losses \in Nat
      /\ NewBook.levels \in [Keys -> Nat] /\ EventTime \in Nat
  BY BookTypes, TimeTypes DEF Typed
<1>2. /\ SetReady(book, TRUE) \in Books /\ SetReady(book, FALSE) \in Books
  BY <1>1, BookTypes
<1>3. /\ PruneLiquidity(liquidity, EventTime) \in LiquidityTrackers
      /\ PruneLiquidity(Clear(liquidity), EventTime) \in LiquidityTrackers
  BY <1>1, ResetsAre, PruneLiquidityIs
<1>4. /\ ProperHeatmap(heatmap') /\ clusters' \in ClusterTrackers
      /\ flow' \in Flows /\ IsFiniteSet(flow'.open)
      /\ \A i \in DOMAIN flow'.completed : flow'.completed[i].start < flow'.completed[i].end
  BY <1>1, PruneRestType DEF OnSynchronized, OnResyncStarted, OnConnectionLost
<1>5. scenario' \in Scenarios /\ left' \in Nat
  BY ArrivesType DEF OnSynchronized, OnResyncStarted, OnConnectionLost
<1>6. CASE OnSynchronized
  <2>1. /\ book' = SetReady(book, TRUE) /\ liquidity' = PruneLiquidity(liquidity, EventTime)
        /\ UNCHANGED <<absorption, detected, interval, lastEvent, lastSnapshot, bookCrossed, clocks,
                       tape, changes, reported, base, losses, latest>>
    BY <1>6 DEF OnSynchronized, counters, history
  <2> QED BY <1>1, <1>2, <1>3, <1>4, <1>5, <2>1 DEF Typed
<1>7. CASE OnResyncStarted
  <2>1. /\ book' = SetReady(book, FALSE) /\ liquidity' = PruneLiquidity(Clear(liquidity), EventTime)
        /\ base' = NewBook.levels
        /\ UNCHANGED <<absorption, detected, interval, lastEvent, lastSnapshot, bookCrossed, clocks,
                       tape, changes, reported, losses, latest>>
    BY <1>7 DEF OnResyncStarted, counters
  <2> QED BY <1>1, <1>2, <1>3, <1>4, <1>5, <2>1 DEF Typed
<1>8. CASE OnConnectionLost
  <2> DEFINE a == interval.anomalies + 1
             n == losses + 1
  <2>1. /\ interval' = [interval EXCEPT !.anomalies = a] /\ losses' = n
        /\ liquidity' = PruneLiquidity(liquidity, EventTime)
        /\ UNCHANGED <<book, absorption, detected, lastEvent, lastSnapshot, bookCrossed, clocks,
                       tape, changes, reported, base, latest>>
    BY <1>8 DEF OnConnectionLost
  <2>2. a \in Nat /\ n \in Nat
    BY <1>1 DEF Counters
  <2> HIDE DEF a, n
  <2>3. interval' \in Counters
    BY <1>1, <2>1, <2>2 DEF Counters
  <2> QED BY <1>1, <1>3, <1>4, <1>5, <2>1, <2>2, <2>3 DEF Typed
<1> QED BY <1>6, <1>7, <1>8

\* Frames, and the end of the session.
LEMMA FrameAndFinishTyped ==
  ASSUME Typed, SendFrame \/ Finish
  PROVE  Typed'
<1>1. CASE SendFrame
  <2>1. scenario' \in Scenarios /\ left' \in Nat
    BY <1>1, ArrivesType DEF SendFrame
  <2>2. UNCHANGED <<book, flow, liquidity, clusters, absorption, heatmap, detected, interval,
                    lastEvent, lastSnapshot, bookCrossed, clocks, tape, changes, reported, base,
                    losses, latest>>
    BY <1>1 DEF SendFrame, parts, counters, history
  <2> QED BY <2>1, <2>2 DEF Typed
<1>2. CASE Finish
  <2>1. /\ left' = 0 /\ lastSnapshot' = lastEvent /\ reported' = SumOfCounters(reported, interval)
        /\ interval' = NoCounters /\ bookCrossed' = FALSE
        /\ liquidity' = ResetInterval(liquidity) /\ base' = book.levels
        /\ UNCHANGED <<book, flow, clusters, absorption, heatmap, detected, lastEvent, scenario,
                       clocks, tape, changes, losses, latest>>
    BY <1>2 DEF Finish
  <2>2. interval \in Counters /\ reported \in Counters /\ liquidity \in LiquidityTrackers
        /\ book \in Books
    BY DEF Typed
  <2>3. SumOfCounters(reported, interval) \in Counters /\ NoCounters \in Counters
    BY <2>2, SumOfCountersType
  <2>4. ResetInterval(liquidity) \in LiquidityTrackers
    BY <2>2, ResetsAre
  <2>5. book.levels \in [Keys -> Nat]
    BY <2>2 DEF Books
  <2> QED BY <2>1, <2>3, <2>4, <2>5 DEF Typed
<1> QED BY <1>1, <1>2

\* The engine begins typed.
LEMMA InitTyped ==
  ASSUME Init
  PROVE  Typed
<1>1. NewBook \in Books /\ NewBook.levels \in [Keys -> Nat]
  BY BookTypes DEF NewBook, Books
<1>2. NewFlow \in Flows /\ NewFlow.open = {} /\ NewFlow.completed = <<>>
  <2>1. NoVolume \in Volumes
    BY DEF NoVolume, Volumes
  <2>2. <<>> \in Seq(ClosedBuckets)
    BY EmptySeq
  <2> QED BY <2>1, <2>2 DEF NewFlow, Flows
<1>3. NewLiquidity \in LiquidityTrackers
  <2>1. [k \in Keys |-> <<>>] \in [Keys -> Seq(Nat)]
    BY EmptySeq
  <2> QED BY <2>1 DEF NewLiquidity, LiquidityTrackers
<1>4. NewClusters \in ClusterTrackers
  <2>1. <<>> \in Seq(TradeClusters)
    BY EmptySeq
  <2> QED BY <2>1 DEF NewClusters, ClusterTrackers
<1>5. NewDetector \in Detectors
  BY DEF NewDetector, Detectors
<1>6. ProperHeatmap(NewHeatmap)
  <2>1. DOMAIN NewHeatmap = {} /\ NewHeatmap = [k \in DOMAIN NewHeatmap |-> NewHeatmap[k]]
    BY DEF NewHeatmap
  <2> QED BY <2>1, FS_EmptySet DEF ProperHeatmap, IsHeatmap
<1>7. NoCounters \in Counters
  BY DEF NoCounters, Counters
<1>8. scenario \in Scenarios /\ left \in Nat
  BY ScenarioAssumption DEF Init
<1>9. tape \in Seq(Trades) /\ changes \in Seq(DatedChanges)
  BY EmptySeq DEF Init
<1>10. IsFiniteSet({}) /\ DOMAIN <<>> = {}
  BY FS_EmptySet
<1> QED BY <1>1, <1>2, <1>3, <1>4, <1>5, <1>6, <1>7, <1>8, <1>9, <1>10 DEF Init, Typed, NoTime

\* Every step keeps the types.
LEMMA NextTyped ==
  ASSUME Typed, [Next]_vars
  PROVE  Typed'
<1>1. CASE Next
  BY <1>1, OnTradeTyped, OnUpdateTyped, OnSnapshotTyped, SignalsTyped, FrameAndFinishTyped DEF Next
<1>2. CASE UNCHANGED vars
  BY <1>2 DEF vars, parts, counters, frames, history, Typed
<1> QED BY <1>1, <1>2

\* The engine's types are right.
THEOREM TypeCorrect == Spec => []TypeOK
<1>1. Init => Typed
  BY InitTyped
<1>2. Typed /\ [Next]_vars => Typed'
  BY NextTyped
<1>3. Typed => TypeOK
  <2> SUFFICES ASSUME Typed PROVE TypeOK
    OBVIOUS
  <2>1. /\ flow \in Flows /\ liquidity \in LiquidityTrackers /\ clusters \in ClusterTrackers
        /\ absorption \in Detectors /\ ProperHeatmap(heatmap) /\ interval \in Counters
    BY DEF Typed
  <2>2. /\ flow.totals \in Volumes /\ flow.profile \in [Prices -> Volumes]
        /\ flow.open \subseteq OpenBuckets /\ flow.completed \in Seq(ClosedBuckets)
    BY <2>1 DEF Flows
  <2>3. \A b \in ToSet(flow.completed) : b \in ClosedBuckets /\ b.start < b.end
    <3>1. \A i \in DOMAIN flow.completed : flow.completed[i] \in ClosedBuckets
      BY <2>2, LenProperties, ElementOfSeq
    <3>2. \A i \in DOMAIN flow.completed : flow.completed[i].start < flow.completed[i].end
      BY DEF Typed
    <3> QED BY <3>1, <3>2 DEF ToSet
  <2>4. /\ liquidity.added \in Nat /\ liquidity.removed \in Nat /\ liquidity.replenished \in Nat
        /\ \A k \in Keys : liquidity.levels[k] \in Persistences \cup {None}
    BY <2>1 DEF LiquidityTrackers
  <2>5. clusters.open \in TradeClusters \cup {None} /\ ToSet(clusters.closed) \subseteq TradeClusters
    <3>1. clusters.open \in TradeClusters \cup {None} /\ clusters.closed \in Seq(TradeClusters)
      BY <2>1 DEF ClusterTrackers
    <3>2. \A i \in DOMAIN clusters.closed : clusters.closed[i] \in TradeClusters
      BY <3>1, LenProperties, ElementOfSeq
    <3> QED BY <3>1, <3>2 DEF ToSet
  <2>6. /\ \A p \in Prices : absorption.windows[p] \in AbsorptionWindows \cup {None}
        /\ absorption.count \in Nat
    BY <2>1 DEF Detectors
  <2>7. \A field \in DOMAIN NoCounters \ {"delta"} : interval[field] \in Nat
    BY <2>1 DEF NoCounters, Counters
  <2>8. IsHeatmap(heatmap)
    BY <2>1 DEF ProperHeatmap
  <2> QED BY <2>2, <2>3, <2>4, <2>5, <2>6, <2>7, <2>8 DEF TypeOK, Typed
<1> QED BY <1>1, <1>2, <1>3, PTL DEF Spec

-----------------------------------------------------------------------------
(* Snapshots of the interval's counters. *)

\* What all snapshots and the interval have of each counter.
AddUp ==
  /\ reported.buy + interval.buy = flow.totals.buy
  /\ reported.sell + interval.sell = flow.totals.sell
  /\ reported.delta + interval.delta = flow.totals.delta
  /\ reported.large + interval.large = detected.large
  /\ reported.sweeps + interval.sweeps = detected.sweeps
  /\ reported.absorptions + interval.absorptions = absorption.count
  /\ reported.replenishments + interval.replenishments = liquidity.replenished
  /\ reported.anomalies + interval.anomalies = book.crossed + losses

\* With or without a snapshot, what the event counted is counted once.
LEMMA FinalizeAddsUp ==
  ASSUME Typed, NEW ts \in Nat, NEW count \in Counters, NEW levels,
         NEW tracker \in LiquidityTrackers, NEW crossed,
         MaybeFinalize(ts, count, levels, tracker, crossed)
  PROVE  /\ liquidity'.replenished = tracker.replenished
         /\ reported'.buy + interval'.buy = reported.buy + count.buy
         /\ reported'.sell + interval'.sell = reported.sell + count.sell
         /\ reported'.delta + interval'.delta = reported.delta + count.delta
         /\ reported'.large + interval'.large = reported.large + count.large
         /\ reported'.sweeps + interval'.sweeps = reported.sweeps + count.sweeps
         /\ reported'.absorptions + interval'.absorptions = reported.absorptions + count.absorptions
         /\ reported'.replenishments + interval'.replenishments
              = reported.replenishments + count.replenishments
         /\ reported'.anomalies + interval'.anomalies = reported.anomalies + count.anomalies
<1>1. reported \in Counters
  BY DEF Typed
<1>2. /\ PruneLiquidity(ResetInterval(tracker), ts).replenished = tracker.replenished
      /\ PruneLiquidity(tracker, ts).replenished = tracker.replenished
  BY ResetsAre, PruneLiquidityIs
<1>3. CASE SnapshotDue(ts)
  <2>1. Emit(ts, count, levels, tracker)
    BY <1>3 DEF MaybeFinalize
  <2>2. /\ liquidity' = PruneLiquidity(ResetInterval(tracker), ts)
        /\ reported' = SumOfCounters(reported, count) /\ interval' = NoCounters
    BY <2>1 DEF Emit
  <2>3. reported' \in Counters
        /\ \A field \in DOMAIN NoCounters : reported'[field] = reported[field] + count[field]
    BY <1>1, <2>2, SumOfCountersType
  <2>4. DOMAIN NoCounters = {"buy", "sell", "delta", "large", "sweeps", "absorptions",
                             "replenishments", "anomalies"}
    BY DEF NoCounters
  <2>5. /\ reported'.buy = reported.buy + count.buy /\ reported'.sell = reported.sell + count.sell
        /\ reported'.delta = reported.delta + count.delta
        /\ reported'.large = reported.large + count.large
        /\ reported'.sweeps = reported.sweeps + count.sweeps
        /\ reported'.absorptions = reported.absorptions + count.absorptions
        /\ reported'.replenishments = reported.replenishments + count.replenishments
        /\ reported'.anomalies = reported.anomalies + count.anomalies
    BY <2>3, <2>4
  <2>6. /\ interval'.buy = 0 /\ interval'.sell = 0 /\ interval'.delta = 0 /\ interval'.large = 0
        /\ interval'.sweeps = 0 /\ interval'.absorptions = 0 /\ interval'.replenishments = 0
        /\ interval'.anomalies = 0
    BY <2>2 DEF NoCounters
  <2>7. /\ reported'.buy \in Nat /\ reported'.sell \in Nat /\ reported'.delta \in Int
        /\ reported'.large \in Nat /\ reported'.sweeps \in Nat /\ reported'.absorptions \in Nat
        /\ reported'.replenishments \in Nat /\ reported'.anomalies \in Nat
    BY <2>3 DEF Counters
  <2>8. /\ reported'.buy + interval'.buy = reported'.buy
        /\ reported'.sell + interval'.sell = reported'.sell
        /\ reported'.delta + interval'.delta = reported'.delta
        /\ reported'.large + interval'.large = reported'.large
        /\ reported'.sweeps + interval'.sweeps = reported'.sweeps
        /\ reported'.absorptions + interval'.absorptions = reported'.absorptions
        /\ reported'.replenishments + interval'.replenishments = reported'.replenishments
        /\ reported'.anomalies + interval'.anomalies = reported'.anomalies
    BY <2>6, <2>7
  <2> QED BY <1>2, <2>2, <2>5, <2>8
<1>4. CASE ~SnapshotDue(ts)
  <2>1. /\ interval' = count /\ liquidity' = PruneLiquidity(tracker, ts) /\ reported' = reported
    BY <1>4 DEF MaybeFinalize
  <2> QED BY <1>2, <2>1
<1> QED BY <1>3, <1>4

\* The totals and the large trades of the flow with a trade.
LEMMA FlowWithTradeIs ==
  ASSUME Typed, NEW trade \in Trades
  PROVE  LET f == FlowWithTrade(trade)
         IN  /\ f \in Flows /\ f.totals = WithTrade(flow.totals, trade)
             /\ f.profile = [flow.profile EXCEPT ![trade.price] = WithTrade(@, trade)]
             /\ f.large = [flow.large EXCEPT ![trade.price] = @ + OneIf(IsLarge(trade))]
             /\ f.open = FlowTrade(flow, trade).open
             /\ f.completed = FlowTrade(flow, trade).completed
<1> DEFINE g == FlowTrade(flow, trade)
           profile == [flow.profile EXCEPT ![trade.price] = WithTrade(@, trade)]
           large == [flow.large EXCEPT ![trade.price] = @ + 1]
<1>1. /\ flow \in Flows /\ IsFiniteSet(flow.open) /\ trade.price \in Prices
      /\ \A i \in DOMAIN flow.completed : flow.completed[i].start < flow.completed[i].end
  BY DEF Typed, Trades
<1>2. g \in Flows
  BY <1>1, FlowTradeType
<1>3. g.totals = WithTrade(flow.totals, trade) /\ g.profile = profile /\ g.large = flow.large
  <2>1. g = [flow EXCEPT !.totals = WithTrade(@, trade), !.profile = profile,
               !.open = (@ \ (Joined(flow, trade) \cup Passed(flow, trade))) \cup Entered(flow, trade),
               !.completed = @ \o SetToSeq(Completed(flow, trade))]
    BY DEF FlowTrade, Flows
  <2> HIDE DEF g, profile
  <2> QED BY <1>1, <2>1 DEF Flows
<1>4. CASE IsLarge(trade)
  <2>1. FlowWithTrade(trade) = [g EXCEPT !.large = large]
    BY <1>3, <1>4 DEF FlowWithTrade, RecordLargeTrade
  <2>2. RecordLargeTrade(g, trade.price) \in Flows /\ FlowWithTrade(trade) = RecordLargeTrade(g, trade.price)
    BY <1>1, <1>2, <1>4, RecordLargeType DEF FlowWithTrade
  <2>3. OneIf(IsLarge(trade)) = 1
    BY <1>4 DEF OneIf
  <2>4. large = [flow.large EXCEPT ![trade.price] = @ + OneIf(IsLarge(trade))]
    BY <2>3
  <2> HIDE DEF g, large, profile
  <2>5. LET f == FlowWithTrade(trade)
        IN  /\ f \in Flows /\ f.totals = g.totals /\ f.profile = g.profile /\ f.large = large
            /\ f.open = g.open /\ f.completed = g.completed
    BY <1>2, <2>1, <2>2 DEF Flows
  <2> QED BY <1>3, <2>4, <2>5 DEF g, profile
<1>5. CASE ~IsLarge(trade)
  <2>1. FlowWithTrade(trade) = g
    BY <1>5 DEF FlowWithTrade
  <2>2. OneIf(IsLarge(trade)) = 0
    BY <1>5 DEF OneIf
  <2>3. flow.large \in [Prices -> Nat]
    BY <1>1 DEF Flows
  <2>4. flow.large[trade.price] + 0 = flow.large[trade.price]
    BY <1>1, <2>3
  <2>5. flow.large = [flow.large EXCEPT ![trade.price] = @ + OneIf(IsLarge(trade))]
    BY <2>2, <2>3, <2>4
  <2> HIDE DEF g, profile
  <2> QED BY <1>2, <1>3, <2>1, <2>5 DEF g, profile
<1> QED BY <1>4, <1>5

\* The absorptions with a trade.
LEMMA AbsorptionCounts ==
  ASSUME Typed, NEW trade \in Trades, ProcessTrade(trade)
  PROVE  absorption'.count = absorption.count + OneIf(Absorbed(trade) # None)
<1>1. absorption \in Detectors /\ absorption.count \in Nat
  BY DEF Typed, Detectors
<1>2. CASE Observed(trade)
  <2>1. BestFor(trade) \in Prices /\ OpposingFor(trade) \in Nat
    BY <1>2, TradeParts
  <2>2. absorption' = AbsorptionTrade(absorption, trade, BestFor(trade), OpposingFor(trade))
    BY <1>2 DEF ProcessTrade
  <2>3. \/ absorption'.count = absorption.count /\ Candidate(absorption, trade) = None
        \/ absorption'.count = absorption.count + 1 /\ Candidate(absorption, trade) # None
    BY <1>1, <2>1, <2>2, AbsorptionTradeIs
  <2>4. Absorbed(trade) = Candidate(absorption, trade)
    BY <1>2 DEF Absorbed
  <2> QED BY <1>1, <2>3, <2>4 DEF OneIf
<1>3. CASE ~Observed(trade)
  <2>1. absorption' = absorption /\ Absorbed(trade) = None
    BY <1>3 DEF ProcessTrade, Absorbed
  <2> QED BY <1>1, <2>1 DEF OneIf
<1> QED BY <1>2, <1>3

\* A trade counts alike in the session and in the interval.
LEMMA TradeAddsUp ==
  ASSUME Typed, AddUp, NEW trade \in Trades, ProcessTrade(trade), losses' = losses
  PROVE  AddUp'
<1> DEFINE count == CountedTrade(trade)
           levels == book.levels
           tracker == liquidity
           crossed == bookCrossed
           large == OneIf(IsLarge(trade))
           sweep == OneIf(Sweep(trade) # None)
           absorb == OneIf(Absorbed(trade) # None)
           b == Bought(trade)
           s == Sold(trade)
<1>1. /\ reported \in Counters /\ interval \in Counters /\ flow \in Flows /\ trade.ts \in Nat
      /\ detected \in [large : Nat, sweeps : Nat] /\ liquidity \in LiquidityTrackers
      /\ absorption.count \in Nat
  BY DEF Typed, Trades, Detectors
<1>2. count \in Counters
      /\ count.buy = interval.buy + b /\ count.sell = interval.sell + s
      /\ count.delta = interval.delta + b - s
      /\ count.large = interval.large + large /\ count.sweeps = interval.sweeps + sweep
      /\ count.absorptions = interval.absorptions + absorb
      /\ count.replenishments = interval.replenishments /\ count.anomalies = interval.anomalies
  BY CountedTradeType
<1>3. MaybeFinalize(trade.ts, count, levels, tracker, crossed)
  BY DEF ProcessTrade
<1>4. b \in Nat /\ s \in Nat /\ large \in Nat /\ sweep \in Nat /\ absorb \in Nat
  BY DEF Bought, Sold, Trades, OneIf
<1>5. flow'.totals.buy = flow.totals.buy + b /\ flow'.totals.sell = flow.totals.sell + s
      /\ flow'.totals.delta = flow.totals.delta + b - s
  <2>1. flow' = PruneFlow(FlowWithTrade(trade), trade.ts)
    BY DEF ProcessTrade
  <2>2. FlowWithTrade(trade) \in Flows /\ FlowWithTrade(trade).totals = WithTrade(flow.totals, trade)
    BY FlowWithTradeIs
  <2>3. flow'.totals = WithTrade(flow.totals, trade)
    BY <1>1, <2>1, <2>2, PruneFlowIs
  <2>4. flow.totals \in Volumes
    BY <1>1 DEF Flows
  <2> QED BY <2>3, <2>4 DEF WithTrade, Volumes
<1>6. absorption'.count = absorption.count + absorb
  BY AbsorptionCounts
<1>7. detected'.large = detected.large + large /\ detected'.sweeps = detected.sweeps + sweep
  BY DEF ProcessTrade
<1>8. book' = book
  BY DEF ProcessTrade
<1> HIDE DEF count, levels, tracker, crossed, large, sweep, absorb, b, s
<1>9. /\ liquidity'.replenished = tracker.replenished
      /\ reported'.buy + interval'.buy = reported.buy + count.buy
      /\ reported'.sell + interval'.sell = reported.sell + count.sell
      /\ reported'.delta + interval'.delta = reported.delta + count.delta
      /\ reported'.large + interval'.large = reported.large + count.large
      /\ reported'.sweeps + interval'.sweeps = reported.sweeps + count.sweeps
      /\ reported'.absorptions + interval'.absorptions = reported.absorptions + count.absorptions
      /\ reported'.replenishments + interval'.replenishments
           = reported.replenishments + count.replenishments
      /\ reported'.anomalies + interval'.anomalies = reported.anomalies + count.anomalies
  <2>1. tracker \in LiquidityTrackers
    BY <1>1 DEF tracker
  <2> QED BY <1>1, <1>2, <1>3, <2>1, FinalizeAddsUp
<1>10. reported.buy + interval.buy = flow.totals.buy /\ reported.sell + interval.sell = flow.totals.sell
       /\ reported.delta + interval.delta = flow.totals.delta
       /\ reported.large + interval.large = detected.large
       /\ reported.sweeps + interval.sweeps = detected.sweeps
       /\ reported.absorptions + interval.absorptions = absorption.count
       /\ reported.replenishments + interval.replenishments = liquidity.replenished
       /\ reported.anomalies + interval.anomalies = book.crossed + losses
  BY DEF AddUp
<1>11. /\ reported.buy \in Nat /\ reported.sell \in Nat /\ reported.delta \in Int /\ reported.large \in Nat
       /\ reported.sweeps \in Nat /\ reported.absorptions \in Nat
       /\ interval.buy \in Nat /\ interval.sell \in Nat /\ interval.delta \in Int /\ interval.large \in Nat
       /\ interval.sweeps \in Nat /\ interval.absorptions \in Nat
  BY <1>1 DEF Counters
<1>12. \A x, y, z, n \in Int : x + y = z => x + (y + n) = z + n
  OBVIOUS
<1>13. reported'.buy + interval'.buy = flow'.totals.buy
  BY <1>2, <1>4, <1>5, <1>9, <1>10, <1>11
<1>14. reported'.sell + interval'.sell = flow'.totals.sell
  BY <1>2, <1>4, <1>5, <1>9, <1>10, <1>11
<1>15. reported'.delta + interval'.delta = flow'.totals.delta
  BY <1>2, <1>4, <1>5, <1>9, <1>10, <1>11
<1>16. reported'.large + interval'.large = detected'.large
  BY <1>2, <1>4, <1>7, <1>9, <1>10, <1>11
<1>17. reported'.sweeps + interval'.sweeps = detected'.sweeps
  BY <1>2, <1>4, <1>7, <1>9, <1>10, <1>11
<1>18. reported'.absorptions + interval'.absorptions = absorption'.count
  BY <1>2, <1>4, <1>6, <1>9, <1>10, <1>11
<1>19. reported'.replenishments + interval'.replenishments = liquidity'.replenished
  BY <1>2, <1>9, <1>10 DEF tracker
<1>20. reported'.anomalies + interval'.anomalies = book'.crossed + losses'
  BY <1>2, <1>8, <1>9, <1>10
<1> QED BY <1>13, <1>14, <1>15, <1>16, <1>17, <1>18, <1>19, <1>20 DEF AddUp

\* So does an update.
LEMMA UpdateAddsUp ==
  ASSUME Typed, AddUp, NEW writes \in Seq(Writes), NEW ts \in Nat, ProcessUpdate(writes, ts),
         losses' = losses
  PROVE  AddUp'
<1> DEFINE updated == ApplyUpdate(book, writes)
           folded == HeatmapWithChanges(UpdateList(writes, ts))
           list == UpdateList(writes, ts)
           count == CountedUpdate(writes, ts)
           crossed == IsCrossed(updated)
           one == OneIf(Crosses(crossed))
           levels == updated.levels
           tracker == folded.tracker
<1>1. /\ reported \in Counters /\ interval \in Counters /\ flow \in Flows /\ book \in Books
      /\ liquidity \in LiquidityTrackers /\ losses \in Nat
  BY DEF Typed
<1>2. /\ updated \in Books /\ updated.crossed = book.crossed /\ list \in Seq(DatedChanges)
      /\ tracker \in LiquidityTrackers
  BY UpdateParts
<1>3. /\ count \in Counters
      /\ count.replenishments - interval.replenishments = tracker.replenished - liquidity.replenished
      /\ count.anomalies = interval.anomalies + one
      /\ count.buy = interval.buy /\ count.sell = interval.sell /\ count.delta = interval.delta
      /\ count.large = interval.large /\ count.sweeps = interval.sweeps
      /\ count.absorptions = interval.absorptions
  BY CountedUpdateType
<1>4. /\ book' = IF Crosses(crossed) THEN RecordCrossed(updated) ELSE updated
      /\ absorption' = AbsorptionWithChanges(list)
      /\ MaybeFinalize(ts, count, levels, tracker, crossed)
      /\ flow' = PruneFlow(flow, ts) /\ detected' = detected
  BY ProcessUpdateIs
<1>5. absorption'.count = absorption.count
  <2>1. absorption \in Detectors
    BY DEF Typed
  <2> HIDE DEF list
  <2> QED BY <1>2, <1>4, <2>1, OpposedIs
<1>6. flow'.totals = flow.totals
  BY <1>1, <1>4, PruneFlowIs
<1>7. book'.crossed = book.crossed + one /\ one \in Nat /\ book.crossed \in Nat
  <2>1. book.crossed \in Nat /\ book.levels \in [Keys -> Nat]
    BY <1>1 DEF Books
  <2> HIDE DEF updated, crossed, one
  <2>2. RecordCrossed(updated).crossed = updated.crossed + 1
    BY <1>2, <2>1, BookTypes
  <2>3. CASE Crosses(crossed)
    <3>1. one = 1
      BY <2>3 DEF one, OneIf
    <3> QED BY <1>2, <1>4, <2>1, <2>2, <2>3, <3>1
  <2>4. CASE ~Crosses(crossed)
    <3>1. one = 0
      BY <2>4 DEF one, OneIf
    <3> QED BY <1>2, <1>4, <2>1, <2>4, <3>1
  <2> QED BY <2>3, <2>4
<1> HIDE DEF updated, folded, list, count, crossed, one, levels, tracker
<1>9. /\ liquidity'.replenished = tracker.replenished
      /\ reported'.buy + interval'.buy = reported.buy + count.buy
      /\ reported'.sell + interval'.sell = reported.sell + count.sell
      /\ reported'.delta + interval'.delta = reported.delta + count.delta
      /\ reported'.large + interval'.large = reported.large + count.large
      /\ reported'.sweeps + interval'.sweeps = reported.sweeps + count.sweeps
      /\ reported'.absorptions + interval'.absorptions = reported.absorptions + count.absorptions
      /\ reported'.replenishments + interval'.replenishments
           = reported.replenishments + count.replenishments
      /\ reported'.anomalies + interval'.anomalies = reported.anomalies + count.anomalies
  BY <1>2, <1>3, <1>4, FinalizeAddsUp
<1>10. reported.buy + interval.buy = flow.totals.buy /\ reported.sell + interval.sell = flow.totals.sell
       /\ reported.delta + interval.delta = flow.totals.delta
       /\ reported.large + interval.large = detected.large
       /\ reported.sweeps + interval.sweeps = detected.sweeps
       /\ reported.absorptions + interval.absorptions = absorption.count
       /\ reported.replenishments + interval.replenishments = liquidity.replenished
       /\ reported.anomalies + interval.anomalies = book.crossed + losses
  BY DEF AddUp
<1>11. /\ reported.replenishments \in Nat /\ interval.replenishments \in Nat
       /\ count.replenishments \in Nat /\ tracker.replenished \in Nat /\ liquidity.replenished \in Nat
       /\ reported.anomalies \in Nat /\ interval.anomalies \in Nat
  BY <1>1, <1>2, <1>3 DEF Counters, LiquidityTrackers
<1>12. /\ reported'.buy + interval'.buy = flow'.totals.buy
       /\ reported'.sell + interval'.sell = flow'.totals.sell
       /\ reported'.delta + interval'.delta = flow'.totals.delta
       /\ reported'.large + interval'.large = detected'.large
       /\ reported'.sweeps + interval'.sweeps = detected'.sweeps
       /\ reported'.absorptions + interval'.absorptions = absorption'.count
  BY <1>3, <1>4, <1>5, <1>6, <1>9, <1>10
<1> DEFINE r == reported.replenishments
           i == interval.replenishments
           c == count.replenishments
           t == tracker.replenished
           l == liquidity.replenished
<1>13. reported'.replenishments + interval'.replenishments = liquidity'.replenished
  <2>1. r \in Nat /\ i \in Nat /\ c \in Nat /\ t \in Nat /\ l \in Nat
    BY <1>11
  <2>2. c - i = t - l /\ r + i = l
    BY <1>3, <1>10
  <2> HIDE DEF r, i, c, t, l
  <2>3. r + c = t
    BY <2>1, <2>2
  <2> QED BY <2>3, <1>9 DEF r, c, t
<1> DEFINE ra == reported.anomalies
           ia == interval.anomalies
           n == book.crossed
<1>14. reported'.anomalies + interval'.anomalies = book'.crossed + losses'
  <2>1. ra \in Nat /\ ia \in Nat /\ n \in Nat /\ losses \in Nat /\ one \in Nat
    BY <1>1, <1>7, <1>11
  <2>2. ra + ia = n + losses
    BY <1>10
  <2> HIDE DEF ra, ia, n
  <2>3. ra + (ia + one) = (n + one) + losses
    BY <2>1, <2>2
  <2> QED BY <2>3, <1>3, <1>7, <1>9 DEF ra, ia, n
<1> QED BY <1>12, <1>13, <1>14 DEF AddUp

\* What signals and snapshots of the book leave alone.
LEMMA QuietSums ==
  ASSUME Typed, OnSnapshot \/ OnSynchronized \/ OnResyncStarted \/ OnConnectionLost
  PROVE  /\ liquidity'.replenished = liquidity.replenished
         /\ flow'.totals = flow.totals
         /\ UNCHANGED <<reported, detected, absorption>>
<1>1. /\ liquidity \in LiquidityTrackers /\ EventTime \in Nat /\ flow \in Flows
  BY TimeTypes DEF Typed
<1>2. \/ liquidity' = PruneLiquidity(liquidity, EventTime)
      \/ liquidity' = PruneLiquidity(Clear(liquidity), EventTime)
  BY DEF OnSnapshot, OnSynchronized, OnResyncStarted, OnConnectionLost
<1>3. PruneRest(EventTime)
  BY DEF OnSnapshot, OnSynchronized, OnResyncStarted, OnConnectionLost
<1>4. UNCHANGED <<reported, detected, absorption>>
  BY DEF OnSnapshot, OnSynchronized, OnResyncStarted, OnConnectionLost, counters, history
<1>5. liquidity'.replenished = liquidity.replenished
  <2>1. Clear(liquidity) \in LiquidityTrackers /\ Clear(liquidity).replenished = liquidity.replenished
    BY <1>1, ResetsAre
  <2>2. /\ PruneLiquidity(liquidity, EventTime).replenished = liquidity.replenished
        /\ PruneLiquidity(Clear(liquidity), EventTime).replenished = Clear(liquidity).replenished
    BY <1>1, <2>1, PruneLiquidityIs
  <2> QED BY <1>2, <2>1, <2>2
<1>6. flow'.totals = flow.totals
  <2>1. flow' = PruneFlow(flow, EventTime)
    BY <1>3 DEF PruneRest
  <2> QED BY <1>1, <2>1, PruneFlowIs
<1> QED BY <1>4, <1>5, <1>6

\* Counting an anomaly with the book, or a lost connection, keeps the sums.
LEMMA AnomalyAddsUp ==
  ASSUME Typed, AddUp, NEW one \in Nat,
         liquidity'.replenished = liquidity.replenished, flow'.totals = flow.totals,
         UNCHANGED <<reported, detected, absorption>>,
         interval' = [interval EXCEPT !.anomalies = @ + one],
         \/ book'.crossed = book.crossed + one /\ losses' = losses
         \/ book'.crossed = book.crossed /\ losses' = losses + one
  PROVE  AddUp'
<1>1. reported \in Counters /\ interval \in Counters /\ book.crossed \in Nat /\ losses \in Nat
  BY DEF Typed, Books
<1> DEFINE ra == reported.anomalies
           ia == interval.anomalies
           n == book.crossed
<1>2. ra \in Nat /\ ia \in Nat /\ n \in Nat /\ ra + ia = n + losses
  BY <1>1 DEF AddUp, Counters
<1>3. /\ interval'.anomalies = ia + one
      /\ interval'.buy = interval.buy /\ interval'.sell = interval.sell
      /\ interval'.delta = interval.delta /\ interval'.large = interval.large
      /\ interval'.sweeps = interval.sweeps /\ interval'.absorptions = interval.absorptions
      /\ interval'.replenishments = interval.replenishments
  <2> DEFINE x == interval.anomalies + one
  <2>1. interval' = [interval EXCEPT !.anomalies = x]
    OBVIOUS
  <2> HIDE DEF x
  <2>2. interval'.anomalies = x
    BY <1>1, <2>1 DEF Counters
  <2> QED BY <1>1, <2>1, <2>2 DEF Counters, x
<1> HIDE DEF ra, ia, n
<1>4. ra + (ia + one) = (n + one) + losses /\ ra + (ia + one) = n + (losses + one)
  BY <1>1, <1>2
<1>5. reported'.anomalies + interval'.anomalies = book'.crossed + losses'
  BY <1>3, <1>4 DEF ra, n
<1> QED BY <1>3, <1>5 DEF AddUp

\* Every step keeps the sums.
LEMMA NextAddsUp ==
  ASSUME Typed, AddUp, [Next]_vars
  PROVE  AddUp'
<1>1. book \in Books /\ NewBook.levels \in [Keys -> Nat] /\ interval \in Counters
  BY BookTypes DEF Typed
<1>2. CASE OnTrade
  <2>1. PICK trade \in Trades : ProcessTrade(trade)
    BY <1>2, OnTradeTyped
  <2>2. losses' = losses
    BY <1>2 DEF OnTrade
  <2> QED BY <2>1, <2>2, TradeAddsUp
<1>3. CASE OnUpdate
  <2>1. PICK writes \in Seq(Writes), ts \in Nat : ProcessUpdate(writes, ts)
    BY <1>3, OnUpdateTyped
  <2>2. losses' = losses
    BY <1>3 DEF OnUpdate
  <2> QED BY <2>1, <2>2, UpdateAddsUp
<1>4. CASE OnSnapshot
  <2>1. PICK levels \in [Keys -> Nat] :
          LET loaded == ApplySnapshot(book, levels)
              crossed == IsCrossed(loaded)
          IN  /\ book' = IF crossed THEN RecordCrossed(loaded) ELSE loaded
              /\ interval' = [interval EXCEPT !.anomalies = @ + OneIf(crossed)]
              /\ base' = levels
    BY <1>4, OnSnapshotTyped
  <2> DEFINE loaded == ApplySnapshot(book, levels)
             crossed == IsCrossed(loaded)
             one == OneIf(crossed)
  <2>2. loaded \in Books /\ loaded.crossed = book.crossed /\ book.crossed \in Nat
    BY <1>1, BookTypes DEF Books
  <2>3. /\ book' = IF crossed THEN RecordCrossed(loaded) ELSE loaded
        /\ interval' = [interval EXCEPT !.anomalies = @ + one]
    BY <2>1
  <2>4. /\ crossed => one = 1
        /\ ~crossed => one = 0
    BY DEF one, OneIf
  <2> HIDE DEF loaded, crossed, one
  <2>5. RecordCrossed(loaded).crossed = loaded.crossed + 1
    BY <2>2, BookTypes
  <2>6. one \in Nat /\ book'.crossed = book.crossed + one
    <3>1. CASE crossed
      BY <2>2, <2>3, <2>4, <2>5, <3>1
    <3>2. CASE ~crossed
      BY <2>2, <2>3, <2>4, <3>2
    <3> QED BY <3>1, <3>2
  <2>7. losses' = losses
    BY <1>4 DEF OnSnapshot
  <2> QED BY <1>4, <2>3, <2>6, <2>7, QuietSums, AnomalyAddsUp
<1>5. CASE OnSynchronized \/ OnResyncStarted
  <2>1. /\ interval' = interval /\ losses' = losses
        /\ book' \in {SetReady(book, TRUE), SetReady(book, FALSE), book}
    BY <1>5 DEF OnSynchronized, OnResyncStarted, counters, history
  <2>2. book'.crossed = book.crossed
    BY <1>1, <2>1, BookTypes
  <2> QED BY <1>5, <2>1, <2>2, QuietSums DEF AddUp
<1>6. CASE OnConnectionLost
  <2>1. interval' = [interval EXCEPT !.anomalies = @ + 1] /\ losses' = losses + 1 /\ book' = book
    BY <1>6 DEF OnConnectionLost
  <2>2. 1 \in Nat
    OBVIOUS
  <2> QED BY <1>6, <2>1, <2>2, QuietSums, AnomalyAddsUp
<1>7. CASE SendFrame
  BY <1>7 DEF SendFrame, parts, counters, history, AddUp
<1>8. CASE Finish
  <2>1. /\ reported' = SumOfCounters(reported, interval) /\ interval' = NoCounters
        /\ liquidity' = ResetInterval(liquidity)
        /\ UNCHANGED <<book, flow, absorption, detected, losses>>
    BY <1>8 DEF Finish
  <2>2. reported \in Counters /\ liquidity \in LiquidityTrackers
    BY DEF Typed
  <2>3. liquidity'.replenished = liquidity.replenished
    BY <2>1, <2>2, ResetsAre
  <2>4. /\ reported'.buy = reported.buy + interval.buy /\ reported'.sell = reported.sell + interval.sell
        /\ reported'.delta = reported.delta + interval.delta
        /\ reported'.large = reported.large + interval.large
        /\ reported'.sweeps = reported.sweeps + interval.sweeps
        /\ reported'.absorptions = reported.absorptions + interval.absorptions
        /\ reported'.replenishments = reported.replenishments + interval.replenishments
        /\ reported'.anomalies = reported.anomalies + interval.anomalies
    BY <1>1, <2>1, <2>2, SumOfCountersType
  <2>5. /\ interval'.buy = 0 /\ interval'.sell = 0 /\ interval'.delta = 0 /\ interval'.large = 0
        /\ interval'.sweeps = 0 /\ interval'.absorptions = 0 /\ interval'.replenishments = 0
        /\ interval'.anomalies = 0
    BY <2>1 DEF NoCounters
  <2>6. /\ reported'.buy \in Int /\ reported'.sell \in Int /\ reported'.delta \in Int
        /\ reported'.large \in Int /\ reported'.sweeps \in Int /\ reported'.absorptions \in Int
        /\ reported'.replenishments \in Int /\ reported'.anomalies \in Int
    BY <1>1, <2>2, <2>4 DEF Counters
  <2>7. /\ reported'.buy + interval'.buy = reported'.buy
        /\ reported'.sell + interval'.sell = reported'.sell
        /\ reported'.delta + interval'.delta = reported'.delta
        /\ reported'.large + interval'.large = reported'.large
        /\ reported'.sweeps + interval'.sweeps = reported'.sweeps
        /\ reported'.absorptions + interval'.absorptions = reported'.absorptions
        /\ reported'.replenishments + interval'.replenishments = reported'.replenishments
        /\ reported'.anomalies + interval'.anomalies = reported'.anomalies
    BY <2>5, <2>6
  <2> QED BY <2>1, <2>3, <2>4, <2>7 DEF AddUp
<1>9. CASE UNCHANGED vars
  BY <1>9 DEF vars, parts, counters, history, AddUp
<1> QED BY <1>2, <1>3, <1>4, <1>5, <1>6, <1>7, <1>8, <1>9 DEF Next

\* What all snapshots report, with the running interval, is what the session's own counters have
\* (engine.rs, build_snapshot).
THEOREM IntervalsAreExact == Spec => []IntervalsAddUp
<1>1. Init => Typed /\ AddUp
  <2> SUFFICES ASSUME Init PROVE Typed /\ AddUp
    OBVIOUS
  <2>1. AddUp
    BY DEF Init, AddUp, NoCounters, NewFlow, NoVolume, NewDetector, NewLiquidity, NewBook
  <2> QED BY <2>1, InitTyped
<1>2. Typed /\ AddUp /\ [Next]_vars => Typed' /\ AddUp'
  BY NextTyped, NextAddsUp
<1>3. Typed /\ AddUp => IntervalsAddUp
  <2> SUFFICES ASSUME Typed, AddUp PROVE IntervalsAddUp
    OBVIOUS
  <2>1. reported \in Counters /\ interval \in Counters
    BY DEF Typed
  <2>2. LET all == SumOfCounters(reported, interval)
        IN  /\ all.buy = reported.buy + interval.buy /\ all.sell = reported.sell + interval.sell
            /\ all.delta = reported.delta + interval.delta
            /\ all.large = reported.large + interval.large
            /\ all.sweeps = reported.sweeps + interval.sweeps
            /\ all.absorptions = reported.absorptions + interval.absorptions
            /\ all.replenishments = reported.replenishments + interval.replenishments
            /\ all.anomalies = reported.anomalies + interval.anomalies
    BY <2>1, SumOfCountersType
  <2> QED BY <2>2 DEF IntervalsAddUp, AddUp, Cvd
<1> QED BY <1>1, <1>2, <1>3, PTL DEF Spec

-----------------------------------------------------------------------------
(* Frames and deltas. *)

\* The newest cells of a frame with the delta to the next frame are the next frame's.
LEMMA DeltaLeadsOn ==
  ASSUME NEW previousFrame, NEW current
  PROVE  ApplyDelta(NewestCells(previousFrame), DeltaOf(previousFrame, current))
           = NewestCells(current)
<1> DEFINE p == NewestCells(previousFrame)
           c == NewestCells(current)
           fresh == DOMAIN c \ DOMAIN p
           changed == {x \in DOMAIN c \cap DOMAIN p : c[x] # p[x]}
           sent == [x \in fresh \cup changed |-> c[x]]
           kept == Drop(p, DOMAIN p \ DOMAIN c)
           shown == Over(sent, kept)
<1>1. ApplyDelta(p, DeltaOf(previousFrame, current)) = shown
  BY DEF ApplyDelta, DeltaOf
<1>2. c = [x \in DOMAIN c |-> c[x]]
  BY DEF NewestCells
<1> HIDE DEF p, c
<1>3. /\ DOMAIN sent = fresh \cup changed /\ \A x \in fresh \cup changed : sent[x] = c[x]
      /\ DOMAIN kept = DOMAIN p \cap DOMAIN c /\ \A x \in DOMAIN p \cap DOMAIN c : kept[x] = p[x]
  BY DEF Drop
<1>4. shown = [x \in DOMAIN sent \cup DOMAIN kept |->
                 IF x \in DOMAIN sent THEN sent[x] ELSE kept[x]]
  BY DEF Over
<1>5. DOMAIN shown = DOMAIN c
  BY <1>3, <1>4
<1>6. ASSUME NEW x \in DOMAIN c PROVE shown[x] = c[x]
  <2>1. CASE x \in fresh \cup changed
    BY <1>3, <1>4, <2>1
  <2>2. CASE x \notin fresh \cup changed
    <3>1. x \in DOMAIN p \cap DOMAIN c /\ c[x] = p[x]
      BY <2>2
    <3> QED BY <1>3, <1>4, <2>2, <3>1
  <2> QED BY <2>1, <2>2
<1>7. shown = [x \in DOMAIN shown |-> shown[x]]
  BY <1>4
<1> HIDE DEF shown
<1>8. shown = c
  BY <1>2, <1>5, <1>6, <1>7
<1> QED BY <1>1, <1>8 DEF p, c

\* A client that took the first frame and then only deltas shows the newest cell of every price
\* of the current frame (heatmap.rs, compute; store.ts, receiveDelta).
THEOREM ClientFollows == Spec => []ClientMatchesFrame
<1>1. Init => ClientMatchesFrame
  BY DEF Init, ClientMatchesFrame
<1>2. ClientMatchesFrame /\ [Next]_vars => ClientMatchesFrame'
  <2> SUFFICES ASSUME ClientMatchesFrame, [Next]_vars
               PROVE  ClientMatchesFrame'
    OBVIOUS
  <2>1. CASE SendFrame
    <3> DEFINE frame == FrameOf(heatmap, book)
    <3>1. /\ previous' = frame
          /\ client' = IF previous = None THEN NewestCells(frame)
                       ELSE ApplyDelta(client, DeltaOf(previous, frame))
      BY <2>1 DEF SendFrame
    <3> HIDE DEF frame
    <3>2. CASE previous = None
      BY <3>1, <3>2 DEF ClientMatchesFrame
    <3>3. CASE previous # None
      <4>1. client = NewestCells(previous)
        BY <3>3 DEF ClientMatchesFrame
      <4>2. client' = NewestCells(frame)
        BY <3>1, <3>3, <4>1, DeltaLeadsOn
      <4> QED BY <3>1, <4>2 DEF ClientMatchesFrame
    <3> QED BY <3>2, <3>3
  <2>2. CASE ~SendFrame
    <3>1. frames' = frames
      <4>1. CASE OnTrade \/ OnUpdate
        BY <4>1 DEF OnTrade, OnUpdate
      <4>2. CASE OnSnapshot \/ OnSynchronized \/ OnResyncStarted \/ OnConnectionLost \/ Finish
        BY <4>2 DEF OnSnapshot, OnSynchronized, OnResyncStarted, OnConnectionLost, Finish
      <4>3. CASE UNCHANGED vars
        BY <4>3 DEF vars
      <4> QED BY <2>2, <4>1, <4>2, <4>3 DEF Next
    <3>2. UNCHANGED <<previous, client>>
      BY <3>1 DEF frames
    <3> QED BY <3>2 DEF ClientMatchesFrame
  <2> QED BY <2>1, <2>2
<1> QED BY <1>1, <1>2, PTL DEF Spec

-----------------------------------------------------------------------------
(* The liquidity tracker and the levels it follows. *)

\* A tracker follows the levels since they were those of another book.
Follows(t, levels, from) ==
  /\ \A k \in Keys : t.levels[k] # None => t.levels[k].current = levels[k]
  /\ t.added - t.removed = SumFunction(levels) - SumFunction(from)

\* A change that is tracked keeps the tracker with the levels.
LEMMA ChangeFollows ==
  ASSUME NEW t \in LiquidityTrackers, NEW levels \in [Keys -> Nat], NEW from \in [Keys -> Nat],
         Follows(t, levels, from), NEW c \in LevelChanges, NEW at \in Nat,
         c.old = levels[KeyOf(c)]
  PROVE  Follows(LiquidityChange(t, c, at), [levels EXCEPT ![KeyOf(c)] = c.new], from)
<1> DEFINE k == KeyOf(c)
           u == LiquidityChange(t, c, at)
           g == [levels EXCEPT ![k] = c.new]
<1>1. /\ u \in LiquidityTrackers /\ k \in Keys
      /\ u.added = t.added + SatSub(c.new, c.old) /\ u.removed = t.removed + SatSub(c.old, c.new)
      /\ \A j \in Keys \ {k} : u.levels[j] = t.levels[j]
      /\ c.old = c.new => u.levels[k] = t.levels[k]
      /\ c.old # c.new => u.levels[k] # None /\ u.levels[k].current = c.new
  BY LiquidityChangeIs
<1> HIDE DEF u, k
<1>2. /\ g \in [Keys -> Nat] /\ g[k] = c.new /\ levels[k] = c.old
      /\ \A j \in Keys \ {k} : g[j] = levels[j]
  BY <1>1 DEF LevelChanges, k
<1>3. c.new \in Nat /\ c.old \in Nat
  BY DEF LevelChanges
<1> HIDE DEF g
<1>4. \A j \in Keys : u.levels[j] # None => u.levels[j].current = g[j]
  BY <1>1, <1>2 DEF Follows
<1>5. SumFunction(g) = SumFunction(levels) + c.new - c.old /\ SumFunction(levels) \in Int
      /\ SumFunction(from) \in Int
  <2>1. g \in [Keys -> Int] /\ levels \in [Keys -> Int] /\ from \in [Keys -> Int]
    BY <1>2
  <2>2. SumFunction(g) = SumFunction(levels) + g[k] - levels[k] /\ SumFunction(levels) \in Int
    BY <1>1, <1>2, <2>1, KeysFinite, SumChanges
  <2>3. SumFunction(from) \in Int
    BY <2>1, KeysFinite, SumTakesOne
  <2> QED BY <1>2, <2>2, <2>3
<1>6. u.added - u.removed = SumFunction(g) - SumFunction(from)
  <2> DEFINE a == t.added
             r == t.removed
             o == c.old
             n == c.new
             s == SumFunction(levels)
             f == SumFunction(from)
  <2>1. a \in Nat /\ r \in Nat /\ o \in Nat /\ n \in Nat /\ s \in Int /\ f \in Int
    BY <1>3, <1>5 DEF LiquidityTrackers
  <2>2. a - r = s - f
    BY DEF Follows
  <2>3. u.added = a + SatSub(n, o) /\ u.removed = r + SatSub(o, n) /\ SumFunction(g) = s + n - o
    BY <1>1, <1>5
  <2> HIDE DEF a, r, o, n, s, f
  <2>4. (a + SatSub(n, o)) - (r + SatSub(o, n)) = (s + n - o) - f
    <3>1. CASE n > o
      <4>1. SatSub(n, o) = n - o /\ SatSub(o, n) = 0
        BY <2>1, <3>1 DEF SatSub
      <4> QED BY <2>1, <2>2, <4>1
    <3>2. CASE ~(n > o)
      <4>1. SatSub(n, o) = 0 /\ SatSub(o, n) = o - n
        BY <2>1, <3>2 DEF SatSub
      <4> QED BY <2>1, <2>2, <4>1
    <3> QED BY <3>1, <3>2
  <2> QED BY <2>3, <2>4 DEF f
<1> QED BY <1>4, <1>6 DEF Follows, u, g, k

\* One more change of an update.
LEMMA DatedAppend ==
  ASSUME NEW list \in Seq(LevelChanges), NEW c \in LevelChanges, NEW ts \in Nat
  PROVE  /\ Dated(Append(list, c), ts) = Append(Dated(list, ts), [at |-> ts, change |-> c])
         /\ [at |-> ts, change |-> c] \in DatedChanges
<1>1. Append(list, c) \in Seq(LevelChanges) /\ Len(Append(list, c)) = Len(list) + 1
      /\ Append(list, c)[Len(list) + 1] = c
      /\ \A i \in 1..Len(list) : Append(list, c)[i] = list[i]
  BY AppendProperties
<1> DEFINE e == [at |-> ts, change |-> c]
           d == Dated(list, ts)
           a == Dated(Append(list, c), ts)
           n == Len(list)
<1>2. e \in DatedChanges /\ e.at = ts /\ e.change = c
  BY DEF DatedChanges
<1>3. n \in Nat
  BY LenProperties
<1>4. d \in Seq(DatedChanges) /\ Len(d) = n
      /\ \A i \in 1..n : d[i] = [at |-> ts, change |-> list[i]]
  <2>1. DOMAIN list = 1..n
    BY LenProperties
  <2> QED BY <2>1, DatedType DEF Dated
<1>5. a \in Seq(DatedChanges) /\ Len(a) = n + 1
      /\ \A i \in 1..n + 1 : a[i] = [at |-> ts, change |-> Append(list, c)[i]]
  <2>1. DOMAIN Append(list, c) = 1..n + 1
    BY <1>1, LenProperties
  <2> QED BY <1>1, <2>1, DatedType DEF Dated
<1>6. Append(d, e) \in Seq(DatedChanges) /\ Len(Append(d, e)) = n + 1
      /\ Append(d, e)[n + 1] = e /\ \A i \in 1..n : Append(d, e)[i] = d[i]
  BY <1>2, <1>4, AppendProperties
<1> HIDE DEF a, d
<1>7. \A i \in 1..n + 1 : a[i] = Append(d, e)[i]
  <2>1. \A i \in 1..n : a[i] = Append(d, e)[i]
    BY <1>1, <1>3, <1>4, <1>5, <1>6
  <2>2. a[n + 1] = Append(d, e)[n + 1]
    BY <1>1, <1>3, <1>5, <1>6
  <2>3. ASSUME NEW i \in 1..n + 1 PROVE i \in 1..n \/ i = n + 1
    BY <1>3, <2>3
  <2> HIDE DEF n, e
  <2> QED BY <2>1, <2>2, <2>3
<1> DEFINE b == Append(d, e)
<1> HIDE DEF b, n
<1>8. a = b
  <2>1. b \in Seq(DatedChanges) /\ Len(a) = Len(b) /\ \A i \in 1..Len(a) : a[i] = b[i]
    BY <1>5, <1>6, <1>7 DEF b
  <2> QED BY <1>5, <2>1, SeqEqual
<1> QED BY <1>2, <1>8 DEF a, b, d

\* The tracker of an update's changes follows the updated book.
LEMMA UpdateFollows ==
  ASSUME Typed, NEW writes \in Seq(Writes), NEW ts \in Nat, Follows(liquidity, book.levels, base)
  PROVE  Follows(HeatmapWithChanges(UpdateList(writes, ts)).tracker,
                 ApplyUpdate(book, writes).levels, base)
<1> DEFINE zero == [cells |-> heatmap, tracker |-> liquidity]
           start == [levels |-> book.levels, changes |-> <<>>]
           Tracked(u) == Marking!Fold(zero, Dated(u.changes, ts))
           T == {u \in UpdatedBooks : Tracked(u) \in Marks /\ Follows(Tracked(u).tracker, u.levels, base)}
<1>1. /\ book \in Books /\ book.levels \in [Keys -> Nat] /\ base \in [Keys -> Nat]
      /\ heatmap \in ProperHeatmaps /\ liquidity \in LiquidityTrackers
  BY HeatmapsAre DEF Typed, Books
<1>2. zero \in Marks /\ zero.tracker = liquidity
  BY <1>1 DEF Marks
<1> HIDE DEF zero
<1>3. /\ Updated(book, writes) = Writing!Fold(start, writes) /\ start \in UpdatedBooks
  BY <1>1, UpdatedIs
<1>4. start \in T
  <2>1. Dated(<<>>, ts) = <<>>
    BY DEF Dated
  <2>2. start.levels = book.levels /\ start.changes = <<>>
    OBVIOUS
  <2> HIDE DEF start
  <2>3. Tracked(start) = zero
    BY <2>1, <2>2, Marking!FoldEmpty
  <2> QED BY <1>2, <1>3, <2>2, <2>3
<1> HIDE DEF start
<1>5. ASSUME NEW u \in T, NEW w \in Writes PROVE WriteLevel(u, w) \in T
  <2> DEFINE c == Change(u, w.key, w.qty)
             v == WriteLevel(u, w)
             levels == [u.levels EXCEPT ![w.key] = w.qty]
             e == [at |-> ts, change |-> c]
  <2>1. /\ u \in UpdatedBooks /\ u.levels \in [Keys -> Nat] /\ u.changes \in Seq(LevelChanges)
        /\ w.key \in Keys /\ w.qty \in Nat
        /\ Tracked(u) \in Marks /\ Follows(Tracked(u).tracker, u.levels, base)
    BY DEF UpdatedBooks, Writes
  <2>2. v \in UpdatedBooks /\ c \in LevelChanges
    BY <2>1, WriteLevelType
  <2>3. c.old = u.levels[w.key] /\ c.new = w.qty /\ KeyOf(c) = w.key
    BY <2>1 DEF Change, KeyOf, Keys
  <2>4. /\ v.levels = levels
        /\ IsReported(c) => v.changes = Append(u.changes, c)
        /\ ~IsReported(c) => v.changes = u.changes
    BY DEF WriteLevel
  <2> HIDE DEF c, v
  <2>5. CASE IsReported(c)
    <3> DEFINE acc == Tracked(u)
               next == MarkChange(acc, e)
    <3>1. /\ Dated(v.changes, ts) = Append(Dated(u.changes, ts), e) /\ e \in DatedChanges
      <4>1. v.changes = Append(u.changes, c)
        BY <2>4, <2>5
      <4> QED BY <2>1, <2>2, <4>1, DatedAppend
    <3>2. Dated(u.changes, ts) \in Seq(DatedChanges)
      BY <2>1, DatedType
    <3>3. e.change = c /\ e.at = ts
      OBVIOUS
    <3> HIDE DEF e
    <3>4. Tracked(v) = MarkChange(Tracked(u), e)
      BY <3>1, <3>2, Marking!FoldAppend
    <3>5. acc \in Marks /\ Follows(acc.tracker, u.levels, base) /\ acc.tracker \in LiquidityTrackers
      BY <2>1 DEF Marks
    <3> HIDE DEF acc
    <3>6. next \in Marks /\ next.tracker = LiquidityChange(acc.tracker, c, ts)
      BY <3>1, <3>3, <3>5, MarkChangeType
    <3>7. Follows(LiquidityChange(acc.tracker, c, ts), [u.levels EXCEPT ![KeyOf(c)] = c.new], base)
      BY <1>1, <2>1, <2>2, <2>3, <3>5, ChangeFollows
    <3> HIDE DEF next
    <3>8. Follows(next.tracker, v.levels, base)
      BY <2>3, <2>4, <3>6, <3>7
    <3>9. Tracked(v) = next
      BY <3>4 DEF next, acc
    <3> QED BY <2>2, <3>6, <3>8, <3>9 DEF v
  <2>6. CASE ~IsReported(c)
    <3>1. levels = u.levels
      <4>1. u.levels[w.key] = w.qty
        BY <2>3, <2>6 DEF IsReported
      <4> QED BY <2>1, <4>1
    <3>2. v.levels = u.levels /\ v.changes = u.changes
      BY <2>4, <2>6, <3>1
    <3> QED BY <2>1, <2>2, <3>2 DEF v
  <2> QED BY <2>5, <2>6
<1>6. Updated(book, writes) \in T
  <2> HIDE DEF T
  <2>1. \A u \in T : \A w \in Writes : WriteLevel(u, w) \in T
    BY <1>5
  <2>2. Writing!Fold(start, writes) \in T
    BY <1>4, <2>1, Writing!FoldKeeps
  <2> QED BY <1>3, <2>2
<1>7. HeatmapWithChanges(UpdateList(writes, ts)) = Tracked(Updated(book, writes))
  <2>1. UpdateList(writes, ts) = Dated(Updated(book, writes).changes, ts)
    BY DEF UpdateList, ReportedChanges
  <2>2. UpdateList(writes, ts) \in Seq(DatedChanges)
    BY UpdateParts
  <2>3. HeatmapWithChanges(UpdateList(writes, ts))
          = Marking!Fold([cells |-> heatmap, tracker |-> liquidity], UpdateList(writes, ts))
    BY <1>1, <2>2, WithChangesType
  <2> QED BY <2>1, <2>3 DEF zero
<1>8. ApplyUpdate(book, writes).levels = Updated(book, writes).levels
  BY <1>1, ApplyUpdateType
<1> QED BY <1>6, <1>7, <1>8

\* Pruning keeps the tracker with the levels, and its counters begin anew with the interval.
LEMMA ResetsFollow ==
  ASSUME NEW t \in LiquidityTrackers, NEW levels \in [Keys -> Nat]
  PROVE  /\ \A from \in [Keys -> Nat] : \A now \in Nat :
              Follows(t, levels, from) => Follows(PruneLiquidity(t, now), levels, from)
         /\ \A from \in [Keys -> Nat] :
              Follows(t, levels, from) => Follows(ResetInterval(t), levels, levels)
         /\ Follows(Clear(t), levels, levels)
<1>1. SumFunction(levels) \in Int
  <2>1. levels \in [Keys -> Int]
    OBVIOUS
  <2> QED BY <2>1, KeysFinite, SumTakesOne
<1>2. ASSUME NEW from \in [Keys -> Nat], NEW now \in Nat, Follows(t, levels, from)
      PROVE  Follows(PruneLiquidity(t, now), levels, from)
  <2>1. LET u == PruneLiquidity(t, now)
        IN  /\ u.added = t.added /\ u.removed = t.removed
            /\ \A k \in Keys : u.levels[k] \in {t.levels[k], None}
    BY PruneLiquidityIs
  <2> QED BY <1>2, <2>1 DEF Follows
<1>3. ASSUME NEW from \in [Keys -> Nat], Follows(t, levels, from)
      PROVE  Follows(ResetInterval(t), levels, levels)
  BY <1>1, <1>3, ResetsAre DEF Follows
<1>4. Follows(Clear(t), levels, levels)
  BY <1>1, ResetsAre DEF Follows
<1> QED BY <1>2, <1>3, <1>4

\* The end of a trade or an update keeps the tracker with the levels.
LEMMA FinalizeFollows ==
  ASSUME Typed, NEW ts \in Nat, NEW count, NEW levels \in [Keys -> Nat],
         NEW tracker \in LiquidityTrackers, NEW crossed, Follows(tracker, levels, base),
         MaybeFinalize(ts, count, levels, tracker, crossed)
  PROVE  Follows(liquidity', levels, base')
<1>1. base \in [Keys -> Nat]
  BY DEF Typed
<1>2. CASE SnapshotDue(ts)
  <2>1. Emit(ts, count, levels, tracker)
    BY <1>2 DEF MaybeFinalize
  <2>2. liquidity' = PruneLiquidity(ResetInterval(tracker), ts) /\ base' = levels
    BY <2>1 DEF Emit
  <2>3. Follows(ResetInterval(tracker), levels, levels)
    BY <1>1, ResetsFollow
  <2>4. ResetInterval(tracker) \in LiquidityTrackers
    BY ResetsAre
  <2> QED BY <2>2, <2>3, <2>4, ResetsFollow
<1>3. CASE ~SnapshotDue(ts)
  <2>1. liquidity' = PruneLiquidity(tracker, ts) /\ base' = base
    BY <1>3 DEF MaybeFinalize
  <2> QED BY <1>1, <2>1, ResetsFollow
<1> QED BY <1>2, <1>3

\* Every step keeps the tracker with the book.
LEMMA NextFollows ==
  ASSUME Typed, Follows(liquidity, book.levels, base), [Next]_vars
  PROVE  Follows(liquidity', book'.levels, base')
<1>1. /\ book \in Books /\ book.levels \in [Keys -> Nat] /\ base \in [Keys -> Nat]
      /\ liquidity \in LiquidityTrackers /\ EventTime \in Nat /\ NewBook.levels \in [Keys -> Nat]
  BY TimeTypes, BookTypes DEF Typed, Books
<1>2. CASE OnTrade
  <2>1. PICK trade \in Trades : ProcessTrade(trade)
    BY <1>2, OnTradeTyped
  <2>2. /\ MaybeFinalize(trade.ts, CountedTrade(trade), book.levels, liquidity, bookCrossed)
        /\ book' = book /\ trade.ts \in Nat
    BY <2>1 DEF ProcessTrade, Trades
  <2> DEFINE n == trade.ts
             count == CountedTrade(trade)
  <2> HIDE DEF n, count
  <2>3. MaybeFinalize(n, count, book.levels, liquidity, bookCrossed) /\ n \in Nat
    BY <2>2 DEF n, count
  <2>4. Follows(liquidity', book.levels, base')
    BY <1>1, <2>3, FinalizeFollows
  <2> QED BY <2>2, <2>4
<1>3. CASE OnUpdate
  <2>1. PICK writes \in Seq(Writes), ts \in Nat : ProcessUpdate(writes, ts)
    BY <1>3, OnUpdateTyped
  <2> DEFINE updated == ApplyUpdate(book, writes)
             levels == updated.levels
             tracker == HeatmapWithChanges(UpdateList(writes, ts)).tracker
             count == CountedUpdate(writes, ts)
             crossed == IsCrossed(updated)
  <2>2. /\ MaybeFinalize(ts, count, levels, tracker, crossed)
        /\ book' = IF Crosses(crossed) THEN RecordCrossed(updated) ELSE updated
    BY <2>1, ProcessUpdateIs
  <2>3. updated \in Books /\ levels \in [Keys -> Nat] /\ tracker \in LiquidityTrackers
    BY UpdateParts
  <2>4. Follows(tracker, levels, base)
    BY UpdateFollows
  <2> HIDE DEF updated, tracker, count, crossed
  <2>5. book'.levels = levels
    <3>1. RecordCrossed(updated).levels = updated.levels
      BY <1>1, <2>3, BookTypes
    <3> QED BY <2>2, <3>1
  <2> HIDE DEF levels
  <2>6. Follows(liquidity', levels, base')
    BY <2>2, <2>3, <2>4, FinalizeFollows
  <2> QED BY <2>5, <2>6
<1>4. CASE OnSnapshot
  <2>1. PICK levels \in [Keys -> Nat] :
          LET loaded == ApplySnapshot(book, levels)
              crossed == IsCrossed(loaded)
          IN  /\ book' = IF crossed THEN RecordCrossed(loaded) ELSE loaded
              /\ interval' = [interval EXCEPT !.anomalies = @ + OneIf(crossed)]
              /\ base' = levels
    BY <1>4, OnSnapshotTyped
  <2> DEFINE loaded == ApplySnapshot(book, levels)
             crossed == IsCrossed(loaded)
  <2>2. loaded \in Books /\ loaded.levels = levels
    BY <1>1, BookTypes
  <2>3. book' = (IF crossed THEN RecordCrossed(loaded) ELSE loaded) /\ base' = levels
    BY <2>1
  <2> HIDE DEF loaded, crossed
  <2>4. RecordCrossed(loaded).levels = loaded.levels
    BY <1>1, <2>2, BookTypes
  <2>5. book'.levels = levels
    BY <2>2, <2>3, <2>4
  <2>6. liquidity' = PruneLiquidity(Clear(liquidity), EventTime)
    BY <1>4 DEF OnSnapshot
  <2>7. Follows(Clear(liquidity), levels, levels) /\ Clear(liquidity) \in LiquidityTrackers
    BY <1>1, ResetsFollow, ResetsAre
  <2>8. Follows(liquidity', levels, levels)
    BY <1>1, <2>6, <2>7, ResetsFollow
  <2> QED BY <2>3, <2>5, <2>8
<1>5. CASE OnSynchronized \/ OnConnectionLost
  <2>1. /\ liquidity' = PruneLiquidity(liquidity, EventTime) /\ base' = base
        /\ book' \in {SetReady(book, TRUE), book}
    BY <1>5 DEF OnSynchronized, OnConnectionLost, history
  <2>2. book'.levels = book.levels
    BY <1>1, <2>1, BookTypes
  <2> QED BY <1>1, <2>1, <2>2, ResetsFollow
<1>6. CASE OnResyncStarted
  <2>1. /\ liquidity' = PruneLiquidity(Clear(liquidity), EventTime) /\ base' = NewBook.levels
        /\ book' = SetReady(book, FALSE)
    BY <1>6 DEF OnResyncStarted
  <2>2. book'.levels = NewBook.levels
    BY <1>1, <2>1, BookTypes
  <2>3. Follows(Clear(liquidity), NewBook.levels, NewBook.levels)
        /\ Clear(liquidity) \in LiquidityTrackers
    BY <1>1, ResetsFollow, ResetsAre
  <2>4. Follows(liquidity', NewBook.levels, NewBook.levels)
    BY <1>1, <2>1, <2>3, ResetsFollow
  <2> QED BY <2>1, <2>2, <2>4
<1>7. CASE SendFrame \/ UNCHANGED vars
  <2>1. UNCHANGED <<liquidity, book, base>>
    BY <1>7 DEF SendFrame, vars, parts, history
  <2> QED BY <2>1
<1>8. CASE Finish
  <2>1. liquidity' = ResetInterval(liquidity) /\ base' = book.levels /\ book' = book
    BY <1>8 DEF Finish
  <2>2. Follows(ResetInterval(liquidity), book.levels, book.levels)
    BY <1>1, ResetsFollow
  <2> QED BY <2>1, <2>2
<1> QED BY <1>2, <1>3, <1>4, <1>5, <1>6, <1>7, <1>8 DEF Next

\* The liquidity tracker follows the shadow book through updates, snapshots and resyncs
\* (liquidity.rs, on_level_change, clear and reset_interval).
THEOREM LiquidityFollowsBook == Spec => []LiquidityBalances
<1>1. Init => Typed /\ Follows(liquidity, book.levels, base)
  <2> SUFFICES ASSUME Init PROVE Typed /\ Follows(liquidity, book.levels, base)
    OBVIOUS
  <2>1. Typed /\ liquidity = NewLiquidity /\ book = NewBook /\ base = NewBook.levels
    BY InitTyped DEF Init
  <2>2. SumFunction(NewBook.levels) \in Int
    <3>1. NewBook.levels \in [Keys -> Int]
      BY DEF NewBook
    <3> QED BY <3>1, KeysFinite, SumTakesOne
  <2>3. Follows(NewLiquidity, NewBook.levels, NewBook.levels)
    BY <2>2 DEF Follows, NewLiquidity
  <2> QED BY <2>1, <2>3
<1>2. Typed /\ Follows(liquidity, book.levels, base) /\ [Next]_vars
        => Typed' /\ Follows(liquidity, book.levels, base)'
  BY NextTyped, NextFollows
<1>3. Typed /\ Follows(liquidity, book.levels, base) => LiquidityBalances
  <2> SUFFICES ASSUME Typed, Follows(liquidity, book.levels, base) PROVE LiquidityBalances
    OBVIOUS
  <2>1. book.levels \in [Keys -> Nat] /\ base \in [Keys -> Nat]
    BY DEF Typed, Books
  <2>2. SumOver(Keys, LAMBDA k : book.levels[k]) = SumFunction(book.levels)
    <3>1. book.levels = [k \in Keys |-> book.levels[k]]
      BY <2>1
    <3> QED BY <3>1 DEF SumOver
  <2>3. SumOver(Keys, LAMBDA k : base[k]) = SumFunction(base)
    <3>1. base = [k \in Keys |-> base[k]]
      BY <2>1
    <3> QED BY <3>1 DEF SumOver
  <2> QED BY <2>2, <2>3 DEF LiquidityBalances, Follows
<1> QED BY <1>1, <1>2, <1>3, PTL DEF Spec

-----------------------------------------------------------------------------
(* The tape. *)

\* The positions of a tape at which a trade of some kind is, and the volume there.
Within(h, C) == {i \in DOMAIN h : h[i] \in C}
BoughtAt(list, positions) == SumFunction([i \in positions |-> Bought(list[i])])
SoldAt(list, positions) == SumFunction([i \in positions |-> Sold(list[i])])
Traded(h, C) ==
  LET buy == BoughtAt(h, Within(h, C))
      sell == SoldAt(h, Within(h, C))
  IN  [buy |-> buy, sell |-> sell, delta |-> buy - sell, count |-> Cardinality(Within(h, C))]

\* A tape with one more trade.
Grown(g, h, trade) == g = Append(h, trade)

\* What a trade adds to what is before it on the tape.
LEMMA TapeGrows ==
  ASSUME NEW h \in Seq(Trades), NEW trade \in Trades, NEW g, Grown(g, h, trade)
  PROVE  /\ g \in Seq(Trades) /\ Len(g) = Len(h) + 1 /\ Len(h) \in Nat
         /\ DOMAIN h = 1..Len(h) /\ DOMAIN g = DOMAIN h \cup {Len(g)}
         /\ Len(g) \notin DOMAIN h /\ g[Len(g)] = trade
         /\ \A i \in DOMAIN h : g[i] = h[i]
         /\ \A i \in DOMAIN h : h[i] \in Trades
<1>1. /\ g \in Seq(Trades) /\ Len(g) = Len(h) + 1 /\ g[Len(h) + 1] = trade
      /\ \A i \in 1..Len(h) : g[i] = h[i]
  BY AppendProperties DEF Grown
<1>2. /\ Len(h) \in Nat /\ DOMAIN h = 1..Len(h) /\ DOMAIN g = 1..Len(g)
      /\ \A i \in 1..Len(h) : h[i] \in Trades
  BY <1>1, LenProperties, ElementOfSeq
<1> DEFINE n == Len(h)
<1>3. n \in Nat => 1..n + 1 = (1..n) \cup {n + 1} /\ n + 1 \notin 1..n
  <2> HIDE DEF n
  <2> QED OBVIOUS
<1> QED BY <1>1, <1>2, <1>3

\* The sums of what a set of positions has.
LEMMA VolumeAtGrows ==
  ASSUME NEW h \in Seq(Trades), NEW trade \in Trades, NEW g, Grown(g, h, trade),
         NEW S \in SUBSET DOMAIN h, NEW E, S \subseteq E, Len(g) \in E, E \ {Len(g)} \subseteq S
  PROVE  /\ IsFiniteSet(S) /\ BoughtAt(h, S) \in Nat /\ SoldAt(h, S) \in Nat
         /\ Cardinality(S) \in Nat
         /\ BoughtAt(g, S) = BoughtAt(h, S) /\ SoldAt(g, S) = SoldAt(h, S)
         /\ BoughtAt(g, E) = BoughtAt(h, S) + Bought(trade)
         /\ SoldAt(g, E) = SoldAt(h, S) + Sold(trade)
         /\ Cardinality(E) = Cardinality(S) + 1
<1> DEFINE n == Len(g)
<1>1. /\ DOMAIN h = 1..Len(h) /\ Len(h) \in Nat /\ n \notin DOMAIN h /\ g[n] = trade
      /\ \A i \in DOMAIN h : g[i] = h[i]
      /\ \A i \in DOMAIN h : h[i] \in Trades
  <2>1. /\ g \in Seq(Trades) /\ Len(g) = Len(h) + 1 /\ Len(h) \in Nat
        /\ DOMAIN h = 1..Len(h) /\ DOMAIN g = DOMAIN h \cup {Len(g)}
        /\ Len(g) \notin DOMAIN h /\ g[Len(g)] = trade
        /\ \A i \in DOMAIN h : g[i] = h[i]
        /\ \A i \in DOMAIN h : h[i] \in Trades
    BY TapeGrows
  <2> QED BY <2>1
<1>2. IsFiniteSet(S)
  <2>1. IsFiniteSet(1..Len(h))
    BY <1>1, FS_Interval
  <2> QED BY <1>1, <2>1, FS_Subset
<1>3. \A t \in Trades : Bought(t) \in Nat /\ Sold(t) \in Nat
  BY DEF Bought, Sold, Trades
<1>4. n \notin S /\ n \in E /\ S \in SUBSET E /\ E \ {n} \subseteq S
  BY <1>1
<1> HIDE DEF n
<1> DEFINE fb == [i \in S |-> Bought(h[i])]
           fs == [i \in S |-> Sold(h[i])]
           gb == [i \in E |-> Bought(g[i])]
           gs == [i \in E |-> Sold(g[i])]
<1>5. fb \in [S -> Nat] /\ fs \in [S -> Nat]
  BY <1>1, <1>3
<1>6. fb \in [S -> Int]
  BY <1>5
<1>7. fs \in [S -> Int]
  BY <1>5
<1>8. \A i \in E : g[i] \in Trades
  BY <1>1, <1>4
<1>9. gb \in [E -> Int]
  BY <1>3, <1>8
<1>10. gs \in [E -> Int]
  BY <1>3, <1>8
<1>11. \A i \in S : gb[i] = fb[i]
  BY <1>1, <1>4
<1>12. \A i \in S : gs[i] = fs[i]
  BY <1>1, <1>4
<1>13. gb[n] = Bought(trade) /\ gs[n] = Sold(trade)
  BY <1>1, <1>4
<1>14. [i \in S |-> Bought(g[i])] = fb /\ [i \in S |-> Sold(g[i])] = fs
  BY <1>1
<1> HIDE DEF fb, fs, gb, gs
<1>15. SumFunction(fb) \in Nat /\ SumFunction(fs) \in Nat
  BY <1>2, <1>5, SumNat
<1>16. S \in SUBSET E
  BY <1>4
<1>17. n \notin S /\ n \in E /\ E \ {n} \subseteq S
  BY <1>4
<1>18. SumFunction(gb) = SumFunction(fb) + gb[n]
  BY <1>2, <1>6, <1>9, <1>11, <1>16, <1>17, SumGrows
<1>19. SumFunction(gs) = SumFunction(fs) + gs[n]
  BY <1>2, <1>7, <1>10, <1>12, <1>16, <1>17, SumGrows
<1>20. Cardinality(E) = Cardinality(S) + 1 /\ Cardinality(S) \in Nat
  <2>1. E = S \cup {n}
    BY <1>4
  <2> QED BY <1>2, <1>4, <2>1, FS_AddElement, FS_CardinalityType
<1> QED BY <1>2, <1>13, <1>14, <1>15, <1>18, <1>19, <1>20 DEF BoughtAt, SoldAt, fb, fs, gb, gs

\* The volume of a kind of trades is that before the trade and, if it is of the kind, the trade.
LEMMA TradedGrows ==
  ASSUME NEW h \in Seq(Trades), NEW trade \in Trades, NEW g, Grown(g, h, trade), NEW C
  PROVE  /\ Traded(h, C) \in Volumes
         /\ trade \in C => Traded(g, C) = WithTrade(Traded(h, C), trade)
         /\ trade \notin C => Traded(g, C) = Traded(h, C)
<1> DEFINE old == Within(h, C)
           n == Len(g)
           all == old \cup {n}
<1>1. /\ DOMAIN g = DOMAIN h \cup {n} /\ n \notin DOMAIN h /\ g[n] = trade
      /\ \A i \in DOMAIN h : g[i] = h[i]
  <2>1. /\ g \in Seq(Trades) /\ Len(g) = Len(h) + 1 /\ Len(h) \in Nat
        /\ DOMAIN h = 1..Len(h) /\ DOMAIN g = DOMAIN h \cup {Len(g)}
        /\ Len(g) \notin DOMAIN h /\ g[Len(g)] = trade
        /\ \A i \in DOMAIN h : g[i] = h[i]
        /\ \A i \in DOMAIN h : h[i] \in Trades
    BY TapeGrows
  <2> QED BY <2>1
<1>2. old \in SUBSET DOMAIN h /\ old \subseteq all /\ Len(g) \in all /\ all \ {Len(g)} \subseteq old
  BY DEF Within
<1>3. /\ trade \in C => Within(g, C) = all
      /\ trade \notin C => Within(g, C) = old
  BY <1>1 DEF Within
<1> HIDE DEF old, n, all
<1>4. /\ BoughtAt(h, old) \in Nat /\ SoldAt(h, old) \in Nat /\ Cardinality(old) \in Nat
      /\ BoughtAt(g, old) = BoughtAt(h, old) /\ SoldAt(g, old) = SoldAt(h, old)
      /\ BoughtAt(g, all) = BoughtAt(h, old) + Bought(trade)
      /\ SoldAt(g, all) = SoldAt(h, old) + Sold(trade)
      /\ Cardinality(all) = Cardinality(old) + 1
  BY <1>2, VolumeAtGrows
<1> DEFINE buy == BoughtAt(h, old)
           sell == SoldAt(h, old)
           count == Cardinality(old)
           b == Bought(trade)
           s == Sold(trade)
           v == [buy |-> buy, sell |-> sell, delta |-> buy - sell, count |-> count]
           w == [buy |-> buy + b, sell |-> sell + s, delta |-> (buy + b) - (sell + s),
                 count |-> count + 1]
<1>5. Traded(h, C) = v
  BY DEF Traded, old
<1>6. /\ trade \in C => Traded(g, C) = w
      /\ trade \notin C => Traded(g, C) = v
  BY <1>3, <1>4 DEF Traded
<1>7. b \in Nat /\ s \in Nat
  BY DEF Bought, Sold, Trades
<1>8. WithTrade(v, trade) = [v EXCEPT !.buy = @ + b, !.sell = @ + s, !.delta = @ + b - s,
                               !.count = @ + 1]
  BY DEF WithTrade
<1> HIDE DEF buy, sell, count, b, s
<1>9. buy \in Nat /\ sell \in Nat /\ count \in Nat
  BY <1>4 DEF buy, sell, count
<1>10. v \in Volumes /\ WithTrade(v, trade) = w
  <2>1. (buy + b) - (sell + s) = (buy - sell) + b - s
    BY <1>7, <1>9
  <2> DEFINE d == buy - sell
             nb == buy + b
             ns == sell + s
             nd == d + b - s
             nc == count + 1
  <2>2. d \in Int /\ nd = nb - ns
    BY <1>9, <2>1
  <2>3. v = [buy |-> buy, sell |-> sell, delta |-> d, count |-> count]
        /\ w = [buy |-> nb, sell |-> ns, delta |-> nd, count |-> nc]
    BY <2>2
  <2>4. WithTrade(v, trade) = [v EXCEPT !.buy = nb, !.sell = ns, !.delta = nd, !.count = nc]
    BY <1>8
  <2> HIDE DEF d, nb, ns, nd, nc, v, w
  <2>5. v \in Volumes
    BY <1>9, <2>2, <2>3 DEF Volumes
  <2> QED BY <2>3, <2>4, <2>5
<1> QED BY <1>5, <1>6, <1>10

\* Nothing is on an empty tape.
LEMMA TradedNothing ==
  ASSUME NEW C
  PROVE  Traded(<<>>, C) = NoVolume
<1>1. Within(<<>>, C) = {}
  BY DEF Within
<1> DEFINE f == [i \in {} |-> Bought(<<>>[i])]
           g == [i \in {} |-> Sold(<<>>[i])]
<1>2. DOMAIN f = {} /\ DOMAIN g = {}
  OBVIOUS
<1> HIDE DEF f, g
<1>3. SumFunction(f) = 0 /\ SumFunction(g) = 0
  BY <1>2, SumEmpty
<1>4. Cardinality({}) = 0
  BY FS_EmptySet
<1>5. BoughtAt(<<>>, {}) = 0 /\ SoldAt(<<>>, {}) = 0
  BY <1>3 DEF BoughtAt, SoldAt, f, g
<1> DEFINE empty == <<>>
<1> HIDE DEF empty
<1>6. BoughtAt(empty, Within(empty, C)) = 0 /\ SoldAt(empty, Within(empty, C)) = 0
      /\ Cardinality(Within(empty, C)) = 0
  BY <1>1, <1>4, <1>5 DEF empty
<1>7. Traded(empty, C) = [buy |-> 0, sell |-> 0, delta |-> 0 - 0, count |-> 0]
  BY <1>6 DEF Traded
<1> QED BY <1>7 DEF NoVolume, empty

\* What VolumeAt says of the positions of a kind of trades.
LEMMA VolumeAtIs ==
  ASSUME NEW C, NEW S, S = Within(tape, C)
  PROVE  VolumeAt(S) = Traded(tape, C)
BY DEF VolumeAt, SumOver, Traded, BoughtAt, SoldAt

-----------------------------------------------------------------------------
(* Time. *)

\* What the engine prunes by is no later than the latest event.
Timely == EventTime <= latest

\* The steps without a trade or an update of the book.
Quiet ==
  \/ OnSnapshot \/ OnSynchronized \/ OnResyncStarted \/ OnConnectionLost
  \/ SendFrame \/ Finish \/ UNCHANGED vars

\* What is kept after an event was kept before it, and by the event's own time.
LEMMA CutoffMoves ==
  ASSUME NEW a \in Nat, NEW b \in Nat, a <= b
  PROVE  Cutoff(a) <= Cutoff(b) /\ Cutoff(a) \in Nat /\ Cutoff(b) \in Nat
<1> DEFINE r == RetentionMs
<1>1. r \in Nat
  BY Constants
<1> HIDE DEF r
<1>2. SatSub(a, r) <= SatSub(b, r) /\ SatSub(a, r) \in Nat /\ SatSub(b, r) \in Nat
  BY <1>1 DEF SatSub
<1> QED BY <1>2 DEF Cutoff, r

\* What a quiet step leaves of the parts that are pruned.
LEMMA QuietIs ==
  ASSUME Typed, Timely, Quiet
  PROVE  /\ UNCHANGED <<tape, changes, latest, absorption, detected>> /\ Timely'
         /\ flow' \in {flow, PruneFlow(flow, EventTime)}
         /\ clusters' \in {clusters, PruneClusters(clusters, EventTime)}
         /\ heatmap' \in {heatmap, PruneHeatmap(heatmap, EventTime)}
<1>1. CASE OnSnapshot \/ OnSynchronized \/ OnResyncStarted \/ OnConnectionLost
  <2>1. PruneRest(EventTime) /\ UNCHANGED <<tape, changes, latest, lastEvent, absorption, detected>>
    BY <1>1 DEF OnSnapshot, OnSynchronized, OnResyncStarted, OnConnectionLost, counters, history
  <2> QED BY <2>1 DEF PruneRest, Timely, EventTime
<1>2. CASE SendFrame \/ UNCHANGED vars
  BY <1>2 DEF SendFrame, vars, parts, counters, history, Timely, EventTime
<1>3. CASE Finish
  BY <1>3 DEF Finish, Timely, EventTime
<1> QED BY <1>1, <1>2, <1>3 DEF Quiet

\* Every step is an event of a feed or a quiet one.
LEMMA NextIs ==
  ASSUME Typed, [Next]_vars
  PROVE  \/ \E trade \in Trades : /\ ProcessTrade(trade) /\ Grown(tape', tape, trade)
                                  /\ latest' = Later(trade.ts) /\ changes' = changes
         \/ \E writes \in Seq(Writes), ts \in Nat :
              /\ ProcessUpdate(writes, ts) /\ changes' = changes \o UpdateList(writes, ts)
              /\ latest' = Later(ts) /\ tape' = tape
         \/ Quiet
<1>1. CASE OnTrade
  <2>1. PICK trade \in Trades : ProcessTrade(trade) /\ tape' = Append(tape, trade)
                                /\ latest' = Later(trade.ts)
    BY <1>1, OnTradeTyped
  <2>2. changes' = changes
    BY <1>1 DEF OnTrade
  <2>3. Grown(tape', tape, trade)
    BY <2>1 DEF Grown
  <2> QED BY <2>1, <2>2, <2>3
<1>2. CASE OnUpdate
  <2>1. PICK writes \in Seq(Writes), ts \in Nat :
          /\ ProcessUpdate(writes, ts) /\ changes' = changes \o UpdateList(writes, ts)
          /\ latest' = Later(ts)
    BY <1>2, OnUpdateTyped
  <2>2. tape' = tape
    BY <1>2 DEF OnUpdate
  <2> QED BY <2>1, <2>2
<1>3. CASE ~OnTrade /\ ~OnUpdate
  BY <1>3 DEF Next, Quiet
<1> QED BY <1>1, <1>2, <1>3

\* The times after an event.
LEMMA EventTimes ==
  ASSUME Typed, Timely, NEW ts \in Nat, lastEvent' = ts, latest' = Later(ts)
  PROVE  /\ Timely' /\ latest \in Nat /\ latest' \in Nat /\ ts <= latest' /\ latest <= latest'
         /\ Cutoff(latest) \in Nat /\ Cutoff(ts) \in Nat /\ Cutoff(latest') \in Nat
         /\ Cutoff(latest) <= Cutoff(latest') /\ Cutoff(ts) <= Cutoff(latest')
<1>1. latest \in Nat /\ latest' \in Nat /\ ts <= latest' /\ latest <= latest'
  BY TimeTypes DEF Typed
<1>2. Timely'
  BY <1>1 DEF Timely, EventTime, NoTime
<1> QED BY <1>1, <1>2, CutoffMoves

\* Times are right from the start.
LEMMA NextTimely ==
  /\ Init => Timely
  /\ Typed /\ Timely /\ [Next]_vars => Timely'
<1>1. Init => Timely
  BY DEF Init, Timely, EventTime
<1>2. ASSUME Typed, Timely, [Next]_vars PROVE Timely'
  <2>1. CASE \E trade \in Trades : /\ ProcessTrade(trade) /\ Grown(tape', tape, trade)
                                   /\ latest' = Later(trade.ts) /\ changes' = changes
    <3>1. PICK trade \in Trades : ProcessTrade(trade) /\ latest' = Later(trade.ts)
      BY <2>1
    <3>2. lastEvent' = trade.ts /\ trade.ts \in Nat
      BY <3>1 DEF ProcessTrade, Trades
    <3> QED BY <1>2, <3>1, <3>2, EventTimes
  <2>2. CASE \E writes \in Seq(Writes), ts \in Nat :
               /\ ProcessUpdate(writes, ts) /\ changes' = changes \o UpdateList(writes, ts)
               /\ latest' = Later(ts) /\ tape' = tape
    <3>1. PICK writes \in Seq(Writes), ts \in Nat : ProcessUpdate(writes, ts) /\ latest' = Later(ts)
      BY <2>2
    <3>2. lastEvent' = ts
      BY <3>1, ProcessUpdateIs
    <3> QED BY <1>2, <3>1, <3>2, EventTimes
  <2>3. CASE Quiet
    BY <1>2, <2>3, QuietIs
  <2> QED BY <1>2, <2>1, <2>2, <2>3, NextIs
<1> QED BY <1>1, <1>2

-----------------------------------------------------------------------------
(* The executed volume of the heatmap's cells. *)

\* The trades of a cell, and what a cell has of them.
InCell(k) == {t \in Trades : CellKey(t.ts, t.price) = k}
Executed(c) == [buy |-> c.buy, sell |-> c.sell, delta |-> c.delta, count |-> c.trades]

\* Every cell within retention has the volume of its trades.
CellsExact ==
  \A k \in CellKeys : k[1] >= Cutoff(latest) =>
    Executed(CellAt(heatmap, k)) = Traded(tape, InCell(k))

\* The first part of a cell's key is a time.
LEMMA KeyTime ==
  ASSUME NEW k \in CellKeys
  PROVE  k[1] \in Nat
BY DEF CellKeys

\* The changes of an update leave the executed volumes alone.
LEMMA UpdateKeepsVolume ==
  ASSUME Typed, NEW writes \in Seq(Writes), NEW ts \in Nat
  PROVE  \A k \in CellKeys :
           Executed(CellAt(HeatmapWithChanges(UpdateList(writes, ts)).cells, k))
             = Executed(CellAt(heatmap, k))
<1> DEFINE zero == [cells |-> heatmap, tracker |-> liquidity]
           list == UpdateList(writes, ts)
           T == {m \in Marks : \A k \in CellKeys : SameVolume(CellAt(heatmap, k), CellAt(m.cells, k))}
<1>1. heatmap \in ProperHeatmaps /\ liquidity \in LiquidityTrackers /\ list \in Seq(DatedChanges)
  BY HeatmapsAre, UpdateParts DEF Typed
<1> HIDE DEF list
<1>2. HeatmapWithChanges(list) = Marking!Fold(zero, list) /\ zero \in Marks
  BY <1>1, WithChangesType
<1>3. zero \in T
  BY <1>2 DEF SameVolume
<1>4. ASSUME NEW m \in T, NEW c \in DatedChanges PROVE MarkChange(m, c) \in T
  <2> DEFINE cells == CellChange(m.cells, c.change, c.at)
             next == MarkChange(m, c)
             key == CellKey(c.at, c.change.price)
  <2>1. /\ m \in Marks /\ ProperHeatmap(m.cells) /\ c.at \in Nat /\ c.change \in LevelChanges
        /\ \A k \in CellKeys : SameVolume(CellAt(heatmap, k), CellAt(m.cells, k))
    BY HeatmapsAre DEF Marks, DatedChanges
  <2>2. next \in Marks /\ Marked(cells, next.cells)
    BY <2>1, MarkChangeType
  <2>3. /\ \A k \in CellKeys \ {key} : CellAt(cells, k) = CellAt(m.cells, k)
        /\ SameVolume(CellAt(m.cells, key), CellAt(cells, key))
    BY <2>1, CellChangeIs
  <2> HIDE DEF cells, next, key
  <2>4. ASSUME NEW k \in CellKeys PROVE SameVolume(CellAt(heatmap, k), CellAt(next.cells, k))
    <3>1. SameVolume(CellAt(cells, k), CellAt(next.cells, k))
      BY <2>2 DEF Marked
    <3>2. SameVolume(CellAt(m.cells, k), CellAt(cells, k))
      BY <2>3 DEF SameVolume
    <3>3. SameVolume(CellAt(heatmap, k), CellAt(m.cells, k))
      BY <2>1
    <3> QED BY <3>1, <3>2, <3>3 DEF SameVolume
  <2> QED BY <2>2, <2>4 DEF next
<1> HIDE DEF zero
<1>5. Marking!Fold(zero, list) \in T
  <2> HIDE DEF T
  <2>1. \A m \in T : \A c \in DatedChanges : MarkChange(m, c) \in T
    BY <1>4
  <2> QED BY <1>1, <1>3, <2>1, Marking!FoldKeeps
<1>6. HeatmapWithChanges(list) \in T
  BY <1>2, <1>5 DEF zero
<1>7. \A k \in CellKeys : SameVolume(CellAt(heatmap, k), CellAt(HeatmapWithChanges(list).cells, k))
  BY <1>6
<1> QED BY <1>7 DEF SameVolume, Executed, list

\* A trade adds to its cell and to no other.
LEMMA TradeInCell ==
  ASSUME Typed, NEW trade \in Trades, NEW k \in CellKeys
  PROVE  LET c == CellAt(heatmap, k)
             d == CellAt(HeatmapWithTrade(trade), k)
         IN  /\ trade \in InCell(k) => Executed(d) = WithTrade(Executed(c), trade)
             /\ trade \notin InCell(k) => Executed(d) = Executed(c)
<1> DEFINE key == CellKey(trade.ts, trade.price)
           traded == CellTrade(heatmap, trade)
           c == CellAt(heatmap, k)
           e == CellAt(traded, k)
           d == CellAt(HeatmapWithTrade(trade), k)
           b == Bought(trade)
           s == Sold(trade)
<1>1. ProperHeatmap(heatmap)
  BY DEF Typed
<1>2. SameVolume(e, d)
  BY HeatmapWithTradeIs DEF Marked
<1>3. /\ key \in CellKeys
      /\ k # key => e = c
      /\ k = key => /\ e.buy = c.buy + b /\ e.sell = c.sell + s
                    /\ e.delta = c.delta + b - s /\ e.trades = c.trades + 1
  BY <1>1, CellTradeIs
<1>4. trade \in InCell(k) <=> k = key
  BY DEF InCell
<1> HIDE DEF key, traded, c, e, d
<1>5. CASE k = key
  <2> DEFINE buy == c.buy + b
             sell == c.sell + s
             delta == c.delta + b - s
             count == c.trades + 1
  <2>1. d.buy = buy /\ d.sell = sell /\ d.delta = delta /\ d.trades = count
    BY <1>2, <1>3, <1>5 DEF SameVolume
  <2>2. WithTrade(Executed(c), trade)
          = [Executed(c) EXCEPT !.buy = @ + b, !.sell = @ + s, !.delta = @ + b - s, !.count = @ + 1]
    BY DEF WithTrade
  <2> HIDE DEF b, s
  <2>3. WithTrade(Executed(c), trade) = [buy |-> buy, sell |-> sell, delta |-> delta, count |-> count]
    BY <2>2 DEF Executed
  <2> QED BY <1>4, <1>5, <2>1, <2>3 DEF Executed, c, d
<1>6. CASE k # key
  BY <1>2, <1>3, <1>4, <1>6 DEF SameVolume, Executed, c, d
<1> QED BY <1>5, <1>6

\* Every step keeps the cells exact.
LEMMA NextCells ==
  ASSUME Typed, Timely, CellsExact, [Next]_vars
  PROVE  CellsExact'
<1>1. ProperHeatmap(heatmap) /\ latest \in Nat
  BY DEF Typed
<1>2. CASE \E trade \in Trades : /\ ProcessTrade(trade) /\ Grown(tape', tape, trade)
                                 /\ latest' = Later(trade.ts) /\ changes' = changes
  <2>1. PICK trade \in Trades : /\ ProcessTrade(trade) /\ Grown(tape', tape, trade)
                                /\ latest' = Later(trade.ts)
    BY <1>2
  <2> DEFINE ts == trade.ts
             cells == HeatmapWithTrade(trade)
  <2>2. lastEvent' = ts /\ heatmap' = PruneHeatmap(cells, ts) /\ ts \in Nat /\ latest' = Later(ts)
    BY <2>1 DEF ProcessTrade, Trades
  <2>3. ProperHeatmap(cells)
    BY HeatmapWithTradeIs DEF Marked
  <2> HIDE DEF ts
  <2>4. /\ latest \in Nat /\ latest' \in Nat
        /\ Cutoff(latest) \in Nat /\ Cutoff(ts) \in Nat /\ Cutoff(latest') \in Nat
        /\ Cutoff(latest) <= Cutoff(latest') /\ Cutoff(ts) <= Cutoff(latest')
    BY <2>2, EventTimes
  <2>5. ASSUME NEW k \in CellKeys, k[1] >= Cutoff(latest')
        PROVE  Executed(CellAt(heatmap', k)) = Traded(tape', InCell(k))
    <3>1. k[1] >= Cutoff(latest) /\ ~(k[1] < Cutoff(ts))
      BY <2>4, <2>5, KeyTime
    <3>2. Executed(CellAt(heatmap, k)) = Traded(tape, InCell(k))
      BY <3>1 DEF CellsExact
    <3>3. CellAt(heatmap', k) = CellAt(cells, k)
      BY <2>2, <2>3, <3>1, PruneHeatmapIs
    <3>4. /\ trade \in InCell(k) => Traded(tape', InCell(k)) = WithTrade(Traded(tape, InCell(k)), trade)
          /\ trade \notin InCell(k) => Traded(tape', InCell(k)) = Traded(tape, InCell(k))
      <4>1. tape \in Seq(Trades)
        BY DEF Typed
      <4> QED BY <2>1, <4>1, TradedGrows
    <3>5. /\ trade \in InCell(k)
               => Executed(CellAt(cells, k)) = WithTrade(Executed(CellAt(heatmap, k)), trade)
          /\ trade \notin InCell(k) => Executed(CellAt(cells, k)) = Executed(CellAt(heatmap, k))
      BY TradeInCell
    <3> QED BY <3>2, <3>3, <3>4, <3>5
  <2> QED BY <2>5 DEF CellsExact
<1>3. CASE \E writes \in Seq(Writes), ts \in Nat :
             /\ ProcessUpdate(writes, ts) /\ changes' = changes \o UpdateList(writes, ts)
             /\ latest' = Later(ts) /\ tape' = tape
  <2>1. PICK writes \in Seq(Writes), ts \in Nat :
          ProcessUpdate(writes, ts) /\ latest' = Later(ts) /\ tape' = tape
    BY <1>3
  <2> DEFINE cells == HeatmapWithChanges(UpdateList(writes, ts)).cells
  <2>2. lastEvent' = ts /\ heatmap' = PruneHeatmap(cells, ts)
    BY <2>1, ProcessUpdateIs
  <2>3. ProperHeatmap(cells)
    BY UpdateParts
  <2>4. /\ latest \in Nat /\ latest' \in Nat
        /\ Cutoff(latest) \in Nat /\ Cutoff(ts) \in Nat /\ Cutoff(latest') \in Nat
        /\ Cutoff(latest) <= Cutoff(latest') /\ Cutoff(ts) <= Cutoff(latest')
    BY <2>1, <2>2, EventTimes
  <2>5. \A k \in CellKeys : Executed(CellAt(cells, k)) = Executed(CellAt(heatmap, k))
    BY UpdateKeepsVolume
  <2> HIDE DEF cells
  <2>6. ASSUME NEW k \in CellKeys, k[1] >= Cutoff(latest')
        PROVE  Executed(CellAt(heatmap', k)) = Traded(tape', InCell(k))
    <3>1. k[1] >= Cutoff(latest) /\ ~(k[1] < Cutoff(ts))
      BY <2>4, <2>6, KeyTime
    <3>2. Executed(CellAt(heatmap, k)) = Traded(tape, InCell(k))
      BY <3>1 DEF CellsExact
    <3>3. CellAt(heatmap', k) = CellAt(cells, k)
      BY <2>2, <2>3, <3>1, PruneHeatmapIs
    <3> QED BY <2>1, <2>5, <3>2, <3>3
  <2> QED BY <2>6 DEF CellsExact
<1>4. CASE Quiet
  <2>1. /\ tape' = tape /\ latest' = latest
        /\ heatmap' \in {heatmap, PruneHeatmap(heatmap, EventTime)}
    BY <1>4, QuietIs
  <2>2. EventTime \in Nat /\ Cutoff(EventTime) <= Cutoff(latest)
        /\ Cutoff(EventTime) \in Nat /\ Cutoff(latest) \in Nat
    BY <1>1, TimeTypes, CutoffMoves DEF Timely
  <2>3. ASSUME NEW k \in CellKeys, k[1] >= Cutoff(latest)
        PROVE  CellAt(heatmap', k) = CellAt(heatmap, k)
    <3>1. ~(k[1] < Cutoff(EventTime))
      BY <2>2, <2>3, KeyTime
    <3> QED BY <1>1, <2>1, <3>1, PruneHeatmapIs
  <2> QED BY <2>1, <2>3 DEF CellsExact
<1> QED BY <1>2, <1>3, <1>4, NextIs

\* The executed volume of every cell within retention is that of its trades on the tape
\* (heatmap.rs, on_trade and prune).
THEOREM CellsAreExact == Spec => []CellsMatchTape
<1>1. Init => Typed /\ Timely /\ CellsExact
  <2> SUFFICES ASSUME Init PROVE Typed /\ Timely /\ CellsExact
    OBVIOUS
  <2>1. \A k \in CellKeys : CellAt(heatmap, k) = EmptyCell
    BY DEF Init, NewHeatmap, CellAt
  <2>2. Executed(EmptyCell) = NoVolume
    BY DEF Executed, EmptyCell, NoVolume
  <2>3. \A k \in CellKeys : Traded(tape, InCell(k)) = NoVolume
    BY TradedNothing DEF Init
  <2> QED BY <2>1, <2>2, <2>3, InitTyped, NextTimely DEF CellsExact
<1>2. Typed /\ Timely /\ CellsExact /\ [Next]_vars => Typed' /\ Timely' /\ CellsExact'
  BY NextTyped, NextTimely, NextCells
<1>3. Typed /\ CellsExact => CellsMatchTape
  <2> SUFFICES ASSUME Typed, CellsExact,
                      NEW k \in DOMAIN heatmap \cup {CellKey(t.ts, t.price) : t \in ToSet(tape)},
                      k[1] >= Cutoff(latest)
               PROVE  LET cell == CellAt(heatmap, k)
                          volume == VolumeAt({i \in DOMAIN tape : CellKey(tape[i].ts, tape[i].price) = k})
                      IN  /\ cell.buy = volume.buy /\ cell.sell = volume.sell
                          /\ cell.delta = volume.delta /\ cell.trades = volume.count
    BY DEF CellsMatchTape
  <2> DEFINE S == {i \in DOMAIN tape : CellKey(tape[i].ts, tape[i].price) = k}
  <2>1. \A i \in DOMAIN tape : tape[i] \in Trades
    BY LenProperties, ElementOfSeq DEF Typed
  <2>2. k \in CellKeys
    <3>1. CASE k \in DOMAIN heatmap
      BY <3>1 DEF Typed, ProperHeatmap, IsHeatmap, CellKeys
    <3>2. CASE k \notin DOMAIN heatmap
      <4>1. PICK t \in ToSet(tape) : k = CellKey(t.ts, t.price)
        BY <3>2
      <4>2. t.ts \in Nat /\ t.price \in Prices
        BY <2>1 DEF ToSet, Trades
      <4> QED BY <4>1, <4>2, CellKeyType
    <3> QED BY <3>1, <3>2
  <2>3. S = Within(tape, InCell(k))
    BY <2>1 DEF Within, InCell
  <2> HIDE DEF S
  <2>4. VolumeAt(S) = Traded(tape, InCell(k))
    BY <2>3, VolumeAtIs
  <2>5. Executed(CellAt(heatmap, k)) = Traded(tape, InCell(k))
    BY <2>2 DEF CellsExact
  <2> QED BY <2>4, <2>5 DEF Executed, S
<1> QED BY <1>1, <1>2, <1>3, PTL DEF Spec

-----------------------------------------------------------------------------
(* Changes of levels, one after the other. *)

\* A list of changes with one more.
LEMMA ChangesGrow ==
  ASSUME NEW h \in Seq(DatedChanges), NEW e \in DatedChanges, NEW g, Grown(g, h, e), NEW C
  PROVE  /\ g \in Seq(DatedChanges) /\ Len(g) \in Nat \ {0}
         /\ IsFiniteSet(Within(h, C)) /\ Within(h, C) \subseteq 1 .. Len(g) - 1
         /\ e \in C => Within(g, C) = Within(h, C) \cup {Len(g)}
         /\ e \notin C => Within(g, C) = Within(h, C)
         /\ g[Len(g)] = e
         /\ \A i \in Within(h, C) : g[i] = h[i]
<1>1. /\ g \in Seq(DatedChanges) /\ Len(g) = Len(h) + 1 /\ g[Len(h) + 1] = e
      /\ \A i \in 1..Len(h) : g[i] = h[i]
  BY AppendProperties DEF Grown
<1>2. Len(h) \in Nat /\ DOMAIN h = 1..Len(h) /\ DOMAIN g = 1..Len(g)
  BY <1>1, LenProperties
<1> DEFINE n == Len(h)
<1>3. n \in Nat => /\ 1..n + 1 = (1..n) \cup {n + 1} /\ n + 1 \notin 1..n
                   /\ n + 1 \in Nat \ {0} /\ n + 1 - 1 = n
  <2> HIDE DEF n
  <2> QED OBVIOUS
<1>4. DOMAIN g = DOMAIN h \cup {Len(g)} /\ Len(g) \notin DOMAIN h /\ g[Len(g)] = e
      /\ Len(g) \in Nat \ {0} /\ Len(g) - 1 = n
  BY <1>1, <1>2, <1>3
<1>5. Within(h, C) \subseteq DOMAIN h
  BY DEF Within
<1>6. IsFiniteSet(Within(h, C))
  <2>1. IsFiniteSet(1..n)
    BY <1>2, FS_Interval
  <2> QED BY <1>2, <1>5, <2>1, FS_Subset
<1>7. /\ e \in C => Within(g, C) = Within(h, C) \cup {Len(g)}
      /\ e \notin C => Within(g, C) = Within(h, C)
  BY <1>1, <1>2, <1>4 DEF Within
<1>8. Within(h, C) \subseteq 1 .. Len(g) - 1
  BY <1>2, <1>4, <1>5
<1>9. \A i \in Within(h, C) : g[i] = h[i]
  BY <1>1, <1>2, <1>5
<1> QED BY <1>1, <1>4, <1>6, <1>7, <1>8, <1>9

\* The reported changes with those of an update, one more of them, and none.
LEMMA ChangesWith ==
  ASSUME Typed, NEW s \in Seq(DatedChanges), NEW e \in DatedChanges
  PROVE  /\ changes \o s \in Seq(DatedChanges)
         /\ Grown(changes \o Append(s, e), changes \o s, e)
         /\ changes \o <<>> = changes
<1>1. changes \in Seq(DatedChanges) /\ <<e>> \in Seq(DatedChanges)
  BY DEF Typed
<1>2. Append(s, e) = s \o <<e>>
  BY AppendIsConcat
<1>3. (changes \o s) \o <<e>> = changes \o (s \o <<e>>)
  BY <1>1, ConcatAssociative
<1>4. changes \o s \in Seq(DatedChanges) /\ changes \o <<>> = changes
  BY <1>1, ConcatProperties, ConcatEmptySeq
<1> DEFINE all == changes \o s
<1>5. Append(all, e) = all \o <<e>>
  <2>1. all \in Seq(DatedChanges)
    BY <1>4
  <2> HIDE DEF all
  <2> QED BY <2>1, AppendIsConcat
<1> QED BY <1>2, <1>3, <1>4, <1>5 DEF Grown

-----------------------------------------------------------------------------
(* Replenishments and decreases. *)

\* How many decreases wait, and how many there were.
Waits(t) == [k \in Keys |-> Len(t.decreases[k])]
Waiting(t) == SumFunction(Waits(t))
Decreasing == {c \in DatedChanges : IsDecrease(c.change)}
Decreases(list) == Cardinality(Within(list, Decreasing))

\* The numbers of decreases that wait are natural numbers.
LEMMA WaitsType ==
  ASSUME NEW t \in LiquidityTrackers
  PROVE  Waits(t) \in [Keys -> Nat] /\ Waits(t) \in [Keys -> Int] /\ Waiting(t) \in Nat
<1>1. \A k \in Keys : t.decreases[k] \in Seq(Nat)
  BY DEF LiquidityTrackers
<1>2. \A k \in Keys : Len(t.decreases[k]) \in Nat
  BY <1>1, LenProperties
<1>3. Waits(t) \in [Keys -> Nat] /\ Waits(t) \in [Keys -> Int]
  BY <1>2 DEF Waits
<1> QED BY <1>3, KeysFinite, SumNat DEF Waiting

\* Fewer decreases wait after fewer wait at each level.
LEMMA WaitsLess ==
  ASSUME NEW t \in LiquidityTrackers, NEW u \in LiquidityTrackers,
         \A k \in Keys : Len(u.decreases[k]) <= Len(t.decreases[k])
  PROVE  Waiting(u) <= Waiting(t)
<1>1. Waits(t) \in [Keys -> Int]
  BY WaitsType
<1>2. Waits(u) \in [Keys -> Int]
  BY WaitsType
<1>3. \A k \in Keys : Waits(u)[k] <= Waits(t)[k]
  BY DEF Waits
<1> QED BY <1>1, <1>2, <1>3, KeysFinite, SumLeq DEF Waiting

\* A change that replenishes takes a decrease that waited; one that decreases adds one.
LEMMA ChangeWaits ==
  ASSUME NEW t \in LiquidityTrackers, NEW c \in LevelChanges, NEW at \in Nat
  PROVE  LET u == LiquidityChange(t, c, at)
         IN  u.replenished + Waiting(u) = t.replenished + Waiting(t) + OneIf(IsDecrease(c))
<1> DEFINE u == LiquidityChange(t, c, at)
           k == KeyOf(c)
           one == OneIf(IsDecrease(c))
           f == Waits(t)
           g == Waits(u)
<1>1. /\ u \in LiquidityTrackers /\ k \in Keys
      /\ \A j \in Keys \ {k} : u.decreases[j] = t.decreases[j]
      /\ u.replenished + Len(u.decreases[k]) = t.replenished + Len(t.decreases[k]) + one
  BY LiquidityChangeIs
<1>2. one \in Nat
  BY DEF OneIf
<1> HIDE DEF u, k, one
<1>3. f \in [Keys -> Int]
  BY WaitsType
<1>4. g \in [Keys -> Int]
  BY <1>1, WaitsType
<1>5. \A j \in Keys \ {k} : g[j] = f[j]
  BY <1>1 DEF Waits
<1>6. g[k] = Len(u.decreases[k]) /\ f[k] = Len(t.decreases[k])
  BY <1>1 DEF Waits
<1> HIDE DEF f, g
<1>7. SumFunction(g) = SumFunction(f) + g[k] - f[k] /\ SumFunction(f) \in Int
  BY <1>1, <1>3, <1>4, <1>5, KeysFinite, SumChanges
<1>8. u.replenished \in Nat /\ t.replenished \in Nat /\ g[k] \in Int /\ f[k] \in Int
  BY <1>1, <1>3, <1>4 DEF LiquidityTrackers
<1> DEFINE ur == u.replenished
           tr == t.replenished
           gk == g[k]
           fk == f[k]
           sg == SumFunction(g)
           sf == SumFunction(f)
<1>9. /\ ur \in Nat /\ tr \in Nat /\ gk \in Int /\ fk \in Int /\ sf \in Int
      /\ ur + gk = tr + fk + one /\ sg = sf + gk - fk
  BY <1>1, <1>6, <1>7, <1>8
<1> HIDE DEF ur, tr, gk, fk, sg, sf
<1>10. ur + sg = tr + sf + one
  BY <1>2, <1>9
<1> QED BY <1>10 DEF ur, tr, sg, sf, f, g, Waiting, u, one

\* The tracker of an update's changes has evidence for what it counts.
LEMMA UpdateWaits ==
  ASSUME Typed, NEW writes \in Seq(Writes), NEW ts \in Nat,
         liquidity.replenished + Waiting(liquidity) <= Decreases(changes)
  PROVE  LET u == HeatmapWithChanges(UpdateList(writes, ts)).tracker
         IN  u.replenished + Waiting(u) <= Decreases(changes \o UpdateList(writes, ts))
<1> DEFINE zero == [cells |-> heatmap, tracker |-> liquidity]
           list == UpdateList(writes, ts)
           Enough(s, m) == m.tracker.replenished + Waiting(m.tracker) <= Decreases(changes \o s)
           T == {p \in Seq(DatedChanges) \X Marks : Enough(p[1], p[2])}
<1>1. heatmap \in ProperHeatmaps /\ liquidity \in LiquidityTrackers /\ list \in Seq(DatedChanges)
      /\ changes \in Seq(DatedChanges)
  BY HeatmapsAre, UpdateParts DEF Typed
<1> HIDE DEF list
<1>2. HeatmapWithChanges(list) = Marking!Fold(zero, list) /\ zero \in Marks
      /\ zero.tracker = liquidity
  BY <1>1, WithChangesType
<1> HIDE DEF zero
<1>3. <<<<>>, zero>> \in T
  <2>1. changes \o <<>> = changes
    BY <1>1, ConcatEmptySeq
  <2>2. <<>> \in Seq(DatedChanges)
    BY EmptySeq
  <2> QED BY <1>2, <2>1, <2>2
<1>4. ASSUME NEW s \in Seq(DatedChanges), NEW m, NEW e \in DatedChanges, <<s, m>> \in T
      PROVE  <<Append(s, e), MarkChange(m, e)>> \in T
  <2> DEFINE next == MarkChange(m, e)
             h == changes \o s
             g == changes \o Append(s, e)
             c == e.change
             one == OneIf(IsDecrease(c))
             t == m.tracker
             u == next.tracker
  <2>1. m \in Marks /\ Enough(s, m) /\ t \in LiquidityTrackers /\ e.at \in Nat /\ c \in LevelChanges
    BY <1>4 DEF Marks, DatedChanges
  <2>2. next \in Marks /\ u = LiquidityChange(t, c, e.at)
    BY <2>1, MarkChangeType
  <2>3. u.replenished + Waiting(u) = t.replenished + Waiting(t) + one
    BY <2>1, <2>2, ChangeWaits
  <2>4. Append(s, e) \in Seq(DatedChanges)
    BY AppendProperties
  <2>5. h \in Seq(DatedChanges) /\ Grown(g, h, e)
    BY ChangesWith
  <2>6. t.replenished + Waiting(t) <= Decreases(h)
    BY <2>1
  <2> HIDE DEF h, g
  <2>7. Decreases(g) = Decreases(h) + one /\ Decreases(h) \in Nat /\ one \in Nat
    <3>1. /\ IsFiniteSet(Within(h, Decreasing)) /\ Within(h, Decreasing) \subseteq 1 .. Len(g) - 1
          /\ e \in Decreasing => Within(g, Decreasing) = Within(h, Decreasing) \cup {Len(g)}
          /\ e \notin Decreasing => Within(g, Decreasing) = Within(h, Decreasing)
          /\ Len(g) \in Nat \ {0}
      BY <2>5, ChangesGrow
    <3>2. Decreases(h) \in Nat
      BY <3>1, FS_CardinalityType DEF Decreases
    <3>3. CASE IsDecrease(c)
      <4>1. one = 1 /\ e \in Decreasing
        BY <3>3 DEF OneIf, Decreasing
      <4>2. Len(g) \notin Within(h, Decreasing)
        BY <3>1
      <4>3. Cardinality(Within(h, Decreasing) \cup {Len(g)}) = Cardinality(Within(h, Decreasing)) + 1
        BY <3>1, <4>2, FS_AddElement
      <4>4. Within(g, Decreasing) = Within(h, Decreasing) \cup {Len(g)}
        BY <3>1, <4>1
      <4>5. Decreases(g) = Decreases(h) + 1
        BY <4>3, <4>4 DEF Decreases
      <4> HIDE DEF one
      <4> QED BY <3>2, <4>1, <4>5
    <3>4. CASE ~IsDecrease(c)
      <4>1. one = 0 /\ e \notin Decreasing
        BY <3>4 DEF OneIf, Decreasing
      <4> QED BY <3>1, <3>2, <4>1 DEF Decreases
    <3> QED BY <3>3, <3>4
  <2> HIDE DEF one
  <2>8. u.replenished + Waiting(u) <= Decreases(g)
    <3> DEFINE a == t.replenished + Waiting(t)
               d == Decreases(h)
    <3>1. a \in Nat
      BY <2>1, WaitsType DEF LiquidityTrackers
    <3>2. d \in Nat /\ one \in Nat /\ a <= d
      BY <2>6, <2>7
    <3>3. u.replenished + Waiting(u) = a + one /\ Decreases(g) = d + one
      BY <2>3, <2>7
    <3> HIDE DEF a, d
    <3> QED BY <3>1, <3>2, <3>3
  <2> QED BY <2>2, <2>4, <2>8 DEF g
<1>5. <<list, Marking!Fold(zero, list)>> \in T
  <2> HIDE DEF T
  <2>1. \A s \in Seq(DatedChanges) : \A m : \A e \in DatedChanges :
          <<s, m>> \in T => <<Append(s, e), MarkChange(m, e)>> \in T
    BY <1>4
  <2> QED BY <1>1, <1>3, <2>1, Marking!FoldRelates
<1>6. Enough(list, HeatmapWithChanges(list))
  <2>1. <<list, HeatmapWithChanges(list)>> \in T
    BY <1>2, <1>5
  <2> QED BY <2>1
<1> QED BY <1>6 DEF list

\* Pruning, resets and clears let no decrease wait that did not.
LEMMA ResetsWait ==
  ASSUME NEW t \in LiquidityTrackers
  PROVE  /\ \A now \in Nat : /\ PruneLiquidity(t, now).replenished = t.replenished
                             /\ Waiting(PruneLiquidity(t, now)) <= Waiting(t)
         /\ ResetInterval(t).replenished = t.replenished /\ Waiting(ResetInterval(t)) = Waiting(t)
         /\ Clear(t).replenished = t.replenished /\ Waiting(Clear(t)) <= Waiting(t)
<1>1. /\ ResetInterval(t).decreases = t.decreases /\ ResetInterval(t).replenished = t.replenished
      /\ Clear(t) \in LiquidityTrackers /\ Clear(t).replenished = t.replenished
      /\ \A k \in Keys : Clear(t).decreases[k] = <<>>
  BY ResetsAre
<1>2. \A k \in Keys : Len(t.decreases[k]) \in Nat
  <2>1. \A k \in Keys : t.decreases[k] \in Seq(Nat)
    BY DEF LiquidityTrackers
  <2> QED BY <2>1, LenProperties
<1>3. Waiting(ResetInterval(t)) = Waiting(t)
  BY <1>1 DEF Waiting, Waits
<1>4. Waiting(Clear(t)) <= Waiting(t)
  <2>1. Len(<<>>) = 0
    BY EmptySeq
  <2>2. \A k \in Keys : Len(Clear(t).decreases[k]) <= Len(t.decreases[k])
    BY <1>1, <1>2, <2>1
  <2> QED BY <1>1, <2>2, WaitsLess
<1>5. ASSUME NEW now \in Nat
      PROVE  /\ PruneLiquidity(t, now).replenished = t.replenished
             /\ Waiting(PruneLiquidity(t, now)) <= Waiting(t)
  <2> DEFINE u == PruneLiquidity(t, now)
  <2>1. /\ u \in LiquidityTrackers /\ u.replenished = t.replenished
        /\ \A k \in Keys : Len(u.decreases[k]) <= Len(t.decreases[k])
    BY PruneLiquidityIs
  <2> HIDE DEF u
  <2>2. Waiting(u) <= Waiting(t)
    BY <2>1, WaitsLess
  <2> QED BY <2>1, <2>2 DEF u
<1> QED BY <1>1, <1>3, <1>4, <1>5

\* A tracker with evidence has it after it was pruned, reset or cleared.
LEMMA StillWaits ==
  ASSUME NEW t \in LiquidityTrackers, NEW n \in Nat, t.replenished + Waiting(t) <= n,
         NEW now \in Nat,
         NEW u \in {t, PruneLiquidity(t, now), PruneLiquidity(ResetInterval(t), now),
                    PruneLiquidity(Clear(t), now), ResetInterval(t)}
  PROVE  u.replenished + Waiting(u) <= n
<1> DEFINE Fewer(a, b) == a.replenished = b.replenished /\ Waiting(a) <= Waiting(b)
<1>1. \A a \in LiquidityTrackers : Waiting(a) \in Nat /\ a.replenished \in Nat
  BY WaitsType DEF LiquidityTrackers
<1>2. ResetInterval(t) \in LiquidityTrackers /\ Clear(t) \in LiquidityTrackers
  BY ResetsAre
<1>3. \A a \in LiquidityTrackers : PruneLiquidity(a, now) \in LiquidityTrackers
                                   /\ Fewer(PruneLiquidity(a, now), a)
  BY PruneLiquidityIs, ResetsWait
<1>4. Fewer(ResetInterval(t), t) /\ Fewer(Clear(t), t)
  BY <1>1, <1>2, ResetsWait
<1>5. u \in LiquidityTrackers /\ Fewer(u, t)
  <2>1. CASE u = t
    BY <1>1, <2>1
  <2>2. CASE u = PruneLiquidity(t, now)
    BY <1>3, <2>2
  <2>3. CASE u = PruneLiquidity(ResetInterval(t), now)
    BY <1>1, <1>2, <1>3, <1>4, <2>3
  <2>4. CASE u = PruneLiquidity(Clear(t), now)
    BY <1>1, <1>2, <1>3, <1>4, <2>4
  <2>5. CASE u = ResetInterval(t)
    BY <1>2, <1>4, <2>5
  <2> QED BY <2>1, <2>2, <2>3, <2>4, <2>5
<1> DEFINE w == Waiting(u)
           v == Waiting(t)
           ur == u.replenished
           tr == t.replenished
<1>6. w \in Nat /\ v \in Nat /\ tr \in Nat /\ ur = tr /\ w <= v /\ tr + v <= n
  BY <1>1, <1>5
<1> HIDE DEF w, v, ur, tr
<1>7. ur + w <= n
  BY <1>6
<1> QED BY <1>7 DEF ur, w

\* The evidence of the tracker.
Evident == liquidity.replenished + Waiting(liquidity) <= Decreases(changes)

\* The number of decreases is a natural number.
LEMMA DecreasesType ==
  ASSUME NEW h \in Seq(DatedChanges)
  PROVE  Decreases(h) \in Nat
<1>1. DOMAIN h = 1..Len(h) /\ Len(h) \in Nat
  BY LenProperties
<1>2. IsFiniteSet(1..Len(h)) /\ Within(h, Decreasing) \subseteq 1..Len(h)
  BY <1>1, FS_Interval DEF Within
<1>3. IsFiniteSet(Within(h, Decreasing))
  BY <1>2, FS_Subset
<1> QED BY <1>3, FS_CardinalityType DEF Decreases

\* What a trade's or an update's end makes of the tracker.
LEMMA FinalizeIs ==
  ASSUME NEW ts, NEW count, NEW levels, NEW tracker, NEW crossed,
         MaybeFinalize(ts, count, levels, tracker, crossed)
  PROVE  liquidity' \in {PruneLiquidity(tracker, ts), PruneLiquidity(ResetInterval(tracker), ts)}
BY DEF MaybeFinalize, Emit

\* Every step leaves evidence of the replenishments.
LEMMA NextEvident ==
  ASSUME Typed, Evident, [Next]_vars
  PROVE  Evident'
<1>1. /\ liquidity \in LiquidityTrackers /\ EventTime \in Nat /\ Decreases(changes) \in Nat
      /\ changes \in Seq(DatedChanges)
  BY TimeTypes, DecreasesType DEF Typed
<1>2. CASE \E trade \in Trades : /\ ProcessTrade(trade) /\ Grown(tape', tape, trade)
                                 /\ latest' = Later(trade.ts) /\ changes' = changes
  <2>1. PICK trade \in Trades : ProcessTrade(trade) /\ changes' = changes
    BY <1>2
  <2>2. /\ MaybeFinalize(trade.ts, CountedTrade(trade), book.levels, liquidity, bookCrossed)
        /\ trade.ts \in Nat
    BY <2>1 DEF ProcessTrade, Trades
  <2>3. liquidity' \in {PruneLiquidity(liquidity, trade.ts),
                        PruneLiquidity(ResetInterval(liquidity), trade.ts)}
    BY <2>2, FinalizeIs
  <2> DEFINE n == Decreases(changes)
             u == liquidity'
             now == trade.ts
  <2>4. liquidity.replenished + Waiting(liquidity) <= n
    BY DEF Evident
  <2>5. u \in {liquidity, PruneLiquidity(liquidity, now), PruneLiquidity(ResetInterval(liquidity), now),
               PruneLiquidity(Clear(liquidity), now), ResetInterval(liquidity)}
    BY <2>3
  <2>6. n \in Nat /\ now \in Nat
    BY <1>1, <2>2
  <2> HIDE DEF n, u, now
  <2>7. u.replenished + Waiting(u) <= n
    BY <1>1, <2>4, <2>5, <2>6, StillWaits
  <2> QED BY <2>1, <2>7 DEF Evident, n, u
<1>3. CASE \E writes \in Seq(Writes), ts \in Nat :
             /\ ProcessUpdate(writes, ts) /\ changes' = changes \o UpdateList(writes, ts)
             /\ latest' = Later(ts) /\ tape' = tape
  <2>1. PICK writes \in Seq(Writes), ts \in Nat :
          ProcessUpdate(writes, ts) /\ changes' = changes \o UpdateList(writes, ts)
    BY <1>3
  <2> DEFINE updated == ApplyUpdate(book, writes)
             t == HeatmapWithChanges(UpdateList(writes, ts)).tracker
             n == Decreases(changes')
             u == liquidity'
  <2>2. MaybeFinalize(ts, CountedUpdate(writes, ts), updated.levels, t, IsCrossed(updated))
    BY <2>1, ProcessUpdateIs
  <2>3. t \in LiquidityTrackers /\ UpdateList(writes, ts) \in Seq(DatedChanges)
    BY UpdateParts
  <2>4. t.replenished + Waiting(t) <= n
    BY <2>1, UpdateWaits DEF Evident
  <2>5. n \in Nat
    <3> DEFINE s == UpdateList(writes, ts)
    <3>1. s \in Seq(DatedChanges)
      BY <2>3
    <3> HIDE DEF s
    <3>2. changes \o s \in Seq(DatedChanges)
      BY <1>1, <3>1, ConcatProperties
    <3> QED BY <2>1, <3>2, DecreasesType DEF s
  <2> HIDE DEF updated, t, n
  <2>6. u \in {t, PruneLiquidity(t, ts), PruneLiquidity(ResetInterval(t), ts),
               PruneLiquidity(Clear(t), ts), ResetInterval(t)}
    BY <2>2, FinalizeIs
  <2> HIDE DEF u
  <2>7. u.replenished + Waiting(u) <= n
    BY <2>3, <2>4, <2>5, <2>6, StillWaits
  <2> QED BY <2>7 DEF Evident, n, u
<1>4. CASE Quiet
  <2> DEFINE n == Decreases(changes)
             u == liquidity'
             now == EventTime
  <2>1. changes' = changes
        /\ u \in {liquidity, PruneLiquidity(liquidity, now),
                  PruneLiquidity(ResetInterval(liquidity), now),
                  PruneLiquidity(Clear(liquidity), now), ResetInterval(liquidity)}
    <3>1. CASE OnSnapshot \/ OnSynchronized \/ OnResyncStarted \/ OnConnectionLost
      BY <3>1 DEF OnSnapshot, OnSynchronized, OnResyncStarted, OnConnectionLost, history
    <3>2. CASE SendFrame \/ UNCHANGED vars
      BY <3>2 DEF SendFrame, vars, parts, history
    <3>3. CASE Finish
      BY <3>3 DEF Finish
    <3> QED BY <1>4, <3>1, <3>2, <3>3 DEF Quiet
  <2>2. liquidity.replenished + Waiting(liquidity) <= n
    BY DEF Evident
  <2>3. n \in Nat /\ now \in Nat
    BY <1>1
  <2> HIDE DEF n, u, now
  <2>4. u.replenished + Waiting(u) <= n
    BY <1>1, <2>1, <2>2, <2>3, StillWaits
  <2> QED BY <2>1, <2>4 DEF Evident, n, u
<1> QED BY <1>2, <1>3, <1>4, NextIs

\* Every replenishment replenishes a decrease of its own: with those that still wait, they are no
\* more than the decreases there were (liquidity.rs, on_level_change).
THEOREM ReplenishmentsAreEvident == Spec => []ReplenishmentEvidence
<1>1. Init => Typed /\ Evident
  <2> SUFFICES ASSUME Init PROVE Typed /\ Evident
    OBVIOUS
  <2>1. Typed /\ liquidity = NewLiquidity /\ changes \in Seq(DatedChanges)
    BY InitTyped DEF Init, Typed
  <2>2. NewLiquidity.replenished = 0 /\ \A k \in Keys : NewLiquidity.decreases[k] = <<>>
    BY DEF NewLiquidity
  <2>3. Waiting(NewLiquidity) = 0
    <3> DEFINE f == Waits(NewLiquidity)
    <3>1. Len(<<>>) = 0
      BY EmptySeq
    <3>2. f \in [Keys -> Int] /\ \A k \in Keys : f[k] = 0
      BY <2>2, <3>1 DEF Waits
    <3> HIDE DEF f
    <3> QED BY <3>2, KeysFinite, SumZeros DEF Waiting, f
  <2>4. Decreases(changes) \in Nat
    BY <2>1, DecreasesType
  <2> QED BY <2>1, <2>2, <2>3, <2>4 DEF Evident
<1>2. Typed /\ Evident /\ [Next]_vars => Typed' /\ Evident'
  BY NextTyped, NextEvident
<1>3. Typed /\ Evident => ReplenishmentEvidence
  <2> SUFFICES ASSUME Typed, Evident PROVE ReplenishmentEvidence
    OBVIOUS
  <2>1. SumOver(Keys, LAMBDA k : Len(liquidity.decreases[k])) = Waiting(liquidity)
    BY DEF SumOver, Waiting, Waits
  <2>2. {i \in DOMAIN changes : IsDecrease(changes[i].change)} = Within(changes, Decreasing)
    <3>1. \A i \in DOMAIN changes : changes[i] \in DatedChanges
      BY LenProperties, ElementOfSeq DEF Typed
    <3> QED BY <3>1 DEF Within, Decreasing
  <2> QED BY <2>1, <2>2 DEF ReplenishmentEvidence, Evident, Decreases
<1> QED BY <1>1, <1>2, <1>3, PTL DEF Spec

-----------------------------------------------------------------------------
(* The resting liquidity of the heatmap's cells. *)

\* The changes that a cell sees of a side, and what the last change of some kind left.
Rested(k, side) ==
  {c \in DatedChanges : CellKey(c.at, c.change.price) = k /\ c.change.side = side}
LastOf(list, C) ==
  IF Within(list, C) = {} THEN 0 ELSE list[Max(Within(list, C))].change.new

\* What rests in a cell was added to it and not removed; some cells have the last of a list.
Balanced(c) == c.added - c.removed = c.bid + c.ask
AllBalanced(cells) == \A k \in CellKeys : Balanced(CellAt(cells, k))
RestsAs(cells, list, keys) ==
  \A k \in keys : \A side \in Sides : Rests(CellAt(cells, k), side) = LastOf(list, Rested(k, side))

\* The last change of some kind is the new one or the one that it was.
LEMMA LastGrows ==
  ASSUME NEW h \in Seq(DatedChanges), NEW e \in DatedChanges, NEW g, Grown(g, h, e), NEW C
  PROVE  /\ e \in C => LastOf(g, C) = e.change.new
         /\ e \notin C => LastOf(g, C) = LastOf(h, C)
<1> DEFINE n == Len(g)
           old == Within(h, C)
           new == Within(g, C)
<1>1. /\ n \in Nat \ {0} /\ IsFiniteSet(old) /\ old \subseteq 1 .. n - 1
      /\ e \in C => new = old \cup {n}
      /\ e \notin C => new = old
      /\ g[n] = e /\ \A i \in old : g[i] = h[i]
  BY ChangesGrow
<1> HIDE DEF n, old, new
<1>2. CASE e \in C
  <2>1. new \in SUBSET Nat /\ new # {} /\ IsFiniteSet(new) /\ n \in new /\ \A i \in new : i <= n
    <3>1. IsFiniteSet(old \cup {n})
      BY <1>1, FS_AddElement
    <3>2. new = old \cup {n}
      BY <1>1, <1>2
    <3>3. n \in Nat /\ \A i \in old : i \in Nat /\ i <= n
      BY <1>1
    <3> QED BY <3>1, <3>2, <3>3
  <2>2. Max(new) \in new /\ \A i \in new : i <= Max(new)
    BY <2>1, MaxAndMin
  <2>3. Max(new) = n
    <3> DEFINE m == Max(new)
    <3>1. m \in Nat /\ n \in Nat /\ m <= n /\ n <= m
      BY <2>1, <2>2
    <3> HIDE DEF m
    <3>2. m = n
      BY <3>1
    <3> QED BY <3>2 DEF m
  <2> QED BY <1>1, <1>2, <2>1, <2>3 DEF LastOf, new
<1>3. CASE e \notin C
  <2>1. CASE old = {}
    BY <1>1, <1>3, <2>1 DEF LastOf, old, new
  <2>2. CASE old # {}
    <3>1. old \in SUBSET Nat
      BY <1>1
    <3>2. Max(old) \in old
      BY <1>1, <2>2, <3>1, MaxAndMin
    <3> QED BY <1>1, <1>3, <2>2, <3>2 DEF LastOf, old, new
  <2> QED BY <2>1, <2>2
<1> QED BY <1>2, <1>3

\* A change of a level changes what rests in its cell, and what was added and removed.
LEMMA ChangeRests ==
  ASSUME NEW cells, ProperHeatmap(cells), NEW e \in DatedChanges,
         NEW u, Marked(CellChange(cells, e.change, e.at), u),
         NEW h \in Seq(DatedChanges), NEW g, Grown(g, h, e),
         NEW keys \in SUBSET CellKeys, RestsAs(cells, h, keys), AllBalanced(cells)
  PROVE  RestsAs(u, g, keys) /\ AllBalanced(u)
<1> DEFINE c == e.change
           changed == CellChange(cells, c, e.at)
           key == CellKey(e.at, c.price)
<1>1. c \in LevelChanges /\ e.at \in Nat /\ c.side \in Sides
  BY DEF DatedChanges, LevelChanges
<1>2. /\ ProperHeatmap(changed) /\ key \in CellKeys
      /\ \A k \in CellKeys \ {key} : CellAt(changed, k) = CellAt(cells, k)
      /\ Rests(CellAt(changed, key), c.side) = c.new
      /\ \A side \in Sides \ {c.side} :
           Rests(CellAt(changed, key), side) = Rests(CellAt(cells, key), side)
      /\ CellAt(changed, key).added - CellAt(changed, key).removed
           = CellAt(cells, key).added - CellAt(cells, key).removed + c.new
               - Rests(CellAt(cells, key), c.side)
  BY <1>1, CellChangeIs
<1>3. \A k \in CellKeys : SameResting(CellAt(changed, k), CellAt(u, k))
  BY DEF Marked
<1>4. \A k : \A side : e \in Rested(k, side) <=> (k = key /\ side = c.side)
  BY DEF Rested
<1> HIDE DEF c, changed, key
<1>5. \A k \in CellKeys : \A side :
        Rests(CellAt(u, k), side) = Rests(CellAt(changed, k), side)
  BY <1>3 DEF SameResting, Rests
<1>6. ASSUME NEW k \in keys, NEW side \in Sides
      PROVE  Rests(CellAt(u, k), side) = LastOf(g, Rested(k, side))
  <2>1. Rests(CellAt(cells, k), side) = LastOf(h, Rested(k, side))
    BY DEF RestsAs
  <2>2. Rests(CellAt(u, k), side) = Rests(CellAt(changed, k), side)
    BY <1>5
  <2>3. CASE k = key /\ side = c.side
    <3>1. LastOf(g, Rested(k, side)) = e.change.new
      BY <1>4, <2>3, LastGrows
    <3> QED BY <1>2, <2>2, <2>3, <3>1 DEF c
  <2>4. CASE ~(k = key /\ side = c.side)
    <3>1. LastOf(g, Rested(k, side)) = LastOf(h, Rested(k, side))
      BY <1>4, <2>4, LastGrows
    <3>2. Rests(CellAt(changed, k), side) = Rests(CellAt(cells, k), side)
      BY <1>2, <2>4
    <3> QED BY <2>1, <2>2, <3>1, <3>2
  <2> QED BY <2>3, <2>4
<1>7. ASSUME NEW k \in CellKeys
      PROVE  Balanced(CellAt(u, k))
  <2>1. Balanced(CellAt(cells, k))
    BY DEF AllBalanced
  <2>2. SameResting(CellAt(changed, k), CellAt(u, k))
    BY <1>3
  <2>3. CASE k # key
    BY <1>2, <2>1, <2>2, <2>3 DEF Balanced, SameResting
  <2>4. CASE k = key
    <3> DEFINE a == CellAt(cells, key)
               b == CellAt(changed, key)
    <3>1. a \in Cells /\ b \in Cells
      BY <1>2, CellAtType
    <3> HIDE DEF a, b
    <3>2. c.new \in Nat
      BY <1>1 DEF LevelChanges
    <3>3. /\ Rests(b, c.side) = c.new
          /\ \A side \in Sides \ {c.side} : Rests(b, side) = Rests(a, side)
          /\ b.added - b.removed = a.added - a.removed + c.new - Rests(a, c.side)
      BY <1>2 DEF a, b
    <3> DEFINE ba == b.added
               br == b.removed
               bb == b.bid
               bk == b.ask
               aa == a.added
               ar == a.removed
               ab == a.bid
               ak == a.ask
               n == c.new
    <3>4. /\ ba \in Nat /\ br \in Nat /\ bb \in Nat /\ bk \in Nat
          /\ aa \in Nat /\ ar \in Nat /\ ab \in Nat /\ ak \in Nat /\ n \in Nat
      BY <3>1, <3>2 DEF Cells
    <3>5. aa - ar = ab + ak
      BY <2>1, <2>4 DEF Balanced, a
    <3>6. \/ c.side = "Bid" /\ bb = n /\ bk = ak /\ ba - br = aa - ar + n - ab
          \/ c.side = "Ask" /\ bk = n /\ bb = ab /\ ba - br = aa - ar + n - ak
      <4>1. CASE c.side = "Bid"
        BY <3>3, <4>1 DEF Rests, Sides
      <4>2. CASE c.side = "Ask"
        BY <3>3, <4>2 DEF Rests, Sides
      <4> QED BY <1>1, <4>1, <4>2 DEF Sides
    <3> HIDE DEF ba, br, bb, bk, aa, ar, ab, ak, n
    <3>7. ba - br = bb + bk
      <4>1. CASE bb = n /\ bk = ak /\ ba - br = aa - ar + n - ab
        BY <3>4, <3>5, <4>1
      <4>2. CASE bk = n /\ bb = ab /\ ba - br = aa - ar + n - ak
        BY <3>4, <3>5, <4>2
      <4> QED BY <3>6, <4>1, <4>2
    <3>8. Balanced(b)
      BY <3>7 DEF Balanced, ba, br, bb, bk
    <3> QED BY <2>2, <2>4, <3>8 DEF Balanced, SameResting, b
  <2> QED BY <2>3, <2>4
<1> QED BY <1>6, <1>7 DEF RestsAs, AllBalanced

\* The cells of an update's changes have what the changes left, and are balanced.
LEMMA UpdateRests ==
  ASSUME Typed, NEW writes \in Seq(Writes), NEW ts \in Nat, NEW keys \in SUBSET CellKeys,
         RestsAs(heatmap, changes, keys), AllBalanced(heatmap)
  PROVE  /\ RestsAs(HeatmapWithChanges(UpdateList(writes, ts)).cells,
                    changes \o UpdateList(writes, ts), keys)
         /\ AllBalanced(HeatmapWithChanges(UpdateList(writes, ts)).cells)
<1> DEFINE zero == [cells |-> heatmap, tracker |-> liquidity]
           list == UpdateList(writes, ts)
           Right(s, m) == RestsAs(m.cells, changes \o s, keys) /\ AllBalanced(m.cells)
           T == {p \in Seq(DatedChanges) \X Marks : Right(p[1], p[2])}
<1>1. heatmap \in ProperHeatmaps /\ liquidity \in LiquidityTrackers /\ list \in Seq(DatedChanges)
      /\ changes \in Seq(DatedChanges)
  BY HeatmapsAre, UpdateParts DEF Typed
<1> HIDE DEF list
<1>2. HeatmapWithChanges(list) = Marking!Fold(zero, list) /\ zero \in Marks
      /\ zero.cells = heatmap
  BY <1>1, WithChangesType
<1> HIDE DEF zero
<1>3. <<<<>>, zero>> \in T
  <2>1. changes \o <<>> = changes
    BY <1>1, ConcatEmptySeq
  <2>2. <<>> \in Seq(DatedChanges)
    BY EmptySeq
  <2> QED BY <1>2, <2>1, <2>2
<1>4. ASSUME NEW s \in Seq(DatedChanges), NEW m, NEW e \in DatedChanges, <<s, m>> \in T
      PROVE  <<Append(s, e), MarkChange(m, e)>> \in T
  <2> DEFINE next == MarkChange(m, e)
             h == changes \o s
             g == changes \o Append(s, e)
             cells == m.cells
             u == next.cells
  <2>1. m \in Marks /\ RestsAs(cells, h, keys) /\ AllBalanced(cells) /\ ProperHeatmap(cells)
    BY <1>4, HeatmapsAre DEF Marks
  <2>2. next \in Marks /\ Marked(CellChange(cells, e.change, e.at), u)
    BY <2>1, MarkChangeType
  <2>3. Append(s, e) \in Seq(DatedChanges)
    BY AppendProperties
  <2>4. h \in Seq(DatedChanges) /\ Grown(g, h, e)
    BY ChangesWith
  <2> HIDE DEF h, g, cells, u
  <2>5. RestsAs(u, g, keys) /\ AllBalanced(u)
    BY <2>1, <2>2, <2>4, ChangeRests
  <2> QED BY <2>2, <2>3, <2>5 DEF g, u
<1>5. <<list, Marking!Fold(zero, list)>> \in T
  <2> HIDE DEF T
  <2>1. \A s \in Seq(DatedChanges) : \A m : \A e \in DatedChanges :
          <<s, m>> \in T => <<Append(s, e), MarkChange(m, e)>> \in T
    BY <1>4
  <2> QED BY <1>1, <1>3, <2>1, Marking!FoldRelates
<1>6. Right(list, HeatmapWithChanges(list))
  <2>1. <<list, HeatmapWithChanges(list)>> \in T
    BY <1>2, <1>5
  <2> QED BY <2>1
<1> QED BY <1>6 DEF list

\* A cell as it was, or an empty one, is balanced as it was; the cells of some keys stay.
LEMMA RestsKept ==
  ASSUME NEW cells, NEW u, NEW list, NEW keys \in SUBSET CellKeys,
         \A k \in CellKeys : \/ SameResting(CellAt(cells, k), CellAt(u, k))
                             \/ CellAt(u, k) = EmptyCell,
         \A k \in keys : SameResting(CellAt(cells, k), CellAt(u, k)),
         RestsAs(cells, list, keys), AllBalanced(cells)
  PROVE  RestsAs(u, list, keys) /\ AllBalanced(u)
<1>1. ASSUME NEW k \in keys, NEW side \in Sides
      PROVE  Rests(CellAt(u, k), side) = LastOf(list, Rested(k, side))
  <2>1. Rests(CellAt(u, k), side) = Rests(CellAt(cells, k), side)
    BY DEF SameResting, Rests
  <2> QED BY <2>1 DEF RestsAs
<1>2. ASSUME NEW k \in CellKeys PROVE Balanced(CellAt(u, k))
  <2>1. CASE SameResting(CellAt(cells, k), CellAt(u, k))
    BY <2>1 DEF SameResting, AllBalanced, Balanced
  <2>2. CASE CellAt(u, k) = EmptyCell
    <3>1. Balanced(EmptyCell)
      BY DEF EmptyCell, Balanced
    <3> QED BY <2>2, <3>1
  <2> QED BY <2>1, <2>2
<1> QED BY <1>1, <1>2 DEF RestsAs, AllBalanced

\* The keys of the cells that are within retention at some time.
KeptAt(now) == {k \in CellKeys : k[1] >= Cutoff(now)}

\* Every cell is balanced, and has what its last changes left while it is within retention.
CellsRest == RestsAs(heatmap, changes, KeptAt(latest)) /\ AllBalanced(heatmap)

\* Pruning by an event's time keeps the cells that are within retention.
LEMMA PruningRests ==
  ASSUME NEW cells, ProperHeatmap(cells), NEW now \in Nat, NEW list, NEW keys \in SUBSET CellKeys,
         \A k \in keys : k[1] >= Cutoff(now), RestsAs(cells, list, keys), AllBalanced(cells)
  PROVE  RestsAs(PruneHeatmap(cells, now), list, keys) /\ AllBalanced(PruneHeatmap(cells, now))
<1> DEFINE u == PruneHeatmap(cells, now)
<1>1. /\ \A k \in CellKeys : CellAt(u, k) \in {CellAt(cells, k), EmptyCell}
      /\ \A k \in CellKeys : ~(k[1] < Cutoff(now)) => CellAt(u, k) = CellAt(cells, k)
  BY PruneHeatmapIs
<1> HIDE DEF u
<1>2. \A k \in keys : ~(k[1] < Cutoff(now))
  <2>1. Cutoff(now) \in Nat
    BY CutoffNat
  <2>2. \A k \in keys : k[1] \in Nat
    BY KeyTime
  <2> QED BY <2>1, <2>2
<1>3. \A k \in CellKeys : SameResting(CellAt(cells, k), CellAt(u, k)) \/ CellAt(u, k) = EmptyCell
  BY <1>1 DEF SameResting
<1>4. \A k \in keys : SameResting(CellAt(cells, k), CellAt(u, k))
  BY <1>1, <1>2 DEF SameResting
<1>5. RestsAs(u, list, keys) /\ AllBalanced(u)
  BY <1>3, <1>4, RestsKept
<1> QED BY <1>5 DEF u

\* What is kept later was kept before.
LEMMA KeptBefore ==
  ASSUME NEW a \in Nat, NEW b \in Nat, a <= b
  PROVE  /\ KeptAt(b) \in SUBSET KeptAt(a) /\ KeptAt(b) \in SUBSET CellKeys
         /\ \A k \in KeptAt(b) : k[1] >= Cutoff(a)
<1>1. Cutoff(a) <= Cutoff(b) /\ Cutoff(a) \in Nat /\ Cutoff(b) \in Nat
  BY CutoffMoves
<1>2. \A k \in KeptAt(b) : k \in CellKeys /\ k[1] >= Cutoff(b)
  BY DEF KeptAt
<1>3. \A k \in KeptAt(b) : k[1] >= Cutoff(a)
  <2>1. \A k \in KeptAt(b) : k[1] \in Nat
    BY <1>2, KeyTime
  <2> QED BY <1>1, <1>2, <2>1
<1> QED BY <1>2, <1>3 DEF KeptAt

\* Every step leaves what rests right.
LEMMA NextRests ==
  ASSUME Typed, Timely, CellsRest, [Next]_vars
  PROVE  CellsRest'
<1>1. ProperHeatmap(heatmap) /\ latest \in Nat /\ EventTime \in Nat
      /\ RestsAs(heatmap, changes, KeptAt(latest)) /\ AllBalanced(heatmap)
  BY TimeTypes DEF Typed, CellsRest
<1>2. CASE \E trade \in Trades : /\ ProcessTrade(trade) /\ Grown(tape', tape, trade)
                                 /\ latest' = Later(trade.ts) /\ changes' = changes
  <2>1. PICK trade \in Trades : /\ ProcessTrade(trade) /\ latest' = Later(trade.ts)
                                /\ changes' = changes
    BY <1>2
  <2> DEFINE ts == trade.ts
             traded == CellTrade(heatmap, trade)
             cells == HeatmapWithTrade(trade)
             keys == KeptAt(latest')
             key == CellKey(trade.ts, trade.price)
  <2>2. lastEvent' = ts /\ heatmap' = PruneHeatmap(cells, ts) /\ ts \in Nat /\ latest' = Later(ts)
    BY <2>1 DEF ProcessTrade, Trades
  <2>3. Marked(traded, cells)
    BY HeatmapWithTradeIs
  <2>4. /\ \A k \in CellKeys \ {key} : CellAt(traded, k) = CellAt(heatmap, k)
        /\ SameResting(CellAt(heatmap, key), CellAt(traded, key))
    BY <1>1, CellTradeIs
  <2> HIDE DEF ts, traded, cells, key
  <2>5. latest' \in Nat /\ ts <= latest' /\ latest <= latest'
    BY <2>2, EventTimes
  <2>6. /\ keys \in SUBSET KeptAt(latest) /\ keys \in SUBSET CellKeys
        /\ \A k \in keys : k[1] >= Cutoff(ts)
    BY <1>1, <2>2, <2>5, KeptBefore
  <2>7. \A k \in CellKeys : SameResting(CellAt(heatmap, k), CellAt(cells, k))
    BY <2>3, <2>4 DEF Marked, SameResting
  <2>8. RestsAs(heatmap, changes, keys)
    BY <1>1, <2>6 DEF RestsAs
  <2> HIDE DEF keys
  <2>9. RestsAs(cells, changes, keys) /\ AllBalanced(cells)
    <3>1. \A k \in keys : SameResting(CellAt(heatmap, k), CellAt(cells, k))
      BY <2>6, <2>7
    <3>2. \A k \in CellKeys : \/ SameResting(CellAt(heatmap, k), CellAt(cells, k))
                              \/ CellAt(cells, k) = EmptyCell
      BY <2>7
    <3>3. keys \in SUBSET CellKeys
      BY <2>6
    <3> QED BY <1>1, <2>8, <3>1, <3>2, <3>3, RestsKept
  <2>10. ProperHeatmap(cells) /\ keys \in SUBSET CellKeys /\ \A k \in keys : k[1] >= Cutoff(ts)
    BY <2>3, <2>6 DEF Marked
  <2>11. RestsAs(PruneHeatmap(cells, ts), changes, keys) /\ AllBalanced(PruneHeatmap(cells, ts))
    BY <2>2, <2>9, <2>10, PruningRests
  <2> QED BY <2>1, <2>2, <2>11 DEF CellsRest, keys
<1>3. CASE \E writes \in Seq(Writes), ts \in Nat :
             /\ ProcessUpdate(writes, ts) /\ changes' = changes \o UpdateList(writes, ts)
             /\ latest' = Later(ts) /\ tape' = tape
  <2>1. PICK writes \in Seq(Writes), ts \in Nat :
          /\ ProcessUpdate(writes, ts) /\ changes' = changes \o UpdateList(writes, ts)
          /\ latest' = Later(ts)
    BY <1>3
  <2> DEFINE cells == HeatmapWithChanges(UpdateList(writes, ts)).cells
             keys == KeptAt(latest')
  <2>2. lastEvent' = ts /\ heatmap' = PruneHeatmap(cells, ts)
    BY <2>1, ProcessUpdateIs
  <2>3. ProperHeatmap(cells)
    BY UpdateParts
  <2>4. latest' \in Nat /\ ts <= latest' /\ latest <= latest'
    BY <2>1, <2>2, EventTimes
  <2>5. keys \in SUBSET KeptAt(latest) /\ keys \in SUBSET CellKeys
    BY <1>1, <2>4, KeptBefore
  <2>6. \A k \in keys : k[1] >= Cutoff(ts)
    BY <2>4, KeptBefore
  <2>7. RestsAs(heatmap, changes, keys)
    BY <1>1, <2>5 DEF RestsAs
  <2> HIDE DEF keys
  <2>8. RestsAs(cells, changes', keys) /\ AllBalanced(cells)
    BY <1>1, <2>1, <2>5, <2>7, UpdateRests
  <2> HIDE DEF cells
  <2> DEFINE list == changes'
  <2>9. RestsAs(cells, list, keys) /\ AllBalanced(cells) /\ keys \in SUBSET CellKeys
    BY <2>5, <2>8
  <2> HIDE DEF list
  <2>10. RestsAs(PruneHeatmap(cells, ts), list, keys) /\ AllBalanced(PruneHeatmap(cells, ts))
    BY <2>3, <2>6, <2>9, PruningRests
  <2> QED BY <2>2, <2>10 DEF CellsRest, keys, list
<1>4. CASE Quiet
  <2>1. /\ changes' = changes /\ latest' = latest
        /\ heatmap' \in {heatmap, PruneHeatmap(heatmap, EventTime)}
    BY <1>4, QuietIs
  <2>2. EventTime <= latest
    BY DEF Timely
  <2> DEFINE keys == KeptAt(latest)
             now == EventTime
  <2>3. keys \in SUBSET CellKeys /\ now \in Nat
    BY <1>1 DEF KeptAt
  <2>4. \A k \in keys : k[1] >= Cutoff(now)
    BY <1>1, <2>2, KeptBefore
  <2>5. RestsAs(heatmap, changes, keys) /\ AllBalanced(heatmap)
    BY <1>1
  <2> HIDE DEF keys, now
  <2>6. RestsAs(PruneHeatmap(heatmap, now), changes, keys) /\ AllBalanced(PruneHeatmap(heatmap, now))
    BY <1>1, <2>3, <2>4, <2>5, PruningRests
  <2>7. RestsAs(heatmap', changes, keys) /\ AllBalanced(heatmap')
    BY <2>1, <2>5, <2>6 DEF now
  <2> QED BY <2>1, <2>7 DEF CellsRest, keys
<1> QED BY <1>2, <1>3, <1>4, NextIs

\* A cell's resting liquidity is the last its bucket saw, and added less removed is what rests
\* (heatmap.rs, on_level_change and prune).
THEOREM RestingIsRight == Spec => []RestingMatchesChanges
<1>1. Init => Typed /\ Timely /\ CellsRest
  <2> SUFFICES ASSUME Init PROVE Typed /\ Timely /\ CellsRest
    OBVIOUS
  <2>1. \A k \in CellKeys : CellAt(heatmap, k) = EmptyCell
    BY DEF Init, NewHeatmap, CellAt
  <2>2. Balanced(EmptyCell) /\ \A side : Rests(EmptyCell, side) = 0
    BY DEF Balanced, Rests, EmptyCell
  <2>3. \A C : LastOf(changes, C) = 0
    <3>1. \A C : Within(changes, C) = {}
      BY DEF Init, Within
    <3> QED BY <3>1 DEF LastOf
  <2>4. KeptAt(latest) \subseteq CellKeys
    BY DEF KeptAt
  <2>5. RestsAs(heatmap, changes, KeptAt(latest)) /\ AllBalanced(heatmap)
    BY <2>1, <2>2, <2>3, <2>4 DEF RestsAs, AllBalanced
  <2> QED BY <2>5, InitTyped, NextTimely DEF CellsRest
<1>2. Typed /\ Timely /\ CellsRest /\ [Next]_vars => Typed' /\ Timely' /\ CellsRest'
  BY NextTyped, NextTimely, NextRests
<1>3. Typed /\ CellsRest => RestingMatchesChanges
  <2> SUFFICES ASSUME Typed, CellsRest, NEW k \in DOMAIN heatmap
               PROVE  LET cell == heatmap[k]
                      IN  /\ cell.added - cell.removed = cell.bid + cell.ask
                          /\ k[1] >= Cutoff(latest) =>
                               cell.bid = LastChange(k, "Bid") /\ cell.ask = LastChange(k, "Ask")
    BY DEF RestingMatchesChanges
  <2> DEFINE cell == heatmap[k]
  <2>1. k \in CellKeys /\ CellAt(heatmap, k) = cell
    BY DEF Typed, ProperHeatmap, IsHeatmap, CellKeys, CellAt
  <2>2. Balanced(cell)
    BY <2>1 DEF CellsRest, AllBalanced
  <2>3. \A i \in DOMAIN changes : changes[i] \in DatedChanges
    BY LenProperties, ElementOfSeq DEF Typed
  <2>4. \A side : LastChange(k, side) = LastOf(changes, Rested(k, side))
    <3> TAKE side
    <3> DEFINE of == {i \in DOMAIN changes : /\ CellKey(changes[i].at, changes[i].change.price) = k
                                             /\ changes[i].change.side = side}
    <3>1. of = Within(changes, Rested(k, side))
      BY <2>3 DEF Within, Rested
    <3>2. LastChange(k, side) = IF of = {} THEN 0 ELSE changes[Max(of)].change.new
      BY DEF LastChange
    <3> HIDE DEF of
    <3> QED BY <3>1, <3>2 DEF LastOf
  <2>5. k[1] >= Cutoff(latest) => \A side \in Sides : Rests(cell, side) = LastChange(k, side)
    <3>1. k[1] >= Cutoff(latest) => k \in KeptAt(latest)
      BY <2>1 DEF KeptAt
    <3> QED BY <2>1, <2>4, <3>1 DEF CellsRest, RestsAs
  <2> HIDE DEF cell
  <2>6. k[1] >= Cutoff(latest) => cell.bid = LastChange(k, "Bid") /\ cell.ask = LastChange(k, "Ask")
    BY <2>5 DEF Rests, Sides
  <2> QED BY <2>2, <2>6 DEF Balanced, cell
<1> QED BY <1>1, <1>2, <1>3, PTL DEF Spec
=============================================================================
