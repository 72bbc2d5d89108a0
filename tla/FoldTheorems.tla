---------------------------- MODULE FoldTheorems ----------------------------
(***************************************************************************)
(* Induction over numbers and finite sets, and what a fold over a sequence *)
(* yields.  The provers instantiate no operator parameter of a theorem, so *)
(* induction is stated of sets, and the folded operator is a parameter of  *)
(* the module: whoever folds Op takes an INSTANCE of it.                   *)
(***************************************************************************)
EXTENDS Integers, SequencesExt, FiniteSetTheorems, SequenceTheorems, TLAPS

CONSTANT Op(_, _)

-----------------------------------------------------------------------------
(* Induction. *)

\* A family of finite sets that is not empty has a member without a smaller one.
LEMMA SmallestSet ==
  ASSUME NEW D, NEW Fam \in SUBSET FiniteSubsetsOf(D), Fam # {}
  PROVE  \E s \in Fam : \A t \in Fam : ~(t \subseteq s /\ t # s)
<1>1. IsWellFoundedOn(StrictSubsetOrdering(D), FiniteSubsetsOf(D))
  BY FS_StrictSubsetOrderingWellFounded
<1>2. PICK s \in Fam : \A t \in Fam : ~(<<t, s>> \in StrictSubsetOrdering(D))
  BY <1>1, WFMin
<1>3. \A t \in Fam : t \in SUBSET D
  BY DEF FiniteSubsetsOf
<1>4. ASSUME NEW t \in Fam, t \subseteq s, t # s
      PROVE  FALSE
  <2>1. <<t, s>> \in StrictSubsetOrdering(D)
    BY <1>3, <1>4, Zenon DEF StrictSubsetOrdering
  <2> QED BY <1>2, <2>1
<1> QED BY <1>4

\* Induction over the subsets of a finite set: a family that has the empty set, and with each
\* set the one that has an element more, has them all.
LEMMA SubsetInduction ==
  ASSUME NEW D, IsFiniteSet(D), NEW Fam, {} \in Fam,
         \A s \in SUBSET D : \A x \in s : s \ {x} \in Fam => s \in Fam
  PROVE  SUBSET D \subseteq Fam
<1> DEFINE Others == (SUBSET D) \ Fam
<1> SUFFICES ASSUME Others # {}
             PROVE  FALSE
  OBVIOUS
<1>1. Others \in SUBSET FiniteSubsetsOf(D)
  BY FS_Subset DEF FiniteSubsetsOf
<1>2. PICK s \in Others : \A t \in Others : ~(t \subseteq s /\ t # s)
  <2> HIDE DEF Others
  <2> QED BY <1>1, SmallestSet
<1>3. s \in SUBSET D /\ s # {}
  BY <1>2
<1>4. PICK x \in s : TRUE
  BY <1>3
<1>5. s \ {x} \subseteq s /\ s \ {x} # s /\ s \ {x} \in SUBSET D
  BY <1>3, <1>4
<1>6. s \ {x} \in Fam
  BY <1>2, <1>5
<1> QED BY <1>2, <1>3, <1>4, <1>6

\* A set of natural numbers that is not empty has a smallest one.
LEMMA SmallestNumber ==
  ASSUME NEW T \in SUBSET Nat, T # {}
  PROVE  \E n \in T : \A m \in T : n <= m
<1> DEFINE Fam == {0..n : n \in T}
<1>1. Fam \in SUBSET FiniteSubsetsOf(Nat) /\ Fam # {}
  <2>1. \A n \in T : 0..n \subseteq Nat /\ IsFiniteSet(0..n)
    BY FS_Interval
  <2> QED BY <2>1 DEF FiniteSubsetsOf
<1>2. PICK s \in Fam : \A t \in Fam : ~(t \subseteq s /\ t # s)
  <2> HIDE DEF Fam
  <2> QED BY <1>1, SmallestSet
<1>3. PICK n \in T : s = 0..n
  OBVIOUS
<1>4. ASSUME NEW m \in T, m < n
      PROVE  FALSE
  <2>1. 0..m \in Fam /\ 0..m \subseteq 0..n /\ 0..m # 0..n
    BY <1>4
  <2> QED BY <1>2, <1>3, <2>1
<1> QED BY <1>4

\* Induction over the natural numbers.
LEMMA NumberInduction ==
  ASSUME NEW T, 0 \in T, \A n \in Nat : n \in T => n + 1 \in T
  PROVE  Nat \subseteq T
<1> SUFFICES ASSUME Nat \ T # {}
             PROVE  FALSE
  OBVIOUS
<1>1. PICK n \in Nat \ T : \A m \in Nat \ T : n <= m
  BY SmallestNumber
<1>2. n - 1 \in Nat /\ n - 1 \in T
  BY <1>1
<1> QED BY <1>1, <1>2

-----------------------------------------------------------------------------
(* Folds. *)

\* iter is the function by which the values f of the elements of D are folded, the element
\* ch[s] of a set s last.
IsFold(iter, base, f, ch, D) ==
  iter = [s \in SUBSET D |->
            IF s = {} THEN base ELSE Op(iter[s \ {ch[s]}], f[ch[s]])]

\* The same for the sets of at most n elements.
Small(D, n) == {s \in SUBSET D : Cardinality(s) <= n}

IsPartialFold(iter, base, f, ch, D, n) ==
  iter = [s \in Small(D, n) |->
            IF s = {} THEN base ELSE Op(iter[s \ {ch[s]}], f[ch[s]])]

\* There is a fold over the sets of at most n elements: by induction on n.
LEMMA PartialFold ==
  ASSUME NEW D, IsFiniteSet(D), NEW base, NEW f, NEW ch,
         \A s \in SUBSET D : s # {} => ch[s] \in s, NEW n \in Nat
  PROVE  \E iter : IsPartialFold(iter, base, f, ch, D, n)
<1> DEFINE T == {m \in Nat : \E iter : IsPartialFold(iter, base, f, ch, D, m)}
<1>0. \A s \in SUBSET D : IsFiniteSet(s) /\ Cardinality(s) \in Nat
  BY FS_Subset, FS_CardinalityType
<1>1. 0 \in T
  <2> DEFINE g == [s \in Small(D, 0) |-> base]
  <2>1. \A s \in Small(D, 0) : s = {}
    BY <1>0, FS_EmptySet DEF Small
  <2>2. IsPartialFold(g, base, f, ch, D, 0)
    BY <2>1 DEF IsPartialFold
  <2> QED BY <2>2
<1>2. ASSUME NEW m \in Nat, m \in T
      PROVE  m + 1 \in T
  <2>1. PICK g : IsPartialFold(g, base, f, ch, D, m)
    BY <1>2
  <2> DEFINE h == [s \in Small(D, m + 1) |->
                     IF s = {} THEN base ELSE Op(g[s \ {ch[s]}], f[ch[s]])]
  <2>2. ASSUME NEW s \in Small(D, m)
        PROVE  h[s] = g[s]
    <3>1. s \in Small(D, m + 1)
      BY <1>0 DEF Small
    <3>2. g[s] = IF s = {} THEN base ELSE Op(g[s \ {ch[s]}], f[ch[s]])
      BY <2>1, Zenon DEF IsPartialFold
    <3> QED BY <3>1, <3>2
  <2>3. ASSUME NEW s \in Small(D, m + 1), s # {}
        PROVE  s \ {ch[s]} \in Small(D, m)
    <3>1. s \in SUBSET D /\ ch[s] \in s /\ Cardinality(s) <= m + 1
      BY <2>3 DEF Small
    <3>2. Cardinality(s \ {ch[s]}) = Cardinality(s) - 1
      BY <1>0, <3>1, FS_RemoveElement
    <3>3. Cardinality(s \ {ch[s]}) <= m
      BY <1>0, <3>1, <3>2
    <3> QED BY <3>1, <3>3 DEF Small
  <2>4. \A s \in Small(D, m + 1) : s # {} => g[s \ {ch[s]}] = h[s \ {ch[s]}]
    BY <2>2, <2>3
  <2>5. h = [s \in Small(D, m + 1) |->
               IF s = {} THEN base ELSE Op(h[s \ {ch[s]}], f[ch[s]])]
    <3> HIDE DEF h
    <3>1. [s \in Small(D, m + 1) |-> IF s = {} THEN base ELSE Op(h[s \ {ch[s]}], f[ch[s]])]
            = [s \in Small(D, m + 1) |-> IF s = {} THEN base ELSE Op(g[s \ {ch[s]}], f[ch[s]])]
      BY <2>4
    <3> QED BY <3>1 DEF h
  <2>6. IsPartialFold(h, base, f, ch, D, m + 1)
    BY <2>5, Zenon DEF IsPartialFold
  <2> QED
    <3> HIDE DEF h
    <3> QED BY <2>6
<1>3. Nat \subseteq T
  <2> HIDE DEF T
  <2> QED BY <1>1, <1>2, NumberInduction
<1> QED BY <1>3

\* There is a fold over every finite set.
LEMMA FoldExists ==
  ASSUME NEW D, IsFiniteSet(D), NEW base, NEW f, NEW ch,
         \A s \in SUBSET D : s # {} => ch[s] \in s
  PROVE  \E iter : IsFold(iter, base, f, ch, D)
<1>1. SUBSET D = Small(D, Cardinality(D)) /\ Cardinality(D) \in Nat
  BY FS_Subset, FS_CardinalityType DEF Small
<1>2. PICK iter : IsPartialFold(iter, base, f, ch, D, Cardinality(D))
  BY <1>1, PartialFold
<1>3. IsFold(iter, base, f, ch, D)
  BY <1>1, <1>2, Zenon DEF IsFold, IsPartialFold
<1> QED BY <1>3

\* Two folds agree on the sets on which what they fold agrees.
LEMMA FoldsAgree ==
  ASSUME NEW D, IsFiniteSet(D), NEW E, D \subseteq E, NEW base,
         NEW f, NEW g, \A x \in D : f[x] = g[x],
         NEW ch, NEW dh, \A s \in SUBSET D : s # {} => ch[s] \in s /\ dh[s] = ch[s],
         NEW iter, IsFold(iter, base, f, ch, D),
         NEW jter, IsFold(jter, base, g, dh, E)
  PROVE  iter[D] = jter[D]
<1> DEFINE Others == {s \in SUBSET D : iter[s] # jter[s]}
<1>1. \A s \in SUBSET D : iter[s] = IF s = {} THEN base ELSE Op(iter[s \ {ch[s]}], f[ch[s]])
  BY Zenon DEF IsFold
<1>2. \A s \in SUBSET D : jter[s] = IF s = {} THEN base ELSE Op(jter[s \ {dh[s]}], g[dh[s]])
  <2>1. \A s \in SUBSET E : jter[s] = IF s = {} THEN base ELSE Op(jter[s \ {dh[s]}], g[dh[s]])
    BY Zenon DEF IsFold
  <2> QED BY <2>1
<1>3. ASSUME Others # {}
      PROVE  FALSE
  <2>1. Others \in SUBSET FiniteSubsetsOf(D)
    BY FS_Subset DEF FiniteSubsetsOf
  <2>2. PICK s \in Others : \A t \in Others : ~(t \subseteq s /\ t # s)
    <3> HIDE DEF Others
    <3> QED BY <1>3, <2>1, SmallestSet
  <2>3. s # {} /\ s \in SUBSET D /\ iter[s] # jter[s]
    BY <1>1, <1>2, <2>2
  <2> DEFINE r == s \ {ch[s]}
  <2>4. ch[s] \in s /\ dh[s] = ch[s] /\ f[ch[s]] = g[ch[s]]
    BY <2>3
  <2>5. iter[r] = jter[r]
    BY <2>2, <2>3, <2>4
  <2>6. iter[s] = Op(iter[r], f[ch[s]]) /\ jter[s] = Op(jter[s \ {dh[s]}], g[dh[s]])
    BY <1>1, <1>2, <2>3, Zenon
  <2>7. jter[s] = Op(jter[r], f[ch[s]])
    BY <2>4, <2>6, Zenon
  <2> QED BY <2>3, <2>5, <2>6, <2>7
<1> QED BY <1>3

\* A set of numbers with a bound has a largest one, which Max yields.
LEMMA MaxIsLargest ==
  ASSUME NEW n \in Nat, NEW s \in SUBSET (1..n), s # {}
  PROVE  Max(s) \in s /\ \A x \in s : x <= Max(s)
<1> DEFINE T == {n - x : x \in s}
<1>1. T \in SUBSET Nat /\ T # {}
  <2>1. \A x \in s : n - x \in Nat
    OBVIOUS
  <2> QED BY <2>1
<1>2. PICK k \in T : \A m \in T : k <= m
  <2> HIDE DEF T
  <2> QED BY <1>1, SmallestNumber
<1>3. PICK x \in s : k = n - x
  BY <1>2
<1>4. \A y \in s : x >= y
  <2>1. \A y \in s : n - y \in T
    OBVIOUS
  <2>2. \A y \in s : n - x <= n - y
    BY <1>2, <1>3, <2>1
  <2> QED BY <2>2
<1>5. \E z \in s : \A y \in s : z >= y
  BY <1>4
<1> QED BY <1>5 DEF Max

Fold(base, seq) == FoldLeft(Op, base, seq)

Maxes(n) == [s \in SUBSET (1..n) |-> Max(s)]

\* The largest number of a set is one of the set.
LEMMA MaxesChoose ==
  ASSUME NEW n \in Nat
  PROVE  \A s \in SUBSET (1..n) : s # {} => Maxes(n)[s] \in s
BY MaxIsLargest DEF Maxes

\* FoldLeft is a fold that takes the last element of the sequence last.
LEMMA FoldIter ==
  ASSUME NEW S, NEW seq \in Seq(S), NEW base
  PROVE  \E iter : /\ IsFold(iter, base, seq, Maxes(Len(seq)), 1..Len(seq))
                   /\ Fold(base, seq) = iter[1..Len(seq)]
<1> DEFINE n == Len(seq)
           D == 1..n
           Rec(iter) == [s \in SUBSET D |->
                           IF s = {} THEN base ELSE Op(iter[s \ {Max(s)}], seq[Max(s)])]
           it == CHOOSE iter : iter = Rec(iter)
<1>1. n \in Nat /\ DOMAIN seq = D /\ IsFiniteSet(D)
  BY LenProperties, FS_Interval
<1>2. Fold(base, seq) = it[D]
  BY <1>1 DEF Fold, FoldLeft, MapThenFoldSet
<1>3. \A iter : IsFold(iter, base, seq, Maxes(n), D) <=> iter = Rec(iter)
  BY DEF IsFold, Maxes
<1>4. \E iter : IsFold(iter, base, seq, Maxes(n), D)
  BY <1>1, MaxesChoose, FoldExists
<1>5. it = Rec(it)
  <2> HIDE DEF Rec
  <2> QED BY <1>3, <1>4
<1>6. IsFold(it, base, seq, Maxes(n), D)
  <2> HIDE DEF it
  <2> QED BY <1>3, <1>5
<1> QED
  <2> HIDE DEF it
  <2> QED BY <1>2, <1>6

\* What a fold over a sequence yields: of no element, and of one more.
LEMMA FoldEmpty == \A base : Fold(base, <<>>) = base
<1> TAKE base
<1>1. <<>> \in Seq({}) /\ Len(<<>>) = 0
  BY EmptySeq
<1>2. PICK iter : /\ IsFold(iter, base, <<>>, Maxes(Len(<<>>)), 1..Len(<<>>))
                  /\ Fold(base, <<>>) = iter[1..Len(<<>>)]
  BY <1>1, FoldIter
<1>3. 1..Len(<<>>) = {}
  BY <1>1
<1>4. iter[{}] = base
  <2>1. \A s \in SUBSET (1..Len(<<>>)) : s = {} => iter[s] = base
    BY <1>2, Zenon DEF IsFold
  <2> QED BY <2>1
<1> QED BY <1>2, <1>3, <1>4

\* The last element is folded last.
LEMMA FoldAppend ==
  ASSUME NEW S, NEW seq \in Seq(S), NEW e \in S, NEW base
  PROVE  Fold(base, Append(seq, e)) = Op(Fold(base, seq), e)
<1> DEFINE n == Len(seq)
           longer == Append(seq, e)
<1>1. /\ n \in Nat /\ longer \in Seq(S) /\ Len(longer) = n + 1
      /\ \A i \in 1..n : longer[i] = seq[i]
      /\ longer[n + 1] = e
  BY LenProperties, AppendProperties
<1>2. PICK iter : IsFold(iter, base, seq, Maxes(n), 1..n) /\ Fold(base, seq) = iter[1..n]
  BY FoldIter
<1>3. PICK jter : /\ IsFold(jter, base, longer, Maxes(n + 1), 1..n + 1)
                  /\ Fold(base, longer) = jter[1..n + 1]
  <2> HIDE DEF longer
  <2> QED BY <1>1, FoldIter
<1>4. iter[1..n] = jter[1..n]
  <2>1. IsFiniteSet(1..n) /\ 1..n \subseteq 1..n + 1
    BY <1>1, FS_Interval
  <2>2. \A s \in SUBSET (1..n) : s # {} => Maxes(n)[s] \in s /\ Maxes(n + 1)[s] = Maxes(n)[s]
    BY <1>1, <2>1, MaxesChoose DEF Maxes
  <2>3. \A i \in 1..n : seq[i] = longer[i]
    BY <1>1
  <2> HIDE DEF longer, n
  <2> DEFINE D == 1..n
             E == 1..n + 1
             ch == Maxes(n)
             dh == Maxes(n + 1)
  <2>4. IsFold(iter, base, seq, ch, D) /\ IsFold(jter, base, longer, dh, E)
    BY <1>2, <1>3
  <2>5. IsFiniteSet(D) /\ D \subseteq E
    BY <2>1
  <2>6. \A s \in SUBSET D : s # {} => ch[s] \in s /\ dh[s] = ch[s]
    BY <2>2
  <2>7. \A x \in D : seq[x] = longer[x]
    BY <2>3
  <2> HIDE DEF D, E, ch, dh
  <2>8. iter[D] = jter[D]
    BY <2>4, <2>5, <2>6, <2>7, FoldsAgree
  <2> QED BY <2>8 DEF D
<1>5. Max(1..n + 1) = n + 1
  <2>1. 1..n + 1 # {} /\ n + 1 \in 1..n + 1 /\ n + 1 \in Nat
    BY <1>1
  <2>2. Max(1..n + 1) \in 1..n + 1 /\ n + 1 <= Max(1..n + 1)
    BY <2>1, MaxIsLargest
  <2> QED BY <1>1, <2>2
<1>6. jter[1..n + 1] = Op(jter[(1..n + 1) \ {n + 1}], longer[n + 1])
  <2> HIDE DEF longer, n
  <2>1. n + 1 \in 1..n + 1
    BY <1>1
  <2>3. Maxes(n + 1)[1..n + 1] = n + 1
    BY <1>5, Zenon DEF Maxes
  <2>2. \A s \in SUBSET (1..n + 1) :
           s # {} => jter[s] = Op(jter[s \ {Maxes(n + 1)[s]}], longer[Maxes(n + 1)[s]])
    BY <1>3, Zenon DEF IsFold
  <2> QED BY <2>1, <2>2, <2>3
<1>7. (1..n + 1) \ {n + 1} = 1..n
  BY <1>1
<1> QED BY <1>1, <1>2, <1>3, <1>4, <1>6, <1>7

\* A property of the base that every step keeps holds of the fold.
LEMMA FoldKeeps ==
  ASSUME NEW S, NEW T, \A x \in T : \A e \in S : Op(x, e) \in T,
         NEW seq \in Seq(S), NEW base \in T
  PROVE  Fold(base, seq) \in T
<1> DEFINE N == {n \in Nat : \A s \in Seq(S) : Len(s) = n => Fold(base, s) \in T}
<1>1. 0 \in N
  <2>1. \A s \in Seq(S) : Len(s) = 0 => s = <<>>
    BY EmptySeq
  <2> QED BY <2>1, FoldEmpty
<1>2. ASSUME NEW n \in Nat, n \in N
      PROVE  n + 1 \in N
  <2>1. SUFFICES ASSUME NEW s \in Seq(S), Len(s) = n + 1
                 PROVE  Fold(base, s) \in T
    OBVIOUS
  <2>2. s # <<>>
    BY <2>1
  <2>3. PICK r \in Seq(S), e \in S : s = Append(r, e)
    BY <2>2, SequenceEmptyOrAppend
  <2>4. Len(r) = n
    BY <2>1, <2>3, LenProperties, AppendProperties
  <2> QED BY <1>2, <2>3, <2>4, FoldAppend
<1>3. Nat \subseteq N
  <2> HIDE DEF N
  <2> QED BY <1>1, <1>2, NumberInduction
<1> QED BY <1>3, LenProperties

\* What holds of a sequence and its fold goes on holding with every element.
LEMMA FoldRelates ==
  ASSUME NEW S, NEW base, NEW T, <<<<>>, base>> \in T,
         \A s \in Seq(S) : \A x : \A e \in S : <<s, x>> \in T => <<Append(s, e), Op(x, e)>> \in T,
         NEW seq \in Seq(S)
  PROVE  <<seq, Fold(base, seq)>> \in T
<1> DEFINE N == {n \in Nat : \A s \in Seq(S) : Len(s) = n => <<s, Fold(base, s)>> \in T}
<1>1. 0 \in N
  <2>1. \A s \in Seq(S) : Len(s) = 0 => s = <<>>
    BY EmptySeq
  <2> QED BY <2>1, FoldEmpty
<1>2. ASSUME NEW n \in Nat, n \in N
      PROVE  n + 1 \in N
  <2>1. SUFFICES ASSUME NEW s \in Seq(S), Len(s) = n + 1
                 PROVE  <<s, Fold(base, s)>> \in T
    OBVIOUS
  <2>2. s # <<>>
    BY <2>1
  <2>3. PICK r \in Seq(S), e \in S : s = Append(r, e)
    BY <2>2, SequenceEmptyOrAppend
  <2>4. Len(r) = n
    BY <2>1, <2>3, LenProperties, AppendProperties
  <2>5. <<r, Fold(base, r)>> \in T
    BY <1>2, <2>4
  <2>6. Fold(base, s) = Op(Fold(base, r), e)
    BY <2>3, FoldAppend
  <2>7. <<Append(r, e), Op(Fold(base, r), e)>> \in T
    BY <2>5
  <2> QED BY <2>3, <2>6, <2>7
<1>3. Nat \subseteq N
  <2> HIDE DEF N
  <2> QED BY <1>1, <1>2, NumberInduction
<1> QED BY <1>3, LenProperties

\* The first element may be folded into the base.
LEMMA FoldHead ==
  ASSUME NEW S, NEW seq \in Seq(S), seq # <<>>, NEW base
  PROVE  Fold(base, seq) = Fold(Op(base, Head(seq)), Tail(seq))
<1> DEFINE N == {n \in Nat : \A s \in Seq(S) : Len(s) = n + 1 =>
                               Fold(base, s) = Fold(Op(base, Head(s)), Tail(s))}
<1>1. 0 \in N
  <2>1. SUFFICES ASSUME NEW s \in Seq(S), Len(s) = 1
                 PROVE  Fold(base, s) = Fold(Op(base, Head(s)), Tail(s))
    OBVIOUS
  <2>2. s # <<>>
    <3>1. Len(<<>>) = 0
      BY EmptySeq
    <3>2. 1 # 0
      OBVIOUS
    <3> QED BY <2>1, <3>1, <3>2, Zenon
  <2>3. PICK r \in Seq(S), e \in S : s = Append(r, e)
    BY <2>2, SequenceEmptyOrAppend
  <2>4. Len(r) = 0
    BY <2>1, <2>3, LenProperties, AppendProperties
  <2>5. r = <<>>
    BY <2>4, EmptySeq
  <2>6. Head(s) = e /\ Tail(s) = <<>>
    BY <2>3, <2>5, HeadTailAppend
  <2>7. Fold(base, s) = Op(Fold(base, r), e)
    BY <2>3, FoldAppend
  <2> QED BY <2>5, <2>6, <2>7, FoldEmpty
<1>2. ASSUME NEW n \in Nat, n \in N
      PROVE  n + 1 \in N
  <2>1. SUFFICES ASSUME NEW s \in Seq(S), Len(s) = n + 1 + 1
                 PROVE  Fold(base, s) = Fold(Op(base, Head(s)), Tail(s))
    OBVIOUS
  <2>2. s # <<>>
    BY <2>1
  <2>3. PICK r \in Seq(S), e \in S : s = Append(r, e)
    BY <2>2, SequenceEmptyOrAppend
  <2>4. Len(r) = n + 1 /\ r # <<>>
    BY <2>1, <2>3, LenProperties, AppendProperties
  <2>5. Head(s) = Head(r) /\ Tail(s) = Append(Tail(r), e) /\ Tail(r) \in Seq(S)
    BY <2>3, <2>4, HeadTailAppend, HeadTailProperties
  <2>6. Fold(base, r) = Fold(Op(base, Head(r)), Tail(r))
    BY <1>2, <2>4
  <2>7. Fold(base, s) = Op(Fold(base, r), e)
    BY <2>3, FoldAppend
  <2>8. Fold(Op(base, Head(r)), Append(Tail(r), e)) = Op(Fold(Op(base, Head(r)), Tail(r)), e)
    BY <2>5, FoldAppend
  <2> QED BY <2>5, <2>6, <2>7, <2>8
<1>3. Nat \subseteq N
  <2> HIDE DEF N
  <2> QED BY <1>1, <1>2, NumberInduction
<1>4. Len(seq) - 1 \in Nat
  BY LenProperties, EmptySeq
<1>5. Len(seq) - 1 \in N
  BY <1>3, <1>4
<1>6. Len(seq) = (Len(seq) - 1) + 1
  BY <1>4, LenProperties
<1> QED BY <1>5, <1>6

\* The fold of numbers goes up with its base, if every step does.
LEMMA FoldShift ==
  ASSUME NEW S,
         \A x \in Int : \A c \in Int : \A e \in S : Op(x, e) \in Int /\ Op(c + x, e) = c + Op(x, e),
         NEW seq \in Seq(S), NEW base \in Int, NEW c \in Int
  PROVE  Fold(c + base, seq) = c + Fold(base, seq) /\ Fold(base, seq) \in Int
<1> DEFINE N == {n \in Nat : \A s \in Seq(S) : Len(s) = n =>
                   Fold(c + base, s) = c + Fold(base, s) /\ Fold(base, s) \in Int}
<1>1. 0 \in N
  <2>1. \A s \in Seq(S) : Len(s) = 0 => s = <<>>
    BY EmptySeq
  <2> QED BY <2>1, FoldEmpty
<1>2. ASSUME NEW n \in Nat, n \in N
      PROVE  n + 1 \in N
  <2>1. SUFFICES ASSUME NEW s \in Seq(S), Len(s) = n + 1
                 PROVE  Fold(c + base, s) = c + Fold(base, s) /\ Fold(base, s) \in Int
    OBVIOUS
  <2>2. s # <<>>
    BY <2>1
  <2>3. PICK r \in Seq(S), e \in S : s = Append(r, e)
    BY <2>2, SequenceEmptyOrAppend
  <2>4. Len(r) = n
    BY <2>1, <2>3, LenProperties, AppendProperties
  <2>5. Fold(c + base, r) = c + Fold(base, r) /\ Fold(base, r) \in Int
    BY <1>2, <2>4
  <2>6. Fold(c + base, s) = Op(Fold(c + base, r), e) /\ Fold(base, s) = Op(Fold(base, r), e)
    BY <2>3, FoldAppend
  <2> QED BY <2>5, <2>6
<1>3. Nat \subseteq N
  <2> HIDE DEF N
  <2> QED BY <1>1, <1>2, NumberInduction
<1> QED BY <1>3, LenProperties

\* An associative operator with an identity folds from any base as it does from the identity.
LEMMA FoldFromZero ==
  ASSUME NEW T, NEW zero \in T, \A x, y \in T : Op(x, y) \in T, \A x \in T : Op(x, zero) = x,
         \A x, y, z \in T : Op(x, Op(y, z)) = Op(Op(x, y), z),
         NEW seq \in Seq(T), NEW base \in T
  PROVE  Fold(base, seq) = Op(base, Fold(zero, seq)) /\ Fold(zero, seq) \in T
<1> DEFINE N == {n \in Nat : \A s \in Seq(T) : Len(s) = n =>
                   Fold(base, s) = Op(base, Fold(zero, s)) /\ Fold(zero, s) \in T}
<1>1. 0 \in N
  <2>1. \A s \in Seq(T) : Len(s) = 0 => s = <<>>
    BY EmptySeq
  <2> QED BY <2>1, FoldEmpty
<1>2. ASSUME NEW n \in Nat, n \in N
      PROVE  n + 1 \in N
  <2>1. SUFFICES ASSUME NEW s \in Seq(T), Len(s) = n + 1
                 PROVE  Fold(base, s) = Op(base, Fold(zero, s)) /\ Fold(zero, s) \in T
    OBVIOUS
  <2>2. s # <<>>
    BY <2>1
  <2>3. PICK r \in Seq(T), e \in T : s = Append(r, e)
    BY <2>2, SequenceEmptyOrAppend
  <2>4. Len(r) = n
    BY <2>1, <2>3, LenProperties, AppendProperties
  <2>5. Fold(base, r) = Op(base, Fold(zero, r)) /\ Fold(zero, r) \in T
    BY <1>2, <2>4
  <2>6. Fold(base, s) = Op(Fold(base, r), e)
    <3> HIDE DEF N
    <3> QED BY <2>3, FoldAppend
  <2>7. Fold(zero, s) = Op(Fold(zero, r), e)
    <3> HIDE DEF N
    <3> QED BY <2>3, FoldAppend
  <2> QED BY <2>5, <2>6, <2>7
<1>3. Nat \subseteq N
  <2> HIDE DEF N
  <2> QED BY <1>1, <1>2, NumberInduction
<1> QED BY <1>3, LenProperties
=============================================================================
