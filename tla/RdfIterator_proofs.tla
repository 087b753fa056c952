------------------------- MODULE RdfIterator_proofs -------------------------
(* Theorems about RdfIterator: what a search finds, what iterators hold and   *)
(* what walks over them come to.                                              *)
EXTENDS RdfIterator, BitVector_proofs

USE BitConstants

-----------------------------------------------------------------------------
(* Induction over the subsets of a finite set.                                *)
LEMMA SubsetInduction ==
  ASSUME NEW D, IsFiniteSet(D), NEW G,
         \A s \in SUBSET D : (\A t \in SUBSET s : t # s => t \in G) => s \in G
  PROVE  \A s \in SUBSET D : s \in G
<1>. DEFINE S == {s \in SUBSET D : s \notin G}
<1>. SUFFICES ASSUME S # {} PROVE FALSE
  OBVIOUS
<1>1. S \subseteq FiniteSubsetsOf(D)
  BY FS_Subset DEF FiniteSubsetsOf
<1>2. PICK s \in S : \A t \in S : ~(<<t, s>> \in StrictSubsetOrdering(D))
  <2>. HIDE DEF S
  <2>1. IsWellFoundedOn(StrictSubsetOrdering(D), FiniteSubsetsOf(D))
    BY FS_StrictSubsetOrderingWellFounded
  <2>. QED  BY <1>1, <2>1, WFMin
<1>3. ASSUME NEW t \in SUBSET s, t # s
      PROVE  t \in G
  <2>1. <<t, s>> \in StrictSubsetOrdering(D)
    BY <1>3 DEF StrictSubsetOrdering
  <2>. QED  BY <1>2, <2>1
<1>. QED  BY <1>3

-----------------------------------------------------------------------------
(* Folds. The function that a fold over a set is defined by exists, and is    *)
(* unique, when its step is one of values in a set V.                         *)
FoldBody(base, step, choice, f, s) ==
  IF s = {} THEN base ELSE step[choice[s]][f[s \ {choice[s]}]]
FoldedOver(base, step, choice, f, T) ==
  f = [s \in SUBSET T |-> FoldBody(base, step, choice, f, s)]

LEMMA FoldsAgree ==
  ASSUME NEW D, IsFiniteSet(D), NEW base, NEW step,
         NEW choice, \A s \in SUBSET D : s # {} => choice[s] \in s,
         NEW A \in SUBSET D, NEW B \in SUBSET D, NEW f, NEW g,
         FoldedOver(base, step, choice, f, A), FoldedOver(base, step, choice, g, B)
  PROVE  \A s \in SUBSET (A \cap B) : f[s] = g[s]
<1>. DEFINE G == {s \in SUBSET (A \cap B) : f[s] = g[s]}
<1>1. IsFiniteSet(A \cap B)
  BY FS_Subset
<1>2. ASSUME NEW s \in SUBSET (A \cap B), \A t \in SUBSET s : t # s => t \in G
      PROVE  s \in G
  <2>0. s \in SUBSET A /\ s \in SUBSET B /\ s \in SUBSET D
    OBVIOUS
  <2>1. f[s] = FoldBody(base, step, choice, f, s) /\ g[s] = FoldBody(base, step, choice, g, s)
    BY <2>0 DEF FoldedOver
  <2>2. CASE s = {}
    BY <2>1, <2>2 DEF FoldBody
  <2>3. CASE s # {}
    <3>1. s \ {choice[s]} \in G
      BY <1>2, <2>0, <2>3
    <3>. QED  BY <2>1, <2>3, <3>1 DEF FoldBody
  <2>. QED  BY <2>2, <2>3
<1>. DEFINE C == A \cap B
<1>3. \A s \in SUBSET C : s \in G
  <2>1. \A s \in SUBSET C : (\A t \in SUBSET s : t # s => t \in G) => s \in G
    BY <1>2
  <2>. HIDE DEF G, C
  <2>2. IsFiniteSet(C)
    BY <1>1 DEF C
  <2>. QED  BY <2>1, <2>2, SubsetInduction
<1>. QED  BY <1>3

LEMMA FoldExists ==
  ASSUME NEW D, IsFiniteSet(D), NEW V, NEW base \in V, NEW step \in [D -> [V -> V]],
         NEW choice, \A s \in SUBSET D : s # {} => choice[s] \in s
  PROVE  \E f \in [SUBSET D -> V] : FoldedOver(base, step, choice, f, D)
<1>. DEFINE Is(f, T) == f \in [SUBSET T -> V] /\ FoldedOver(base, step, choice, f, T)
            G == {T \in SUBSET D : \E f : Is(f, T)}
            Of_(T) == CHOOSE f : Is(f, T)
            At(T) == Of_(T)[T]
<1>1. ASSUME NEW T \in SUBSET D, \A t \in SUBSET T : t # T => t \in G
      PROVE  T \in G
  <2>. DEFINE h == [s \in SUBSET T |-> IF s = {} THEN base
                                       ELSE step[choice[s]][At(s \ {choice[s]})]]
  <2>1. ASSUME NEW t \in SUBSET T, t # T
        PROVE  Is(Of_(t), t)
    BY <1>1, <2>1
  <2>. HIDE DEF Of_
  <2>2. ASSUME NEW s \in SUBSET T, s # {}
        PROVE  /\ choice[s] \in s /\ choice[s] \in D
               /\ s \ {choice[s]} \in SUBSET T /\ s \ {choice[s]} # T
    BY <2>2
  <2>3. ASSUME NEW t \in SUBSET T, t # T
        PROVE  At(t) \in V /\ At(t) = h[t]
    <3>1. Is(Of_(t), t) /\ t \in SUBSET t /\ t \in SUBSET D
      BY <2>1, <2>3
    <3>2. At(t) \in V /\ At(t) = FoldBody(base, step, choice, Of_(t), t)
      BY <3>1 DEF FoldedOver
    <3>3. CASE t = {}
      BY <3>2, <3>3 DEF FoldBody
    <3>4. CASE t # {}
      <4>. DEFINE u == t \ {choice[t]}
      <4>1. u \in SUBSET T /\ u # T /\ u \in SUBSET t /\ u \in SUBSET D
        BY <2>2, <2>3, <3>4
      <4>2. Is(Of_(u), u)
        BY <2>1, <4>1
      <4>3. u \in SUBSET (t \cap u)
        BY <4>1
      <4>. HIDE DEF u
      <4>4. \A s \in SUBSET (t \cap u) : Of_(t)[s] = Of_(u)[s]
        BY <3>1, <4>1, <4>2, FoldsAgree
      <4>5. Of_(t)[u] = At(u)
        BY <4>3, <4>4
      <4>6. h[t] = step[choice[t]][At(u)]
        BY <3>4 DEF u
      <4>. QED  BY <3>2, <3>4, <4>5, <4>6 DEF FoldBody, u
    <3>. QED  BY <3>3, <3>4
  <2>. HIDE DEF At
  <2>4. h \in [SUBSET T -> V]
    <3>1. ASSUME NEW s \in SUBSET T, s # {}
          PROVE  step[choice[s]][At(s \ {choice[s]})] \in V
      <4>. HIDE DEF h
      <4>1. choice[s] \in D /\ At(s \ {choice[s]}) \in V
        BY <2>2, <2>3, <3>1
      <4>. QED  BY <4>1
    <3>. QED  BY <3>1
  <2>5. FoldedOver(base, step, choice, h, T)
    <3>1. ASSUME NEW s \in SUBSET T
          PROVE  h[s] = FoldBody(base, step, choice, h, s)
      <4>1. CASE s = {}
        BY <4>1 DEF FoldBody
      <4>2. CASE s # {}
        <5>1. h[s] = step[choice[s]][At(s \ {choice[s]})]
          BY <4>2
        <5>. HIDE DEF h, Is, G
        <5>2. At(s \ {choice[s]}) = h[s \ {choice[s]}]
          BY <2>2, <2>3, <4>2
        <5>. QED  BY <4>2, <5>1, <5>2 DEF FoldBody
      <4>. QED  BY <4>1, <4>2
    <3>2. h = [s \in SUBSET T |-> h[s]]
      OBVIOUS
    <3>. HIDE DEF h
    <3>. QED  BY <3>1, <3>2 DEF FoldedOver
  <2>. HIDE DEF h
  <2>. QED  BY <2>4, <2>5
<1>2. \A T \in SUBSET D : T \in G
  <2>. HIDE DEF G
  <2>. QED  BY <1>1, SubsetInduction
<1>. QED  BY <1>2
-----------------------------------------------------------------------------
(* Vectors within the buffers. A vector is tight when it is empty or has a    *)
(* member: the searches take one of no bytes for one without members.         *)
Tight(v) == v.size # 0 => Members(v) # {}
Fits(v) == IsVector(v) /\ v.size <= MaxBytes

LEMMA Constants ==
  /\ MaxBytes \in Nat /\ MaxBytes % STEP = 0 /\ Ids \subseteq 0 .. Width * MaxBytes - 1
  /\ Ids \subseteq Nat /\ IsFiniteSet(Ids)
  /\ MaxLevels \in Nat /\ IsFiniteSet(Blank) /\ None \notin Vectors
<1>1. Width * MaxBytes - 1 \in Int /\ 0 \in Int
  BY SearchConstants
<1>2. IsFiniteSet(0 .. Width * MaxBytes - 1)
  BY <1>1, FS_Interval
<1>3. Ids \subseteq 0 .. Width * MaxBytes - 1 /\ Ids \subseteq Nat
  BY <1>1, SearchConstants
<1>. DEFINE U == 0 .. Width * MaxBytes - 1
<1>4. IsFiniteSet(U) /\ Ids \in SUBSET U
  BY <1>2, <1>3
<1>. HIDE DEF U
<1>5. IsFiniteSet(Ids)
  BY <1>4, FS_Subset
<1>. QED  BY <1>3, <1>5, SearchConstants

LEMMA InVectors ==
  ASSUME NEW v
  PROVE  v \in Vectors <=> Fits(v)
<1>0. MaxBytes \in Nat
  BY Constants
<1>1. ASSUME v \in Vectors
      PROVE  Fits(v)
  <2>1. PICK n \in 0 .. MaxBytes : v \in [size : {n}, byte : [0 .. n - 1 -> SUBSET Bits]]
    BY <1>1 DEF Vectors
  <2>. QED  BY <1>0, <2>1 DEF Fits, IsVector
<1>2. ASSUME Fits(v)
      PROVE  v \in Vectors
  <2>1. v.size \in 0 .. MaxBytes
    BY <1>0, <1>2 DEF Fits, IsVector
  <2>2. v \in [size : {v.size}, byte : [0 .. v.size - 1 -> SUBSET Bits]]
    BY <1>2 DEF Fits, IsVector
  <2>. QED  BY <2>1, <2>2 DEF Vectors
<1>. QED  BY <1>1, <1>2

LEMMA NoBytes ==
  ASSUME NEW v, IsVector(v), v.size = 0
  PROVE  Members(v) = {} /\ v = Empty
<1>1. Width * v.size - 1 = -1
  BY DEF IsVector
<1>2. Members(v) = {}
  BY <1>1 DEF Members
<1>3. v.byte = [i \in 0 .. v.size - 1 |-> v.byte[i]] /\ 0 .. v.size - 1 = {}
  BY DEF IsVector
<1>4. v = Empty
  BY <1>3 DEF IsVector, Empty, Vector
<1>. QED  BY <1>2, <1>4

LEMMA EmptyVector ==
  /\ IsVector(Empty) /\ Empty.size = 0 /\ Members(Empty) = {}
  /\ Empty \in Vectors /\ Tight(Empty)
<1>1. IsVector(Empty) /\ Empty.size = 0
  BY DEF IsVector, Empty, Vector
<1>. QED  BY <1>1, NoBytes, InVectors, Constants DEF Fits, Tight

LEMMA TightMeans ==
  ASSUME NEW v, IsVector(v), Tight(v)
  PROVE  v.size = 0 <=> Members(v) = {}
BY NoBytes DEF Tight

(* What the functions make ends with a byte that is not zero. *)
LEMMA CutTight ==
  ASSUME NEW n \in Nat, NEW f, \A i \in 0 .. n - 1 : f[i] \subseteq Bits
  PROVE  Tight(Cut(n, f))
<1>. SUFFICES ASSUME Cut(n, f).size # 0 PROVE Members(Cut(n, f)) # {}
  BY DEF Tight
<1>. DEFINE Ends(i) == f[i] # {} /\ \A j \in i + 1 .. n - 1 : f[j] = {}
            c == CHOOSE i \in 0 .. n - 1 : Ends(i)
            S == {i \in 0 .. n - 1 : f[i] # {}}
<1>1. Cut(n, f).size = Length(n, f)
  BY DEF Cut, Vector
<1>2. S # {} /\ S \in SUBSET (0 .. n - 1)
  BY <1>1 DEF Length
<1>3. PICK m \in S : \A j \in S : j <= m
  BY <1>2, Greatest
<1>4. ASSUME NEW j \in m + 1 .. n - 1
      PROVE  f[j] = {}
  <2>1. j \in 0 .. n - 1 /\ ~(j <= m)
    OBVIOUS
  <2>. QED  BY <2>1, <1>3
<1>5. c \in 0 .. n - 1 /\ Ends(c)
  <2>1. m \in 0 .. n - 1 /\ Ends(m)
    BY <1>4
  <2>. QED  BY <2>1
<1>. HIDE DEF c
<1>6. PICK r \in f[c] : r \in Bits
  BY <1>5
<1>7. Byte(Cut(n, f), c) = f[c] /\ IsVector(Cut(n, f)) /\ c \in Nat
  BY <1>5, CutFacts
<1>8. Width * c + r \in Members(Cut(n, f))
  BY <1>6, <1>7, AtByte, InMembers
<1>. QED  BY <1>8

(* The operations on vectors that fit make vectors that fit and are tight.    *)
LEMMA FittingOr ==
  ASSUME NEW a \in Vectors, NEW b \in Vectors
  PROVE  or(a, b) \in Vectors /\ Tight(or(a, b)) /\ Members(or(a, b)) = Members(a) \cup Members(b)
<1>. DEFINE n == Longer(a, b)
            f == [i \in 0 .. n - 1 |-> Byte(a, i) \cup Byte(b, i)]
<1>1. Fits(a) /\ Fits(b) /\ MaxBytes \in Nat
  BY InVectors, Constants
<1>2. n \in Nat /\ n <= MaxBytes
  BY <1>1 DEF Fits, IsVector, Longer
<1>3. \A i \in 0 .. n - 1 : f[i] \subseteq Bits
  BY <1>1, <1>2, ByteType DEF Fits
<1>. HIDE DEF f
<1>4. Cut(n, f).size <= n /\ Cut(n, f).size \in Nat /\ Tight(Cut(n, f))
  BY <1>2, <1>3, CutFacts, CutTight DEF IsVector
<1>5. or(a, b) = Cut(n, f)
  BY DEF or, f
<1>6. IsVector(or(a, b)) /\ Members(or(a, b)) = Members(a) \cup Members(b)
  BY <1>1, OrIsUnion DEF Fits
<1>. HIDE DEF n
<1>. QED  BY <1>1, <1>2, <1>4, <1>5, <1>6, InVectors DEF Fits

LEMMA FittingAnd ==
  ASSUME NEW a \in Vectors, NEW b \in Vectors
  PROVE  and(a, b) \in Vectors /\ Tight(and(a, b)) /\ Members(and(a, b)) = Members(a) \cap Members(b)
<1>. DEFINE n == Shorter(a, b)
            f == [i \in 0 .. n - 1 |-> Byte(a, i) \cap Byte(b, i)]
<1>1. Fits(a) /\ Fits(b) /\ MaxBytes \in Nat
  BY InVectors, Constants
<1>2. n \in Nat /\ n <= MaxBytes
  BY <1>1 DEF Fits, IsVector, Shorter
<1>3. \A i \in 0 .. n - 1 : f[i] \subseteq Bits
  BY <1>1, <1>2, ByteType DEF Fits
<1>. HIDE DEF f
<1>4. Cut(n, f).size <= n /\ Cut(n, f).size \in Nat /\ Tight(Cut(n, f))
  BY <1>2, <1>3, CutFacts, CutTight DEF IsVector
<1>5. and(a, b) = Cut(n, f)
  BY DEF and, f
<1>6. IsVector(and(a, b)) /\ Members(and(a, b)) = Members(a) \cap Members(b)
  BY <1>1, AndIsIntersection DEF Fits
<1>. HIDE DEF n
<1>. QED  BY <1>1, <1>2, <1>4, <1>5, <1>6, InVectors DEF Fits

LEMMA FittingExor ==
  ASSUME NEW a \in Vectors, NEW b \in Vectors
  PROVE  /\ exor(a, b) \in Vectors /\ Tight(exor(a, b))
         /\ Members(exor(a, b)) = Members(a) \ Members(b)
<1>. DEFINE n == Longer(a, b)
            f == [i \in 0 .. n - 1 |-> (Byte(a, i) \cup Byte(b, i)) \ Byte(b, i)]
<1>1. Fits(a) /\ Fits(b) /\ MaxBytes \in Nat
  BY InVectors, Constants
<1>2. n \in Nat /\ n <= MaxBytes
  BY <1>1 DEF Fits, IsVector, Longer
<1>3. \A i \in 0 .. n - 1 : f[i] \subseteq Bits
  BY <1>1, <1>2, ByteType DEF Fits
<1>. HIDE DEF f
<1>4. Cut(n, f).size <= n /\ Cut(n, f).size \in Nat /\ Tight(Cut(n, f))
  BY <1>2, <1>3, CutFacts, CutTight DEF IsVector
<1>5. exor(a, b) = Cut(n, f)
  BY DEF exor, f
<1>6. IsVector(exor(a, b)) /\ Members(exor(a, b)) = Members(a) \ Members(b)
  BY <1>1, ExorIsDifference DEF Fits
<1>. HIDE DEF n
<1>. QED  BY <1>1, <1>2, <1>4, <1>5, <1>6, InVectors DEF Fits

LEMMA FittingShorten ==
  ASSUME NEW a \in Vectors
  PROVE  /\ shorten(a) \in Vectors /\ Tight(shorten(a)) /\ Members(shorten(a)) = Members(a)
<1>1. Fits(a) /\ MaxBytes \in Nat /\ a.size \in Nat
  BY InVectors, Constants DEF Fits, IsVector
<1>2. \A i \in 0 .. a.size - 1 : a.byte[i] \subseteq Bits
  BY <1>1 DEF Fits, IsVector
<1>3. /\ Cut(a.size, a.byte).size <= a.size /\ Cut(a.size, a.byte).size \in Nat
      /\ Tight(Cut(a.size, a.byte))
  BY <1>1, <1>2, CutFacts, CutTight DEF IsVector
<1>4. IsVector(shorten(a)) /\ Members(shorten(a)) = Members(a)
  BY <1>1, ShortenKeeps DEF Fits
<1>5. shorten(a).size <= MaxBytes /\ Tight(shorten(a))
  BY <1>1, <1>3 DEF shorten, Fits
<1>. QED  BY <1>4, <1>5, InVectors DEF Fits

(* Setting the bit of an identifier never takes a vector beyond the buffer,   *)
(* which is a multiple of STEP bytes.                                         *)
LEMMA FittingSet ==
  ASSUME NEW v \in Vectors, NEW i \in Ids
  PROVE  LET w == setmask(v, i, 1).vector
         IN  w \in Vectors /\ Tight(w) /\ Members(w) = Members(v) \cup {i}
<1>. DEFINE q == i \div Width
            n == STEP * (1 + q \div STEP)
            g == Grown(v, i)
            w == setmask(v, i, 1).vector
<1>0. MaxBytes \in Nat /\ i \in Nat /\ i < Width * MaxBytes
  BY Constants
<1>1. Fits(v) /\ q \in Nat /\ q < MaxBytes /\ v.size \in Nat
  BY <1>0, InVectors, InByte, Position DEF Fits, IsVector
<1>2. n <= MaxBytes
  <2>. DEFINE k == MaxBytes \div STEP  s == q \div STEP
  <2>1. k \in Nat /\ MaxBytes = STEP * k
    BY Constants, Z3
  <2>2. s \in Nat /\ STEP * s <= q
    BY <1>1, Z3
  <2>. HIDE DEF k, s
  <2>3. s < k
    <3>. SUFFICES ASSUME k <= s PROVE FALSE
      BY <2>1, <2>2
    <3>1. STEP * k <= STEP * s
      <4>1. CASE k = s
        BY <4>1, <2>1
      <4>2. CASE k < s
        <5>1. STEP * k + STEP <= STEP * s
          BY <2>1, <2>2, <4>2, Times
        <5>. QED  BY <5>1, <2>1, <2>2
      <4>. QED  BY <4>1, <4>2, <2>1, <2>2
    <3>2. STEP * s \in Nat /\ STEP * k \in Nat
      BY <2>1, <2>2
    <3>. HIDE DEF q
    <3>. QED  BY <1>1, <2>1, <2>2, <3>1, <3>2
  <2>4. STEP * s + STEP <= STEP * k
    BY <2>1, <2>2, <2>3, Times
  <2>5. STEP * (1 + s) = STEP * s + STEP
    BY <2>2
  <2>. QED  BY <2>1, <2>4, <2>5 DEF s
<1>. HIDE DEF n
<1>3. g.size <= MaxBytes
  <2>1. CASE q < v.size
    BY <2>1, <1>1 DEF Grown, Fits
  <2>2. CASE ~(q < v.size)
    BY <2>2, <1>2 DEF Grown, Vector, n
  <2>. QED  BY <2>1, <2>2
<1>. HIDE DEF q
<1>4. w.size = g.size
  <2>. DEFINE b == g.byte[i \div Width] \cup {i % Width}
  <2>1. g = [size |-> g.size, byte |-> g.byte]
    BY <1>0, <1>1, GrownFacts DEF IsVector, Fits, g
  <2>2. w = [g EXCEPT !.byte[i \div Width] = b]
    BY Zenon DEF setmask, g
  <2>. HIDE DEF b, g, w
  <2>3. w = [size |-> g.size, byte |-> [g.byte EXCEPT ![i \div Width] = b]]
    BY <2>1, <2>2, OneByte
  <2>. QED  BY <2>3
<1>. HIDE DEF g, w
<1>5. IsVector(w) /\ Members(w) = Members(v) \cup {i}
  BY <1>0, <1>1, SetmaskSets DEF Fits, w
<1>6. w \in Vectors
  BY <1>3, <1>4, <1>5, InVectors DEF Fits
<1>. QED  BY <1>5, <1>6 DEF w, Tight

-----------------------------------------------------------------------------
(* A posting, in which bit after bit was set, stands for its statements.      *)
LEMMA PostingOf ==
  ASSUME NEW S, S \subseteq Ids
  PROVE  VectorOf(S) \in Vectors /\ Tight(VectorOf(S)) /\ Members(VectorOf(S)) = S
<1>. DEFINE x(s) == CHOOSE i \in s : TRUE
            Set(v, i) == setmask(v, i, 1).vector
            Is(g) == g = [s \in SUBSET S |-> IF s = {} THEN Empty ELSE Set(g[s \ {x(s)}], x(s))]
            g == CHOOSE h : Is(h)
            choice == [s \in SUBSET S |-> x(s)]
            step == [i \in S |-> [v \in Vectors |-> Set(v, i)]]
<1>1. IsFiniteSet(S)
  BY Constants, FS_Subset
<1>2. \A v \in Vectors, i \in Ids : /\ Set(v, i) \in Vectors /\ Tight(Set(v, i))
                                    /\ Members(Set(v, i)) = Members(v) \cup {i}
  BY FittingSet
<1>3. VectorOf(S) = g[S]
  BY DEF VectorOf, FoldSet, MapThenFoldSet
<1>. HIDE DEF Set, g
<1>4. \A s \in SUBSET S : s # {} => x(s) \in s /\ x(s) \in Ids /\ s \ {x(s)} \in SUBSET S
  OBVIOUS
<1>. HIDE DEF x
<1>5. Is(g)
  <2>1. step \in [S -> [Vectors -> Vectors]] /\ \A s \in SUBSET S : s # {} => choice[s] \in s
    BY <1>2, <1>4
  <2>. HIDE DEF step, choice
  <2>2. PICK f \in [SUBSET S -> Vectors] : FoldedOver(Empty, step, choice, f, S)
    BY <1>1, <2>1, EmptyVector, FoldExists
  <2>3. ASSUME NEW s \in SUBSET S
        PROVE  f[s] = IF s = {} THEN Empty ELSE Set(f[s \ {x(s)}], x(s))
    <3>1. f[s] = FoldBody(Empty, step, choice, f, s)
      BY <2>2 DEF FoldedOver
    <3>2. CASE s # {}
      <4>1. x(s) \in S /\ f[s \ {x(s)}] \in Vectors /\ choice[s] = x(s)
        BY <1>4, <3>2 DEF choice
      <4>2. step[x(s)][f[s \ {x(s)}]] = Set(f[s \ {x(s)}], x(s))
        BY <4>1 DEF step
      <4>. QED  BY <3>1, <3>2, <4>1, <4>2 DEF FoldBody
    <3>. QED  BY <3>1, <3>2 DEF FoldBody
  <2>4. Is(f)
    <3>1. f = [s \in SUBSET S |-> f[s]]
      OBVIOUS
    <3>. QED  BY <2>3, <3>1
  <2>. HIDE DEF Is
  <2>. QED  BY <2>4 DEF g
<1>. DEFINE G == {s \in SUBSET S : g[s] \in Vectors /\ Tight(g[s]) /\ Members(g[s]) = s}
<1>6. ASSUME NEW s \in SUBSET S, \A t \in SUBSET s : t # s => t \in G
      PROVE  s \in G
  <2>1. g[s] = IF s = {} THEN Empty ELSE Set(g[s \ {x(s)}], x(s))
    BY <1>5
  <2>2. CASE s = {}
    BY <2>1, <2>2, EmptyVector
  <2>3. CASE s # {}
    <3>. DEFINE i == x(s)  v == g[s \ {i}]
    <3>1. s \ {i} \in G /\ i \in s /\ i \in Ids
      BY <1>4, <1>6, <2>3
    <3>2. v \in Vectors /\ Members(v) = s \ {i} /\ g[s] = Set(v, i)
      BY <2>1, <2>3, <3>1
    <3>. HIDE DEF i, v
    <3>3. Set(v, i) \in Vectors /\ Tight(Set(v, i)) /\ Members(Set(v, i)) = Members(v) \cup {i}
      BY <1>2, <3>1, <3>2
    <3>. QED  BY <3>1, <3>2, <3>3
  <2>. QED  BY <2>2, <2>3
<1>7. \A s \in SUBSET S : s \in G
  <2>. HIDE DEF G
  <2>. QED  BY <1>1, <1>6, SubsetInduction
<1>. QED  BY <1>3, <1>7

-----------------------------------------------------------------------------
(* The numbers of a finite set in their order.                                *)
Rank(S, i) == Cardinality({j \in S : j < i})

LEMMA Ranks ==
  ASSUME NEW S, S \subseteq Int, IsFiniteSet(S)
  PROVE  /\ Cardinality(S) \in Nat
         /\ \A i \in S : Rank(S, i) \in 0 .. Cardinality(S) - 1
         /\ \A i, k \in S : i < k => Rank(S, i) < Rank(S, k)
         /\ \A n \in 1 .. Cardinality(S) : \E i \in S : Rank(S, i) = n - 1
<1>. DEFINE Under(i) == {j \in S : j < i}
            rank == [i \in S |-> Rank(S, i) + 1]
<1>1. Cardinality(S) \in Nat
  BY FS_CardinalityType
<1>2. ASSUME NEW i \in S
      PROVE  IsFiniteSet(Under(i)) /\ Rank(S, i) \in 0 .. Cardinality(S) - 1
  <2>1. Under(i) \in SUBSET S /\ i \notin Under(i)
    OBVIOUS
  <2>2. IsFiniteSet(Under(i)) /\ Cardinality(Under(i)) <= Cardinality(S)
    BY <2>1, FS_Subset
  <2>3. Cardinality(S) # Cardinality(Under(i))
    BY <2>1, FS_Subset
  <2>4. Cardinality(Under(i)) \in Nat
    BY <2>2, FS_CardinalityType
  <2>. QED  BY <1>1, <2>2, <2>3, <2>4 DEF Rank
<1>3. ASSUME NEW i \in S, NEW k \in S, i < k
      PROVE  Rank(S, i) < Rank(S, k)
  <2>0. i \in Int /\ k \in Int /\ ~(i < i) /\ \A j \in S : j < i => j < k
    <3>1. \A j \in S : j \in Int
      OBVIOUS
    <3>. QED  BY <1>3, <3>1
  <2>1. Under(i) \in SUBSET Under(k) /\ i \in Under(k) /\ i \notin Under(i)
    BY <1>3, <2>0
  <2>2. /\ Cardinality(Under(i)) <= Cardinality(Under(k))
        /\ Cardinality(Under(k)) # Cardinality(Under(i))
    BY <1>2, <2>1, FS_Subset
  <2>3. Rank(S, i) = Cardinality(Under(i)) /\ Rank(S, k) = Cardinality(Under(k))
    BY DEF Rank
  <2>. HIDE DEF Under
  <2>4. Rank(S, i) \in Int /\ Rank(S, k) \in Int
    BY <1>1, <1>2
  <2>. QED  BY <2>2, <2>3, <2>4
<1>. HIDE DEF Under
<1>4. rank \in Injection(S, 1 .. Cardinality(S))
  <2>1. rank \in [S -> 1 .. Cardinality(S)]
    BY <1>1, <1>2
  <2>2. ASSUME NEW i \in S, NEW k \in S, rank[i] = rank[k]
        PROVE  i = k
    <3>1. Rank(S, i) = Rank(S, k) /\ Rank(S, i) \in Int
      BY <1>1, <1>2, <2>2
    <3>2. ~(i < k) /\ ~(k < i) /\ i \in Int /\ k \in Int
      BY <1>3, <3>1
    <3>. QED  BY <3>2
  <2>. HIDE DEF rank
  <2>. QED  BY <2>1, <2>2 DEF Injection, IsInjective
<1>5. rank \in Surjection(S, 1 .. Cardinality(S))
  <2>1. IsFiniteSet(1 .. Cardinality(S)) /\ Cardinality(1 .. Cardinality(S)) = Cardinality(S)
    BY <1>1, FS_Interval
  <2>. QED  BY <1>4, <2>1, FS_Injection
<1>6. ASSUME NEW n \in 1 .. Cardinality(S)
      PROVE  \E i \in S : Rank(S, i) = n - 1
  <2>1. PICK i \in S : rank[i] = n
    <3>. HIDE DEF rank
    <3>. QED  BY <1>5 DEF Surjection
  <2>. QED  BY <1>1, <1>2, <2>1
<1>. QED  BY <1>1, <1>2, <1>3, <1>6

LEMMA Ordered ==
  ASSUME NEW S, S \subseteq Int, IsFiniteSet(S)
  PROVE  /\ InOrder(S) \in Seq(S) /\ Len(InOrder(S)) = Cardinality(S)
         /\ \A k, l \in 1 .. Cardinality(S) : k < l => InOrder(S)[k] < InOrder(S)[l]
         /\ \A i \in S : \E k \in 1 .. Cardinality(S) : InOrder(S)[k] = i
<1>. DEFINE c == Cardinality(S)
            at(k) == CHOOSE i \in S : Rank(S, i) = k - 1
<1>1. /\ c \in Nat /\ \A i \in S : Rank(S, i) \in 0 .. c - 1
      /\ \A i, k \in S : i < k => Rank(S, i) < Rank(S, k)
  BY Ranks
<1>2. ASSUME NEW k \in 1 .. c
      PROVE  at(k) \in S /\ Rank(S, at(k)) = k - 1
  <2>1. \E i \in S : Rank(S, i) = k - 1
    BY Ranks
  <2>. QED  BY <2>1
<1>3. InOrder(S) = [k \in 1 .. c |-> at(k)]
  BY DEF InOrder, Rank
<1>. HIDE DEF at, c
<1>4. InOrder(S) \in Seq(S) /\ Len(InOrder(S)) = c
  BY <1>1, <1>2, <1>3
<1>5. ASSUME NEW k \in 1 .. c, NEW l \in 1 .. c, k < l
      PROVE  at(k) < at(l)
  <2>1. at(k) \in Int /\ at(l) \in Int /\ Rank(S, at(k)) = k - 1 /\ Rank(S, at(l)) = l - 1
    BY <1>2
  <2>2. at(k) # at(l)
    BY <1>1, <1>5, <2>1
  <2>3. ~(at(l) < at(k))
    BY <1>1, <1>2, <1>5, <2>1
  <2>. QED  BY <2>1, <2>2, <2>3
<1>6. ASSUME NEW i \in S
      PROVE  \E k \in 1 .. c : at(k) = i
  <2>. DEFINE k == Rank(S, i) + 1
  <2>1. k \in 1 .. c /\ k - 1 = Rank(S, i)
    BY <1>1
  <2>2. at(k) \in S /\ Rank(S, at(k)) = Rank(S, i)
    BY <1>2, <2>1
  <2>. DEFINE j == at(k)
  <2>. HIDE DEF j, k
  <2>3. j \in S /\ Rank(S, j) = Rank(S, i) /\ Rank(S, i) \in Int
    BY <1>1, <2>2 DEF j
  <2>4. ~(j < i) /\ ~(i < j) /\ j \in Int /\ i \in Int
    BY <1>1, <2>3
  <2>. QED  BY <2>1, <2>4 DEF j
<1>. QED  BY <1>3, <1>4, <1>5, <1>6 DEF c

LEMMA IdsInOrder ==
  ASSUME NEW M, M \subseteq Ids
  PROVE  /\ IsFiniteSet(M) /\ M \subseteq Int /\ M \subseteq Nat /\ Cardinality(M) \in Nat
         /\ DOMAIN InOrder(M) = 1 .. Cardinality(M)
         /\ \A k \in 1 .. Cardinality(M) : InOrder(M)[k] \in M
         /\ \A i \in M : \E k \in 1 .. Cardinality(M) : InOrder(M)[k] = i
<1>0. M \in SUBSET Ids /\ IsFiniteSet(Ids) /\ Ids \subseteq Nat
  BY Constants
<1>1. IsFiniteSet(M) /\ M \subseteq Int /\ M \subseteq Nat
  <2>1. IsFiniteSet(M)
    BY <1>0, FS_Subset
  <2>. QED  BY <1>0, <2>1
<1>2. /\ InOrder(M) \in Seq(M) /\ Len(InOrder(M)) = Cardinality(M)
      /\ \A i \in M : \E k \in 1 .. Cardinality(M) : InOrder(M)[k] = i
  BY <1>1, Ordered
<1>3. Cardinality(M) \in Nat
  BY <1>1, FS_CardinalityType
<1>. QED  BY <1>1, <1>2, <1>3

-----------------------------------------------------------------------------
(* Folds over sequences, from the first to the last.                          *)
LEMMA LargestOf ==
  ASSUME NEW n \in Nat
  PROVE  /\ \A s \in SUBSET (1 .. n) : s # {} => Max(s) \in s
         /\ \A k \in 1 .. n : /\ 1 .. k # {} /\ 1 .. k \in SUBSET (1 .. n)
                              /\ Max(1 .. k) = k /\ (1 .. k) \ {k} = 1 .. k - 1
<1>1. ASSUME NEW s \in SUBSET (1 .. n), s # {}
      PROVE  Max(s) \in s
  <2>1. s \in SUBSET (0 .. (n + 1) - 1) /\ n + 1 \in Nat
    OBVIOUS
  <2>2. \E m \in s : \A j \in s : j <= m
    BY <1>1, <2>1, Greatest
  <2>3. \E m \in s : \A j \in s : m >= j
    BY <2>1, <2>2
  <2>. QED  BY <2>3 DEF Max
<1>2. ASSUME NEW k \in 1 .. n
      PROVE  /\ 1 .. k # {} /\ 1 .. k \in SUBSET (1 .. n)
             /\ Max(1 .. k) = k /\ (1 .. k) \ {k} = 1 .. k - 1
  <2>1. \A m \in 1 .. k : (\A j \in 1 .. k : m >= j) <=> m = k
    OBVIOUS
  <2>2. Max(1 .. k) = k
    BY <2>1 DEF Max
  <2>. QED  BY <2>2
<1>. QED  BY <1>1, <1>2

RunOf(base, step, n, r) == r[0] = base /\ \A k \in 1 .. n : r[k] = step[k][r[k - 1]]
Latest(n) == [s \in SUBSET (1 .. n) |-> Max(s)]
FoldsIn(base, step, V, n, g) ==
  /\ g[{}] = base
  /\ \A s \in SUBSET (1 .. n) :
       LET m == Max(s)
       IN  s # {} /\ g[s \ {m}] \in V => g[s] = step[m][g[s \ {m}]]

Along(n, g) == [k \in 0 .. n |-> g[1 .. k]]

LEMMA FoldUpExists ==
  ASSUME NEW n \in Nat, NEW V, NEW base \in V, NEW step \in [1 .. n -> [V -> V]]
  PROVE  \E f \in [SUBSET (1 .. n) -> V] : FoldedOver(base, step, Latest(n), f, 1 .. n)
<1>. DEFINE D == 1 .. n  choice == Latest(n)
<1>1. IsFiniteSet(D)
  BY FS_Interval
<1>2. \A s \in SUBSET D : s # {} => choice[s] \in s
  BY LargestOf DEF Latest
<1>. HIDE DEF choice, D
<1>3. step \in [D -> [V -> V]]
  BY DEF D
<1>4. \E f \in [SUBSET D -> V] : FoldedOver(base, step, choice, f, D)
  BY <1>1, <1>2, <1>3, FoldExists
<1>. QED  BY <1>4 DEF D, choice

LEMMA FoldRuns ==
  ASSUME NEW n \in Nat, NEW V, NEW base \in V, NEW step \in [1 .. n -> [V -> V]],
         NEW g, FoldsIn(base, step, V, n, g)
  PROVE  Along(n, g) \in [0 .. n -> V] /\ RunOf(base, step, n, Along(n, g))
<1>. DEFINE D == 1 .. n
            r == Along(n, g)
            G == {k \in 0 .. n : r[k] \in V}
<1>1. r[0] = base
  <2>1. 1 .. 0 = {} /\ 0 \in 0 .. n
    OBVIOUS
  <2>. QED  BY <2>1 DEF FoldsIn, Along
<1>2. ASSUME NEW k \in 1 .. n, r[k - 1] \in V
      PROVE  r[k] = step[k][r[k - 1]]
  <2>1. 1 .. k \in SUBSET D /\ Max(1 .. k) = k /\ (1 .. k) \ {k} = 1 .. k - 1 /\ 1 .. k # {}
    BY LargestOf
  <2>2. r[k] = g[1 .. k] /\ r[k - 1] = g[1 .. k - 1]
    BY DEF Along
  <2>3. g[1 .. k] = step[k][g[1 .. k - 1]]
    BY <1>2, <2>1, <2>2 DEF FoldsIn
  <2>. QED  BY <2>2, <2>3
<1>. HIDE DEF r
<1>3. 0 \in G /\ \A k \in 1 .. n : k - 1 \in G => k \in G
  <2>1. ASSUME NEW k \in 1 .. n, r[k - 1] \in V
        PROVE  r[k] \in V
    BY <1>2, <2>1
  <2>. QED  BY <1>1, <2>1
<1>4. \A k \in 0 .. n : r[k] \in V
  <2>1. \A k \in 0 .. n : k \in G
    <3>. HIDE DEF G
    <3>. QED  BY <1>3, Upwards
  <2>. QED  BY <2>1
<1>5. r \in [0 .. n -> V]
  BY <1>4 DEF r, Along
<1>6. RunOf(base, step, n, r)
  <2>1. ASSUME NEW k \in 1 .. n
        PROVE  r[k] = step[k][r[k - 1]]
    <3>1. k - 1 \in 0 .. n
      OBVIOUS
    <3>. QED  BY <1>2, <1>4, <3>1
  <2>. QED  BY <1>1, <2>1 DEF RunOf
<1>. QED  BY <1>5, <1>6 DEF r

-----------------------------------------------------------------------------
(* One part of a pattern: what some of its keys have, and what all of them    *)
(* have at least.                                                             *)
SomeHave(T, part, keys, n) ==
  {i \in T : \E l \in 1 .. n : i \in Having(T, part, keys[l])}
AllHave(T, part, keys, n) ==
  {i \in T : n # 0 /\ \A l \in 1 .. n : i \in Having(T, part, keys[l])}

LEMMA PostingIs ==
  ASSUME NEW T, T \subseteq Ids, NEW part, NEW key
  PROVE  /\ Posting(T, part, key) \in Vectors /\ Tight(Posting(T, part, key))
         /\ Members(Posting(T, part, key)) = Having(T, part, key)
<1>. DEFINE H == Having(T, part, key)
<1>1. H \subseteq Ids
  BY DEF Having
<1>. HIDE DEF H
<1>. QED  BY <1>1, PostingOf DEF Posting, H

LEMMA CombineFits ==
  ASSUME NEW op, NEW acc \in Vectors, NEW v \in Vectors
  PROVE  /\ Combine(op, acc, v) \in Vectors
         /\ Tight(acc) /\ Tight(v) => Tight(Combine(op, acc, v))
<1>1. CASE v.size = 0 \/ acc.size = 0
  BY <1>1 DEF Combine
<1>2. CASE v.size # 0 /\ acc.size # 0 /\ op = AllOf
  BY <1>2, FittingAnd DEF Combine
<1>3. CASE v.size # 0 /\ acc.size # 0 /\ op # AllOf
  BY <1>3, FittingOr DEF Combine
<1>. QED  BY <1>1, <1>2, <1>3

LEMMA CombineOne ==
  ASSUME NEW op, NEW acc \in Vectors, NEW v \in Vectors
  PROVE  /\ v.size = 0 => Combine(op, acc, v) = acc
         /\ v.size # 0 /\ acc.size = 0 => Combine(op, acc, v) = v
BY DEF Combine

LEMMA CombineBoth ==
  ASSUME NEW op, NEW acc \in Vectors, NEW v \in Vectors, v.size # 0, acc.size # 0
  PROVE  /\ op = AllOf => Members(Combine(op, acc, v)) = Members(acc) \cap Members(v)
         /\ op # AllOf => Members(Combine(op, acc, v)) = Members(acc) \cup Members(v)
BY FittingAnd, FittingOr DEF Combine

PartRun(T, part, op, keys, n, r) ==
  /\ r[0] = Empty /\ PartBits(T, part, op, keys) = r[n]
  /\ \A k \in 1 .. n : r[k] = Combine(op, r[k - 1], Posting(T, part, keys[k]))

LEMMA PartRuns ==
  ASSUME NEW T, T \subseteq Ids, NEW part, NEW op, NEW keys, NEW n \in Nat, DOMAIN keys = 1 .. n
  PROVE  \E r \in [0 .. n -> Vectors] : PartRun(T, part, op, keys, n, r)
<1>. DEFINE D == 1 .. n
            post(k) == Posting(T, part, keys[k])
            Is(g) == g = [s \in SUBSET D |-> IF s = {} THEN Empty
                                             ELSE Combine(op, g[s \ {Max(s)}], post(Max(s)))]
            g == CHOOSE h : Is(h)
            step == [k \in 1 .. n |-> [v \in Vectors |-> Combine(op, v, post(k))]]
<1>1. PartBits(T, part, op, keys) = g[1 .. n]
  BY DEF PartBits, FoldLeft, MapThenFoldSet
<1>2. \A k \in 1 .. n, v \in Vectors : Combine(op, v, post(k)) \in Vectors
  BY CombineFits, PostingIs
<1>. HIDE DEF g, post
<1>3. step \in [1 .. n -> [Vectors -> Vectors]]
  BY <1>2
<1>4. \A s \in SUBSET D : s # {} => Max(s) \in D /\ s \ {Max(s)} \in SUBSET D
  BY LargestOf
<1>5. Is(g)
  <2>. HIDE DEF step
  <2>1. PICK f \in [SUBSET (1 .. n) -> Vectors] : FoldedOver(Empty, step, Latest(n), f, 1 .. n)
    BY <1>3, EmptyVector, FoldUpExists
  <2>2. ASSUME NEW s \in SUBSET D
        PROVE  f[s] = IF s = {} THEN Empty ELSE Combine(op, f[s \ {Max(s)}], post(Max(s)))
    <3>1. f[s] = FoldBody(Empty, step, Latest(n), f, s)
      BY <2>1 DEF FoldedOver
    <3>2. CASE s # {}
      <4>1. Max(s) \in D /\ f[s \ {Max(s)}] \in Vectors /\ Latest(n)[s] = Max(s)
        BY <1>4, <3>2 DEF Latest
      <4>2. step[Max(s)][f[s \ {Max(s)}]] = Combine(op, f[s \ {Max(s)}], post(Max(s)))
        BY <4>1 DEF step
      <4>. QED  BY <3>1, <3>2, <4>1, <4>2 DEF FoldBody
    <3>. QED  BY <3>1, <3>2 DEF FoldBody
  <2>3. Is(f)
    <3>1. f = [s \in SUBSET D |-> f[s]]
      OBVIOUS
    <3>. QED  BY <2>2, <3>1
  <2>. HIDE DEF Is
  <2>. QED  BY <2>3 DEF g
<1>6. FoldsIn(Empty, step, Vectors, n, g)
  <2>1. g[{}] = Empty
    BY <1>5
  <2>2. ASSUME NEW s \in SUBSET (1 .. n), s # {}, g[s \ {Max(s)}] \in Vectors
        PROVE  g[s] = step[Max(s)][g[s \ {Max(s)}]]
    <3>. DEFINE m == Max(s)  v == g[s \ {m}]
    <3>1. m \in D /\ v \in Vectors /\ g[s] = Combine(op, v, post(m))
      BY <1>4, <1>5, <2>2
    <3>. HIDE DEF m, v
    <3>2. g[s] = step[m][v]
      BY <3>1
    <3>. QED  BY <3>2 DEF m, v
  <2>. HIDE DEF step
  <2>. QED  BY <2>1, <2>2 DEF FoldsIn
<1>. DEFINE r == Along(n, g)
<1>7. r \in [0 .. n -> Vectors] /\ RunOf(Empty, step, n, r)
  <2>. HIDE DEF step
  <2>. QED  BY <1>3, <1>6, EmptyVector, FoldRuns
<1>8. \A k \in 1 .. n : r[k] = Combine(op, r[k - 1], post(k))
  <2>. HIDE DEF r
  <2>1. \A k \in 1 .. n : k - 1 \in 0 .. n /\ r[k - 1] \in Vectors /\ r[k] = step[k][r[k - 1]]
    BY <1>7 DEF RunOf
  <2>. QED  BY <2>1
<1>9. r[0] = Empty /\ r[n] = g[1 .. n]
  BY <1>7 DEF RunOf, Along
<1>10. PartRun(T, part, op, keys, n, r)
  <2>. HIDE DEF r
  <2>. QED  BY <1>1, <1>8, <1>9 DEF post, PartRun
<1>. QED  BY <1>7, <1>10

Between_(A, v, S, op) ==
  Tight(v) /\ A \subseteq Members(v) /\ Members(v) \subseteq S /\ (op # AllOf => Members(v) = S)

LEMMA CombineStep ==
  ASSUME NEW op, NEW acc \in Vectors, NEW v \in Vectors, Tight(v), NEW A, NEW S, NEW A0, NEW S0,
         Between_(A0, acc, S0, op), A \subseteq Members(v), S = S0 \cup Members(v),
         acc.size # 0 => A = A0 \cap Members(v)
  PROVE  Between_(A, Combine(op, acc, v), S, op)
<1>. DEFINE w == Combine(op, acc, v)
<1>1. /\ Tight(acc) /\ A0 \subseteq Members(acc) /\ Members(acc) \subseteq S0
      /\ op # AllOf => Members(acc) = S0
  BY DEF Between_
<1>2. (acc.size = 0 => Members(acc) = {}) /\ (v.size = 0 => Members(v) = {})
  BY InVectors, NoBytes DEF Fits
<1>3. Tight(w)
  BY <1>1, CombineFits
<1>4. ASSUME v.size = 0
      PROVE  Between_(A, w, S, op)
  <2>1. w = acc
    BY <1>4, CombineOne
  <2>. HIDE DEF w
  <2>. QED  BY <1>1, <1>2, <1>3, <1>4, <2>1 DEF Between_
<1>5. ASSUME v.size # 0, acc.size = 0
      PROVE  Between_(A, w, S, op)
  <2>1. w = v
    BY <1>5, CombineOne
  <2>. HIDE DEF w
  <2>. QED  BY <1>1, <1>2, <1>3, <1>5, <2>1 DEF Between_
<1>6. ASSUME v.size # 0, acc.size # 0
      PROVE  Between_(A, w, S, op)
  <2>1. /\ op = AllOf => Members(w) = Members(acc) \cap Members(v)
        /\ op # AllOf => Members(w) = Members(acc) \cup Members(v)
    BY <1>6, CombineBoth
  <2>. HIDE DEF w
  <2>. QED  BY <1>1, <1>3, <1>6, <2>1 DEF Between_
<1>. QED  BY <1>4, <1>5, <1>6

LEMMA PartIs ==
  ASSUME NEW T, T \subseteq Ids, NEW part, NEW op, NEW keys, NEW n \in Nat, DOMAIN keys = 1 .. n
  PROVE  LET v == PartBits(T, part, op, keys)
         IN  /\ v \in Vectors /\ Tight(v)
             /\ AllHave(T, part, keys, n) \subseteq Members(v)
             /\ Members(v) \subseteq SomeHave(T, part, keys, n)
             /\ op # AllOf => Members(v) = SomeHave(T, part, keys, n)
<1>. DEFINE post(k) == Posting(T, part, keys[k])
            Has(k) == Having(T, part, keys[k])
            Some_(k) == SomeHave(T, part, keys, k)
            All_(k) == AllHave(T, part, keys, k)
<1>0. PICK r \in [0 .. n -> Vectors] : PartRun(T, part, op, keys, n, r)
  BY PartRuns
<1>1. /\ r[0] = Empty /\ PartBits(T, part, op, keys) = r[n]
      /\ \A k \in 1 .. n : r[k] = Combine(op, r[k - 1], post(k))
  BY <1>0 DEF PartRun
<1>. DEFINE Right(k) == Between_(All_(k), r[k], Some_(k), op)
            G == {k \in 0 .. n : Right(k)}
<1>2. \A k \in 1 .. n : post(k) \in Vectors /\ Tight(post(k)) /\ Members(post(k)) = Has(k)
  BY PostingIs
<1>3. Some_(0) = {} /\ All_(0) = {}
  BY DEF SomeHave, AllHave
<1>4. ASSUME NEW k \in 1 .. n
      PROVE  /\ Some_(k) = Some_(k - 1) \cup Has(k) /\ All_(k) \subseteq Has(k)
             /\ k # 1 => All_(k) = All_(k - 1) \cap Has(k)
  <2>1. 1 .. k = (1 .. k - 1) \cup {k} /\ k # 0 /\ k \in 1 .. k
    OBVIOUS
  <2>2. Has(k) \subseteq T
    BY DEF Having
  <2>. HIDE DEF Has
  <2>3. Some_(k) = {i \in T : \E l \in 1 .. k : i \in Has(l)}
    BY DEF SomeHave, Has
  <2>4. Some_(k - 1) = {i \in T : \E l \in 1 .. k - 1 : i \in Has(l)}
    BY DEF SomeHave, Has
  <2>5. All_(k) = {i \in T : \A l \in 1 .. k : i \in Has(l)}
    BY DEF AllHave, Has
  <2>6. k # 1 => All_(k - 1) = {i \in T : \A l \in 1 .. k - 1 : i \in Has(l)}
    BY DEF AllHave, Has
  <2>. HIDE DEF Some_, All_
  <2>7. Some_(k) = Some_(k - 1) \cup Has(k)
    BY <2>1, <2>2, <2>3, <2>4
  <2>8. All_(k) \subseteq Has(k)
    BY <2>1, <2>5
  <2>9. k # 1 => All_(k) = All_(k - 1) \cap Has(k)
    BY <2>1, <2>2, <2>5, <2>6
  <2>. QED  BY <2>7, <2>8, <2>9
<1>. HIDE DEF post, Has, Some_, All_
<1>5. 0 \in G
  <2>1. r[0] = Empty /\ Tight(Empty) /\ Members(Empty) = {}
    BY <1>1, EmptyVector
  <2>2. Right(0)
    BY <1>3, <2>1 DEF Between_
  <2>. HIDE DEF Right
  <2>. QED  BY <2>2
<1>6. ASSUME NEW k \in 1 .. n, Right(k - 1)
      PROVE  Right(k)
  <2>. DEFINE acc == r[k - 1]  v == post(k)
              S == Some_(k)  S0 == Some_(k - 1)  A == All_(k)  A0 == All_(k - 1)
  <2>1. /\ acc \in Vectors /\ v \in Vectors /\ Tight(v) /\ Members(v) = Has(k)
        /\ r[k] = Combine(op, acc, v) /\ Between_(A0, acc, S0, op)
    BY <1>1, <1>2, <1>6
  <2>2. k = 1 => acc.size = 0
    BY <1>1, EmptyVector
  <2>3. S = S0 \cup Members(v) /\ A \subseteq Members(v) /\ (acc.size # 0 => A = A0 \cap Members(v))
    BY <1>4, <2>1, <2>2
  <2>4. Between_(A, r[k], S, op)
    <3>. HIDE DEF acc, v, S, S0, A, A0
    <3>. QED  BY <2>1, <2>3, CombineStep
  <2>. QED  BY <2>4
<1>7. \A k \in 0 .. n : k \in G
  <2>1. \A k \in 1 .. n : k - 1 \in G => k \in G
    <3>1. \A k \in 1 .. n : k \in 0 .. n
      OBVIOUS
    <3>. HIDE DEF Right
    <3>. QED  BY <1>6, <3>1
  <2>. HIDE DEF G
  <2>. QED  BY <1>5, <2>1, Upwards
<1>8. Right(n) /\ r[n] \in Vectors
  BY <1>7
<1>. QED  BY <1>1, <1>8 DEF Some_, All_, Between_

-----------------------------------------------------------------------------
(* The keys of a range.                                                       *)
LEMMA NumberFacts ==
  /\ IsFiniteSet(Numbers) /\ Numbers \subseteq Int
  /\ \A i \in Ids : /\ KeysOf("ranges", What[i]) \subseteq Numbers
                    /\ \A x, y \in KeysOf("ranges", What[i]) : x = y
<1>. DEFINE value == [i \in Ids |-> What[i].value]
            R == {What[i].value : i \in Ids}
<1>1. \A i \in Ids : KeysOf("ranges", What[i]) = {What[i].value} \ {None}
  BY DEF KeysOf, Of
<1>2. value \in Surjection(Ids, R)
  BY DEF Surjection
<1>3. IsFiniteSet(R)
  <2>. HIDE DEF value, R
  <2>. QED  BY <1>2, Constants, FS_Surjection
<1>4. Numbers \in SUBSET R
  BY <1>1 DEF Numbers
<1>5. IsFiniteSet(Numbers)
  <2>. HIDE DEF R
  <2>. QED  BY <1>3, <1>4, FS_Subset
<1>6. Numbers \subseteq Int
  BY <1>1, SearchConstants DEF Numbers
<1>. QED  BY <1>1, <1>5, <1>6 DEF Numbers

LEMMA ScanIs ==
  ASSUME NEW T, T \subseteq Ids, NEW S \in SUBSET Numbers
  PROVE  /\ Scan(T, S) \in Vectors /\ Tight(Scan(T, S))
         /\ Members(Scan(T, S)) = {i \in T : KeysOf("ranges", What[i]) \cap S # {}}
<1>. DEFINE X == {x \in S : Having(T, "ranges", x) # {}}
            keys == InOrder(X)
            n == Cardinality(X)
            v == PartBits(T, "ranges", AnyOf, keys)
            Found == {i \in T : KeysOf("ranges", What[i]) \cap S # {}}
<1>1. X \subseteq Int /\ IsFiniteSet(X)
  <2>1. X \in SUBSET Numbers
    OBVIOUS
  <2>. HIDE DEF X
  <2>. QED  BY <2>1, NumberFacts, FS_Subset
<1>2. /\ keys \in Seq(X) /\ Len(keys) = n /\ n \in Nat
      /\ \A x \in X : \E k \in 1 .. n : keys[k] = x
  <2>. HIDE DEF X
  <2>. QED  BY <1>1, Ordered, FS_CardinalityType
<1>3. DOMAIN keys = 1 .. n /\ \A k \in 1 .. n : keys[k] \in X
  <2>. HIDE DEF X, keys, n
  <2>. QED  BY <1>2
<1>4. v \in Vectors /\ Tight(v) /\ Members(v) = SomeHave(T, "ranges", keys, n)
  <2>1. AnyOf # AllOf
    BY DEF AnyOf, AllOf
  <2>. HIDE DEF keys, n
  <2>2. v \in Vectors /\ Tight(v) /\ (AnyOf # AllOf => Members(v) = SomeHave(T, "ranges", keys, n))
    BY <1>2, <1>3, PartIs
  <2>. QED  BY <2>1, <2>2
<1>5. \A x : Having(T, "ranges", x) = {i \in T : x \in KeysOf("ranges", What[i])}
  BY DEF Having
<1>6. SomeHave(T, "ranges", keys, n) = Found
  <2>. HIDE DEF keys, n
  <2>1. SomeHave(T, "ranges", keys, n) = {i \in T : \E k \in 1 .. n : i \in Having(T, "ranges", keys[k])}
    BY DEF SomeHave
  <2>2. ASSUME NEW i \in T
        PROVE  (\E k \in 1 .. n : i \in Having(T, "ranges", keys[k])) <=> i \in Found
    <3>1. ASSUME NEW k \in 1 .. n, i \in Having(T, "ranges", keys[k])
          PROVE  i \in Found
      BY <1>3, <1>5, <3>1
    <3>2. ASSUME i \in Found
          PROVE  \E k \in 1 .. n : i \in Having(T, "ranges", keys[k])
      <4>1. PICK x \in S : x \in KeysOf("ranges", What[i])
        BY <3>2
      <4>2. i \in Having(T, "ranges", x) /\ x \in X
        BY <1>5, <4>1
      <4>. QED  BY <1>2, <4>2
    <3>. QED  BY <3>1, <3>2
  <2>. HIDE DEF Found
  <2>3. Found \subseteq T
    BY DEF Found
  <2>. QED  BY <2>1, <2>2, <2>3
<1>7. Scan(T, S) = v
  BY DEF Scan
<1>. QED  BY <1>4, <1>6, <1>7

(* A vector of a range, and what its numbers must be like.                    *)
Selects(T, v, P) ==
  v \in Vectors /\ Tight(v) /\ Members(v) = {i \in T : KeysOf("ranges", What[i]) \cap P # {}}

LEMMA Bounded ==
  ASSUME NEW T, T \subseteq Ids, NEW b \in Int, NEW strict \in BOOLEAN
  PROVE  /\ Selects(T, Below(T, b, strict), {x \in Int : x < b \/ (x = b /\ ~strict)})
         /\ Selects(T, Above(T, b, strict), {x \in Int : b < x \/ (x = b /\ ~strict)})
         /\ Selects(T, UnequalTo(T, b), Int \ {b})
         /\ Selects(T, EqualTo(T, b), {b})
<1>1. ASSUME NEW P \in SUBSET Int, NEW S, S = P \cap Numbers
      PROVE  Selects(T, Scan(T, S), P)
  <2>1. \A i \in T : KeysOf("ranges", What[i]) \cap S = KeysOf("ranges", What[i]) \cap P
    BY <1>1, NumberFacts
  <2>2. S \in SUBSET Numbers
    BY <1>1
  <2>. QED  BY <2>1, <2>2, ScanIs DEF Selects
<1>2. Selects(T, Below(T, b, strict), {x \in Int : x < b \/ (x = b /\ ~strict)})
  <2>. DEFINE P == {x \in Int : x < b \/ (x = b /\ ~strict)}
              S == {x \in Numbers : x < b \/ (x = b /\ ~strict)}
  <2>1. S = P \cap Numbers /\ P \in SUBSET Int
    BY NumberFacts
  <2>. HIDE DEF P
  <2>2. Selects(T, Scan(T, S), P)
    <3>. HIDE DEF S
    <3>. QED  BY <1>1, <2>1
  <2>. QED  BY <2>2 DEF Below, P
<1>3. Selects(T, Above(T, b, strict), {x \in Int : b < x \/ (x = b /\ ~strict)})
  <2>. DEFINE P == {x \in Int : b < x \/ (x = b /\ ~strict)}
              S == {x \in Numbers : b < x \/ (x = b /\ ~strict)}
  <2>1. S = P \cap Numbers /\ P \in SUBSET Int
    BY NumberFacts
  <2>. HIDE DEF P
  <2>2. Selects(T, Scan(T, S), P)
    <3>. HIDE DEF S
    <3>. QED  BY <1>1, <2>1
  <2>. QED  BY <2>2 DEF Above, P
<1>4. Selects(T, UnequalTo(T, b), Int \ {b})
  <2>. DEFINE P == Int \ {b}  S == Numbers \ {b}
  <2>1. S = P \cap Numbers /\ P \in SUBSET Int
    BY NumberFacts
  <2>. HIDE DEF P
  <2>2. Selects(T, Scan(T, S), P)
    <3>. HIDE DEF S
    <3>. QED  BY <1>1, <2>1
  <2>. QED  BY <2>2 DEF UnequalTo, P
<1>5. Selects(T, EqualTo(T, b), {b})
  <2>1. \A i : b \in KeysOf("ranges", What[i]) <=> KeysOf("ranges", What[i]) \cap {b} # {}
    OBVIOUS
  <2>. QED  BY <2>1, PostingIs DEF Selects, EqualTo, Having
<1>. QED  BY <1>2, <1>3, <1>4, <1>5

(* The vectors of a range have in common the statements within the range.     *)
RangeRight(T, op, b, n) ==
  LET bs == RangeBits(T, op, b)
  IN  /\ bs \in [1 .. n -> Vectors] /\ \A k \in 1 .. n : Tight(bs[k]) /\ Members(bs[k]) \subseteq T
      /\ \A i \in T : (\A k \in 1 .. n : i \in Members(bs[k]))
                        <=> \E x \in KeysOf("ranges", What[i]) : Within(op, x, b)

LEMMA RangeIs ==
  ASSUME NEW T, T \subseteq Ids, NEW op \in 0 .. 10, NEW b \in Seq(Int), b # <<>>,
         op \in 7 .. 10 => Len(b) >= 2
  PROVE  \E n \in {1, 2} : RangeRight(T, op, b, n)
<1>. DEFINE bs == RangeBits(T, op, b)
            Keys(i) == KeysOf("ranges", What[i])
            Right(n) == RangeRight(T, op, b, n)
<1>1. b[1] \in Int /\ (op \in 7 .. 10 => b[2] \in Int)
  OBVIOUS
<1>2. \A i \in T : Keys(i) \subseteq Int /\ \A x, y \in Keys(i) : x = y
  BY NumberFacts
<1>. HIDE DEF Keys
<1>3. ASSUME NEW v, NEW P, bs = <<v>>, Selects(T, v, P), \A x \in Int : x \in P <=> Within(op, x, b)
      PROVE  Right(1)
  <2>1. v \in Vectors /\ Tight(v) /\ Members(v) = {i \in T : Keys(i) \cap P # {}}
    BY <1>3 DEF Selects, Keys
  <2>. HIDE DEF bs
  <2>2. bs \in [1 .. 1 -> Vectors] /\ bs[1] = v
    BY <1>3, <2>1
  <2>3. \A i \in T : i \in Members(v) <=> \E x \in Keys(i) : Within(op, x, b)
    BY <1>2, <1>3, <2>1
  <2>4. \A k \in 1 .. 1 : Tight(bs[k]) /\ Members(bs[k]) \subseteq T
    <3>1. \A k \in 1 .. 1 : k = 1
      OBVIOUS
    <3>. QED  BY <2>1, <2>2, <3>1
  <2>. QED  BY <2>1, <2>2, <2>3, <2>4 DEF RangeRight, bs, Keys
<1>4. ASSUME NEW v, NEW w, NEW P, NEW Q, bs = <<v, w>>, Selects(T, v, P), Selects(T, w, Q),
             \A x \in Int : x \in P /\ x \in Q <=> Within(op, x, b)
      PROVE  Right(2)
  <2>1. /\ v \in Vectors /\ Tight(v) /\ Members(v) = {i \in T : Keys(i) \cap P # {}}
        /\ w \in Vectors /\ Tight(w) /\ Members(w) = {i \in T : Keys(i) \cap Q # {}}
    BY <1>4 DEF Selects, Keys
  <2>. HIDE DEF bs
  <2>2. bs \in [1 .. 2 -> Vectors] /\ bs[1] = v /\ bs[2] = w
    BY <1>4, <2>1
  <2>3. \A i \in T : i \in Members(v) /\ i \in Members(w) <=> \E x \in Keys(i) : Within(op, x, b)
    BY <1>2, <1>4, <2>1
  <2>4. \A i : (\A k \in 1 .. 2 : i \in Members(bs[k])) <=> i \in Members(v) /\ i \in Members(w)
    <3>1. \A k \in 1 .. 2 : k = 1 \/ k = 2
      OBVIOUS
    <3>. QED  BY <2>2, <3>1
  <2>5. \A k \in 1 .. 2 : Tight(bs[k]) /\ Members(bs[k]) \subseteq T
    <3>1. \A k \in 1 .. 2 : k = 1 \/ k = 2
      OBVIOUS
    <3>. QED  BY <2>1, <2>2, <3>1
  <2>. QED  BY <2>2, <2>3, <2>4, <2>5 DEF RangeRight, bs, Keys
<1>. DEFINE Under(c, strict) == {x \in Int : x < c \/ (x = c /\ ~strict)}
            Over_(c, strict) == {x \in Int : c < x \/ (x = c /\ ~strict)}
<1>5. CASE op = 0
  <2>1. bs = <<Empty>>
    BY <1>5 DEF RangeBits
  <2>2. Selects(T, Empty, {})
    BY EmptyVector DEF Selects
  <2>3. \A x \in Int : x \in {} <=> Within(op, x, b)
    BY <1>5 DEF Within
  <2>4. Right(1)
    <3>. HIDE DEF bs
    <3>. QED  BY <1>3, <2>1, <2>2, <2>3
  <2>. QED  BY <2>4
<1>6. CASE op \in {1, 2}
  <2>. DEFINE s == (op = 1)  P == Under(b[1], s)
  <2>1. bs = <<Below(T, b[1], s)>>
    BY <1>6 DEF RangeBits
  <2>2. Selects(T, Below(T, b[1], s), P)
    BY <1>1, Bounded
  <2>3. \A x \in Int : x \in P <=> Within(op, x, b)
    BY <1>1, <1>6 DEF Within
  <2>4. Right(1)
    <3>. HIDE DEF bs, P
    <3>. QED  BY <1>3, <2>1, <2>2, <2>3
  <2>. QED  BY <2>4
<1>7. CASE op = 3
  <2>. DEFINE P == {b[1]}
  <2>1. bs = <<EqualTo(T, b[1])>>
    BY <1>7 DEF RangeBits
  <2>2. Selects(T, EqualTo(T, b[1]), P)
    BY <1>1, Bounded
  <2>3. \A x \in Int : x \in P <=> Within(op, x, b)
    BY <1>1, <1>7 DEF Within
  <2>4. Right(1)
    <3>. HIDE DEF bs, P
    <3>. QED  BY <1>3, <2>1, <2>2, <2>3
  <2>. QED  BY <2>4
<1>8. CASE op = 4
  <2>. DEFINE P == Int \ {b[1]}
  <2>1. bs = <<UnequalTo(T, b[1])>>
    BY <1>8 DEF RangeBits
  <2>2. Selects(T, UnequalTo(T, b[1]), P)
    BY <1>1, Bounded
  <2>3. \A x \in Int : x \in P <=> Within(op, x, b)
    BY <1>1, <1>8 DEF Within
  <2>4. Right(1)
    <3>. HIDE DEF bs, P
    <3>. QED  BY <1>3, <2>1, <2>2, <2>3
  <2>. QED  BY <2>4
<1>9. CASE op \in {5, 6}
  <2>. DEFINE s == (op = 6)  P == Over_(b[1], s)
  <2>1. bs = <<Above(T, b[1], s)>>
    BY <1>9 DEF RangeBits
  <2>2. Selects(T, Above(T, b[1], s), P)
    BY <1>1, Bounded
  <2>3. \A x \in Int : x \in P <=> Within(op, x, b)
    BY <1>1, <1>9 DEF Within
  <2>4. Right(1)
    <3>. HIDE DEF bs, P
    <3>. QED  BY <1>3, <2>1, <2>2, <2>3
  <2>. QED  BY <2>4
<1>10. CASE op \in 7 .. 10
  <2>. DEFINE s == (op \in {7, 10})  t == (op \in {7, 8})
              P == Over_(b[1], s)  Q == Under(b[2], t)
  <2>1. bs = <<Above(T, b[1], s), Below(T, b[2], t)>>
    BY <1>10 DEF RangeBits, Between
  <2>2. Selects(T, Above(T, b[1], s), P) /\ Selects(T, Below(T, b[2], t), Q)
    <3>1. b[1] \in Int /\ b[2] \in Int /\ s \in BOOLEAN /\ t \in BOOLEAN
      BY <1>1, <1>10
    <3>2. Selects(T, Above(T, b[1], s), P)
      BY <3>1, Bounded
    <3>3. Selects(T, Below(T, b[2], t), Q)
      BY <3>1, Bounded
    <3>. QED  BY <3>2, <3>3
  <2>3. \A x \in Int : x \in P /\ x \in Q <=> Within(op, x, b)
    <3>1. op = 7 \/ op = 8 \/ op = 9 \/ op = 10
      BY <1>10
    <3>2. b[1] \in Int /\ b[2] \in Int
      BY <1>1, <1>10
    <3>. QED  BY <3>1, <3>2 DEF Within
  <2>4. Right(2)
    <3>. HIDE DEF bs, P, Q
    <3>. QED  BY <1>4, <2>1, <2>2, <2>3
  <2>. QED  BY <2>4
<1>. QED  BY <1>5, <1>6, <1>7, <1>8, <1>9, <1>10

-----------------------------------------------------------------------------
(* What the vectors of a part have in common lies between the statements with *)
(* all its keys and those with some.                                          *)
LEMMA PartsAre ==
  /\ DOMAIN Parts = 1 .. 8
  /\ \A k \in 1 .. 8 : Parts[k] \in {"words", "subjects", "predicates", "objects", "langs", "dts",
                                      "ranges", "contexts"}
<1>1. DOMAIN Parts = 1 .. 8
  BY DEF Parts
<1>2. \A k \in 1 .. 8 : k \in {1, 2, 3, 4, 5, 6, 7, 8}
  OBVIOUS
<1>. QED  BY <1>1, <1>2 DEF Parts

LEMMA Sequenced ==
  ASSUME NEW tp \in Patterns, NEW k \in 1 .. 8
  PROVE  /\ tp[Parts[k]] \in Seq(Range(tp[Parts[k]])) /\ tp.operator[Parts[k]] \in Nat
         /\ Parts[k] = "ranges" \/ tp[Parts[k]] = <<>> \/ tp.operator[Parts[k]] # 2
         /\ tp.ranges \in Seq(Int)
<1>1. IsPattern(tp)
  BY SearchConstants
<1>. QED  BY <1>1, PartsAre DEF IsPattern

HaveAll(T, tp, part) == {i \in T : HasAll(part, i, tp)}
HaveSome(T, tp, part) == {i \in T : HasSome(part, i, tp)}
Common(T, bs, n) == {i \in T : \A k \in 1 .. n : i \in Members(bs[k])}
BitsRight(T, tp, part, n) ==
  LET bs == BitsOf(T, tp, part)
  IN  /\ bs \in [1 .. n -> Vectors] /\ \A k \in 1 .. n : Tight(bs[k]) /\ Members(bs[k]) \subseteq T
      /\ HaveAll(T, tp, part) \subseteq Common(T, bs, n)
      /\ Common(T, bs, n) \subseteq HaveSome(T, tp, part)

LEMMA KeyedBits ==
  ASSUME NEW T, T \subseteq Ids, NEW tp \in Patterns, NEW j \in 1 .. 8,
         Parts[j] # "ranges", tp[Parts[j]] # <<>>
  PROVE  BitsRight(T, tp, Parts[j], 1)
<1>. DEFINE part == Parts[j]
            keys == tp[part]
            op == tp.operator[part]
            n == Len(keys)
            v == PartBits(T, part, op, keys)
            bs == BitsOf(T, tp, part)
            S == SomeHave(T, part, keys, n)
            A == AllHave(T, part, keys, n)
<1>1. bs = <<v>>
  <2>1. part \in {"words", "subjects", "predicates", "objects", "langs", "dts", "contexts"}
    BY PartsAre
  <2>. HIDE DEF part
  <2>. QED  BY <2>1 DEF BitsOf, WordsBits, SubjectsBits, PredicatesBits, ObjectsBits, LangsBits,
                        DatatypesBits, ContextsBits
<1>2. keys \in Seq(Range(keys)) /\ keys # <<>> /\ part # "ranges"
  BY Sequenced
<1>. HIDE DEF part, keys, op
<1>3. DOMAIN keys = 1 .. n /\ n \in Nat /\ n # 0
  BY <1>2
<1>. HIDE DEF n
<1>4. /\ v \in Vectors /\ Tight(v) /\ A \subseteq Members(v) /\ Members(v) \subseteq S
      /\ op # AllOf => Members(v) = S
  BY <1>3, PartIs
<1>. HIDE DEF v
<1>5. Range(keys) = {keys[l] : l \in 1 .. n}
  BY <1>3 DEF Range
<1>6. \A i \in T : i \in S <=> KeysOf(part, What[i]) \cap Range(keys) # {}
  <2>1. \A i \in T : i \in S <=> \E l \in 1 .. n : keys[l] \in KeysOf(part, What[i])
    BY DEF SomeHave, Having
  <2>. HIDE DEF S
  <2>. QED  BY <1>5, <2>1
<1>7. \A i \in T : i \in A <=> Range(keys) \subseteq KeysOf(part, What[i])
  <2>1. \A i \in T : i \in A <=> \A l \in 1 .. n : keys[l] \in KeysOf(part, What[i])
    BY <1>3 DEF AllHave, Having
  <2>. HIDE DEF A
  <2>. QED  BY <1>5, <2>1
<1>8. S \subseteq T
  BY DEF SomeHave
<1>9. \A i \in T : HasSome(part, i, tp) <=> i \in S
  BY <1>2, <1>6 DEF HasSome, Keyed, keys
<1>10. \A i \in T : HasAll(part, i, tp) <=> IF op = AllOf THEN i \in A ELSE i \in S
  BY <1>2, <1>7, <1>9 DEF HasAll, keys, op
<1>. HIDE DEF S, A, bs
<1>11. bs \in [1 .. 1 -> Vectors] /\ bs[1] = v
  BY <1>1, <1>4
<1>12. Common(T, bs, 1) = Members(v)
  <2>1. \A k \in 1 .. 1 : k = 1
    OBVIOUS
  <2>. QED  BY <1>4, <1>8, <1>11, <2>1 DEF Common
<1>13. HaveAll(T, tp, part) \subseteq Members(v) /\ Members(v) \subseteq HaveSome(T, tp, part)
  BY <1>4, <1>8, <1>9, <1>10 DEF HaveAll, HaveSome
<1>14. \A k \in 1 .. 1 : Tight(bs[k]) /\ Members(bs[k]) \subseteq T
  <2>1. \A k \in 1 .. 1 : k = 1
    OBVIOUS
  <2>. QED  BY <1>4, <1>8, <1>11, <2>1
<1>. QED  BY <1>11, <1>12, <1>13, <1>14 DEF BitsRight, bs, part

LEMMA RangedBits ==
  ASSUME NEW T, T \subseteq Ids, NEW tp \in Patterns, ~Refused(tp), ~Unanswered(T, tp),
         tp.ranges # <<>>
  PROVE  \E n \in {1, 2} : BitsRight(T, tp, "ranges", n)
<1>. DEFINE op == tp.operator["ranges"]
            b == tp.ranges
<1>1. Parts[7] = "ranges" /\ 7 \in DOMAIN Parts /\ 7 \in 1 .. 8
  BY DEF Parts
<1>2. b \in Seq(Int) /\ op \in Nat
  BY <1>1, Sequenced
<1>3. ~(op > 10)
  BY <1>1 DEF Refused
<1>4. (op \in 7 .. 10 => ~(Len(b) < 2)) /\ b # <<>>
  BY DEF Unanswered
<1>5. op \in 0 .. 10 /\ (op \in 7 .. 10 => Len(b) >= 2) /\ b # <<>>
  <2>. HIDE DEF op, b
  <2>1. Len(b) \in Int
    BY <1>2
  <2>2. op \in 0 .. 10
    BY <1>2, <1>3
  <2>. QED  BY <1>4, <2>1, <2>2
<1>. HIDE DEF op, b
<1>6. PICK n \in {1, 2} : RangeRight(T, op, b, n)
  BY <1>2, <1>5, RangeIs
<1>. DEFINE bs == RangeBits(T, op, b)
<1>7. /\ bs \in [1 .. n -> Vectors] /\ \A k \in 1 .. n : Tight(bs[k]) /\ Members(bs[k]) \subseteq T
      /\ \A i \in T : (\A k \in 1 .. n : i \in Members(bs[k]))
                        <=> \E x \in KeysOf("ranges", What[i]) : Within(op, x, b)
  BY <1>6 DEF RangeRight
<1>8. BitsOf(T, tp, "ranges") = bs
  BY DEF BitsOf, op, b
<1>. HIDE DEF bs
<1>9. \A i \in T : HasAll("ranges", i, tp) = HasSome("ranges", i, tp)
  BY DEF HasAll
<1>10. \A i \in T : HasSome("ranges", i, tp)
                      <=> \E x \in KeysOf("ranges", What[i]) : Within(op, x, b)
  BY DEF HasSome, InRange, op, b
<1>11. HaveAll(T, tp, "ranges") = Common(T, bs, n) /\ HaveSome(T, tp, "ranges") = Common(T, bs, n)
  BY <1>7, <1>9, <1>10 DEF HaveAll, HaveSome, Common
<1>. QED  BY <1>7, <1>8, <1>11 DEF BitsRight

-----------------------------------------------------------------------------
(* Joining. Before anything was asked the vector is an empty one, that stands *)
(* for everything; after that it has a member, or the search has ended.       *)
Accs == [state : {"going", "ended", "refused"}, bits : Vectors]
Meet(T, acc) == IF acc.bits.size = 0 THEN T ELSE Members(acc.bits)

Joined(acc, both) ==
  \/ acc.state = "going" /\ acc.bits.size # 0 /\ Members(acc.bits) = both
  \/ acc.state = "ended" /\ both = {}

LEMMA JoinFits ==
  ASSUME NEW acc \in Accs, NEW v \in Vectors
  PROVE  Join(acc, v) \in Accs /\ (acc.state # "going" => Join(acc, v) = acc)
<1>. DEFINE both == and(acc.bits, v)
<1>1. acc.bits \in Vectors /\ both \in Vectors /\ shorten(v) \in Vectors
  BY FittingAnd, FittingShorten DEF Accs
<1>. HIDE DEF both
<1>2. Join(acc, v) = IF acc.state # "going" THEN acc
                     ELSE IF v.size = 0 THEN [acc EXCEPT !.state = "ended"]
                     ELSE IF acc.bits.size = 0 THEN [acc EXCEPT !.bits = shorten(v)]
                     ELSE IF both.size = 0 THEN [acc EXCEPT !.state = "ended"]
                                           ELSE [acc EXCEPT !.bits = both]
  BY DEF Join, both
<1>3. CASE acc.state # "going"
  BY <1>2, <1>3
<1>4. CASE acc.state = "going" /\ v.size = 0
  BY <1>1, <1>2, <1>4 DEF Accs
<1>5. CASE acc.state = "going" /\ v.size # 0 /\ acc.bits.size = 0
  BY <1>1, <1>2, <1>5 DEF Accs
<1>6. CASE acc.state = "going" /\ v.size # 0 /\ acc.bits.size # 0
  BY <1>1, <1>2, <1>6 DEF Accs
<1>. QED  BY <1>3, <1>4, <1>5, <1>6

(* Joining one vector leaves what the vectors so far have in common.          *)
LEMMA JoinOne ==
  ASSUME NEW T, NEW acc \in Accs, acc.state = "going", NEW v \in Vectors, Tight(v),
         Members(v) \subseteq T
  PROVE  Joined(Join(acc, v), Meet(T, acc) \cap Members(v))
<1>. SUFFICES LET new == Join(acc, v)  both == Meet(T, acc) \cap Members(v)
              IN  \/ new.state = "going" /\ new.bits.size # 0 /\ Members(new.bits) = both
                  \/ new.state = "ended" /\ both = {}
  BY DEF Joined
<1>. DEFINE b == acc.bits  c == and(b, v)  s == shorten(v)
<1>1. /\ b \in Vectors
      /\ c \in Vectors /\ Tight(c) /\ Members(c) = Members(b) \cap Members(v)
      /\ s \in Vectors /\ Tight(s) /\ Members(s) = Members(v)
  BY FittingAnd, FittingShorten DEF Accs
<1>2. /\ c.size = 0 <=> Members(c) = {}
      /\ s.size = 0 <=> Members(s) = {}
      /\ v.size = 0 <=> Members(v) = {}
  <2>. HIDE DEF c, s
  <2>. QED  BY <1>1, InVectors, TightMeans DEF Fits
<1>3. acc = [state |-> acc.state, bits |-> acc.bits]
  BY DEF Accs
<1>4. CASE v.size = 0
  <2>1. Join(acc, v) = [acc EXCEPT !.state = "ended"]
    BY <1>4 DEF Join
  <2>2. Join(acc, v).state = "ended"
    BY <1>3, <2>1
  <2>. QED  BY <1>2, <1>4, <2>2
<1>5. CASE v.size # 0 /\ b.size = 0
  <2>1. Join(acc, v) = [acc EXCEPT !.bits = s]
    BY <1>5 DEF Join
  <2>2. Join(acc, v).state = "going" /\ Join(acc, v).bits = s
    BY <1>3, <2>1
  <2>3. Meet(T, acc) = T
    BY <1>5 DEF Meet
  <2>4. s.size # 0
    BY <1>1, <1>2, <1>5
  <2>. HIDE DEF s
  <2>. QED  BY <1>1, <2>2, <2>3, <2>4
<1>6. CASE v.size # 0 /\ b.size # 0
  <2>1. Join(acc, v) = IF c.size = 0 THEN [acc EXCEPT !.state = "ended"]
                                     ELSE [acc EXCEPT !.bits = c]
    BY <1>6 DEF Join
  <2>2. Meet(T, acc) = Members(b)
    BY <1>6 DEF Meet
  <2>. HIDE DEF c
  <2>3. CASE c.size = 0
    <3>1. Join(acc, v).state = "ended"
      BY <1>3, <2>1, <2>3
    <3>. QED  BY <1>1, <1>2, <2>2, <2>3, <3>1
  <2>4. CASE c.size # 0
    <3>1. Join(acc, v).state = "going" /\ Join(acc, v).bits = c
      BY <1>3, <2>1, <2>4
    <3>. QED  BY <1>1, <2>2, <2>4, <3>1
  <2>. QED  BY <2>3, <2>4
<1>. QED  BY <1>4, <1>5, <1>6

JoinRun(acc, bs, n, r) ==
  r[0] = acc /\ FoldLeft(Join, acc, bs) = r[n] /\ \A k \in 1 .. n : r[k] = Join(r[k - 1], bs[k])

LEMMA JoinRuns ==
  ASSUME NEW acc \in Accs, NEW n \in Nat, NEW bs \in [1 .. n -> Vectors]
  PROVE  \E r \in [0 .. n -> Accs] : JoinRun(acc, bs, n, r)
<1>. DEFINE D == 1 .. n
            Is(g) == g = [s \in SUBSET D |-> IF s = {} THEN acc
                                             ELSE Join(g[s \ {Max(s)}], bs[Max(s)])]
            g == CHOOSE h : Is(h)
            step == [k \in 1 .. n |-> [a \in Accs |-> Join(a, bs[k])]]
<1>1. FoldLeft(Join, acc, bs) = g[1 .. n]
  <2>1. DOMAIN bs = 1 .. n
    OBVIOUS
  <2>. QED  BY <2>1 DEF FoldLeft, MapThenFoldSet
<1>2. \A k \in 1 .. n, a \in Accs : Join(a, bs[k]) \in Accs
  BY JoinFits
<1>. HIDE DEF g
<1>3. step \in [1 .. n -> [Accs -> Accs]]
  BY <1>2
<1>4. \A s \in SUBSET D : s # {} => Max(s) \in D /\ s \ {Max(s)} \in SUBSET D
  BY LargestOf
<1>5. Is(g)
  <2>. HIDE DEF step
  <2>1. PICK f \in [SUBSET (1 .. n) -> Accs] : FoldedOver(acc, step, Latest(n), f, 1 .. n)
    BY <1>3, FoldUpExists
  <2>2. ASSUME NEW s \in SUBSET D
        PROVE  f[s] = IF s = {} THEN acc ELSE Join(f[s \ {Max(s)}], bs[Max(s)])
    <3>1. f[s] = FoldBody(acc, step, Latest(n), f, s)
      BY <2>1 DEF FoldedOver
    <3>2. CASE s # {}
      <4>1. Max(s) \in D /\ f[s \ {Max(s)}] \in Accs /\ Latest(n)[s] = Max(s)
        BY <1>4, <3>2 DEF Latest
      <4>2. step[Max(s)][f[s \ {Max(s)}]] = Join(f[s \ {Max(s)}], bs[Max(s)])
        BY <4>1 DEF step
      <4>. QED  BY <3>1, <3>2, <4>1, <4>2 DEF FoldBody
    <3>. QED  BY <3>1, <3>2 DEF FoldBody
  <2>3. Is(f)
    <3>1. f = [s \in SUBSET D |-> f[s]]
      OBVIOUS
    <3>. QED  BY <2>2, <3>1
  <2>. HIDE DEF Is
  <2>. QED  BY <2>3 DEF g
<1>6. FoldsIn(acc, step, Accs, n, g)
  <2>1. g[{}] = acc
    BY <1>5
  <2>2. ASSUME NEW s \in SUBSET (1 .. n), s # {}, g[s \ {Max(s)}] \in Accs
        PROVE  g[s] = step[Max(s)][g[s \ {Max(s)}]]
    <3>. DEFINE m == Max(s)  a == g[s \ {m}]
    <3>1. m \in D /\ a \in Accs /\ g[s] = Join(a, bs[m])
      BY <1>4, <1>5, <2>2
    <3>. HIDE DEF m, a
    <3>2. g[s] = step[m][a]
      BY <3>1
    <3>. QED  BY <3>2 DEF m, a
  <2>. HIDE DEF step
  <2>. QED  BY <2>1, <2>2 DEF FoldsIn
<1>. DEFINE r == Along(n, g)
<1>7. r \in [0 .. n -> Accs] /\ RunOf(acc, step, n, r)
  <2>. HIDE DEF step
  <2>. QED  BY <1>3, <1>6, FoldRuns
<1>8. \A k \in 1 .. n : r[k] = Join(r[k - 1], bs[k])
  <2>. HIDE DEF r
  <2>1. \A k \in 1 .. n : k - 1 \in 0 .. n /\ r[k - 1] \in Accs /\ r[k] = step[k][r[k - 1]]
    BY <1>7 DEF RunOf
  <2>. QED  BY <2>1
<1>9. r[0] = acc /\ r[n] = g[1 .. n]
  BY <1>7 DEF RunOf, Along
<1>10. JoinRun(acc, bs, n, r)
  <2>. HIDE DEF r
  <2>. QED  BY <1>1, <1>8, <1>9 DEF JoinRun
<1>. QED  BY <1>7, <1>10

(* Joining the vectors of a part.                                             *)
LEMMA JoinAll ==
  ASSUME NEW T, NEW acc \in Accs, acc.state = "going", NEW n \in {1, 2},
         NEW bs \in [1 .. n -> Vectors], \A k \in 1 .. n : Tight(bs[k]),
         \A k \in 1 .. n : Members(bs[k]) \subseteq T, acc.bits.size # 0 => Members(acc.bits) \subseteq T
  PROVE  /\ FoldLeft(Join, acc, bs) \in Accs
         /\ Joined(FoldLeft(Join, acc, bs), Meet(T, acc) \cap Common(T, bs, n))
<1>. DEFINE M == Meet(T, acc)
            new == FoldLeft(Join, acc, bs)
            both == M \cap Common(T, bs, n)
<1>1. n \in Nat /\ 1 \in 1 .. n /\ \A k \in 1 .. n : k = 1 \/ k = n
  OBVIOUS
<1>2. PICK r \in [0 .. n -> Accs] : JoinRun(acc, bs, n, r)
  BY <1>1, JoinRuns
<1>3. r[0] = acc /\ new = r[n] /\ \A k \in 1 .. n : r[k] = Join(r[k - 1], bs[k])
  BY <1>2 DEF JoinRun
<1>4. M \subseteq T
  BY DEF Meet
<1>. HIDE DEF M, new
<1>5. r[1] \in Accs /\ r[1] = Join(acc, bs[1]) /\ Joined(r[1], M \cap Members(bs[1]))
  <2>. DEFINE v == bs[1]
  <2>1. r[1] = Join(acc, v) /\ r[1] \in Accs /\ v \in Vectors /\ Tight(v) /\ Members(v) \subseteq T
    BY <1>1, <1>3
  <2>. HIDE DEF v
  <2>2. Joined(Join(acc, v), M \cap Members(v))
    BY <2>1, JoinOne DEF M
  <2>. QED  BY <2>1, <2>2 DEF v
<1>6. CASE n = 1
  <2>1. Common(T, bs, n) = Members(bs[1])
    BY <1>1, <1>6 DEF Common
  <2>. QED  BY <1>3, <1>5, <1>6, <2>1 DEF new, M
<1>7. CASE n = 2
  <2>0. bs[2] \in Vectors /\ Tight(bs[2]) /\ Members(bs[2]) \subseteq T /\ Members(bs[1]) \subseteq T
    BY <1>1, <1>7
  <2>1. both = M \cap Members(bs[1]) \cap Members(bs[2])
    <3>1. \A k \in 1 .. 2 : k = 1 \/ k = 2
      OBVIOUS
    <3>. QED  BY <1>4, <1>7, <3>1, <2>0 DEF Common
  <2>. HIDE DEF both
  <2>2. new = Join(r[1], bs[2]) /\ new \in Accs
    <3>1. 2 \in 1 .. n /\ 2 - 1 = 1 /\ 2 \in 0 .. n
      BY <1>7
    <3>. QED  BY <1>3, <1>7, <3>1
  <2>3. CASE r[1].state = "going"
    <3>1. Meet(T, r[1]) = M \cap Members(bs[1])
      BY <1>5, <2>3 DEF Meet, Joined
    <3>2. Joined(new, both)
      BY <1>5, <2>0, <2>1, <2>2, <2>3, <3>1, JoinOne
    <3>. QED  BY <2>2, <3>2 DEF new, both, M
  <2>4. CASE r[1].state # "going"
    <3>1. new = r[1] /\ r[1].state = "ended" /\ both = {}
      BY <1>5, <2>0, <2>1, <2>2, <2>4, JoinFits DEF Joined
    <3>2. Joined(new, both)
      BY <3>1 DEF Joined
    <3>. QED  BY <2>2, <3>2 DEF new, both, M
  <2>. QED  BY <2>3, <2>4
<1>. QED  BY <1>6, <1>7

-----------------------------------------------------------------------------
(* The search, part after part.                                               *)
AllSoFar(T, tp, k) == {i \in T : \A j \in 1 .. k : Asked(tp, Parts[j]) => HasAll(Parts[j], i, tp)}
SomeSoFar(T, tp, k) == {i \in T : \A j \in 1 .. k : Asked(tp, Parts[j]) => HasSome(Parts[j], i, tp)}
AskedSoFar(tp, k) == \E j \in 1 .. k : Asked(tp, Parts[j])
SoFar(T, tp, k, acc) ==
  /\ acc \in Accs
  /\ acc.state = "going" =>
       /\ AskedSoFar(tp, k) <=> acc.bits.size # 0
       /\ AllSoFar(T, tp, k) \subseteq Meet(T, acc)
       /\ Meet(T, acc) \subseteq SomeSoFar(T, tp, k)
  /\ acc.state = "ended" => AskedSoFar(tp, k) /\ AllSoFar(T, tp, k) = {}
  /\ acc.state = "refused" => Unanswered(T, tp)

LEMMA OneMore ==
  ASSUME NEW T, NEW tp, NEW k \in 1 .. 8
  PROVE  LET part == Parts[k]
         IN  /\ AskedSoFar(tp, k) <=> AskedSoFar(tp, k - 1) \/ Asked(tp, part)
             /\ AllSoFar(T, tp, k) = IF Asked(tp, part)
                                     THEN AllSoFar(T, tp, k - 1) \cap HaveAll(T, tp, part)
                                     ELSE AllSoFar(T, tp, k - 1)
             /\ SomeSoFar(T, tp, k) = IF Asked(tp, part)
                                      THEN SomeSoFar(T, tp, k - 1) \cap HaveSome(T, tp, part)
                                      ELSE SomeSoFar(T, tp, k - 1)
<1>1. k \in 1 .. k /\ \A j : j \in 1 .. k <=> j = k \/ j \in 1 .. k - 1
  OBVIOUS
<1>. DEFINE part == Parts[k]
<1>2. AskedSoFar(tp, k) <=> AskedSoFar(tp, k - 1) \/ Asked(tp, part)
  BY <1>1 DEF AskedSoFar
<1>3. ASSUME NEW i \in T
      PROVE  i \in AllSoFar(T, tp, k)
               <=> i \in AllSoFar(T, tp, k - 1) /\ (Asked(tp, part) => i \in HaveAll(T, tp, part))
  BY <1>1 DEF AllSoFar, HaveAll
<1>4. ASSUME NEW i \in T
      PROVE  i \in SomeSoFar(T, tp, k)
               <=> i \in SomeSoFar(T, tp, k - 1) /\ (Asked(tp, part) => i \in HaveSome(T, tp, part))
  BY <1>1 DEF SomeSoFar, HaveSome
<1>5. /\ AllSoFar(T, tp, k) \subseteq T /\ AllSoFar(T, tp, k - 1) \subseteq T
      /\ SomeSoFar(T, tp, k) \subseteq T /\ SomeSoFar(T, tp, k - 1) \subseteq T
  BY DEF AllSoFar, SomeSoFar
<1>. QED  BY <1>2, <1>3, <1>4, <1>5

LEMMA JoinPartStep ==
  ASSUME NEW T, T \subseteq Ids, NEW tp \in Patterns, ~Refused(tp), NEW k \in 1 .. 8,
         NEW acc, SoFar(T, tp, k - 1, acc)
  PROVE  SoFar(T, tp, k, JoinPart(T, tp, acc, Parts[k]))
<1>. DEFINE part == Parts[k]
            bs == BitsOf(T, tp, part)
            new == JoinPart(T, tp, acc, part)
            A == AllSoFar(T, tp, k)  A0 == AllSoFar(T, tp, k - 1)
            S == SomeSoFar(T, tp, k)  S0 == SomeSoFar(T, tp, k - 1)
            Q == AskedSoFar(tp, k)  Q0 == AskedSoFar(tp, k - 1)
            HA == HaveAll(T, tp, part)  HS == HaveSome(T, tp, part)
<1>1. /\ Q <=> Q0 \/ Asked(tp, part)
      /\ A = IF Asked(tp, part) THEN A0 \cap HA ELSE A0
      /\ S = IF Asked(tp, part) THEN S0 \cap HS ELSE S0
  BY OneMore
<1>2. /\ acc \in Accs
      /\ acc.state = "going" => (Q0 <=> acc.bits.size # 0) /\ A0 \subseteq Meet(T, acc) /\ Meet(T, acc) \subseteq S0
      /\ acc.state = "ended" => Q0 /\ A0 = {}
      /\ acc.state = "refused" => Unanswered(T, tp)
  BY DEF SoFar
<1>3. ASSUME NEW a, a \in Accs,
             a.state = "going" => (Q <=> a.bits.size # 0) /\ A \subseteq Meet(T, a) /\ Meet(T, a) \subseteq S,
             a.state = "ended" => Q /\ A = {}, a.state = "refused" => Unanswered(T, tp)
      PROVE  SoFar(T, tp, k, a)
  BY <1>3 DEF SoFar
<1>4. S0 \subseteq T
  BY DEF SomeSoFar
<1>. HIDE DEF A, A0, S, S0, Q, Q0
<1>5. CASE acc.state # "going" \/ ~Asked(tp, part)
  <2>1. new = acc
    BY <1>5 DEF JoinPart
  <2>2. SoFar(T, tp, k, acc)
    <3>. HIDE DEF part, HA, HS
    <3>1. acc.state \in {"going", "ended", "refused"}
      BY <1>2 DEF Accs
    <3>. QED  BY <1>1, <1>2, <1>3, <1>5, <3>1
  <2>. QED  BY <2>1, <2>2
<1>6. CASE acc.state = "going" /\ Asked(tp, part) /\ part = "ranges" /\ Unanswered(T, tp)
  <2>1. new = [acc EXCEPT !.state = "refused"]
    BY <1>6 DEF JoinPart
  <2>2. new \in Accs /\ new.state = "refused"
    BY <1>2, <2>1 DEF Accs
  <2>. HIDE DEF new
  <2>3. SoFar(T, tp, k, new)
    BY <1>3, <1>6, <2>2
  <2>. QED  BY <2>3 DEF new
<1>7. CASE acc.state = "going" /\ Asked(tp, part) /\ ~(part = "ranges" /\ Unanswered(T, tp))
  <2>1. new = FoldLeft(Join, acc, bs)
    BY <1>7 DEF JoinPart
  <2>2. PICK n \in {1, 2} : BitsRight(T, tp, part, n)
    <3>1. tp[part] # <<>>
      BY <1>7 DEF Asked
    <3>2. CASE part = "ranges"
      <4>1. ~Unanswered(T, tp) /\ tp.ranges # <<>>
        BY <1>7, <3>1, <3>2
      <4>. HIDE DEF part
      <4>. QED  BY <3>2, <4>1, RangedBits
    <3>3. CASE part # "ranges"
      <4>1. BitsRight(T, tp, part, 1)
        BY <3>1, <3>3, KeyedBits
      <4>. QED  BY <4>1
    <3>. QED  BY <3>2, <3>3
  <2>3. /\ bs \in [1 .. n -> Vectors] /\ \A l \in 1 .. n : Tight(bs[l]) /\ Members(bs[l]) \subseteq T
        /\ HA \subseteq Common(T, bs, n) /\ Common(T, bs, n) \subseteq HS
    BY <2>2 DEF BitsRight
  <2>. DEFINE both == Meet(T, acc) \cap Common(T, bs, n)
  <2>4. acc.bits.size # 0 => Members(acc.bits) \subseteq T
    BY <1>2, <1>4, <1>7 DEF Meet
  <2>5. new \in Accs /\ Joined(new, both)
    <3>. HIDE DEF bs
    <3>1. acc \in Accs /\ acc.state = "going"
      BY <1>2, <1>7
    <3>. QED  BY <2>1, <2>3, <2>4, <3>1, JoinAll
  <2>6. Q /\ A = A0 \cap HA /\ S = S0 \cap HS
    BY <1>1, <1>7
  <2>7. A \subseteq both /\ both \subseteq S
    BY <1>2, <1>7, <2>3, <2>6
  <2>. HIDE DEF new, both
  <2>8. SoFar(T, tp, k, new)
    BY <1>3, <2>5, <2>6, <2>7 DEF Joined, Meet
  <2>. QED  BY <2>8 DEF new
<1>. QED  BY <1>5, <1>6, <1>7

SearchRun(T, tp, r) ==
  /\ r[0] = [state |-> "going", bits |-> Empty]
  /\ FoldLeft(LAMBDA acc, p : JoinPart(T, tp, acc, p), [state |-> "going", bits |-> Empty], Parts) = r[8]
  /\ \A k \in 1 .. 8 : r[k] = JoinPart(T, tp, r[k - 1], Parts[k])

LEMMA JoinPartFits ==
  ASSUME NEW T, T \subseteq Ids, NEW tp \in Patterns, ~Refused(tp), NEW k \in 1 .. 8, NEW acc \in Accs
  PROVE  JoinPart(T, tp, acc, Parts[k]) \in Accs
<1>. DEFINE part == Parts[k]
            bs == BitsOf(T, tp, part)
            new == JoinPart(T, tp, acc, part)
<1>1. CASE acc.state # "going" \/ ~Asked(tp, part)
  BY <1>1 DEF JoinPart
<1>2. CASE acc.state = "going" /\ Asked(tp, part) /\ part = "ranges" /\ Unanswered(T, tp)
  <2>1. new = [acc EXCEPT !.state = "refused"]
    BY <1>2 DEF JoinPart
  <2>. QED  BY <2>1 DEF Accs
<1>3. CASE acc.state = "going" /\ Asked(tp, part) /\ ~(part = "ranges" /\ Unanswered(T, tp))
  <2>1. new = FoldLeft(Join, acc, bs)
    BY <1>3 DEF JoinPart
  <2>2. PICK n \in {1, 2} : BitsRight(T, tp, part, n)
    <3>1. tp[part] # <<>>
      BY <1>3 DEF Asked
    <3>2. CASE part = "ranges"
      <4>1. ~Unanswered(T, tp) /\ tp.ranges # <<>>
        BY <1>3, <3>1, <3>2
      <4>. HIDE DEF part
      <4>. QED  BY <3>2, <4>1, RangedBits
    <3>3. CASE part # "ranges"
      <4>1. BitsRight(T, tp, part, 1)
        BY <3>1, <3>3, KeyedBits
      <4>. QED  BY <4>1
    <3>. QED  BY <3>2, <3>3
  <2>3. bs \in [1 .. n -> Vectors] /\ n \in Nat
    BY <2>2 DEF BitsRight
  <2>. HIDE DEF bs
  <2>4. PICK r \in [0 .. n -> Accs] : JoinRun(acc, bs, n, r)
    BY <2>3, JoinRuns
  <2>5. new = r[n] /\ n \in 0 .. n
    BY <2>1, <2>3, <2>4 DEF JoinRun
  <2>. QED  BY <2>5
<1>. QED  BY <1>1, <1>2, <1>3

LEMMA SearchRuns ==
  ASSUME NEW T, T \subseteq Ids, NEW tp \in Patterns, ~Refused(tp)
  PROVE  \E r \in [0 .. 8 -> Accs] : SearchRun(T, tp, r)
<1>. DEFINE D == 1 .. 8
            base == [state |-> "going", bits |-> Empty]
            Is(g) == g = [s \in SUBSET D |-> IF s = {} THEN base
                                             ELSE JoinPart(T, tp, g[s \ {Max(s)}], Parts[Max(s)])]
            g == CHOOSE h : Is(h)
            step == [k \in 1 .. 8 |-> [a \in Accs |-> JoinPart(T, tp, a, Parts[k])]]
            done == FoldLeft(LAMBDA acc, p : JoinPart(T, tp, acc, p), base, Parts)
<1>0. base \in Accs
  BY EmptyVector DEF Accs
<1>1. done = g[1 .. 8]
  <2>1. DOMAIN Parts = 1 .. 8
    BY PartsAre
  <2>. QED  BY <2>1 DEF FoldLeft, MapThenFoldSet
<1>2. \A k \in 1 .. 8, a \in Accs : JoinPart(T, tp, a, Parts[k]) \in Accs
  BY JoinPartFits
<1>. HIDE DEF g, base
<1>3. step \in [1 .. 8 -> [Accs -> Accs]]
  BY <1>2
<1>4. \A s \in SUBSET D : s # {} => Max(s) \in D /\ s \ {Max(s)} \in SUBSET D
  BY LargestOf
<1>5. Is(g)
  <2>. HIDE DEF step
  <2>1. PICK f \in [SUBSET (1 .. 8) -> Accs] : FoldedOver(base, step, Latest(8), f, 1 .. 8)
    BY <1>0, <1>3, FoldUpExists
  <2>2. ASSUME NEW s \in SUBSET D
        PROVE  f[s] = IF s = {} THEN base ELSE JoinPart(T, tp, f[s \ {Max(s)}], Parts[Max(s)])
    <3>1. f[s] = FoldBody(base, step, Latest(8), f, s)
      BY <2>1 DEF FoldedOver
    <3>2. CASE s # {}
      <4>1. Max(s) \in D /\ f[s \ {Max(s)}] \in Accs /\ Latest(8)[s] = Max(s)
        BY <1>4, <3>2 DEF Latest
      <4>2. step[Max(s)][f[s \ {Max(s)}]] = JoinPart(T, tp, f[s \ {Max(s)}], Parts[Max(s)])
        BY <4>1 DEF step
      <4>. QED  BY <3>1, <3>2, <4>1, <4>2 DEF FoldBody
    <3>. QED  BY <3>1, <3>2 DEF FoldBody
  <2>3. Is(f)
    <3>1. f = [s \in SUBSET D |-> f[s]]
      OBVIOUS
    <3>. QED  BY <2>2, <3>1
  <2>. HIDE DEF Is
  <2>. QED  BY <2>3 DEF g
<1>6. FoldsIn(base, step, Accs, 8, g)
  <2>1. g[{}] = base
    BY <1>5
  <2>2. ASSUME NEW s \in SUBSET (1 .. 8), s # {}, g[s \ {Max(s)}] \in Accs
        PROVE  g[s] = step[Max(s)][g[s \ {Max(s)}]]
    <3>. DEFINE m == Max(s)  a == g[s \ {m}]
    <3>1. m \in D /\ a \in Accs /\ g[s] = JoinPart(T, tp, a, Parts[m])
      BY <1>4, <1>5, <2>2
    <3>. HIDE DEF m, a
    <3>2. g[s] = step[m][a]
      BY <3>1
    <3>. QED  BY <3>2 DEF m, a
  <2>. HIDE DEF step
  <2>. QED  BY <2>1, <2>2 DEF FoldsIn
<1>. DEFINE r == Along(8, g)
<1>7. r \in [0 .. 8 -> Accs] /\ RunOf(base, step, 8, r)
  <2>. HIDE DEF step
  <2>. QED  BY <1>0, <1>3, <1>6, FoldRuns
<1>8. \A k \in 1 .. 8 : r[k] = JoinPart(T, tp, r[k - 1], Parts[k])
  <2>. HIDE DEF r
  <2>1. \A k \in 1 .. 8 : k - 1 \in 0 .. 8 /\ r[k - 1] \in Accs /\ r[k] = step[k][r[k - 1]]
    BY <1>7 DEF RunOf
  <2>. QED  BY <2>1
<1>9. r[0] = base /\ r[8] = g[1 .. 8]
  BY <1>7 DEF RunOf, Along
<1>10. SearchRun(T, tp, r)
  <2>. HIDE DEF r
  <2>. QED  BY <1>1, <1>8, <1>9 DEF SearchRun, base
<1>. QED  BY <1>7, <1>10

LEMMA PartsTogether ==
  ASSUME NEW T, NEW tp
  PROVE  /\ AllSoFar(T, tp, 8) = Matches(T, tp) /\ SomeSoFar(T, tp, 8) = MatchesSome(T, tp)
         /\ AskedSoFar(tp, 8) <=> AskedParts(tp) # {}
<1>1. \A part : part \in Range(Parts) <=> \E j \in 1 .. 8 : part = Parts[j]
  BY PartsAre DEF Range
<1>2. \A j \in 1 .. 8 : Parts[j] \in Range(Parts)
  BY <1>1
<1>3. AskedSoFar(tp, 8) <=> AskedParts(tp) # {}
  BY <1>1 DEF AskedSoFar, AskedParts
<1>4. AllSoFar(T, tp, 8) = Matches(T, tp)
  BY <1>1 DEF AllSoFar, Matches, AskedParts
<1>5. SomeSoFar(T, tp, 8) = MatchesSome(T, tp)
  BY <1>1 DEF SomeSoFar, MatchesSome, AskedParts
<1>. QED  BY <1>3, <1>4, <1>5

(* What a search over any statements finds.                                   *)
LEMMA SearchIs ==
  ASSUME NEW T, T \subseteq Ids, NEW tp \in Patterns
  PROVE  LET v == Search(T, tp)
         IN  /\ v = None => Refused(tp) \/ Unanswered(T, tp)
             /\ v # None => /\ v \in Vectors /\ Members(v) \subseteq T
                            /\ OnlyWords(tp) => v = Empty
                            /\ ~OnlyWords(tp) => /\ Matches(T, tp) \subseteq Members(v)
                                                 /\ Members(v) \subseteq MatchesSome(T, tp)
<1>. DEFINE v == Search(T, tp)
            NoneAsked == \A k \in DOMAIN Parts : tp[Parts[k]] = <<>>
            base == [state |-> "going", bits |-> Empty]
            done == FoldLeft(LAMBDA acc, p : JoinPart(T, tp, acc, p), base, Parts)
            M == Matches(T, tp)  S == MatchesSome(T, tp)
<1>0. S \subseteq T
  BY DEF MatchesSome
<1>1. CASE Refused(tp)
  BY <1>1 DEF Search
<1>2. CASE ~Refused(tp) /\ NoneAsked
  <2>1. v = VectorOf(T)
    BY <1>2 DEF Search, Elements
  <2>2. v \in Vectors /\ Members(v) = T
    BY <2>1, PostingOf
  <2>3. AskedParts(tp) = {} /\ tp.words = <<>>
    <3>1. Parts[1] = "words" /\ 1 \in DOMAIN Parts
      BY DEF Parts
    <3>2. \A part \in Range(Parts) : \E j \in DOMAIN Parts : part = Parts[j]
      BY DEF Range
    <3>. QED  BY <1>2, <3>1, <3>2 DEF AskedParts, Asked
  <2>4. M = T /\ S = T /\ ~OnlyWords(tp)
    BY <2>3 DEF Matches, MatchesSome, OnlyWords
  <2>5. v # None
    BY <2>2, Constants
  <2>. HIDE DEF v, M, S
  <2>. QED  BY <2>2, <2>4, <2>5 DEF v, M, S
<1>3. CASE ~Refused(tp) /\ ~NoneAsked
  <2>1. v = CASE done.state = "going"   -> done.bits
              [] done.state = "ended"   -> Empty
              [] done.state = "refused" -> None
    BY <1>3 DEF Search
  <2>2. PICK r \in [0 .. 8 -> Accs] : SearchRun(T, tp, r)
    BY <1>3, SearchRuns
  <2>3. /\ r[0] = base /\ done = r[8]
        /\ \A k \in 1 .. 8 : r[k] = JoinPart(T, tp, r[k - 1], Parts[k])
    BY <2>2 DEF SearchRun
  <2>. HIDE DEF done
  <2>. DEFINE G == {k \in 0 .. 8 : SoFar(T, tp, k, r[k])}
  <2>4. SoFar(T, tp, 0, r[0])
    <3>1. base \in Accs /\ base.state = "going" /\ base.bits = Empty /\ Empty.size = 0
      BY EmptyVector DEF Accs
    <3>2. AllSoFar(T, tp, 0) = T /\ SomeSoFar(T, tp, 0) = T /\ ~AskedSoFar(tp, 0)
      BY DEF AllSoFar, SomeSoFar, AskedSoFar
    <3>. HIDE DEF base
    <3>. QED  BY <2>3, <3>1, <3>2 DEF SoFar, Meet
  <2>5. \A k \in 1 .. 8 : SoFar(T, tp, k - 1, r[k - 1]) => SoFar(T, tp, k, r[k])
    BY <1>3, <2>3, JoinPartStep
  <2>6. \A k \in 0 .. 8 : k \in G
    <3>1. 0 \in G /\ \A k \in 1 .. 8 : k - 1 \in G => k \in G
      BY <2>4, <2>5
    <3>. HIDE DEF G
    <3>. QED  BY <3>1, Upwards
  <2>7. SoFar(T, tp, 8, done)
    BY <2>3, <2>6
  <2>8. /\ done.bits \in Vectors /\ done.state \in {"going", "ended", "refused"}
        /\ done.state = "going" => (AskedParts(tp) # {} <=> done.bits.size # 0)
                                   /\ M \subseteq Meet(T, done) /\ Meet(T, done) \subseteq S
        /\ done.state = "ended" => AskedParts(tp) # {} /\ M = {}
        /\ done.state = "refused" => Unanswered(T, tp)
    BY <2>7, PartsTogether DEF SoFar, Accs
  <2>9. OnlyWords(tp) <=> AskedParts(tp) = {}
    <3>1. PICK k \in DOMAIN Parts : tp[Parts[k]] # <<>>
      BY <1>3
    <3>2. Parts[k] \in Range(Parts)
      BY DEF Range
    <3>3. Parts[k] # "words" => AskedParts(tp) # {}
      BY <3>1, <3>2 DEF AskedParts, Asked
    <3>. QED  BY <3>1, <3>3 DEF OnlyWords
  <2>. HIDE DEF v, M, S
  <2>10. CASE done.state = "going"
    <3>1. v = done.bits /\ v # None /\ v \in Vectors
      BY <2>1, <2>8, <2>10, Constants
    <3>2. CASE AskedParts(tp) = {}
      <4>1. v = Empty /\ Members(v) = {}
        BY <2>8, <2>10, <3>1, <3>2, InVectors, NoBytes DEF Fits
      <4>. QED  BY <2>9, <3>1, <3>2, <4>1 DEF v
    <3>3. CASE AskedParts(tp) # {}
      <4>1. M \subseteq Members(v) /\ Members(v) \subseteq S
        BY <2>8, <2>10, <3>1, <3>3 DEF Meet
      <4>. QED  BY <1>0, <2>9, <3>1, <3>3, <4>1 DEF v, M, S
    <3>. QED  BY <3>2, <3>3
  <2>11. CASE done.state = "ended"
    <3>1. v = Empty /\ v # None /\ v \in Vectors /\ Members(v) = {}
      BY <2>1, <2>11, Constants, EmptyVector
    <3>. QED  BY <2>8, <2>9, <2>11, <3>1 DEF v, M, S
  <2>12. CASE done.state = "refused"
    <3>1. v = None
      BY <2>1, <2>12
    <3>. QED  BY <2>8, <2>12, <3>1 DEF v
  <2>. QED  BY <2>8, <2>10, <2>11, <2>12
<1>. QED  BY <1>1, <1>2, <1>3

(* Without AND it is the same to have some of the keys and all of them.       *)
LEMMA OnlyOrExact ==
  ASSUME NEW T, NEW tp, OnlyOr(tp)
  PROVE  Matches(T, tp) = MatchesSome(T, tp)
<1>1. ASSUME NEW part \in Range(Parts), NEW i
      PROVE  HasAll(part, i, tp) = HasSome(part, i, tp)
  <2>1. PICK k \in DOMAIN Parts : part = Parts[k]
    BY DEF Range
  <2>. QED  BY <2>1 DEF OnlyOr, HasAll
<1>. QED  BY <1>1 DEF Matches, MatchesSome, AskedParts

-----------------------------------------------------------------------------
(* Descriptions. BlankObjects(T, m, c) are the anonymous nodes next to one.   *)
BlankObjects(T, m, c) == {What[i].object : i \in About(T, m, c)} \cap Blank
Below_(T, m, c) == Described(T, BlankObjects(T, m, c), c)

LEMMA ClosedMeans ==
  ASSUME NEW T, NEW M, NEW c
  PROVE  Closed(T, M, c) <=> \A m \in M : BlankObjects(T, m, c) \subseteq M
BY DEF Closed, BlankObjects

LEMMA DescribedIs ==
  ASSUME NEW T, NEW N, NEW c
  PROVE  /\ N \subseteq Described(T, N, c) /\ Described(T, N, c) \subseteq N \cup Blank
         /\ Closed(T, Described(T, N, c), c)
         /\ \A M \in SUBSET (N \cup Blank) :
              N \subseteq M /\ Closed(T, M, c) => Described(T, N, c) \subseteq M
<1>. DEFINE D == Described(T, N, c)
            In(M) == N \subseteq M /\ Closed(T, M, c)
<1>1. \A m : m \in D <=> /\ m \in N \cup Blank
                         /\ \A M \in SUBSET (N \cup Blank) : In(M) => m \in M
  BY DEF Described
<1>. HIDE DEF D
<1>2. N \subseteq D /\ D \subseteq N \cup Blank
  BY <1>1
<1>3. ASSUME NEW m \in D
      PROVE  BlankObjects(T, m, c) \subseteq D
  <2>. SUFFICES ASSUME NEW o \in BlankObjects(T, m, c), NEW M \in SUBSET (N \cup Blank), In(M)
                PROVE  o \in Blank /\ o \in M
    BY <1>1 DEF BlankObjects
  <2>1. m \in M
    BY <1>1
  <2>. QED  BY <2>1, ClosedMeans DEF BlankObjects
<1>4. Closed(T, D, c)
  BY <1>3, ClosedMeans
<1>. QED  BY <1>1, <1>2, <1>4 DEF D

LEMMA DescribedOne ==
  ASSUME NEW T, NEW n, NEW c
  PROVE  /\ \A o \in BlankObjects(T, n, c) : Described(T, {o}, c) \subseteq Described(T, {n}, c)
         /\ \A m \in Described(T, {n}, c) :
              m = n \/ \E o \in BlankObjects(T, n, c) : m \in Described(T, {o}, c)
<1>. DEFINE B == BlankObjects(T, n, c)
            D == Described(T, {n}, c)
            M == {n} \cup UNION {Described(T, {o}, c) : o \in B}
<1>1. n \in D /\ D \subseteq {n} \cup Blank /\ Closed(T, D, c) /\ B \subseteq D /\ B \subseteq Blank
  BY DescribedIs, ClosedMeans DEF BlankObjects
<1>2. ASSUME NEW o \in B
      PROVE  Described(T, {o}, c) \subseteq D
  <2>. DEFINE X == D \cap Blank
  <2>1. o \in X /\ X \in SUBSET ({o} \cup Blank)
    BY <1>1
  <2>2. Closed(T, X, c)
    <3>1. ASSUME NEW m \in X
          PROVE  BlankObjects(T, m, c) \subseteq X
      BY <1>1, ClosedMeans DEF BlankObjects
    <3>. QED  BY <3>1, ClosedMeans
  <2>. HIDE DEF X
  <2>3. Described(T, {o}, c) \subseteq X
    BY <2>1, <2>2, DescribedIs
  <2>. QED  BY <2>3 DEF X
<1>3. M \in SUBSET ({n} \cup Blank) /\ n \in M
  <2>1. \A o \in B : Described(T, {o}, c) \subseteq Blank
    BY <1>1, DescribedIs
  <2>. QED  BY <2>1
<1>4. Closed(T, M, c)
  <2>1. ASSUME NEW m \in M
        PROVE  BlankObjects(T, m, c) \subseteq M
    <3>1. CASE m = n
      BY <3>1, DescribedIs
    <3>2. CASE m # n
      <4>1. PICK o \in B : m \in Described(T, {o}, c)
        BY <3>2
      <4>2. BlankObjects(T, m, c) \subseteq Described(T, {o}, c)
        BY <4>1, DescribedIs, ClosedMeans
      <4>. QED  BY <4>2
    <3>. QED  BY <3>1, <3>2
  <2>. HIDE DEF M
  <2>. QED  BY <2>1, ClosedMeans
<1>5. D \subseteq M
  <2>. HIDE DEF M
  <2>. QED  BY <1>3, <1>4, DescribedIs
<1>. QED  BY <1>2, <1>5

LEMMA DescriptionOne ==
  ASSUME NEW T, NEW n, NEW c
  PROVE  /\ About(T, n, c) \subseteq Description(T, n, c) /\ Description(T, n, c) \subseteq T
         /\ \A o \in BlankObjects(T, n, c) : Description(T, o, c) \subseteq Description(T, n, c)
         /\ \A i \in Description(T, n, c) :
              i \in About(T, n, c) \/ \E o \in BlankObjects(T, n, c) : i \in Description(T, o, c)
<1>1. \A m, i : i \in Description(T, m, c) <=> \E l \in Described(T, {m}, c) : i \in About(T, l, c)
  BY DEF Description
<1>2. n \in Described(T, {n}, c) /\ \A m : About(T, m, c) \subseteq T
  BY DescribedIs DEF About
<1>3. About(T, n, c) \subseteq Description(T, n, c) /\ Description(T, n, c) \subseteq T
  BY <1>1, <1>2
<1>4. \A o \in BlankObjects(T, n, c) : Description(T, o, c) \subseteq Description(T, n, c)
  BY <1>1, DescribedOne
<1>5. ASSUME NEW i \in Description(T, n, c)
      PROVE  i \in About(T, n, c) \/ \E o \in BlankObjects(T, n, c) : i \in Description(T, o, c)
  <2>1. PICK l \in Described(T, {n}, c) : i \in About(T, l, c)
    BY <1>1
  <2>2. l = n \/ \E o \in BlankObjects(T, n, c) : l \in Described(T, {o}, c)
    BY DescribedOne
  <2>. QED  BY <1>1, <2>1, <2>2
<1>. QED  BY <1>3, <1>4, <1>5

(* Where nothing leads back, there is ever less below a node.                 *)
LEMMA LessBelow ==
  ASSUME NEW T, NEW n, NEW c, ~Cyclic(T, n, c), NEW o \in BlankObjects(T, n, c)
  PROVE  /\ ~Cyclic(T, o, c)
         /\ IsFiniteSet(Below_(T, n, c)) /\ Cardinality(Below_(T, n, c)) <= Cardinality(Blank)
         /\ Cardinality(Below_(T, n, c)) \in Nat /\ Cardinality(Below_(T, o, c)) \in Nat
         /\ Cardinality(Below_(T, o, c)) < Cardinality(Below_(T, n, c))
<1>. DEFINE B == BlankObjects(T, n, c)
            D == Below_(T, n, c)
            E == Below_(T, o, c)
<1>1. \A m : Cyclic(T, m, c) <=> \E l \in Described(T, {m}, c) : l \in Below_(T, l, c)
  BY DEF Cyclic, Below_, BlankObjects
<1>2. Described(T, {o}, c) \subseteq Described(T, {n}, c) /\ o \in Described(T, {n}, c)
  BY DescribedOne, DescribedIs
<1>3. ~Cyclic(T, o, c) /\ o \notin E
  BY <1>1, <1>2
<1>4. D \subseteq Blank /\ o \in D /\ BlankObjects(T, o, c) \subseteq D
  <2>1. D \subseteq B \cup Blank /\ B \subseteq D /\ Closed(T, D, c)
    BY DescribedIs DEF Below_
  <2>. QED  BY <2>1, ClosedMeans DEF BlankObjects
<1>5. E \subseteq D
  <2>1. Closed(T, D, c) /\ D \in SUBSET (BlankObjects(T, o, c) \cup Blank)
    BY <1>4, DescribedIs DEF Below_
  <2>. HIDE DEF D
  <2>. QED  BY <1>4, <2>1, DescribedIs DEF Below_
<1>. HIDE DEF D, E
<1>6. IsFiniteSet(D) /\ Cardinality(D) <= Cardinality(Blank)
  BY <1>4, Constants, FS_Subset
<1>7. Cardinality(D) \in Nat
  BY <1>6, FS_CardinalityType
<1>8. IsFiniteSet(E) /\ Cardinality(E) <= Cardinality(D) /\ Cardinality(E) # Cardinality(D)
  <2>1. E \in SUBSET D /\ E # D
    BY <1>3, <1>4, <1>5
  <2>. QED  BY <1>6, <2>1, FS_Subset
<1>9. Cardinality(E) \in Nat
  BY <1>8, FS_CardinalityType
<1>10. Cardinality(E) < Cardinality(D)
  BY <1>7, <1>8, <1>9
<1>. QED  BY <1>3, <1>6, <1>7, <1>9, <1>10 DEF D, E

LEMMA BelowIsBlank ==
  ASSUME NEW T, NEW n, NEW c
  PROVE  /\ Cardinality(Below_(T, n, c)) \in Nat
         /\ Cardinality(Below_(T, n, c)) <= Cardinality(Blank) /\ Cardinality(Blank) \in Nat
<1>. DEFINE D == Below_(T, n, c)
<1>1. D \in SUBSET Blank
  BY DescribedIs DEF Below_, BlankObjects
<1>. HIDE DEF D
<1>2. IsFiniteSet(D) /\ Cardinality(D) <= Cardinality(Blank)
  BY <1>1, Constants, FS_Subset
<1>. QED  BY <1>2, Constants, FS_CardinalityType DEF D

-----------------------------------------------------------------------------
(* What fetch_object takes of a node: the statements about it, without those  *)
(* that are out.                                                              *)
LEMMA OwnIs ==
  ASSUME NEW T, T \subseteq Ids, NEW n, NEW c, NEW out \in Vectors
  PROVE  Own(T, n, c, out) \in Vectors /\ Members(Own(T, n, c, out)) = About(T, n, c) \ Members(out)
<1>. DEFINE p == Posting(T, "subjects", n)  x == exor(p, out)
            q == Posting(T, "contexts", c)  z == InContext(T, x, c)
<1>1. p \in Vectors /\ Members(p) = {i \in T : What[i].subject = n}
  <2>1. Having(T, "subjects", n) = {i \in T : What[i].subject = n}
    BY DEF Having, KeysOf
  <2>. QED  BY <2>1, PostingIs
<1>2. c # None => q \in Vectors /\ Members(q) = {i \in T : What[i].context = c}
  <2>1. c # None => Having(T, "contexts", c) = {i \in T : What[i].context = c}
    BY DEF Having, KeysOf, Of
  <2>. QED  BY <2>1, PostingIs
<1>. HIDE DEF p, q
<1>3. x \in Vectors /\ Members(x) = Members(p) \ Members(out)
  BY <1>1, FittingExor
<1>. HIDE DEF x
<1>4. z \in Vectors /\ Members(z) = IF c = None THEN Members(x) ELSE Members(x) \cap Members(q)
  <2>1. CASE c = None
    BY <1>3, <2>1 DEF InContext
  <2>2. CASE c # None
    <3>1. z = and(x, q)
      BY <2>2 DEF InContext, q
    <3>. QED  BY <1>2, <1>3, <2>2, <3>1, FittingAnd
  <2>. QED  BY <2>1, <2>2
<1>5. Own(T, n, c, out) = shorten(z)
  BY DEF Own, x, p
<1>. HIDE DEF z
<1>6. Members(z) = About(T, n, c) \ Members(out)
  BY <1>1, <1>2, <1>3, <1>4 DEF About
<1>. QED  BY <1>4, <1>5, <1>6, FittingShorten

(* One level of the visit, on top of what visits the nodes below.             *)
Visits == [Nodes -> [Vectors -> Vectors]]
Idle == [n \in Nodes |-> [out \in Vectors |-> out]]
Further(f, o, i) == IF What[i].object \in Blank THEN f[What[i].object][o] ELSE o
OneLevel(T, c, f) ==
  [n \in Nodes |-> [out \in Vectors |-> or(Around(f, out, Own(T, n, c, out)), Own(T, n, c, out))]]

AroundRun(f, out, own, r) ==
  LET n == Cardinality(Members(own))  keys == InOrder(Members(own))
  IN  /\ r[0] = out /\ Around(f, out, own) = r[n]
      /\ \A k \in 1 .. n : r[k] = Further(f, r[k - 1], keys[k])

LEMMA FurtherFits ==
  ASSUME NEW f \in Visits, NEW o \in Vectors, NEW i
  PROVE  Further(f, o, i) \in Vectors
BY DEF Further, Visits, Nodes

LEMMA AroundRuns ==
  ASSUME NEW f \in Visits, NEW out \in Vectors, NEW own, Members(own) \subseteq Ids
  PROVE  \E r \in [0 .. Cardinality(Members(own)) -> Vectors] : AroundRun(f, out, own, r)
<1>. DEFINE keys == InOrder(Members(own))
            n == Cardinality(Members(own))
            D == 1 .. n
            Is(g) == g = [s \in SUBSET D |-> IF s = {} THEN out
                                             ELSE Further(f, g[s \ {Max(s)}], keys[Max(s)])]
            g == CHOOSE h : Is(h)
            step == [k \in 1 .. n |-> [a \in Vectors |-> Further(f, a, keys[k])]]
<1>0. n \in Nat /\ DOMAIN keys = 1 .. n
  <2>. DEFINE M == Members(own)
  <2>0. M \in SUBSET Ids
    OBVIOUS
  <2>. HIDE DEF M
  <2>3. M \subseteq Int
    BY <2>0, Constants
  <2>1. IsFiniteSet(M)
    BY <2>0, Constants, FS_Subset
  <2>2. InOrder(M) \in Seq(M) /\ Len(InOrder(M)) = Cardinality(M) /\ Cardinality(M) \in Nat
    BY <2>1, <2>3, Ordered, FS_CardinalityType
  <2>. QED  BY <2>2 DEF M
<1>1. Around(f, out, own) = g[1 .. n]
  <2>. HIDE DEF keys, n
  <2>1. Around(f, out, own) = FoldLeft(LAMBDA o, i : IF What[i].object \in Blank THEN f[What[i].object][o] ELSE o, out, keys)
    BY DEF Around, keys
  <2>. QED  BY <1>0, <2>1 DEF FoldLeft, MapThenFoldSet, Further
<1>. HIDE DEF keys, n
<1>2. \A k \in 1 .. n, a \in Vectors : Further(f, a, keys[k]) \in Vectors
  BY FurtherFits
<1>. HIDE DEF g
<1>3. step \in [1 .. n -> [Vectors -> Vectors]]
  BY <1>2
<1>4. \A s \in SUBSET D : s # {} => Max(s) \in D /\ s \ {Max(s)} \in SUBSET D
  BY <1>0, LargestOf
<1>5. Is(g)
  <2>. HIDE DEF step
  <2>1. PICK h \in [SUBSET (1 .. n) -> Vectors] : FoldedOver(out, step, Latest(n), h, 1 .. n)
    BY <1>0, <1>3, FoldUpExists
  <2>2. ASSUME NEW s \in SUBSET D
        PROVE  h[s] = IF s = {} THEN out ELSE Further(f, h[s \ {Max(s)}], keys[Max(s)])
    <3>1. h[s] = FoldBody(out, step, Latest(n), h, s)
      BY <2>1 DEF FoldedOver
    <3>2. CASE s # {}
      <4>1. Max(s) \in D /\ h[s \ {Max(s)}] \in Vectors /\ Latest(n)[s] = Max(s)
        BY <1>4, <3>2 DEF Latest
      <4>2. step[Max(s)][h[s \ {Max(s)}]] = Further(f, h[s \ {Max(s)}], keys[Max(s)])
        BY <4>1 DEF step
      <4>. QED  BY <3>1, <3>2, <4>1, <4>2 DEF FoldBody
    <3>. QED  BY <3>1, <3>2 DEF FoldBody
  <2>3. Is(h)
    <3>1. h = [s \in SUBSET D |-> h[s]]
      OBVIOUS
    <3>. QED  BY <2>2, <3>1
  <2>. HIDE DEF Is
  <2>. QED  BY <2>3 DEF g
<1>6. FoldsIn(out, step, Vectors, n, g)
  <2>1. g[{}] = out
    BY <1>5
  <2>2. ASSUME NEW s \in SUBSET (1 .. n), s # {}, g[s \ {Max(s)}] \in Vectors
        PROVE  g[s] = step[Max(s)][g[s \ {Max(s)}]]
    <3>. DEFINE m == Max(s)  a == g[s \ {m}]
    <3>1. m \in D /\ a \in Vectors /\ g[s] = Further(f, a, keys[m])
      BY <1>4, <1>5, <2>2
    <3>. HIDE DEF m, a
    <3>2. g[s] = step[m][a]
      BY <3>1
    <3>. QED  BY <3>2 DEF m, a
  <2>. HIDE DEF step
  <2>. QED  BY <2>1, <2>2 DEF FoldsIn
<1>. DEFINE r == Along(n, g)
<1>7. r \in [0 .. n -> Vectors] /\ RunOf(out, step, n, r)
  <2>. HIDE DEF step
  <2>. QED  BY <1>0, <1>3, <1>6, FoldRuns
<1>8. \A k \in 1 .. n : r[k] = Further(f, r[k - 1], keys[k])
  <2>. HIDE DEF r
  <2>1. \A k \in 1 .. n : k - 1 \in 0 .. n /\ r[k - 1] \in Vectors /\ r[k] = step[k][r[k - 1]]
    BY <1>0, <1>7 DEF RunOf
  <2>. QED  BY <2>1
<1>9. r[0] = out /\ r[n] = g[1 .. n]
  BY <1>0, <1>7 DEF RunOf, Along
<1>10. AroundRun(f, out, own, r)
  <2>. HIDE DEF r
  <2>. QED  BY <1>1, <1>8, <1>9 DEF AroundRun, n, keys
<1>. QED  BY <1>7, <1>10 DEF n

(* What a visit of nodes may come to, and what it comes to when it began with *)
(* whole descriptions.                                                        *)
Full(T, c, S) ==
  \A i \in S : What[i].object \in Blank => Description(T, What[i].object, c) \subseteq S
Sound(T, c, f) ==
  \A n \in Nodes, out \in Vectors : Members(f[n][out]) \subseteq Members(out) \cup Description(T, n, c)
Complete(T, c, f, k) ==
  \A n \in Nodes, out \in Vectors :
    ~Cyclic(T, n, c) /\ Cardinality(Below_(T, n, c)) < k /\ Full(T, c, Members(out)) =>
      Members(f[n][out]) = Members(out) \cup Description(T, n, c)

LEMMA DescriptionFull ==
  ASSUME NEW T, NEW n, NEW c
  PROVE  Full(T, c, Description(T, n, c))
<1>. SUFFICES ASSUME NEW i \in Description(T, n, c), What[i].object \in Blank
              PROVE  Description(T, What[i].object, c) \subseteq Description(T, n, c)
  BY DEF Full
<1>. DEFINE o == What[i].object  D == Described(T, {n}, c)
<1>1. PICK l \in D : i \in About(T, l, c)
  BY DEF Description
<1>2. o \in BlankObjects(T, l, c)
  BY <1>1 DEF BlankObjects
<1>3. o \in D /\ D \subseteq {n} \cup Blank /\ Closed(T, D, c)
  BY <1>1, <1>2, DescribedIs, ClosedMeans
<1>4. Described(T, {o}, c) \subseteq D
  <2>. DEFINE X == D \cap Blank
  <2>1. o \in X /\ X \in SUBSET ({o} \cup Blank)
    BY <1>3
  <2>2. Closed(T, X, c)
    <3>1. ASSUME NEW m \in X
          PROVE  BlankObjects(T, m, c) \subseteq X
      BY <1>3, ClosedMeans DEF BlankObjects
    <3>. QED  BY <3>1, ClosedMeans
  <2>. HIDE DEF X
  <2>3. Described(T, {o}, c) \subseteq X
    BY <2>1, <2>2, DescribedIs
  <2>. QED  BY <2>3 DEF X
<1>. HIDE DEF o
<1>5. Description(T, o, c) \subseteq Description(T, n, c)
  BY <1>4 DEF Description
<1>. QED  BY <1>5 DEF o

LevelRight(T, c, f, n, out, own) ==
  /\ own \in Vectors /\ Members(own) = About(T, n, c) \ Members(out)
  /\ Members(own) \subseteq Ids /\ Around(f, out, own) \in Vectors
  /\ Members(OneLevel(T, c, f)[n][out]) = Members(Around(f, out, own)) \cup Members(own)

LEMMA OneLevelFits ==
  ASSUME NEW T, T \subseteq Ids, NEW c, NEW f \in Visits
  PROVE  /\ OneLevel(T, c, f) \in Visits
         /\ \A n \in Nodes, out \in Vectors :
              LevelRight(T, c, f, n, out, Own(T, n, c, out))
<1>1. ASSUME NEW n \in Nodes, NEW out \in Vectors
      PROVE  LET own == Own(T, n, c, out)
             IN  /\ own \in Vectors /\ Members(own) = About(T, n, c) \ Members(out)
                 /\ Members(own) \subseteq Ids /\ Around(f, out, own) \in Vectors
                 /\ or(Around(f, out, own), own) \in Vectors
                 /\ Members(or(Around(f, out, own), own)) = Members(Around(f, out, own)) \cup Members(own)
  <2>. DEFINE own == Own(T, n, c, out)  N == Cardinality(Members(own))
  <2>1. own \in Vectors /\ Members(own) = About(T, n, c) \ Members(out)
    BY OwnIs
  <2>2. Members(own) \subseteq Ids
    BY <2>1 DEF About
  <2>. HIDE DEF own
  <2>3. Around(f, out, own) \in Vectors
    <3>1. PICK r \in [0 .. N -> Vectors] : AroundRun(f, out, own, r)
      BY <2>2, AroundRuns
    <3>2. N \in Nat
      <4>. DEFINE M == Members(own)
      <4>1. M \in SUBSET Ids
        BY <2>2
      <4>. HIDE DEF M
      <4>2. Cardinality(M) \in Nat
        BY <4>1, Constants, FS_Subset, FS_CardinalityType
      <4>. QED  BY <4>2 DEF M
    <3>3. Around(f, out, own) = r[N]
      BY <3>1 DEF AroundRun
    <3>. HIDE DEF N
    <3>. QED  BY <3>2, <3>3
  <2>. QED  BY <2>1, <2>2, <2>3, FittingOr DEF own
<1>2. \A n \in Nodes, out \in Vectors :
        OneLevel(T, c, f)[n][out] = or(Around(f, out, Own(T, n, c, out)), Own(T, n, c, out))
  BY DEF OneLevel
<1>3. OneLevel(T, c, f) \in Visits
  BY <1>1 DEF OneLevel, Visits
<1>. QED  BY <1>1, <1>2, <1>3 DEF LevelRight

LEMMA OneLevelSound ==
  ASSUME NEW T, T \subseteq Ids, NEW c, NEW f \in Visits, Sound(T, c, f)
  PROVE  Sound(T, c, OneLevel(T, c, f))
<1>. SUFFICES ASSUME NEW n \in Nodes, NEW out \in Vectors
              PROVE  Members(OneLevel(T, c, f)[n][out]) \subseteq Members(out) \cup Description(T, n, c)
  BY DEF Sound
<1>. DEFINE own == Own(T, n, c, out)  M == Members(own)
            N == Cardinality(M)  keys == InOrder(M)
            D == Description(T, n, c)
<1>1. /\ M = About(T, n, c) \ Members(out) /\ M \subseteq Ids
      /\ Members(OneLevel(T, c, f)[n][out]) = Members(Around(f, out, own)) \cup M
  <2>1. LevelRight(T, c, f, n, out, own)
    BY OneLevelFits
  <2>. HIDE DEF own
  <2>. QED  BY <2>1 DEF LevelRight
<1>2. M \subseteq D /\ \A o \in BlankObjects(T, n, c) : Description(T, o, c) \subseteq D
  BY <1>1, DescriptionOne
<1>3. PICK r \in [0 .. N -> Vectors] : AroundRun(f, out, own, r)
  BY <1>1, AroundRuns
<1>. HIDE DEF own, D
<1>4. /\ r[0] = out /\ Around(f, out, own) = r[N]
      /\ \A k \in 1 .. N : r[k] = Further(f, r[k - 1], keys[k])
  BY <1>3 DEF AroundRun
<1>. HIDE DEF M
<1>5. N \in Nat /\ \A k \in 1 .. N : keys[k] \in M
  BY <1>1, IdsInOrder
<1>. HIDE DEF N, keys
<1>6. ASSUME NEW k \in 1 .. N, Members(r[k - 1]) \subseteq Members(out) \cup D
      PROVE  Members(r[k]) \subseteq Members(out) \cup D
  <2>. DEFINE i == keys[k]  o == What[i].object  a == r[k - 1]
  <2>1. i \in About(T, n, c) /\ a \in Vectors /\ r[k] = Further(f, a, i)
    BY <1>1, <1>4, <1>5
  <2>2. CASE o \in Blank
    <3>1. r[k] = f[o][a] /\ o \in Nodes /\ o \in BlankObjects(T, n, c)
      BY <2>1, <2>2 DEF Further, Nodes, BlankObjects
    <3>. HIDE DEF o, a
    <3>2. Members(f[o][a]) \subseteq Members(a) \cup Description(T, o, c)
      BY <2>1, <3>1 DEF Sound
    <3>. QED  BY <1>2, <1>6, <3>1, <3>2 DEF a
  <2>3. CASE o \notin Blank
    BY <1>6, <2>1, <2>3 DEF Further
  <2>. QED  BY <2>2, <2>3
<1>. DEFINE G == {k \in 0 .. N : Members(r[k]) \subseteq Members(out) \cup D}
<1>7. \A k \in 0 .. N : k \in G
  <2>1. 0 \in G /\ \A k \in 1 .. N : k - 1 \in G => k \in G
    BY <1>4, <1>5, <1>6
  <2>. HIDE DEF G
  <2>. QED  BY <1>5, <2>1, Upwards
<1>8. Members(r[N]) \subseteq Members(out) \cup D
  BY <1>5, <1>7
<1>. QED  BY <1>1, <1>2, <1>4, <1>8 DEF own, D

LEMMA OneLevelComplete ==
  ASSUME NEW T, T \subseteq Ids, NEW c, NEW f \in Visits, NEW l \in Nat,
         Sound(T, c, f), Complete(T, c, f, l)
  PROVE  Complete(T, c, OneLevel(T, c, f), l + 1)
<1>. SUFFICES ASSUME NEW n \in Nodes, NEW out \in Vectors, ~Cyclic(T, n, c),
                     Cardinality(Below_(T, n, c)) < l + 1, Full(T, c, Members(out))
              PROVE  Members(OneLevel(T, c, f)[n][out]) = Members(out) \cup Description(T, n, c)
  BY DEF Complete
<1>. DEFINE own == Own(T, n, c, out)  M == Members(own)
            N == Cardinality(M)  keys == InOrder(M)
            D == Description(T, n, c)  O == Members(out)
<1>1. /\ M = About(T, n, c) \ O /\ M \subseteq Ids
      /\ Members(OneLevel(T, c, f)[n][out]) = Members(Around(f, out, own)) \cup M
  <2>1. LevelRight(T, c, f, n, out, own)
    BY OneLevelFits
  <2>. HIDE DEF own
  <2>. QED  BY <2>1 DEF LevelRight
<1>2. Members(OneLevel(T, c, f)[n][out]) \subseteq O \cup D
  BY OneLevelSound DEF Sound
<1>3. PICK r \in [0 .. N -> Vectors] : AroundRun(f, out, own, r)
  BY <1>1, AroundRuns
<1>. HIDE DEF own, D
<1>4. /\ r[0] = out /\ Around(f, out, own) = r[N]
      /\ \A k \in 1 .. N : r[k] = Further(f, r[k - 1], keys[k])
  BY <1>3 DEF AroundRun
<1>. HIDE DEF M
<1>5. N \in Nat /\ (\A k \in 1 .. N : keys[k] \in M) /\ \A i \in M : \E k \in 1 .. N : keys[k] = i
  BY <1>1, IdsInOrder
<1>. HIDE DEF N, keys
<1>6. \A o \in BlankObjects(T, n, c) : ~Cyclic(T, o, c) /\ Cardinality(Below_(T, o, c)) < l
  BY LessBelow
<1>. DEFINE Right(k) ==
       /\ Full(T, c, Members(r[k])) /\ O \subseteq Members(r[k])
       /\ \A j \in 1 .. k : What[keys[j]].object \in Blank =>
            Description(T, What[keys[j]].object, c) \subseteq Members(r[k])
<1>7. ASSUME NEW k \in 1 .. N, Right(k - 1)
      PROVE  Right(k)
  <2>. DEFINE i == keys[k]  o == What[i].object  a == r[k - 1]
  <2>1. i \in About(T, n, c) /\ a \in Vectors /\ r[k] = Further(f, a, i)
    BY <1>1, <1>4, <1>5
  <2>2. /\ Full(T, c, Members(a)) /\ O \subseteq Members(a)
        /\ \A j \in 1 .. k - 1 : What[keys[j]].object \in Blank =>
             Description(T, What[keys[j]].object, c) \subseteq Members(a)
    BY <1>7
  <2>3. \A j \in 1 .. k : j = k \/ j \in 1 .. k - 1
    OBVIOUS
  <2>4. CASE o \in Blank
    <3>1. r[k] = f[o][a] /\ o \in Nodes /\ o \in BlankObjects(T, n, c)
      BY <2>1, <2>4 DEF Further, Nodes, BlankObjects
    <3>2. Members(r[k]) = Members(a) \cup Description(T, o, c)
      <4>. HIDE DEF o, a
      <4>. QED  BY <1>6, <2>1, <2>2, <3>1 DEF Complete
    <3>3. Full(T, c, Description(T, o, c))
      BY DescriptionFull
    <3>4. Full(T, c, Members(r[k]))
      <4>. HIDE DEF a, o
      <4>. QED  BY <2>2, <3>2, <3>3 DEF Full
    <3>. HIDE DEF a
    <3>. QED  BY <2>2, <2>3, <3>2, <3>4
  <2>5. CASE o \notin Blank
    <3>1. r[k] = a
      BY <2>1, <2>5 DEF Further
    <3>. HIDE DEF a
    <3>. QED  BY <2>2, <2>3, <2>5, <3>1
  <2>. QED  BY <2>4, <2>5
<1>. DEFINE G == {k \in 0 .. N : Right(k)}
<1>8. \A k \in 0 .. N : k \in G
  <2>1. Right(0)
    BY <1>4
  <2>2. 0 \in G /\ \A k \in 1 .. N : k - 1 \in G => k \in G
    <3>1. \A k \in 1 .. N : k \in 0 .. N
      OBVIOUS
    <3>. HIDE DEF Right
    <3>. QED  BY <1>5, <1>7, <2>1, <3>1
  <2>. HIDE DEF G
  <2>. QED  BY <1>5, <2>2, Upwards
<1>9. Right(N)
  BY <1>5, <1>8
<1>10. D \subseteq Members(r[N]) \cup M
  <2>. SUFFICES ASSUME NEW i \in D, i \notin M PROVE i \in Members(r[N])
    OBVIOUS
  <2>1. CASE i \in About(T, n, c)
    BY <1>1, <1>9, <2>1
  <2>2. CASE i \notin About(T, n, c)
    <3>1. PICK o \in BlankObjects(T, n, c) : i \in Description(T, o, c)
      BY <2>2, DescriptionOne DEF D
    <3>2. PICK j \in About(T, n, c) : o = What[j].object /\ o \in Blank
      BY DEF BlankObjects
    <3>3. CASE j \in O
      <4>1. Description(T, o, c) \subseteq O
        BY <3>2, <3>3 DEF Full
      <4>. QED  BY <1>9, <3>1, <4>1
    <3>4. CASE j \notin O
      <4>1. PICK k \in 1 .. N : keys[k] = j
        BY <1>1, <1>5, <3>2, <3>4
      <4>2. Description(T, o, c) \subseteq Members(r[N])
        BY <1>9, <3>2, <4>1
      <4>. QED  BY <3>1, <4>2
    <3>. QED  BY <3>3, <3>4
  <2>. QED  BY <2>1, <2>2
<1>. QED  BY <1>1, <1>2, <1>4, <1>9, <1>10 DEF own, D, M

(* The visit, level above level.                                              *)
VisitRun(T, c, w) ==
  w[0] = Idle /\ Visit(T, c) = w[MaxLevels] /\ \A k \in 1 .. MaxLevels : w[k] = OneLevel(T, c, w[k - 1])

LEMMA RunExists ==
  ASSUME NEW n \in Nat, NEW V, NEW base \in V, NEW step \in [1 .. n -> [V -> V]]
  PROVE  \E r \in [0 .. n -> V] : RunOf(base, step, n, r)
<1>1. PICK f \in [SUBSET (1 .. n) -> V] : FoldedOver(base, step, Latest(n), f, 1 .. n)
  BY FoldUpExists
<1>2. FoldsIn(base, step, V, n, f)
  <2>1. f[{}] = base
    BY <1>1 DEF FoldedOver, FoldBody
  <2>2. ASSUME NEW s \in SUBSET (1 .. n), s # {}
        PROVE  f[s] = step[Max(s)][f[s \ {Max(s)}]]
    <3>1. Latest(n)[s] = Max(s)
      BY DEF Latest
    <3>2. f[s] = FoldBody(base, step, Latest(n), f, s)
      BY <1>1 DEF FoldedOver
    <3>. QED  BY <2>2, <3>1, <3>2 DEF FoldBody
  <2>. QED  BY <2>1, <2>2 DEF FoldsIn
<1>. QED  BY <1>2, FoldRuns

LEMMA VisitRuns ==
  ASSUME NEW T, T \subseteq Ids, NEW c
  PROVE  \E w \in [0 .. MaxLevels -> Visits] : VisitRun(T, c, w)
<1>. DEFINE L == MaxLevels
            Is(v) == v = [level \in 0 .. L |-> [n \in Nodes |-> [out \in Vectors |->
                            IF level = L THEN out
                            ELSE or(Around(v[level + 1], out, Own(T, n, c, out)), Own(T, n, c, out))]]]
            v == CHOOSE h : Is(h)
            step == [k \in 1 .. L |-> [f \in Visits |-> OneLevel(T, c, f)]]
<1>1. Visit(T, c) = v[0]
  BY DEF Visit
<1>. HIDE DEF v
<1>2. L \in Nat /\ Idle \in Visits
  BY Constants DEF Idle, Visits
<1>3. step \in [1 .. L -> [Visits -> Visits]]
  BY OneLevelFits
<1>4. Is(v)
  <2>1. PICK r \in [0 .. L -> Visits] : RunOf(Idle, step, L, r)
    <3>. HIDE DEF step
    <3>. QED  BY <1>2, <1>3, RunExists
  <2>. DEFINE h == [level \in 0 .. L |-> r[L - level]]
  <2>2. r[0] = Idle /\ \A k \in 1 .. L : r[k] = OneLevel(T, c, r[k - 1])
    <3>1. \A k \in 1 .. L : k - 1 \in 0 .. L /\ r[k - 1] \in Visits
      BY <1>2
    <3>. QED  BY <2>1, <3>1 DEF RunOf
  <2>3. ASSUME NEW level \in 0 .. L
        PROVE  h[level] = [n \in Nodes |-> [out \in Vectors |->
                             IF level = L THEN out
                             ELSE or(Around(h[level + 1], out, Own(T, n, c, out)), Own(T, n, c, out))]]
    <3>1. CASE level = L
      <4>1. h[level] = Idle
        BY <1>2, <2>2, <3>1
      <4>. HIDE DEF h
      <4>. QED  BY <3>1, <4>1 DEF Idle
    <3>2. CASE level # L
      <4>1. h[level] = OneLevel(T, c, h[level + 1])
        <5>1. L - level \in 1 .. L /\ level + 1 \in 0 .. L /\ L - (level + 1) = (L - level) - 1
          BY <1>2, <3>2
        <5>. QED  BY <2>2, <5>1
      <4>. HIDE DEF h
      <4>. QED  BY <3>2, <4>1 DEF OneLevel
    <3>. QED  BY <3>1, <3>2
  <2>4. Is(h)
    <3>1. h = [level \in 0 .. L |-> h[level]]
      OBVIOUS
    <3>. HIDE DEF h
    <3>. QED  BY <2>3, <3>1
  <2>. HIDE DEF Is
  <2>. QED  BY <2>4 DEF v
<1>. DEFINE w == [k \in 0 .. L |-> v[L - k]]
<1>5. ASSUME NEW level \in 0 .. L
      PROVE  v[level] = IF level = L THEN Idle ELSE OneLevel(T, c, v[level + 1])
  <2>1. v[level] = [n \in Nodes |-> [out \in Vectors |->
                      IF level = L THEN out
                      ELSE or(Around(v[level + 1], out, Own(T, n, c, out)), Own(T, n, c, out))]]
    BY <1>4
  <2>2. CASE level = L
    BY <2>1, <2>2 DEF Idle
  <2>3. CASE level # L
    BY <2>1, <2>3 DEF OneLevel
  <2>. QED  BY <2>2, <2>3
<1>. HIDE DEF Is
<1>6. w[0] = Idle /\ w[L] = v[0]
  BY <1>2, <1>5
<1>7. \A k \in 1 .. L : w[k] = OneLevel(T, c, w[k - 1])
  <2>1. ASSUME NEW k \in 1 .. L
        PROVE  w[k] = OneLevel(T, c, w[k - 1])
    <3>1. L - k \in 0 .. L /\ L - k # L /\ (L - k) + 1 = L - (k - 1) /\ k - 1 \in 0 .. L /\ k \in 0 .. L
      BY <1>2
    <3>. QED  BY <1>5, <3>1
  <2>. QED  BY <2>1
<1>8. w \in [0 .. L -> Visits]
  <2>. DEFINE G == {k \in 0 .. L : w[k] \in Visits}
  <2>. HIDE DEF w
  <2>1. 0 \in G /\ \A k \in 1 .. L : k - 1 \in G => k \in G
    <3>1. ASSUME NEW k \in 1 .. L, w[k - 1] \in Visits
          PROVE  w[k] \in Visits
      <4>. DEFINE f == w[k - 1]
      <4>1. f \in Visits /\ w[k] = OneLevel(T, c, f)
        BY <1>7, <3>1
      <4>. HIDE DEF f
      <4>. QED  BY <4>1, OneLevelFits
    <3>2. \A k \in 1 .. L : k \in 0 .. L
      BY <1>2
    <3>. QED  BY <1>2, <1>6, <3>1, <3>2
  <2>2. \A k \in 0 .. L : k \in G
    <3>. HIDE DEF G
    <3>. QED  BY <1>2, <2>1, Upwards
  <2>. QED  BY <2>2 DEF w
<1>9. VisitRun(T, c, w)
  <2>. HIDE DEF w
  <2>. QED  BY <1>1, <1>6, <1>7 DEF VisitRun
<1>. QED  BY <1>8, <1>9

LEMMA VisitIs ==
  ASSUME NEW T, T \subseteq Ids, NEW c
  PROVE  Visit(T, c) \in Visits /\ Sound(T, c, Visit(T, c)) /\ Complete(T, c, Visit(T, c), MaxLevels)
<1>0. MaxLevels \in Nat
  BY Constants
<1>1. PICK w \in [0 .. MaxLevels -> Visits] : VisitRun(T, c, w)
  BY VisitRuns
<1>2. /\ w[0] = Idle /\ Visit(T, c) = w[MaxLevels]
      /\ \A k \in 1 .. MaxLevels : w[k] = OneLevel(T, c, w[k - 1])
  BY <1>1 DEF VisitRun
<1>. DEFINE G == {k \in 0 .. MaxLevels : Sound(T, c, w[k]) /\ Complete(T, c, w[k], k)}
<1>3. Sound(T, c, w[0]) /\ Complete(T, c, w[0], 0)
  <2>1. \A n \in Nodes, out \in Vectors : w[0][n][out] = out
    BY <1>2 DEF Idle
  <2>2. \A n : ~(Cardinality(Below_(T, n, c)) < 0)
    BY BelowIsBlank
  <2>. QED  BY <2>1, <2>2 DEF Sound, Complete
<1>4. ASSUME NEW k \in 1 .. MaxLevels, Sound(T, c, w[k - 1]), Complete(T, c, w[k - 1], k - 1)
      PROVE  Sound(T, c, w[k]) /\ Complete(T, c, w[k], k)
  <2>. DEFINE l == k - 1
  <2>1. l \in Nat /\ l \in 0 .. MaxLevels /\ l + 1 = k /\ w[k] = OneLevel(T, c, w[l])
    BY <1>0, <1>2
  <2>2. w[l] \in Visits
    BY <2>1
  <2>3. Sound(T, c, w[l]) /\ Complete(T, c, w[l], l)
    BY <1>4
  <2>. HIDE DEF l
  <2>4. Sound(T, c, w[k])
    BY <2>1, <2>2, <2>3, OneLevelSound
  <2>5. Complete(T, c, OneLevel(T, c, w[l]), l + 1)
    BY <2>1, <2>2, <2>3, OneLevelComplete
  <2>. QED  BY <2>1, <2>4, <2>5
<1>5. \A k \in 0 .. MaxLevels : k \in G
  <2>1. 0 \in G /\ \A k \in 1 .. MaxLevels : k - 1 \in G => k \in G
    BY <1>0, <1>3, <1>4
  <2>. HIDE DEF G
  <2>. QED  BY <1>0, <2>1, Upwards
<1>. QED  BY <1>0, <1>2, <1>5

(* What fetch_object finds over any statements.                               *)
LEMMA FetchIs ==
  ASSUME NEW T, T \subseteq Ids, NEW n \in Resources, NEW c
  PROVE  LET v == FetchObject(T, n, c)
         IN  /\ v \in Vectors /\ Members(v) \subseteq Description(T, n, c) /\ Members(v) \subseteq T
             /\ ~Cyclic(T, n, c) /\ Cardinality(Blank) < MaxLevels => Members(v) = Description(T, n, c)
<1>. DEFINE v == FetchObject(T, n, c)
<1>0. Description(T, n, c) \subseteq T
  BY DescriptionOne
<1>1. CASE c # None /\ Having(T, "contexts", c) = {}
  <2>1. v = Empty
    BY <1>1 DEF FetchObject
  <2>2. Description(T, n, c) = {}
    <3>1. Having(T, "contexts", c) = {i \in T : What[i].context = c}
      BY <1>1 DEF Having, KeysOf, Of
    <3>2. \A m : About(T, m, c) = {}
      BY <1>1, <3>1 DEF About
    <3>. QED  BY <3>2 DEF Description
  <2>. HIDE DEF v
  <2>. QED  BY <2>1, <2>2, EmptyVector DEF v
<1>2. CASE ~(c # None /\ Having(T, "contexts", c) = {})
  <2>1. v = Visit(T, c)[n][Empty]
    BY <1>2 DEF FetchObject
  <2>2. Visit(T, c) \in Visits /\ Sound(T, c, Visit(T, c)) /\ Complete(T, c, Visit(T, c), MaxLevels)
    BY VisitIs
  <2>3. n \in Nodes /\ Empty \in Vectors /\ Members(Empty) = {}
    BY EmptyVector DEF Nodes
  <2>4. v \in Vectors
    BY <2>1, <2>2, <2>3 DEF Visits
  <2>5. Members(v) \subseteq Description(T, n, c)
    BY <2>1, <2>2, <2>3 DEF Sound
  <2>6. ASSUME ~Cyclic(T, n, c), Cardinality(Blank) < MaxLevels
        PROVE  Members(v) = Description(T, n, c)
    <3>1. Cardinality(Below_(T, n, c)) < MaxLevels
      BY <2>6, BelowIsBlank, Constants
    <3>2. Full(T, c, Members(Empty))
      BY <2>3 DEF Full
    <3>. QED  BY <2>1, <2>2, <2>3, <2>6, <3>1, <3>2 DEF Complete
  <2>. HIDE DEF v
  <2>. QED  BY <1>0, <2>4, <2>5, <2>6 DEF v
<1>. QED  BY <1>1, <1>2

-----------------------------------------------------------------------------
(* The vectors of iterators: remove may make them longer than the buffers.    *)
AnyVectors == UNION {[size : {n}, byte : [0 .. n - 1 -> SUBSET Bits]] : n \in Nat}

LEMMA InAnyVectors ==
  ASSUME NEW v
  PROVE  v \in AnyVectors <=> IsVector(v)
<1>1. ASSUME v \in AnyVectors
      PROVE  IsVector(v)
  <2>1. PICK n \in Nat : v \in [size : {n}, byte : [0 .. n - 1 -> SUBSET Bits]]
    BY <1>1 DEF AnyVectors
  <2>. QED  BY <2>1 DEF IsVector
<1>2. ASSUME IsVector(v)
      PROVE  v \in AnyVectors
  <2>1. v.size \in Nat /\ v \in [size : {v.size}, byte : [0 .. v.size - 1 -> SUBSET Bits]]
    BY <1>2 DEF IsVector
  <2>. QED  BY <2>1 DEF AnyVectors
<1>. QED  BY <1>1, <1>2

LEMMA FittingAny ==
  ASSUME NEW v \in Vectors
  PROVE  v \in AnyVectors
BY InVectors, InAnyVectors DEF Fits

LEMMA FiniteMembers ==
  ASSUME NEW v \in AnyVectors
  PROVE  /\ IsFiniteSet(Members(v)) /\ Members(v) \subseteq Nat /\ Cardinality(Members(v)) \in Nat
         /\ \A i \in Members(v) : i < Width * v.size
<1>. DEFINE M == Members(v)  U == 0 .. Width * v.size - 1
<1>1. IsVector(v)
  BY InAnyVectors
<1>2. Width * v.size - 1 \in Int /\ Width * v.size \in Nat
  BY <1>1 DEF IsVector
<1>3. M \subseteq Nat /\ \A i \in M : i < Width * v.size
  BY <1>2 DEF Members
<1>4. M \in SUBSET U
  BY DEF Members
<1>5. IsFiniteSet(U)
  BY <1>2, FS_Interval
<1>. HIDE DEF M, U
<1>6. IsFiniteSet(M)
  BY <1>4, <1>5, FS_Subset
<1>. QED  BY <1>3, <1>6, FS_CardinalityType DEF M

(* What the combinations come to. *)
LEMMA CombinationsAre ==
  ASSUME NEW a, NEW b, IsVector(a.ids), IsVector(b.ids)
  PROVE  /\ IsVector(intersect(a, b)) /\ Members(intersect(a, b)) = Members(a.ids) \cap Members(b.ids)
         /\ IsVector(unite(a, b)) /\ Members(unite(a, b)) = Members(a.ids) \cup Members(b.ids)
         /\ IsVector(exor_(a, b)) /\ Members(exor_(a, b)) = Members(a.ids) \ Members(b.ids)
<1>1. IsVector(intersect(a, b)) /\ Members(intersect(a, b)) = Members(a.ids) \cap Members(b.ids)
  BY AndIsIntersection, ShortenKeeps DEF intersect
<1>2. IsVector(unite(a, b)) /\ Members(unite(a, b)) = Members(a.ids) \cup Members(b.ids)
  BY OrIsUnion, ShortenKeeps DEF unite
<1>3. IsVector(exor_(a, b)) /\ Members(exor_(a, b)) = Members(a.ids) \ Members(b.ids)
  BY ExorIsDifference, ShortenKeeps DEF exor_
<1>. QED  BY <1>1, <1>2, <1>3

LEMMA SubtractIs ==
  ASSUME NEW a, NEW b, IsVector(a.ids), IsVector(b.ids)
  PROVE  IsVector(subtract(a, b)) /\ Members(subtract(a, b)) \subseteq Members(a.ids) \ Members(b.ids)
<1>. DEFINE v == b.ids
            w == [b.ids EXCEPT !.byte = [i \in DOMAIN @ |-> Bits \ @[i]]]
<1>1. v = [size |-> v.size, byte |-> v.byte] /\ v.size \in Nat /\ v.byte \in [0 .. v.size - 1 -> SUBSET Bits]
  BY DEF IsVector
<1>. DEFINE f == [i \in DOMAIN v.byte |-> Bits \ v.byte[i]]
<1>2. w = [v EXCEPT !.byte = f]
  OBVIOUS
<1>3. f \in [0 .. v.size - 1 -> SUBSET Bits] /\ \A i \in 0 .. v.size - 1 : f[i] = Bits \ v.byte[i]
  BY <1>1
<1>. HIDE DEF v, f, w
<1>4. w = [size |-> v.size, byte |-> f]
  BY <1>1, <1>2
<1>5. IsVector(w)
  BY <1>1, <1>3, <1>4 DEF IsVector
<1>6. \A i \in Members(w) : i \notin Members(v)
  <2>. SUFFICES ASSUME NEW i \in Members(w), i \in Members(v) PROVE FALSE
    OBVIOUS
  <2>. DEFINE q == i \div Width
  <2>1. i \in Nat /\ i < Width * v.size
    BY <1>1, <1>5, MembersAreNumbers DEF Members, v
  <2>2. q \in Nat /\ q < v.size
    BY <1>1, <2>1, InByte, Position
  <2>3. i % Width \in Byte(w, q) /\ i % Width \in Byte(v, q)
    BY DEF Members
  <2>. HIDE DEF q
  <2>4. Byte(w, q) = Bits \ v.byte[q] /\ Byte(v, q) = v.byte[q]
    BY <1>1, <1>3, <1>4, <2>2 DEF Byte
  <2>. QED  BY <2>3, <2>4
<1>7. subtract(a, b) = shorten(and(a.ids, w))
  BY DEF subtract, w
<1>8. IsVector(and(a.ids, w)) /\ Members(and(a.ids, w)) = Members(a.ids) \cap Members(w)
  BY <1>5, AndIsIntersection
<1>9. Members(subtract(a, b)) = Members(a.ids) \cap Members(w) /\ IsVector(subtract(a, b))
  BY <1>7, <1>8, ShortenKeeps
<1>. QED  BY <1>6, <1>9 DEF v

LEMMA HasBit ==
  ASSUME NEW v, IsVector(v), NEW i \in Nat
  PROVE  LET r == isanyset(v, i) IN (r.found /\ r.at = i) <=> i \in Members(v)
<1>. DEFINE q == i \div Width  x == i % Width
            found == {j \in q .. v.size - 1 : x \in v.byte[j]}
            r == isanyset(v, i)
<1>1. q \in Nat /\ x \in Bits /\ i = Width * q + x /\ v.size \in Nat
  BY Position DEF IsVector
<1>2. i \in Members(v) <=> q \in found
  <2>1. i \in Members(v) <=> x \in Byte(v, q)
    BY InMembers
  <2>. HIDE DEF q, x
  <2>. QED  BY <1>1, <2>1 DEF Byte
<1>3. r = IF found = {} THEN [found |-> FALSE, at |-> 0]
          ELSE [found |-> TRUE, at |-> Width * Least(found) + x]
  BY DEF isanyset
<1>. HIDE DEF q, x
<1>4. found # {} => Least(found) \in found /\ \A y \in found : Least(found) <= y
  <2>1. found \in SUBSET (0 .. v.size - 1)
    BY <1>1
  <2>. HIDE DEF found
  <2>. QED  BY <1>1, <2>1, LeastOf
<1>5. found \subseteq Nat /\ \A y \in found : q <= y
  BY <1>1
<1>. HIDE DEF r, found
<1>6. CASE found = {}
  BY <1>2, <1>3, <1>6 DEF r
<1>7. CASE found # {}
  <2>. DEFINE l == Least(found)
  <2>1. r.found /\ r.at = Width * l + x
    BY <1>3, <1>7
  <2>2. l \in Nat /\ l \in found /\ q <= l /\ (q \in found => l <= q)
    BY <1>4, <1>5, <1>7
  <2>. HIDE DEF l
  <2>3. q \in found <=> l = q
    BY <1>1, <2>2
  <2>4. Width * l + x = i <=> l = q
    <3>1. l # q => Width * q + Width <= Width * l
      BY <1>1, <2>2, Times
    <3>2. Width * q \in Nat /\ Width * l \in Nat /\ x \in Nat /\ Width \in Nat \ {0}
      BY <1>1, <2>2 DEF Bits
    <3>. QED  BY <1>1, <3>1, <3>2
  <2>. QED  BY <1>2, <2>1, <2>3, <2>4 DEF r
<1>. QED  BY <1>6, <1>7

LEMMA ComplementIs ==
  ASSUME NEW a, IsVector(a.ids), stored \subseteq Ids
  PROVE  IsVector(complement(a)) /\ Members(complement(a)) \subseteq stored \ Members(a.ids)
<1>. DEFINE m == not(a.ids)  n == shorten(m)  e == Elements(stored)  u == and(n, e)
<1>1. IsVector(m) /\ Members(m) \cap Members(a.ids) = {}
  BY NotIsComplement
<1>2. IsVector(e) /\ Members(e) = stored
  BY PostingOf, InVectors DEF Elements, Fits
<1>3. complement(a) = shorten(u)
  BY DEF complement
<1>. HIDE DEF m, e
<1>4. IsVector(n) /\ Members(n) = Members(m)
  BY <1>1, ShortenKeeps
<1>. HIDE DEF n
<1>5. IsVector(u) /\ Members(u) = Members(n) \cap Members(e)
  BY <1>2, <1>4, AndIsIntersection
<1>. HIDE DEF u
<1>6. IsVector(shorten(u)) /\ Members(shorten(u)) = Members(u)
  BY <1>5, ShortenKeeps
<1>. QED  BY <1>1, <1>2, <1>3, <1>4, <1>5, <1>6

-----------------------------------------------------------------------------
(* Walks: the members of an iterator in their order, and how far a walk is.   *)
All(it) == InOrder(Members(it.ids))
Begin(s, k) == [j \in 1 .. k |-> s[j]]

(* The first k members are before a position, the others are not.             *)
Passed(it, k, at) ==
  /\ k \in 0 .. it.size /\ at \in Nat
  /\ \A j \in 1 .. it.size : IF j <= k THEN All(it)[j] < at ELSE at <= All(it)[j]

(* What an iterator and the walk over it have to do with each other as long as *)
(* all its statements are stored.                                             *)
WalkRight(it, w) ==
  /\ w.how = "fresh" => w.seen = <<>> /\ it.pos = 0 /\ it.st_counter = 0
  /\ w.how = "each"  => /\ it.st_counter > 0 /\ Passed(it, it.st_counter, it.pos)
                        /\ w.seen = Begin(All(it), it.st_counter)
  /\ w.how = "ended" => w.seen = All(it) /\ it.pos = 0 /\ it.st_counter = 0
  /\ w.how = "loop"  =>
       IF HasNext(it)
       THEN w.seen = Begin(All(it), it.st_counter + 1) /\ it.pos = All(it)[it.st_counter + 1]
       ELSE w.seen = All(it) /\ Passed(it, it.size, it.pos)

Iters == [ids : AnyVectors, pos : Nat, st_counter : Nat, size : Nat]
Good(it, w, T, N) ==
  /\ it \in Iters /\ w \in Walks /\ it.size = Cardinality(Members(it.ids))
  /\ Members(it.ids) \subseteq 0 .. N - 1
  /\ Members(it.ids) \subseteq T /\ w.how # "cut" => WalkRight(it, w)

LEMMA AllOrdered ==
  ASSUME NEW it \in Iters, it.size = Cardinality(Members(it.ids))
  PROVE  /\ IsVector(it.ids) /\ it.size \in Nat /\ Members(it.ids) \subseteq Nat
         /\ All(it) = [j \in 1 .. it.size |-> All(it)[j]]
         /\ Len(All(it)) = it.size
         /\ \A j \in 1 .. it.size : All(it)[j] \in Members(it.ids)
         /\ \A k, l \in 1 .. it.size : k < l => All(it)[k] < All(it)[l]
         /\ \A i \in Members(it.ids) : \E k \in 1 .. it.size : All(it)[k] = i
         /\ \A i \in Members(it.ids) : i < Width * it.ids.size
<1>. DEFINE M == Members(it.ids)  c == Cardinality(M)  s == InOrder(M)
<1>1. it.ids \in AnyVectors
  BY DEF Iters
<1>2. IsFiniteSet(M) /\ M \subseteq Nat /\ c \in Nat /\ \A i \in M : i < Width * it.ids.size
  BY <1>1, FiniteMembers
<1>3. IsVector(it.ids)
  BY <1>1, InAnyVectors
<1>4. /\ s \in Seq(M) /\ Len(s) = c
      /\ \A k, l \in 1 .. c : k < l => s[k] < s[l]
      /\ \A i \in M : \E k \in 1 .. c : s[k] = i
  <2>1. M \subseteq Int
    BY <1>2
  <2>. HIDE DEF M
  <2>. QED  BY <1>2, <2>1, Ordered
<1>. HIDE DEF M, c, s
<1>5. s = [j \in 1 .. c |-> s[j]] /\ \A j \in 1 .. c : s[j] \in M
  BY <1>4
<1>6. s = All(it) /\ c = it.size
  BY DEF s, c, M, All
<1>. QED  BY <1>2, <1>3, <1>4, <1>5, <1>6 DEF M

(* The next bit from a position is the next member in the order.              *)
LEMMA NextInOrder ==
  ASSUME NEW it \in Iters, it.size = Cardinality(Members(it.ids)),
         NEW k, NEW at, Passed(it, k, at), NEW p \in getfirstsetafter(it.ids, at)
  PROVE  /\ p \in Nat
         /\ k < it.size => /\ p = All(it)[k + 1] /\ ~PastEnd(it, p) /\ p \in Members(it.ids)
                           /\ Passed(it, k + 1, p + 1)
         /\ k = it.size => PastEnd(it, p) /\ Passed(it, k, p)
<1>. DEFINE s == All(it)  c == it.size  M == Members(it.ids)  e == Width * it.ids.size
<1>1. /\ k \in 0 .. c /\ at \in Nat
      /\ \A j \in 1 .. c : IF j <= k THEN s[j] < at ELSE at <= s[j]
  BY DEF Passed
<1>2. /\ IsVector(it.ids) /\ c \in Nat /\ M \subseteq Nat
      /\ \A j \in 1 .. c : s[j] \in M
      /\ \A i, j \in 1 .. c : i < j => s[i] < s[j]
      /\ \A i \in M : \E j \in 1 .. c : s[j] = i
      /\ \A i \in M : i < e
  BY AllOrdered
<1>3. /\ p \in Nat /\ (p < e => p \in M /\ at <= p)
      /\ \A i \in M : at <= i => p <= i
  BY <1>1, <1>2, NextMember
<1>4. e \in Nat
  BY <1>2 DEF IsVector
<1>5. PastEnd(it, p) <=> ~(p < e)
  BY <1>3, <1>4 DEF PastEnd
<1>6. \A i, at_ : Passed(it, i, at_) <=> /\ i \in 0 .. c /\ at_ \in Nat
                                          /\ \A j \in 1 .. c : IF j <= i THEN s[j] < at_ ELSE at_ <= s[j]
  BY DEF Passed
<1>. HIDE DEF s, c, M, e
<1>7. ASSUME k < c
      PROVE  p = s[k + 1] /\ p < e /\ p \in M /\ Passed(it, k + 1, p + 1)
  <2>1. k + 1 \in 1 .. c /\ ~(k + 1 <= k)
    BY <1>1, <1>2, <1>7
  <2>2. s[k + 1] \in M /\ at <= s[k + 1] /\ s[k + 1] < e
    BY <1>1, <1>2, <2>1
  <2>3. p <= s[k + 1] /\ p < e /\ p \in M /\ at <= p
    <3>1. p <= s[k + 1] /\ s[k + 1] \in Nat
      BY <1>2, <1>3, <2>2
    <3>2. p < e
      BY <1>3, <1>4, <2>2, <3>1
    <3>. QED  BY <1>3, <3>1, <3>2
  <2>4. PICK j \in 1 .. c : s[j] = p
    BY <1>2, <2>3
  <2>5. \A i \in 1 .. c : s[i] \in Nat
    BY <1>2
  <2>6. ~(j <= k)
    BY <1>1, <1>3, <2>3, <2>4
  <2>7. ~(k + 1 < j)
    BY <1>2, <1>3, <2>1, <2>3, <2>4, <2>5
  <2>8. j = k + 1
    BY <1>1, <2>6, <2>7
  <2>9. \A i \in 1 .. c : IF i <= k + 1 THEN s[i] < p + 1 ELSE p + 1 <= s[i]
    BY <1>1, <1>2, <1>3, <2>4, <2>5, <2>8
  <2>. QED  BY <1>1, <1>3, <1>6, <2>1, <2>3, <2>4, <2>8, <2>9
<1>8. ASSUME k = c
      PROVE  ~(p < e) /\ Passed(it, k, p)
  <2>1. \A i \in 1 .. c : s[i] < at
    BY <1>1, <1>8
  <2>2. ~(p < e)
    <3>. SUFFICES ASSUME p < e PROVE FALSE
      OBVIOUS
    <3>1. PICK j \in 1 .. c : s[j] = p
      BY <1>2, <1>3
    <3>. QED  BY <1>1, <1>3, <2>1, <3>1
  <2>3. \A i \in 1 .. c : s[i] < p
    <3>1. ASSUME NEW i \in 1 .. c
          PROVE  s[i] < p
      <4>1. s[i] \in Nat /\ s[i] < e
        BY <1>2
      <4>. QED  BY <1>3, <1>4, <2>2, <4>1
    <3>. QED  BY <3>1
  <2>. QED  BY <1>1, <1>3, <1>6, <1>8, <2>2, <2>3
<1>. QED  BY <1>3, <1>5, <1>7, <1>8 DEF s, c, M

LEMMA PassedNone ==
  ASSUME NEW it \in Iters, it.size = Cardinality(Members(it.ids))
  PROVE  Passed(it, 0, 0)
<1>1. /\ it.size \in Nat /\ Members(it.ids) \subseteq Nat
      /\ \A j \in 1 .. it.size : All(it)[j] \in Members(it.ids)
  BY AllOrdered
<1>. QED  BY <1>1 DEF Passed

(* The inductive invariant. *)
IInv ==
  /\ stored \subseteq Ids /\ next \in Nat /\ stored \subseteq 0 .. next - 1
  /\ calls \in 0 .. MaxCalls /\ open \subseteq Iterators
  /\ iter \in [Iterators -> Iters] /\ walk \in [Iterators -> Walks]
  /\ \A x \in Iterators : Good(iter[x], walk[x], stored, next)

-----------------------------------------------------------------------------
(* What each action makes of an iterator and its walk is good.                *)
LEMMA GoodOpened ==
  ASSUME NEW v \in AnyVectors, NEW T, NEW N, Members(v) \subseteq 0 .. N - 1
  PROVE  Good(Opened(v), Fresh, T, N)
<1>1. Opened(v) \in Iters
  BY FiniteMembers DEF Opened, Iters
<1>2. Fresh \in Walks
  BY DEF Fresh, Walks
<1>3. WalkRight(Opened(v), Fresh)
  BY DEF WalkRight, Fresh, Opened
<1>. QED  BY <1>1, <1>2, <1>3 DEF Good, Opened

LEMMA GoodClosed ==
  ASSUME NEW T, NEW N
  PROVE  Good(Opened(Empty), Fresh, T, N)
BY EmptyVector, FittingAny, GoodOpened

(* A walk that is cut, or begins anew, is right about anything.               *)
LEMMA GoodCut ==
  ASSUME NEW it \in Iters, NEW T, NEW N, it.size = Cardinality(Members(it.ids)),
         Members(it.ids) \subseteq 0 .. N - 1
  PROVE  Good(it, [how |-> "cut", seen |-> <<>>], T, N)
BY DEF Good, Walks

LEMMA ResetIs ==
  ASSUME NEW it \in Iters
  PROVE  /\ Reset(it) \in Iters /\ Reset(it).ids = it.ids /\ Reset(it).size = it.size
         /\ Reset(it).pos = 0 /\ Reset(it).st_counter = 0 /\ All(Reset(it)) = All(it)
BY DEF Reset, Iters, All

LEMMA GoodFresh ==
  ASSUME NEW it, NEW w, NEW T, NEW N, Good(it, w, T, N)
  PROVE  Good(Reset(it), Fresh, T, N)
<1>1. it \in Iters
  BY DEF Good
<1>2. Fresh \in Walks /\ WalkRight(Reset(it), Fresh)
  BY <1>1, ResetIs DEF Fresh, Walks, WalkRight
<1>. QED  BY <1>1, <1>2, ResetIs DEF Good

(* What a walk comes to next.                                                 *)
LEMMA CameIs ==
  ASSUME NEW it, NEW w, NEW T \in SUBSET Ids, NEW N, Good(it, w, T, N), stored = T, NEW p \in Nat
  PROVE  /\ Came(it, p) \in Seq(Ids) /\ (Came(it, p) # <<>> => Came(it, p) = <<p>> /\ p \in Ids)
         /\ PastEnd(it, p) => Came(it, p) = <<>>
         /\ ~PastEnd(it, p) /\ it.size > 0 /\ p \in T => Came(it, p) = <<p>>
BY DEF Came, Fetched

LEMMA BeginNext ==
  ASSUME NEW s, NEW k \in Nat
  PROVE  /\ Begin(s, k) \o <<s[k + 1]>> = Begin(s, k + 1)
         /\ Append(Begin(s, k), s[k + 1]) = Begin(s, k + 1)
         /\ Begin(s, 0) = <<>> /\ Begin(s, 1) = <<s[1]>>
<1>1. Len(Begin(s, k)) = k
  BY DEF Begin
<1>2. Append(Begin(s, k), s[k + 1]) = Begin(s, k + 1)
  BY <1>1 DEF Begin
<1>3. Begin(s, k) \o <<s[k + 1]>> = Begin(s, k + 1)
  <2>1. Begin(s, k) \o <<s[k + 1]>>
          = [i \in 1 .. k + 1 |-> IF i <= k THEN Begin(s, k)[i] ELSE <<s[k + 1]>>[i - k]]
    BY <1>1 DEF Begin
  <2>2. \A i \in 1 .. k + 1 : (IF i <= k THEN Begin(s, k)[i] ELSE <<s[k + 1]>>[i - k]) = s[i]
    <3>. TAKE i \in 1 .. k + 1
    <3>1. CASE i <= k
      BY <3>1 DEF Begin
    <3>2. CASE ~(i <= k)
      <4>1. i - k = 1 /\ i = k + 1
        BY <3>2
      <4>. QED  BY <3>2, <4>1
    <3>. QED  BY <3>1, <3>2
  <2>. QED  BY <2>1, <2>2 DEF Begin
<1>4. Begin(s, 0) = <<>> /\ Begin(s, 1) = <<s[1]>>
  <2>1. 1 .. 0 = {} /\ 1 .. 1 = {1}
    OBVIOUS
  <2>. QED  BY <2>1 DEF Begin
<1>. QED  BY <1>2, <1>3, <1>4

LEMMA BeginAll ==
  ASSUME NEW it \in Iters, it.size = Cardinality(Members(it.ids))
  PROVE  Begin(All(it), it.size) = All(it)
BY AllOrdered DEF Begin

(* first *)
LEMMA GoodFirst ==
  ASSUME NEW it, NEW w, NEW T \in SUBSET Ids, NEW N, Good(it, w, T, N), stored = T,
         NEW p \in getfirstsetafter(it.ids, 0)
  PROVE  Good([Reset(it) EXCEPT !.pos = p], [how |-> "loop", seen |-> Came(it, p)], T, N)
<1>. DEFINE j == [Reset(it) EXCEPT !.pos = p]  u == [how |-> "loop", seen |-> Came(it, p)]
            M == Members(it.ids)  c == it.size
<1>1. it \in Iters /\ c = Cardinality(M) /\ M \subseteq 0 .. N - 1
  BY DEF Good
<1>2. Passed(it, 0, 0)
  BY <1>1, PassedNone
<1>3. /\ p \in Nat
      /\ 0 < c => p = All(it)[0 + 1] /\ ~PastEnd(it, p) /\ p \in M
      /\ 0 = c => PastEnd(it, p) /\ Passed(it, 0, p)
  BY <1>1, <1>2, NextInOrder
<1>4. c \in Nat
  BY <1>1, AllOrdered
<1>5. /\ j \in Iters /\ j.ids = it.ids /\ j.size = c /\ j.pos = p /\ j.st_counter = 0
      /\ All(j) = All(it)
  BY <1>1, <1>3, ResetIs DEF Iters, All
<1>6. u \in Walks
  BY <1>3, CameIs DEF Walks
<1>7. ASSUME M \subseteq T
      PROVE  WalkRight(j, u)
  <2>1. CASE 0 < c
    <3>1. Came(it, p) = <<p>>
      BY <1>3, <1>4, <1>7, <2>1, CameIs
    <3>2. HasNext(j)
      BY <1>5, <2>1 DEF HasNext
    <3>3. Begin(All(j), j.st_counter + 1) = <<All(j)[1]>>
      <4>1. j.st_counter + 1 = 1
        BY <1>5
      <4>. HIDE DEF j
      <4>. QED  BY <4>1, BeginNext
    <3>4. p = All(j)[j.st_counter + 1] /\ j.st_counter + 1 = 1
      BY <1>3, <1>5, <2>1
    <3>. HIDE DEF j
    <3>. QED  BY <1>5, <3>1, <3>2, <3>3, <3>4 DEF WalkRight
  <2>2. CASE c = 0
    <3>1. Came(it, p) = <<>>
      BY <1>3, <2>2, CameIs
    <3>2. ~HasNext(j) /\ Passed(j, j.size, j.pos)
      BY <1>3, <1>5, <2>2 DEF HasNext, Passed
    <3>3. All(j) = <<>>
      BY <1>1, <1>5, <2>2, BeginAll, BeginNext
    <3>. HIDE DEF j
    <3>. QED  BY <3>1, <3>2, <3>3 DEF WalkRight
  <2>. QED  BY <1>4, <2>1, <2>2
<1>. HIDE DEF j, u
<1>8. Good(j, u, T, N)
  BY <1>1, <1>5, <1>6, <1>7 DEF Good
<1>. QED  BY <1>8 DEF j, u

(* next *)
LEMMA GoodNext ==
  ASSUME NEW it, NEW w, NEW T \in SUBSET Ids, NEW N, Good(it, w, T, N), stored = T,
         NEW p \in getfirstsetafter(it.ids, it.pos + 1)
  PROVE  Good([it EXCEPT !.pos = p, !.st_counter = @ + 1],
              IF w.how = "loop" THEN [w EXCEPT !.seen = @ \o Came(it, p)]
              ELSE [how |-> "cut", seen |-> <<>>], T, N)
<1>. DEFINE j == [it EXCEPT !.pos = p, !.st_counter = @ + 1]
            u == [w EXCEPT !.seen = @ \o Came(it, p)]
            M == Members(it.ids)  c == it.size  st == it.st_counter
<1>1. it \in Iters /\ c = Cardinality(M) /\ M \subseteq 0 .. N - 1 /\ w \in Walks
  BY DEF Good
<1>2. IsVector(it.ids) /\ it.pos + 1 \in Nat /\ st \in Nat /\ c \in Nat
  BY <1>1, AllOrdered DEF Iters
<1>3. p \in Nat
  BY <1>2, NextMember
<1>4. /\ j \in Iters /\ j.ids = it.ids /\ j.size = c /\ j.pos = p /\ j.st_counter = st + 1
      /\ All(j) = All(it)
  <2>1. it = [ids |-> it.ids, pos |-> it.pos, st_counter |-> st, size |-> c] /\ it.ids \in AnyVectors
    BY <1>1 DEF Iters
  <2>2. j = [ids |-> it.ids, pos |-> p, st_counter |-> st + 1, size |-> c]
    <3>. DEFINE k == [it EXCEPT !.pos = p]
    <3>1. k = [ids |-> it.ids, pos |-> p, st_counter |-> st, size |-> c]
      BY <2>1
    <3>2. j = [k EXCEPT !.st_counter = st + 1]
      BY <2>1
    <3>. HIDE DEF k, j
    <3>. QED  BY <3>1, <3>2
  <2>3. j \in Iters
    BY <1>2, <1>3, <2>1, <2>2 DEF Iters
  <2>. HIDE DEF j
  <2>. QED  BY <2>2, <2>3 DEF All
<1>. HIDE DEF j
<1>5. Good(j, [how |-> "cut", seen |-> <<>>], T, N)
  BY <1>1, <1>4, GoodCut
<1>6. ASSUME w.how = "loop"
      PROVE  Good(j, u, T, N)
  <2>1. u \in Walks /\ u.how = "loop" /\ u.seen = w.seen \o Came(it, p)
    <3>1. w.seen \in Seq(Ids) /\ Came(it, p) \in Seq(Ids)
      BY <1>1, <1>3, CameIs DEF Walks
    <3>2. w.seen \o Came(it, p) \in Seq(Ids)
      BY <3>1
    <3>. DEFINE d == w.seen \o Came(it, p)
    <3>3. u = [w EXCEPT !.seen = d]
      OBVIOUS
    <3>. HIDE DEF d, u
    <3>4. u \in Walks /\ u.how = "loop" /\ u.seen = d
      BY <1>1, <1>6, <3>2, <3>3 DEF Walks, d
    <3>. QED  BY <3>4 DEF d
  <2>. HIDE DEF u
  <2>2. ASSUME M \subseteq T
        PROVE  WalkRight(j, u)
    <3>1. WalkRight(it, w)
      BY <1>6, <2>2 DEF Good
    <3>2. CASE st < c
      <4>1. w.seen = Begin(All(it), st + 1) /\ it.pos = All(it)[st + 1]
        BY <1>6, <3>1, <3>2 DEF WalkRight, HasNext
      <4>2. Passed(it, st + 1, it.pos + 1)
        <5>1. \A i \in 1 .. c : All(it)[i] \in Nat
          BY <1>1, AllOrdered
        <5>2. \A k, l \in 1 .. c : k < l => All(it)[k] < All(it)[l]
          BY <1>1, AllOrdered
        <5>3. st + 1 \in 1 .. c
          BY <1>2, <3>2
        <5>4. ASSUME NEW i \in 1 .. c
              PROVE  IF i <= st + 1 THEN All(it)[i] < it.pos + 1 ELSE it.pos + 1 <= All(it)[i]
          <6>1. CASE i = st + 1
            BY <4>1, <5>1, <6>1
          <6>2. CASE i < st + 1
            BY <4>1, <5>1, <5>2, <5>3, <6>2
          <6>3. CASE st + 1 < i
            BY <4>1, <5>1, <5>2, <5>3, <6>3
          <6>. QED  BY <1>2, <6>1, <6>2, <6>3
        <5>. QED  BY <1>2, <5>3, <5>4 DEF Passed
      <4>3. /\ st + 1 < c => p = All(it)[(st + 1) + 1] /\ ~PastEnd(it, p) /\ p \in M
            /\ st + 1 = c => PastEnd(it, p) /\ Passed(it, c, p)
        BY <1>1, <4>2, NextInOrder
      <4>4. CASE st + 1 < c
        <5>1. Came(it, p) = <<p>>
          BY <1>2, <1>3, <2>2, <4>3, <4>4, CameIs
        <5>2. u.seen = Begin(All(it), (st + 1) + 1)
          <6>1. Begin(All(it), st + 1) \o <<All(it)[(st + 1) + 1]>> = Begin(All(it), (st + 1) + 1)
            <7>. DEFINE k == st + 1  s == All(it)
            <7>1. k \in Nat
              BY <1>2
            <7>. HIDE DEF k, s
            <7>2. Begin(s, k) \o <<s[k + 1]>> = Begin(s, k + 1)
              BY <7>1, BeginNext
            <7>. QED  BY <7>2 DEF k, s
          <6>. QED  BY <2>1, <4>1, <4>3, <4>4, <5>1, <6>1
        <5>. QED  BY <1>4, <2>1, <4>3, <4>4, <5>2 DEF WalkRight, HasNext
      <4>5. CASE st + 1 = c
        <5>1. Came(it, p) = <<>>
          BY <1>3, <4>3, <4>5, CameIs
        <5>2. Begin(All(it), st + 1) = All(it)
          BY <1>1, <4>5, BeginAll
        <5>3. w.seen \in Seq(Ids)
          BY <1>1 DEF Walks
        <5>4. u.seen = All(j)
          BY <1>4, <2>1, <4>1, <5>1, <5>2, <5>3
        <5>5. ~HasNext(j) /\ Passed(j, j.size, j.pos)
          BY <1>2, <1>4, <4>3, <4>5 DEF HasNext, Passed
        <5>. QED  BY <2>1, <5>4, <5>5 DEF WalkRight
      <4>. QED  BY <1>2, <3>2, <4>4, <4>5
    <3>3. CASE ~(st < c)
      <4>1. w.seen = All(it) /\ Passed(it, c, it.pos)
        BY <1>6, <3>1, <3>3 DEF WalkRight, HasNext
      <4>2. Passed(it, c, it.pos + 1)
        <5>1. \A i \in 1 .. c : All(it)[i] \in Nat
          BY <1>1, AllOrdered
        <5>2. it.pos \in Nat
          BY <1>1 DEF Iters
        <5>. QED  BY <1>2, <4>1, <5>1, <5>2 DEF Passed
      <4>3. PastEnd(it, p) /\ Passed(it, c, p)
        BY <1>1, <4>2, NextInOrder
      <4>4. Came(it, p) = <<>>
        BY <1>3, <4>3, CameIs
      <4>5. w.seen \in Seq(Ids)
        BY <1>1 DEF Walks
      <4>6. u.seen = All(j)
        BY <1>4, <2>1, <4>1, <4>4, <4>5
      <4>7. ~HasNext(j) /\ Passed(j, j.size, j.pos)
        BY <1>2, <1>4, <3>3, <4>3 DEF HasNext, Passed
      <4>. QED  BY <2>1, <4>6, <4>7 DEF WalkRight
    <3>. QED  BY <3>2, <3>3
  <2>. QED  BY <1>1, <1>4, <2>1, <2>2 DEF Good
<1>. HIDE DEF u
<1>7. Good(j, IF w.how = "loop" THEN u ELSE [how |-> "cut", seen |-> <<>>], T, N)
  BY <1>5, <1>6
<1>. QED  BY <1>7 DEF j, u

(* each, that ends *)
LEMMA GoodEnded ==
  ASSUME NEW it, NEW w, NEW T, NEW N, Good(it, w, T, N),
         Members(it.ids) \subseteq T /\ w.how \in {"fresh", "ended"} => it.size = 0,
         Members(it.ids) \subseteq T /\ w.how = "each" => it.st_counter = it.size
  PROVE  Good(Reset(it), Ended(w), T, N)
<1>. DEFINE j == Reset(it)
<1>1. it \in Iters /\ w \in Walks /\ it.size = Cardinality(Members(it.ids))
  BY DEF Good
<1>2. /\ j \in Iters /\ j.ids = it.ids /\ j.size = it.size /\ j.pos = 0 /\ j.st_counter = 0
      /\ All(j) = All(it)
  BY <1>1, ResetIs
<1>3. Good(j, Fresh, T, N)
  BY GoodFresh
<1>. SUFFICES Good(j, Ended(w), T, N)
  OBVIOUS
<1>. HIDE DEF j
<1>4. CASE w.how = "each"
  <2>1. Ended(w) = [w EXCEPT !.how = "ended"] /\ Ended(w) \in Walks
    BY <1>1, <1>4 DEF Ended, Walks
  <2>2. ASSUME Members(it.ids) \subseteq T
        PROVE  WalkRight(j, Ended(w))
    <3>1. WalkRight(it, w)
      BY <1>4, <2>2 DEF Good
    <3>2. w.seen = All(it)
      BY <1>1, <1>4, <2>2, <3>1, BeginAll DEF WalkRight
    <3>3. Ended(w).how = "ended" /\ Ended(w).seen = w.seen
      BY <1>1, <2>1 DEF Walks
    <3>. QED  BY <1>2, <3>2, <3>3 DEF WalkRight
  <2>. QED  BY <1>2, <2>1, <2>2 DEF Good
<1>5. CASE w.how \in {"fresh", "ended"}
  <2>1. Ended(w) = [how |-> "ended", seen |-> <<>>] /\ Ended(w) \in Walks
    BY <1>5 DEF Ended, Walks
  <2>2. ASSUME Members(it.ids) \subseteq T
        PROVE  WalkRight(j, Ended(w))
    <3>1. All(j) = <<>>
      BY <1>1, <1>2, <1>5, <2>2, BeginAll, BeginNext
    <3>. QED  BY <1>2, <2>1, <3>1 DEF WalkRight
  <2>. QED  BY <1>2, <2>1, <2>2 DEF Good
<1>6. CASE w.how \notin {"each", "fresh", "ended"}
  <2>1. Ended(w) = Fresh
    BY <1>6 DEF Ended
  <2>. QED  BY <1>3, <2>1
<1>. QED  BY <1>4, <1>5, <1>6

(* each, that comes to a statement *)
LEMMA GoodHop ==
  ASSUME NEW it, NEW w, NEW T \in SUBSET Ids, NEW N, Good(it, w, T, N), stored = T,
         HasNext(it), NEW p \in getfirstsetafter(it.ids, it.pos), Came(it, p) # <<>>
  PROVE  Good(Hop(it, p), Walked(w, p), T, N)
<1>. DEFINE j == Hop(it, p)  u == Walked(w, p)
            M == Members(it.ids)  c == it.size  st == it.st_counter
<1>1. it \in Iters /\ c = Cardinality(M) /\ M \subseteq 0 .. N - 1 /\ w \in Walks
  BY DEF Good
<1>2. IsVector(it.ids) /\ it.pos \in Nat /\ st \in Nat /\ c \in Nat /\ st < c
  BY <1>1, AllOrdered DEF Iters, HasNext
<1>3. p \in Nat
  BY <1>2, NextMember
<1>4. p \in Ids
  BY <1>3, CameIs
<1>5. /\ j \in Iters /\ j.ids = it.ids /\ j.size = c /\ j.pos = p + 1 /\ j.st_counter = st + 1
      /\ All(j) = All(it)
  <2>1. it = [ids |-> it.ids, pos |-> it.pos, st_counter |-> st, size |-> c] /\ it.ids \in AnyVectors
    BY <1>1 DEF Iters
  <2>2. j = [ids |-> it.ids, pos |-> p + 1, st_counter |-> st + 1, size |-> c]
    <3>. DEFINE k == [it EXCEPT !.pos = p + 1]
    <3>1. k = [ids |-> it.ids, pos |-> p + 1, st_counter |-> st, size |-> c]
      BY <2>1
    <3>2. j = [k EXCEPT !.st_counter = st + 1]
      BY <2>1 DEF Hop
    <3>. HIDE DEF k, j
    <3>. QED  BY <3>1, <3>2
  <2>3. j \in Iters
    BY <1>2, <1>3, <2>1, <2>2 DEF Iters
  <2>. HIDE DEF j
  <2>. QED  BY <2>2, <2>3 DEF All
<1>. SUFFICES Good(j, u, T, N)
  OBVIOUS
<1>. HIDE DEF j
<1>6. \A k : Passed(j, k, j.pos) <=> Passed(it, k, p + 1)
  BY <1>5 DEF Passed
<1>7. CASE w.how = "each"
  <2>1. w.seen \in Seq(Ids) /\ Append(w.seen, p) \in Seq(Ids)
    BY <1>1, <1>4 DEF Walks
  <2>. DEFINE d == Append(w.seen, p)
  <2>2. u = [w EXCEPT !.seen = d]
    BY <1>7 DEF Walked
  <2>. HIDE DEF u, d
  <2>3. u \in Walks /\ u.how = "each" /\ u.seen = d
    BY <1>1, <1>7, <2>1, <2>2 DEF Walks, d
  <2>4. ASSUME M \subseteq T
        PROVE  WalkRight(j, u)
    <3>1. /\ st > 0 /\ Passed(it, st, it.pos) /\ w.seen = Begin(All(it), st)
      BY <1>7, <2>4 DEF Good, WalkRight
    <3>2. p = All(it)[st + 1] /\ Passed(it, st + 1, p + 1)
      BY <1>1, <1>2, <3>1, NextInOrder
    <3>3. d = Begin(All(it), st + 1)
      BY <1>2, <3>1, <3>2, BeginNext DEF d
    <3>4. j.st_counter > 0 /\ Passed(j, j.st_counter, j.pos) /\ u.seen = Begin(All(j), j.st_counter)
      BY <1>2, <1>5, <1>6, <2>3, <3>2, <3>3
    <3>. QED  BY <2>3, <3>4 DEF WalkRight
  <2>. QED  BY <1>1, <1>5, <2>3, <2>4 DEF Good
<1>8. CASE w.how \in {"fresh", "ended"}
  <2>1. u = [how |-> "each", seen |-> <<p>>]
    BY <1>8 DEF Walked
  <2>. HIDE DEF u
  <2>2. u \in Walks
    BY <1>4, <2>1 DEF Walks
  <2>3. ASSUME M \subseteq T
        PROVE  WalkRight(j, u)
    <3>1. it.pos = 0 /\ st = 0
      BY <1>8, <2>3 DEF Good, WalkRight
    <3>2. Passed(it, 0, it.pos)
      BY <1>1, <3>1, PassedNone
    <3>3. p = All(it)[0 + 1] /\ Passed(it, 0 + 1, p + 1)
      BY <1>1, <1>2, <3>1, <3>2, NextInOrder
    <3>4. j.st_counter = 1 /\ Passed(j, 1, j.pos) /\ p = All(it)[1]
      BY <1>5, <1>6, <3>1, <3>3
    <3>5. u.seen = Begin(All(j), 1)
      BY <1>5, <2>1, <3>4, BeginNext
    <3>. QED  BY <2>1, <3>4, <3>5 DEF WalkRight
  <2>. QED  BY <1>1, <1>5, <2>2, <2>3 DEF Good
<1>9. CASE w.how \notin {"each", "fresh", "ended"}
  <2>1. u = [how |-> "cut", seen |-> <<>>]
    BY <1>9 DEF Walked
  <2>. HIDE DEF u
  <2>. QED  BY <1>1, <1>5, <2>1, GoodCut
<1>. QED  BY <1>7, <1>8, <1>9

(* each, that finds no statement, and each, when all were counted             *)
LEMMA GoodEnd ==
  ASSUME NEW it, NEW w, NEW T \in SUBSET Ids, NEW N, Good(it, w, T, N), stored = T,
         \/ ~HasNext(it)
         \/ \E p \in getfirstsetafter(it.ids, it.pos) : Came(it, p) = <<>>
  PROVE  Good(Reset(it), Ended(w), T, N)
<1>. DEFINE M == Members(it.ids)  c == it.size  st == it.st_counter
<1>1. it \in Iters /\ c = Cardinality(M) /\ st \in Nat /\ c \in Nat
  BY AllOrdered DEF Good, Iters
<1>2. ASSUME M \subseteq T, NEW k, Passed(it, k, it.pos), HasNext(it)
      PROVE  k = c
  <2>1. PICK p \in getfirstsetafter(it.ids, it.pos) : Came(it, p) = <<>>
    BY <1>2
  <2>2. /\ p \in Nat /\ k \in 0 .. c
        /\ k < c => ~PastEnd(it, p) /\ p \in M
    BY <1>1, <1>2, NextInOrder DEF Passed
  <2>3. ASSUME k < c
        PROVE  FALSE
    <3>1. Came(it, p) = <<p>>
      BY <1>1, <1>2, <2>2, <2>3, CameIs
    <3>. QED  BY <2>1, <3>1
  <2>. QED  BY <1>1, <2>2, <2>3
<1>3. ASSUME M \subseteq T, w.how \in {"fresh", "ended"}
      PROVE  c = 0
  <2>1. it.pos = 0 /\ st = 0
    BY <1>3 DEF Good, WalkRight
  <2>2. Passed(it, 0, it.pos)
    BY <1>1, <2>1, PassedNone
  <2>. QED  BY <1>1, <1>2, <1>3, <2>1, <2>2 DEF HasNext
<1>4. ASSUME M \subseteq T, w.how = "each"
      PROVE  st = c
  <2>1. Passed(it, st, it.pos)
    BY <1>4 DEF Good, WalkRight
  <2>2. st \in 0 .. c
    BY <2>1 DEF Passed
  <2>. QED  BY <1>1, <1>2, <1>4, <2>1, <2>2 DEF HasNext
<1>. QED  BY <1>3, <1>4, GoodEnded

(* remove *)
LEMMA GoodRemoved ==
  ASSUME NEW it, NEW w, NEW T, NEW N, Good(it, w, T, N)
  PROVE  LET done == setmask(it.ids, it.pos, 0)
         IN  Good(Cleared(it, done), IF done.changed THEN [how |-> "cut", seen |-> <<>>] ELSE w, T, N)
<1>. DEFINE done == setmask(it.ids, it.pos, 0)  j == Cleared(it, done)  M == Members(it.ids)
            v == done.vector
<1>1. it \in Iters /\ w \in Walks /\ it.size = Cardinality(M) /\ M \subseteq 0 .. N - 1
  BY DEF Good
<1>2. /\ it = [ids |-> it.ids, pos |-> it.pos, st_counter |-> it.st_counter, size |-> it.size]
      /\ it.ids \in AnyVectors /\ it.pos \in Nat /\ it.st_counter \in Nat /\ it.size \in Nat
  BY <1>1 DEF Iters
<1>3. IsVector(it.ids) /\ IsFiniteSet(M)
  BY <1>2, InAnyVectors, FiniteMembers
<1>4. IsVector(v) /\ Members(v) = M \ {it.pos} /\ (done.changed <=> it.pos \in M)
  <2>. DEFINE a == it.ids  at == it.pos
  <2>1. IsVector(a) /\ at \in Nat /\ 0 \in {0, 1}
    BY <1>2, <1>3
  <2>. HIDE DEF a, at
  <2>2. LET s == setmask(a, at, 0)
        IN  /\ IsVector(s.vector)
            /\ Members(s.vector) = IF 0 = 1 THEN Members(a) \cup {at} ELSE Members(a) \ {at}
            /\ s.changed <=> (0 = 1 <=> at \notin Members(a))
    BY <2>1, SetmaskSets
  <2>. QED  BY <2>2 DEF a, at
<1>5. IsVector(shorten(v)) /\ Members(shorten(v)) = M \ {it.pos}
  <2>. HIDE DEF v
  <2>. QED  BY <1>4, ShortenKeeps
<1>6. v \in AnyVectors /\ shorten(v) \in AnyVectors
  BY <1>4, <1>5, InAnyVectors
<1>. SUFFICES Good(j, IF done.changed THEN [how |-> "cut", seen |-> <<>>] ELSE w, T, N)
  OBVIOUS
<1>. HIDE DEF done
<1>7. CASE done.changed
  <2>1. Cardinality(M \ {it.pos}) = it.size - 1 /\ it.size - 1 \in Nat
    <3>1. it.pos \in M
      BY <1>4, <1>7
    <3>. HIDE DEF M
    <3>2. Cardinality(M \ {it.pos}) = Cardinality(M) - 1 /\ IsFiniteSet(M \ {it.pos})
      BY <1>3, <3>1, FS_RemoveElement
    <3>. QED  BY <1>1, <3>2, FS_CardinalityType
  <2>2. j = [ids |-> shorten(v), pos |-> it.pos, st_counter |-> it.st_counter, size |-> it.size - 1]
    <3>. DEFINE k == [it EXCEPT !.ids = shorten(v)]
    <3>1. k = [ids |-> shorten(v), pos |-> it.pos, st_counter |-> it.st_counter, size |-> it.size]
      BY <1>2
    <3>2. j = [k EXCEPT !.size = it.size - 1]
      BY <1>2, <1>7 DEF Cleared
    <3>. HIDE DEF k, j
    <3>. QED  BY <3>1, <3>2
  <2>. HIDE DEF j, v
  <2>3. j \in Iters /\ j.ids = shorten(v) /\ j.size = it.size - 1
    BY <1>2, <1>6, <2>1, <2>2 DEF Iters
  <2>. QED  BY <1>1, <1>5, <1>7, <2>1, <2>3, GoodCut
<1>8. CASE ~done.changed
  <2>1. Members(v) = M
    BY <1>4, <1>8
  <2>2. j = [it EXCEPT !.ids = v]
    BY <1>8 DEF Cleared
  <2>. HIDE DEF j, v
  <2>3. /\ j \in Iters /\ j.ids = v /\ j.size = it.size /\ j.pos = it.pos
        /\ j.st_counter = it.st_counter
    BY <1>2, <1>6, <2>2 DEF Iters
  <2>4. All(j) = All(it)
    BY <2>1, <2>3 DEF All
  <2>5. WalkRight(it, w) => WalkRight(j, w)
    BY <2>3, <2>4 DEF WalkRight, HasNext, Passed
  <2>. QED  BY <1>1, <1>8, <2>1, <2>3, <2>5 DEF Good
<1>. QED  BY <1>7, <1>8

-----------------------------------------------------------------------------
(* The actions keep the invariant.                                            *)
LEMMA Kept ==
  ASSUME IInv, NEW x \in Iterators, NEW it, NEW w, Good(it, w, stored, next),
         stored' = stored, next' = next, Called, open' \subseteq Iterators,
         iter' = [iter EXCEPT ![x] = it], walk' = [walk EXCEPT ![x] = w]
  PROVE  IInv'
<1>1. it \in Iters /\ w \in Walks
  BY DEF Good
<1>2. iter' \in [Iterators -> Iters] /\ walk' \in [Iterators -> Walks]
  BY <1>1 DEF IInv
<1>3. ASSUME NEW y \in Iterators
      PROVE  Good(iter'[y], walk'[y], stored', next')
  <2>1. CASE y = x
    BY <2>1 DEF IInv
  <2>2. CASE y # x
    BY <2>2 DEF IInv
  <2>. QED  BY <2>1, <2>2
<1>4. calls' \in 0 .. MaxCalls
  BY IteratorConstants DEF IInv, Called
<1>. QED  BY <1>2, <1>3, <1>4 DEF IInv

LEMMA Initially ==
  Init => IInv
<1>. SUFFICES ASSUME Init PROVE IInv
  OBVIOUS
<1>1. Good(Opened(Empty), Fresh, stored, next)
  BY GoodClosed
<1>2. Opened(Empty) \in Iters /\ Fresh \in Walks
  BY <1>1 DEF Good
<1>. QED  BY <1>1, <1>2, IteratorConstants DEF Init, IInv

(* The store changes: an identifier is new to every iterator.                 *)
LEMMA GoodStored ==
  ASSUME NEW it, NEW w, NEW T, NEW N, NEW U, NEW K, Good(it, w, T, N),
         Members(it.ids) \subseteq 0 .. K - 1,
         Members(it.ids) \subseteq U => Members(it.ids) \subseteq T
  PROVE  Good(it, w, U, K)
BY DEF Good

LEMMA KeptByStore ==
  ASSUME IInv, Insert \/ RemoveStored
  PROVE  IInv'
<1>1. ASSUME NEW x \in Iterators
      PROVE  Good(iter[x], walk[x], stored', next')
  <2>. DEFINE it == iter[x]  w == walk[x]  M == Members(it.ids)
  <2>1. Good(it, w, stored, next) /\ M \subseteq 0 .. next - 1 /\ next \in Nat
    BY DEF IInv, Good
  <2>2. M \subseteq 0 .. next' - 1 /\ (M \subseteq stored' => M \subseteq stored)
    <3>1. CASE Insert
      <4>1. next' = next + 1 /\ stored' \subseteq stored \cup {next}
        BY <3>1 DEF Insert
      <4>2. next \notin M
        BY <2>1
      <4>. HIDE DEF M
      <4>. QED  BY <2>1, <4>1, <4>2
    <3>2. CASE RemoveStored
      <4>. HIDE DEF M
      <4>. QED  BY <2>1, <3>2 DEF RemoveStored
    <3>. QED  BY <3>1, <3>2
  <2>. HIDE DEF it, w
  <2>3. Good(it, w, stored', next')
    BY <2>1, <2>2, GoodStored
  <2>. QED  BY <2>3 DEF it, w
<1>2. stored' \subseteq Ids /\ next' \in Nat /\ stored' \subseteq 0 .. next' - 1
  <2>1. CASE Insert
    <3>1. next' = next + 1 /\ next \in Ids /\ stored' \subseteq stored \cup {next}
      BY <2>1 DEF Insert
    <3>. QED  BY <3>1 DEF IInv
  <2>2. CASE RemoveStored
    BY <2>2 DEF IInv, RemoveStored
  <2>. QED  BY <2>1, <2>2
<1>3. UNCHANGED <<open, iter, walk, calls>>
  BY DEF Insert, RemoveStored, OnStore
<1>. QED  BY <1>1, <1>2, <1>3 DEF IInv

LEMMA KeptByOpen ==
  ASSUME IInv, NEW x \in Iterators, NEW v \in AnyVectors, Members(v) \subseteq 0 .. next - 1, Open(x, v)
  PROVE  IInv'
<1>1. Good(Opened(v), Fresh, stored, next)
  BY GoodOpened
<1>. QED  BY <1>1, Kept DEF Open, OnIterators, IInv

(* Vectors that are opened.                                                   *)
LEMMA KeptByOpening ==
  ASSUME IInv, NEW x \in Iterators, OpenElements(x) \/ OpenSearch(x) \/ OpenObject(x)
  PROVE  IInv'
<1>1. \A i \in stored : i \in 0 .. next - 1
  BY DEF IInv
<1>2. stored \subseteq Ids
  BY DEF IInv
<1>3. ASSUME NEW v \in Vectors, Members(v) \subseteq stored, Open(x, v)
      PROVE  IInv'
  BY <1>1, <1>3, FittingAny, KeptByOpen
<1>4. CASE OpenElements(x)
  BY <1>2, <1>3, <1>4, PostingOf DEF OpenElements, Elements
<1>5. CASE OpenSearch(x)
  <2>1. PICK tp \in Opening : Search(stored, tp) # None /\ Open(x, Search(stored, tp))
    BY <1>5 DEF OpenSearch
  <2>2. tp \in Patterns
    BY IteratorConstants
  <2>3. Search(stored, tp) \in Vectors /\ Members(Search(stored, tp)) \subseteq stored
    BY <1>2, <2>1, <2>2, SearchIs
  <2>. QED  BY <1>3, <2>1, <2>3
<1>6. CASE OpenObject(x)
  <2>1. PICK n \in Resources : Open(x, FetchObject(stored, n, None))
    BY <1>6 DEF OpenObject
  <2>2. FetchObject(stored, n, None) \in Vectors /\ Members(FetchObject(stored, n, None)) \subseteq stored
    BY <1>2, FetchIs
  <2>. QED  BY <1>3, <2>1, <2>2
<1>. QED  BY <1>4, <1>5, <1>6

LEMMA KeptByMoving ==
  ASSUME IInv, NEW x \in Iterators, NEW it, NEW w, IsOpen(x), Moves(x, it, w),
         Good(it, w, stored, next)
  PROVE  IInv'
<1>1. open' \subseteq Iterators
  BY DEF Moves, IInv
<1>. QED  BY <1>1, Kept DEF Moves, OnIterators

LEMMA KeptByWalking ==
  ASSUME IInv, NEW x \in Iterators, First(x) \/ Next_(x) \/ Each(x) \/ RemoveHere(x)
  PROVE  IInv'
<1>. DEFINE i == iter[x]  u == walk[x]
<1>1. Good(i, u, stored, next) /\ stored \in SUBSET Ids
  BY DEF IInv
<1>2. IsOpen(x)
  BY DEF First, Next_, Each, RemoveHere
<1>3. CASE First(x)
  <2>1. PICK p \in getfirstsetafter(i.ids, 0) :
          Moves(x, [Reset(i) EXCEPT !.pos = p], [how |-> "loop", seen |-> Came(i, p)])
    BY <1>3 DEF First
  <2>. HIDE DEF i
  <2>2. Good([Reset(i) EXCEPT !.pos = p], [how |-> "loop", seen |-> Came(i, p)], stored, next)
    BY <1>1, GoodFirst
  <2>. QED  BY <1>2, <2>1, <2>2, KeptByMoving
<1>4. CASE Next_(x)
  <2>1. PICK p \in getfirstsetafter(i.ids, i.pos + 1) :
          Moves(x, [i EXCEPT !.pos = p, !.st_counter = @ + 1],
                   IF u.how = "loop" THEN [u EXCEPT !.seen = @ \o Came(i, p)]
                   ELSE [how |-> "cut", seen |-> <<>>])
    BY <1>4 DEF Next_
  <2>. HIDE DEF i, u
  <2>2. Good([i EXCEPT !.pos = p, !.st_counter = @ + 1],
             IF u.how = "loop" THEN [u EXCEPT !.seen = @ \o Came(i, p)]
             ELSE [how |-> "cut", seen |-> <<>>], stored, next)
    BY <1>1, GoodNext
  <2>. QED  BY <1>2, <2>1, <2>2, KeptByMoving
<1>5. CASE Each(x)
  <2>1. ASSUME \/ ~HasNext(i)
               \/ \E p \in getfirstsetafter(i.ids, i.pos) : Came(i, p) = <<>>,
               EachEnds(x)
        PROVE  IInv'
    <3>1. Moves(x, Reset(i), Ended(u))
      BY <2>1 DEF EachEnds
    <3>. HIDE DEF i, u
    <3>2. Good(Reset(i), Ended(u), stored, next)
      BY <1>1, <2>1, GoodEnd
    <3>. QED  BY <1>2, <3>1, <3>2, KeptByMoving
  <2>2. CASE ~HasNext(i) /\ EachEnds(x)
    BY <2>1, <2>2
  <2>3. CASE /\ HasNext(i)
             /\ \E p \in getfirstsetafter(i.ids, i.pos), part \in Terms : EachTerm(x, p, part)
    <3>1. PICK p \in getfirstsetafter(i.ids, i.pos), part \in Terms : EachTerm(x, p, part)
      BY <2>3
    <3>2. CASE Came(i, p) = <<>>
      <4>1. EachEnds(x)
        <5>1. Term(i, p, part) = None
          BY <3>2 DEF Term
        <5>. QED  BY <3>1, <3>2, <5>1 DEF EachTerm
      <4>. QED  BY <2>1, <3>2, <4>1
    <3>3. CASE Came(i, p) # <<>> /\ Term(i, p, part) # None
      <4>1. Moves(x, Hop(i, p), Walked(u, p))
        BY <3>1, <3>3 DEF EachTerm
      <4>. HIDE DEF i, u
      <4>2. Good(Hop(i, p), Walked(u, p), stored, next)
        BY <1>1, <2>3, <3>3, GoodHop
      <4>. QED  BY <1>2, <4>1, <4>2, KeptByMoving
    <3>4. CASE Came(i, p) # <<>> /\ Term(i, p, part) = None
      <4>1. Moves(x, Reset(i), Fresh)
        BY <3>1, <3>4 DEF EachTerm
      <4>. HIDE DEF i, u
      <4>2. Good(Reset(i), Fresh, stored, next)
        BY <1>1, GoodFresh
      <4>. QED  BY <1>2, <4>1, <4>2, KeptByMoving
    <3>. QED  BY <3>2, <3>3, <3>4
  <2>. QED  BY <1>5, <2>2, <2>3 DEF Each
<1>6. CASE RemoveHere(x)
  <2>. DEFINE done == setmask(i.ids, i.pos, 0)
              w == IF done.changed THEN [how |-> "cut", seen |-> <<>>] ELSE u
  <2>1. Moves(x, Cleared(i, done), w)
    BY <1>6 DEF RemoveHere
  <2>. HIDE DEF i, u
  <2>2. Good(Cleared(i, done), w, stored, next)
    BY <1>1, GoodRemoved
  <2>. HIDE DEF done, w
  <2>. QED  BY <1>2, <2>1, <2>2, KeptByMoving
<1>. QED  BY <1>3, <1>4, <1>5, <1>6

LEMMA KeptByOthers ==
  ASSUME IInv, NEW x \in Iterators, NEW z \in Iterators,
         Close(x) \/ Duplicate(x, z) \/ Complement(x, z)
  PROVE  IInv'
<1>. DEFINE i == iter[x]
<1>1. Good(iter[x], walk[x], stored, next) /\ iter[x] \in Iters /\ stored \subseteq Ids
  BY DEF IInv
<1>2. CASE Close(x)
  <2>1. Good(Opened(Empty), Fresh, stored, next)
    BY GoodClosed
  <2>2. open' \subseteq Iterators
    BY <1>2 DEF Close, IInv
  <2>. QED  BY <1>2, <2>1, <2>2, Kept DEF Close, OnIterators
<1>3. CASE Duplicate(x, z)
  <2>1. open' \subseteq Iterators
    BY <1>3 DEF Duplicate, IInv
  <2>. QED  BY <1>1, <1>3, <2>1, Kept DEF Duplicate, OnIterators
<1>4. CASE Complement(x, z)
  <2>. DEFINE v == complement(i)
  <2>1. Open(z, v)
    BY <1>4 DEF Complement
  <2>2. IsVector(i.ids)
    BY <1>1, InAnyVectors DEF Iters
  <2>. HIDE DEF i
  <2>3. IsVector(v) /\ Members(v) \subseteq stored
    BY <1>1, <2>2, ComplementIs
  <2>. HIDE DEF v
  <2>4. v \in AnyVectors /\ Members(v) \subseteq 0 .. next - 1
    BY <2>3, InAnyVectors DEF IInv
  <2>. QED  BY <2>1, <2>4, KeptByOpen
<1>. QED  BY <1>2, <1>3, <1>4

LEMMA KeptByCombining ==
  ASSUME IInv, NEW x \in Iterators, NEW y \in Iterators, NEW z \in Iterators,
         Intersect(x, y, z) \/ Unite(x, y, z) \/ Exor(x, y, z) \/ Subtract(x, y, z)
  PROVE  IInv'
<1>. DEFINE a == iter[x]  b == iter[y]
<1>1. /\ IsVector(a.ids) /\ IsVector(b.ids)
      /\ Members(a.ids) \subseteq 0 .. next - 1 /\ Members(b.ids) \subseteq 0 .. next - 1
  <2>1. ASSUME NEW u \in Iterators
        PROVE  IsVector(iter[u].ids) /\ Members(iter[u].ids) \subseteq 0 .. next - 1
    BY InAnyVectors DEF IInv, Good, Iters
  <2>. QED  BY <2>1
<1>2. \/ Open(z, intersect(a, b)) \/ Open(z, unite(a, b))
      \/ Open(z, exor_(a, b)) \/ Open(z, subtract(a, b))
  BY DEF Intersect, Unite, Exor, Subtract
<1>. HIDE DEF a, b
<1>3. ASSUME NEW v, IsVector(v), Members(v) \subseteq Members(a.ids) \cup Members(b.ids), Open(z, v)
      PROVE  IInv'
  <2>1. v \in AnyVectors /\ Members(v) \subseteq 0 .. next - 1
    BY <1>1, <1>3, InAnyVectors
  <2>. QED  BY <1>3, <2>1, KeptByOpen
<1>. QED  BY <1>1, <1>2, <1>3, CombinationsAre, SubtractIs

LEMMA Invariantly ==
  IInv /\ [Next]_vars => IInv'
<1>. SUFFICES ASSUME IInv, [Next]_vars PROVE IInv'
  OBVIOUS
<1>1. CASE UNCHANGED vars
  BY <1>1 DEF vars, IInv
<1>2. CASE Insert \/ RemoveStored
  BY <1>2, KeptByStore
<1>3. ASSUME NEW x \in Iterators, OpenElements(x) \/ OpenSearch(x) \/ OpenObject(x)
      PROVE  IInv'
  BY <1>3, KeptByOpening
<1>4. ASSUME NEW x \in Iterators, First(x) \/ Next_(x) \/ Each(x) \/ RemoveHere(x)
      PROVE  IInv'
  BY <1>4, KeptByWalking
<1>5. ASSUME NEW x \in Iterators, Close(x)
      PROVE  IInv'
  BY <1>5, KeptByOthers
<1>6. ASSUME NEW x \in Iterators, NEW z \in Iterators, Duplicate(x, z) \/ Complement(x, z)
      PROVE  IInv'
  BY <1>6, KeptByOthers
<1>7. ASSUME NEW x \in Iterators, NEW y \in Iterators, NEW z \in Iterators,
             Intersect(x, y, z) \/ Unite(x, y, z) \/ Exor(x, y, z) \/ Subtract(x, y, z)
      PROVE  IInv'
  BY <1>7, KeptByCombining
<1>. QED  BY <1>1, <1>2, <1>3, <1>4, <1>5, <1>6, <1>7 DEF Next

(* The inductive invariant holds of every state.                              *)
THEOREM Inductive == Spec => []IInv
<1>1. Init => IInv
  BY Initially
<1>2. IInv /\ [Next]_vars => IInv'
  BY Invariantly
<1>. QED  BY <1>1, <1>2, PTL DEF Spec

-----------------------------------------------------------------------------
(* Every iterator is a vector of bits with counters, every walk a sequence of *)
(* statements, and the size an iterator keeps, which remove counts down and   *)
(* nothing counts again, is the number of its bits: for stores, vectors and   *)
(* iterators of any number (rdfstore_iterator.c: remove, duplicate and the    *)
(* combinations).                                                             *)
THEOREM TypesCorrect == Spec => []TypeOK
<1>1. IInv => TypeOK
  <2>. SUFFICES ASSUME IInv PROVE TypeOK
    OBVIOUS
  <2>1. stored \in SUBSET Ids /\ next \in Nat /\ calls \in 0 .. MaxCalls /\ open \subseteq Iterators
    BY DEF IInv
  <2>2. walk \in [Iterators -> Walks]
    BY DEF IInv
  <2>3. ASSUME NEW x \in open
        PROVE  /\ DOMAIN iter[x] = {"ids", "pos", "st_counter", "size"}
               /\ IsVector(iter[x].ids)
               /\ iter[x].pos \in Nat /\ iter[x].st_counter \in Nat
               /\ iter[x].size = Cardinality(Members(iter[x].ids))
    <3>1. Good(iter[x], walk[x], stored, next)
      BY <2>1 DEF IInv
    <3>. DEFINE i == iter[x]
    <3>2. i \in Iters /\ i.size = Cardinality(Members(i.ids))
      BY <3>1 DEF Good
    <3>. HIDE DEF i
    <3>3. DOMAIN i = {"ids", "pos", "st_counter", "size"} /\ i.pos \in Nat /\ i.st_counter \in Nat
      BY <3>2 DEF Iters
    <3>4. IsVector(i.ids)
      BY <3>2, InAnyVectors DEF Iters
    <3>. QED  BY <3>2, <3>3, <3>4 DEF i
  <2>. QED  BY <2>1, <2>2, <2>3 DEF TypeOK
<1>. QED  BY <1>1, Inductive, PTL

LEMMA BeginsAll ==
  ASSUME NEW it \in Iters, it.size = Cardinality(Members(it.ids)), NEW k \in 0 .. it.size
  PROVE  /\ IsPrefix(Begin(All(it), k), All(it)) /\ Len(Begin(All(it), k)) = k
         /\ k > 0 => Begin(All(it), k) # <<>> /\ Last(Begin(All(it), k)) = All(it)[k]
<1>. DEFINE s == All(it)  b == Begin(s, k)  c == it.size
<1>1. s = [j \in 1 .. c |-> s[j]] /\ Len(s) = c /\ c \in Nat
  BY AllOrdered
<1>. HIDE DEF s, c
<1>2. k \in Nat /\ k <= c
  BY <1>1 DEF c
<1>3. b = [j \in 1 .. k |-> s[j]] /\ Len(b) = k
  BY <1>2 DEF Begin
<1>. HIDE DEF b
<1>4. SubSeq(b, 1, Len(b)) = [j \in 1 .. k |-> s[j]]
  BY <1>2, <1>3
<1>5. SubSeq(s, 1, Len(b)) = [j \in 1 .. k |-> s[j]]
  BY <1>1, <1>2, <1>3
<1>6. IsPrefix(b, s)
  BY <1>1, <1>2, <1>3, <1>4, <1>5 DEF IsPrefix
<1>7. k > 0 => b # <<>> /\ Last(b) = s[k]
  BY <1>2, <1>3 DEF Last
<1>. QED  BY <1>3, <1>6, <1>7 DEF b, s

(* A loop of first and next as long as hasnext, and a repeated each until it  *)
(* gives nothing, come to every statement of an iterator once and in order    *)
(* (rdfstore_iterator.c: first, next, hasnext, each), whatever is inserted    *)
(* meanwhile, in the iterator and in duplicates of it, as long as no member   *)
(* is removed.                                                                *)
THEOREM WalksExact == Spec => []WalkExact
<1>1. IInv => WalkExact
  <2>. SUFFICES ASSUME IInv, NEW x \in open, Whole(iter[x]), walk[x].how # "cut"
                PROVE  LET all == InOrder(Members(iter[x].ids))
                       IN  /\ IsPrefix(walk[x].seen, all)
                           /\ Over(x) => walk[x].seen = all
                           /\ walk[x].how = "loop" /\ HasNext(iter[x]) =>
                                walk[x].seen # <<>> /\ Last(walk[x].seen) = iter[x].pos
    BY DEF WalkExact
  <2>. DEFINE it == iter[x]  w == walk[x]  s == All(it)  c == it.size  k == it.st_counter
  <2>1. Good(it, w, stored, next)
    BY DEF IInv
  <2>2. it \in Iters /\ w \in Walks /\ c = Cardinality(Members(it.ids)) /\ WalkRight(it, w)
    BY <2>1 DEF Good, Whole
  <2>3. c \in Nat /\ k \in Nat
    BY <2>2, AllOrdered DEF Iters
  <2>4. Over(x) <=> w.how = "ended" \/ (w.how = "loop" /\ ~HasNext(it))
    BY DEF Over
  <2>. SUFFICES /\ IsPrefix(w.seen, s) /\ (Over(x) => w.seen = s)
                /\ w.how = "loop" /\ HasNext(it) => w.seen # <<>> /\ Last(w.seen) = it.pos
    BY DEF All
  <2>. HIDE DEF it, w
  <2>5. \A n \in 0 .. c : /\ IsPrefix(Begin(s, n), s)
                          /\ n > 0 => Begin(s, n) # <<>> /\ Last(Begin(s, n)) = s[n]
    BY <2>2, BeginsAll
  <2>6. Begin(s, c) = s /\ Begin(s, 0) = <<>>
    BY <2>2, BeginAll, BeginNext
  <2>7. IsPrefix(s, s) /\ IsPrefix(<<>>, s)
    <3>1. c \in 0 .. c /\ 0 \in 0 .. c
      BY <2>3
    <3>. HIDE DEF s, c
    <3>. QED  BY <2>5, <2>6, <3>1
  <2>8. CASE w.how = "fresh"
    <3>1. w.seen = <<>>
      BY <2>2, <2>8 DEF WalkRight
    <3>. QED  BY <2>4, <2>7, <2>8, <3>1
  <2>9. CASE w.how = "each"
    <3>1. w.seen = Begin(s, k) /\ k \in 0 .. c
      BY <2>2, <2>9 DEF WalkRight, Passed
    <3>. HIDE DEF s, c, k
    <3>. QED  BY <2>4, <2>5, <2>9, <3>1
  <2>10. CASE w.how = "ended"
    <3>1. w.seen = s
      BY <2>2, <2>10 DEF WalkRight
    <3>. QED  BY <2>4, <2>7, <2>10, <3>1
  <2>11. CASE w.how = "loop" /\ HasNext(it)
    <3>1. w.seen = Begin(s, k + 1) /\ it.pos = s[k + 1]
      BY <2>2, <2>11 DEF WalkRight
    <3>2. k + 1 \in 0 .. c /\ k + 1 > 0
      BY <2>3, <2>11 DEF HasNext
    <3>. DEFINE n == k + 1
    <3>. HIDE DEF s, c, n
    <3>. QED  BY <2>4, <2>5, <2>11, <3>1, <3>2 DEF n
  <2>12. CASE w.how = "loop" /\ ~HasNext(it)
    <3>1. w.seen = s
      BY <2>2, <2>12 DEF WalkRight
    <3>. QED  BY <2>7, <2>12, <3>1
  <2>13. w.how \in {"fresh", "each", "loop", "ended"}
    BY <2>2 DEF Walks, w
  <2>. QED  BY <2>8, <2>9, <2>10, <2>11, <2>12, <2>13
<1>. QED  BY <1>1, Inductive, PTL

(* The set operations on two iterators are what they say they are, for        *)
(* vectors of any two lengths (rdfstore_iterator.c: intersect, unite, exor,   *)
(* subtract, complement, contains).                                           *)
THEOREM CombinationsHold == Spec => []CombinationsExact
<1>1. IInv => CombinationsExact
  <2>. SUFFICES ASSUME IInv PROVE CombinationsExact
    OBVIOUS
  <2>1. stored \subseteq Ids
    BY DEF IInv
  <2>2. \A x \in open : IsVector(iter[x].ids)
    <3>. SUFFICES ASSUME NEW x \in open PROVE IsVector(iter[x].ids)
      OBVIOUS
    <3>1. iter[x].ids \in AnyVectors
      BY DEF IInv, Iters
    <3>. QED  BY <3>1, InAnyVectors
  <2>3. ASSUME NEW x \in open
        PROVE  LET a == iter[x]  A == Members(a.ids)
               IN  /\ Members(complement(a)) \subseteq stored \ A
                   /\ \A i \in Ids : ContainsStatement(a, What[i]) <=> Id(What[i]) \cap A # {}
    <3>. DEFINE a == iter[x]  A == Members(a.ids)
    <3>1. IsVector(a.ids)
      BY <2>2
    <3>. HIDE DEF a
    <3>2. Members(complement(a)) \subseteq stored \ A
      BY <2>1, <3>1, ComplementIs
    <3>3. ASSUME NEW s
          PROVE  ContainsStatement(a, s) <=> Id(s) \cap A # {}
      <4>1. Id(s) \subseteq Nat
        BY <2>1, Constants DEF Id
      <4>2. \A i \in Nat : (LET r == isanyset(a.ids, i) IN r.found /\ r.at = i) <=> i \in A
        BY <3>1, HasBit
      <4>. DEFINE R(i) == LET r == isanyset(a.ids, i) IN r.found /\ r.at = i
      <4>3. ContainsStatement(a, s) <=> Id(s) # {} /\ \E i \in Id(s) : R(i)
        BY DEF ContainsStatement
      <4>4. \A i \in Nat : R(i) <=> i \in A
        BY <4>2
      <4>. HIDE DEF R, A
      <4>. QED  BY <4>1, <4>3, <4>4
    <3>. QED  BY <3>2, <3>3 DEF a
  <2>4. ASSUME NEW x \in open, NEW y \in open
        PROVE  LET a == iter[x]  A == Members(a.ids)
                   b == iter[y]  B == Members(b.ids)
               IN  /\ Members(intersect(a, b)) = A \cap B
                   /\ Members(unite(a, b)) = A \cup B
                   /\ Members(exor_(a, b)) = A \ B
                   /\ Members(subtract(a, b)) \subseteq A \ B
    <3>. DEFINE a == iter[x]  b == iter[y]
    <3>1. IsVector(a.ids) /\ IsVector(b.ids)
      BY <2>2
    <3>. HIDE DEF a, b
    <3>2. /\ Members(intersect(a, b)) = Members(a.ids) \cap Members(b.ids)
          /\ Members(unite(a, b)) = Members(a.ids) \cup Members(b.ids)
          /\ Members(exor_(a, b)) = Members(a.ids) \ Members(b.ids)
          /\ Members(subtract(a, b)) \subseteq Members(a.ids) \ Members(b.ids)
      BY <3>1, CombinationsAre, SubtractIs
    <3>. QED  BY <3>2 DEF a, b
  <2>. QED  BY <2>3, <2>4 DEF CombinationsExact
<1>. QED  BY <1>1, Inductive, PTL

(* rdfstore_search over any statements: what it finds has a key in common     *)
(* with every part of the pattern, and everything is found that has all the   *)
(* keys of the parts asked with AND and one of the others.                    *)
THEOREM SearchesExact == Spec => []SearchExact
<1>1. IInv => SearchExact
  <2>. SUFFICES ASSUME IInv, NEW tp \in Patterns
                PROVE  LET v == Search(stored, tp)
                       IN  IF v = None THEN Refused(tp) \/ Unanswered(stored, tp)
                           ELSE IF OnlyWords(tp) THEN v = Empty
                           ELSE /\ Matches(stored, tp) \subseteq Members(v)
                                /\ Members(v) \subseteq MatchesSome(stored, tp)
                                /\ OnlyOr(tp) => Members(v) = Matches(stored, tp)
    BY DEF SearchExact
  <2>. DEFINE v == Search(stored, tp)
  <2>1. /\ v = None => Refused(tp) \/ Unanswered(stored, tp)
        /\ v # None => /\ OnlyWords(tp) => v = Empty
                       /\ ~OnlyWords(tp) => /\ Matches(stored, tp) \subseteq Members(v)
                                            /\ Members(v) \subseteq MatchesSome(stored, tp)
    <3>1. stored \subseteq Ids
      BY DEF IInv
    <3>. QED  BY <3>1, SearchIs
  <2>2. OnlyOr(tp) => Matches(stored, tp) = MatchesSome(stored, tp)
    BY OnlyOrExact
  <2>. HIDE DEF v
  <2>3. IF v = None THEN Refused(tp) \/ Unanswered(stored, tp)
        ELSE IF OnlyWords(tp) THEN v = Empty
        ELSE /\ Matches(stored, tp) \subseteq Members(v)
             /\ Members(v) \subseteq MatchesSome(stored, tp)
             /\ OnlyOr(tp) => Members(v) = Matches(stored, tp)
    BY <2>1, <2>2
  <2>. QED  BY <2>3 DEF v
<1>. QED  BY <1>1, Inductive, PTL

(* rdfstore_fetch_object over any statements and any number of levels: it     *)
(* finds statements of the description only, and all of them when no anonymous*)
(* node leads back to itself and there are fewer of them than levels.         *)
THEOREM FetchesExact == Spec => []FetchExact
<1>1. IInv => FetchExact
  <2>. SUFFICES ASSUME IInv, NEW n \in Resources, NEW c
                PROVE  LET found == Members(FetchObject(stored, n, c))
                       IN  /\ found \subseteq Description(stored, n, c)
                           /\ ~Cyclic(stored, n, c) /\ Cardinality(Blank) < MaxLevels =>
                                found = Description(stored, n, c)
    BY DEF FetchExact
  <2>1. stored \subseteq Ids
    BY DEF IInv
  <2>. QED  BY <2>1, FetchIs
<1>. QED  BY <1>1, Inductive, PTL
=============================================================================
