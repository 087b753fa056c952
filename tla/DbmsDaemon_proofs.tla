------------------------- MODULE DbmsDaemon_proofs -------------------------
(* That dbmsd hands every connection to one process and opens every database *)
(* in one process, and counts its connections: for any number of clients,    *)
(* databases, children and deaths.                                           *)
EXTENDS DbmsDaemon, FiniteSetTheorems, SequenceTheorems, TLAPS

-----------------------------------------------------------------------------
(* Lists. What Picked takes from a list: the index with n - 1 smaller ones   *)
(* exists once for each n, since the number of smaller indexes is a          *)
(* bijection.                                                                *)
LEMMA RankIsBijection ==
  ASSUME NEW I, I \subseteq Nat, IsFiniteSet(I)
  PROVE  /\ Cardinality(I) \in Nat
         /\ \A i \in I : Cardinality({j \in I : j < i}) + 1 \in 1 .. Cardinality(I)
         /\ \A i, k \in I : Cardinality({j \in I : j < i}) = Cardinality({j \in I : j < k}) => i = k
         /\ \A n \in 1 .. Cardinality(I) : \E i \in I : Cardinality({j \in I : j < i}) = n - 1
<1> DEFINE Below(i) == {j \in I : j < i}
           rank == [i \in I |-> Cardinality(Below(i)) + 1]
<1>1. Cardinality(I) \in Nat
  BY FS_CardinalityType
<1>2. ASSUME NEW i \in I
      PROVE  IsFiniteSet(Below(i)) /\ Cardinality(Below(i)) \in Nat /\ Cardinality(Below(i)) < Cardinality(I)
  <2>1. Below(i) \in SUBSET I /\ i \notin Below(i)
    OBVIOUS
  <2>2. IsFiniteSet(Below(i)) /\ Cardinality(Below(i)) <= Cardinality(I)
    BY <2>1, FS_Subset
  <2>3. Cardinality(I) # Cardinality(Below(i))
    BY <2>1, FS_Subset
  <2>4. Cardinality(Below(i)) \in Nat
    BY <2>2, FS_CardinalityType
  <2>. QED  BY <1>1, <2>2, <2>3, <2>4
<1>3. ASSUME NEW i \in I, NEW k \in I, i < k
      PROVE  Cardinality(Below(i)) < Cardinality(Below(k))
  <2>0. ~(i < i) /\ \A j \in I : j < i => j < k
    BY <1>3
  <2>1. Below(i) \in SUBSET Below(k) /\ i \in Below(k) /\ i \notin Below(i)
    BY <1>3, <2>0
  <2>2. Cardinality(Below(i)) <= Cardinality(Below(k)) /\ Cardinality(Below(k)) # Cardinality(Below(i))
    BY <1>2, <2>1, FS_Subset
  <2>. QED  BY <1>2, <2>2
<1>4. \A i, k \in I : Cardinality(Below(i)) = Cardinality(Below(k)) => i = k
  <2>. SUFFICES ASSUME NEW i \in I, NEW k \in I, Cardinality(Below(i)) = Cardinality(Below(k)), i # k
                PROVE  FALSE
    OBVIOUS
  <2>1. i < k \/ k < i
    OBVIOUS
  <2>. QED  BY <1>2, <1>3, <2>1
<1>5. rank \in Injection(I, 1 .. Cardinality(I))
  <2>. HIDE DEF Below
  <2>1. rank \in [I -> 1 .. Cardinality(I)]
    BY <1>1, <1>2
  <2>2. \A i, k \in I : rank[i] = rank[k] => i = k
    BY <1>2, <1>4
  <2>. QED  BY <2>1, <2>2 DEF Injection, IsInjective
<1>6. rank \in Surjection(I, 1 .. Cardinality(I))
  <2>1. IsFiniteSet(1 .. Cardinality(I)) /\ Cardinality(1 .. Cardinality(I)) = Cardinality(I)
    BY <1>1, FS_Interval
  <2>. QED  BY <1>5, <2>1, FS_Injection
<1>7. \A n \in 1 .. Cardinality(I) : \E i \in I : Cardinality(Below(i)) = n - 1
  <2>. HIDE DEF Below
  <2>. SUFFICES ASSUME NEW n \in 1 .. Cardinality(I) PROVE \E i \in I : Cardinality(Below(i)) = n - 1
    OBVIOUS
  <2>1. PICK i \in I : rank[i] = n
    BY <1>6 DEF Surjection
  <2>. QED  BY <1>2, <2>1
<1>8. \A i \in I : Cardinality(Below(i)) + 1 \in 1 .. Cardinality(I)
  <2>. HIDE DEF Below
  <2>. QED  BY <1>1, <1>2
<1>. QED  BY <1>1, <1>4, <1>7, <1>8

LEMMA PickedMembers ==
  ASSUME NEW S, NEW s \in Seq(S), NEW I \in SUBSET DOMAIN s
  PROVE  /\ Picked(s, I) \in Seq(S)
         /\ Range(Picked(s, I)) = {s[i] : i \in I}
         /\ IsInjective(s) => IsInjective(Picked(s, I))
<1> DEFINE Rank(i) == Cardinality({j \in I : j < i})
           at(n) == CHOOSE i \in I : Rank(i) = n - 1
           t == Picked(s, I)
<1>1. Len(s) \in Nat /\ DOMAIN s = 1 .. Len(s) /\ \A i \in DOMAIN s : s[i] \in S
  BY LenProperties
<1>2. I \subseteq Nat /\ IsFiniteSet(I)
  <2>1. IsFiniteSet(1 .. Len(s))
    BY <1>1, FS_Interval
  <2>. QED  BY <1>1, <2>1, FS_Subset
<1>3. /\ Cardinality(I) \in Nat
      /\ \A i \in I : Rank(i) + 1 \in 1 .. Cardinality(I)
      /\ \A i, k \in I : Rank(i) = Rank(k) => i = k
      /\ \A n \in 1 .. Cardinality(I) : \E i \in I : Rank(i) = n - 1
  BY <1>2, RankIsBijection
<1>4. ASSUME NEW n \in 1 .. Cardinality(I)
      PROVE  at(n) \in I /\ Rank(at(n)) = n - 1
  <2>. HIDE DEF Rank
  <2>. QED  BY <1>3
<1>5. t = [n \in 1 .. Cardinality(I) |-> s[at(n)]]
  BY DEF Picked
<1>6. \A i \in I : \E n \in 1 .. Cardinality(I) : at(n) = i
  <2>. SUFFICES ASSUME NEW i \in I PROVE \E n \in 1 .. Cardinality(I) : at(n) = i
    OBVIOUS
  <2> DEFINE n == Rank(i) + 1
  <2>1. n \in 1 .. Cardinality(I) /\ Rank(i) \in Int
    BY <1>3, FS_CardinalityType, FS_Subset, <1>2
  <2>2. at(n) \in I /\ Rank(at(n)) = n - 1
    BY <1>4, <2>1
  <2>3. n - 1 = Rank(i)
    <3>. HIDE DEF Rank
    <3>. QED  BY <2>1
  <2>. HIDE DEF n, at, Rank
  <2>. QED  BY <1>3, <2>1, <2>2, <2>3
<1>7. \A m, n \in 1 .. Cardinality(I) : at(m) = at(n) => m = n
  <2>. SUFFICES ASSUME NEW m \in 1 .. Cardinality(I), NEW n \in 1 .. Cardinality(I), at(m) = at(n)
                PROVE  m = n
    OBVIOUS
  <2>1. m - 1 = n - 1
    BY <1>4
  <2>. QED  BY <1>3, <2>1
<1>. HIDE DEF at, t
<1>8. t \in Seq(S)
  <2>1. \A n \in 1 .. Cardinality(I) : s[at(n)] \in S
    BY <1>1, <1>4
  <2>. QED  BY <1>3, <1>5, <2>1, IsASeq
<1>9. DOMAIN t = 1 .. Cardinality(I)
  BY <1>5
<1>10. Range(t) = {s[i] : i \in I}
  <2>1. \A n \in DOMAIN t : t[n] = s[at(n)] /\ at(n) \in I
    BY <1>4, <1>5, <1>9
  <2>2. \A i \in I : \E n \in DOMAIN t : t[n] = s[i]
    BY <1>5, <1>6, <1>9
  <2>. QED  BY <2>1, <2>2 DEF Range
<1>11. ASSUME IsInjective(s) PROVE IsInjective(t)
  <2>. SUFFICES ASSUME NEW m \in DOMAIN t, NEW n \in DOMAIN t, t[m] = t[n]
                PROVE  m = n
    BY DEF IsInjective
  <2>1. s[at(m)] = s[at(n)] /\ at(m) \in DOMAIN s /\ at(n) \in DOMAIN s
    BY <1>4, <1>5, <1>9
  <2>2. at(m) = at(n)
    BY <1>11, <2>1 DEF IsInjective
  <2>. QED  BY <1>7, <1>9, <2>2
<1>. QED  BY <1>8, <1>10, <1>11 DEF t

LEMMA WithoutMembers ==
  ASSUME NEW S, NEW s \in Seq(S), NEW R
  PROVE  /\ Without(s, R) \in Seq(S)
         /\ Range(Without(s, R)) = Range(s) \ R
         /\ IsInjective(s) => IsInjective(Without(s, R))
<1> DEFINE I == {i \in DOMAIN s : s[i] \notin R}
<1>1. I \in SUBSET DOMAIN s
  OBVIOUS
<1>2. {s[i] : i \in I} = Range(s) \ R
  BY DEF Range
<1>. HIDE DEF I
<1>3. Without(s, R) = Picked(s, I)
  BY DEF Without, I
<1>. QED  BY <1>1, <1>2, <1>3, PickedMembers

LEMMA OnlyMembers ==
  ASSUME NEW S, NEW s \in Seq(S), NEW R
  PROVE  /\ Only(s, R) \in Seq(S)
         /\ Range(Only(s, R)) = Range(s) \cap R
<1> DEFINE I == {i \in DOMAIN s : s[i] \in R}
<1>1. I \in SUBSET DOMAIN s
  OBVIOUS
<1>2. {s[i] : i \in I} = Range(s) \cap R
  BY DEF Range
<1>. HIDE DEF I
<1>3. Only(s, R) = Picked(s, I)
  BY DEF Only, I
<1>. QED  BY <1>1, <1>2, <1>3, PickedMembers

LEMMA EmptyMembers ==
  /\ \A S : <<>> \in Seq(S)
  /\ Range(<<>>) = {} /\ IsInjective(<<>>)
BY EmptySeq DEF Range, IsInjective

LEMMA SingleMember ==
  ASSUME NEW S, NEW e \in S
  PROVE  <<e>> \in Seq(S) /\ Range(<<e>>) = {e} /\ IsInjective(<<e>>)
BY DEF Range, IsInjective

LEMMA RangeInside ==
  ASSUME NEW S, NEW s \in Seq(S)
  PROVE  Range(s) \subseteq S /\ IsFiniteSet(Range(s))
<1>1. Len(s) \in Nat /\ DOMAIN s = 1 .. Len(s) /\ s \in [1 .. Len(s) -> S]
  BY LenProperties
<1>2. IsFiniteSet(DOMAIN s)
  BY <1>1, FS_Interval
<1>3. s \in Surjection(DOMAIN s, Range(s))
  BY <1>1 DEF Surjection, Range
<1>4. IsFiniteSet(Range(s))
  BY <1>2, <1>3, FS_Surjection
<1>. QED  BY <1>1, <1>4 DEF Range

LEMMA AppendMembers ==
  ASSUME NEW S, NEW s \in Seq(S), NEW e \in S
  PROVE  /\ Append(s, e) \in Seq(S)
         /\ Range(Append(s, e)) = Range(s) \cup {e}
         /\ IsInjective(s) /\ e \notin Range(s) => IsInjective(Append(s, e))
<1> DEFINE t == Append(s, e)
<1>1. Len(s) \in Nat /\ DOMAIN s = 1 .. Len(s)
  BY LenProperties
<1>2. /\ t \in Seq(S) /\ Len(t) = Len(s) + 1
      /\ \A i \in 1 .. Len(s) : t[i] = s[i]
      /\ t[Len(s) + 1] = e
  BY AppendProperties
<1>3. DOMAIN t = 1 .. Len(s) + 1
  BY <1>2, LenProperties
<1>. HIDE DEF t
<1>4. \A i \in DOMAIN t : i \in 1 .. Len(s) \/ i = Len(s) + 1
  BY <1>1, <1>3
<1>5. Range(t) = Range(s) \cup {e}
  <2>1. \A i \in DOMAIN s : i \in DOMAIN t /\ t[i] = s[i]
    BY <1>1, <1>2, <1>3
  <2>2. Len(s) + 1 \in DOMAIN t
    BY <1>1, <1>3
  <2>. QED  BY <1>1, <1>2, <1>4, <2>1, <2>2 DEF Range
<1>6. ASSUME IsInjective(s), e \notin Range(s) PROVE IsInjective(t)
  <2>1. \A i \in 1 .. Len(s) : t[i] # e
    BY <1>1, <1>2, <1>6 DEF Range
  <2>. QED  BY <1>1, <1>2, <1>4, <1>6, <2>1 DEF IsInjective
<1>. QED  BY <1>2, <1>5, <1>6 DEF t

LEMMA PrependMembers ==
  ASSUME NEW S, NEW s \in Seq(S), NEW e \in S
  PROVE  /\ <<e>> \o s \in Seq(S)
         /\ Range(<<e>> \o s) = Range(s) \cup {e}
         /\ IsInjective(s) /\ e \notin Range(s) => IsInjective(<<e>> \o s)
<1> DEFINE t == <<e>> \o s
<1>1. Len(s) \in Nat /\ DOMAIN s = 1 .. Len(s)
  BY LenProperties
<1>2. <<e>> \in Seq(S) /\ Len(<<e>>) = 1 /\ <<e>>[1] = e
  OBVIOUS
<1>3. /\ t \in Seq(S) /\ Len(t) = Len(s) + 1
      /\ \A i \in 1 .. Len(s) + 1 : t[i] = IF i <= 1 THEN <<e>>[i] ELSE s[i - 1]
  BY <1>1, <1>2, ConcatProperties
<1>4. DOMAIN t = 1 .. Len(s) + 1
  BY <1>3, LenProperties
<1>. HIDE DEF t
<1>5. t[1] = e /\ \A i \in 1 .. Len(s) : t[i + 1] = s[i]
  BY <1>1, <1>2, <1>3
<1>6. \A i \in DOMAIN t : i = 1 \/ (i - 1 \in 1 .. Len(s) /\ (i - 1) + 1 = i)
  BY <1>1, <1>4
<1>7. Range(t) = Range(s) \cup {e}
  <2>1. \A i \in DOMAIN s : i + 1 \in DOMAIN t /\ t[i + 1] = s[i]
    BY <1>1, <1>4, <1>5
  <2>2. 1 \in DOMAIN t
    BY <1>1, <1>4
  <2>3. \A i \in DOMAIN t : t[i] = e \/ (i - 1 \in DOMAIN s /\ t[i] = s[i - 1])
    BY <1>1, <1>5, <1>6
  <2>. QED  BY <1>5, <2>1, <2>2, <2>3 DEF Range
<1>8. ASSUME IsInjective(s), e \notin Range(s) PROVE IsInjective(t)
  <2>1. \A i \in DOMAIN t : i # 1 => i - 1 \in DOMAIN s /\ t[i] = s[i - 1] /\ t[i] # e
    BY <1>1, <1>5, <1>6, <1>8 DEF Range
  <2>. SUFFICES ASSUME NEW i \in DOMAIN t, NEW j \in DOMAIN t, t[i] = t[j] PROVE i = j
    BY DEF IsInjective
  <2>2. CASE i = 1 \/ j = 1
    BY <1>5, <2>1, <2>2
  <2>3. CASE i # 1 /\ j # 1
    <3>1. i - 1 = j - 1
      BY <1>8, <2>1, <2>3 DEF IsInjective
    <3>. QED  BY <1>1, <1>4, <3>1
  <2>. QED  BY <2>2, <2>3
<1>. QED  BY <1>3, <1>7, <1>8 DEF t

LEMMA TailMembers ==
  ASSUME NEW S, NEW s \in Seq(S), s # <<>>
  PROVE  /\ Head(s) \in Range(s) /\ Head(s) \in S
         /\ Tail(s) \in Seq(S) /\ Range(Tail(s)) \subseteq Range(s)
         /\ IsInjective(s) => /\ IsInjective(Tail(s))
                              /\ Range(Tail(s)) = Range(s) \ {Head(s)}
<1> DEFINE t == Tail(s)
<1>1. Len(s) \in Nat /\ DOMAIN s = 1 .. Len(s) /\ Len(s) # 0
  BY LenProperties, EmptySeq
<1>2. Head(s) = s[1] /\ 1 \in DOMAIN s
  BY <1>1
<1>3. /\ t \in Seq(S) /\ Len(t) = Len(s) - 1
      /\ \A i \in 1 .. Len(t) : t[i] = s[i + 1]
  BY HeadTailProperties
<1>4. DOMAIN t = 1 .. Len(s) - 1
  BY <1>3, LenProperties
<1>. HIDE DEF t
<1>5. \A i \in DOMAIN t : i + 1 \in DOMAIN s /\ t[i] = s[i + 1] /\ i + 1 # 1
  BY <1>1, <1>3, <1>4
<1>6. \A i \in DOMAIN s : i # 1 => i - 1 \in DOMAIN t /\ t[i - 1] = s[i]
  <2>1. \A i \in DOMAIN s : i # 1 => i - 1 \in DOMAIN t /\ (i - 1) + 1 = i
    BY <1>1, <1>4
  <2>. QED  BY <1>5, <2>1
<1>7. Range(t) \subseteq Range(s)
  BY <1>5 DEF Range
<1>8. ASSUME IsInjective(s) PROVE IsInjective(t) /\ Range(t) = Range(s) \ {Head(s)}
  <2>1. IsInjective(t)
    <3>. SUFFICES ASSUME NEW i \in DOMAIN t, NEW j \in DOMAIN t, t[i] = t[j] PROVE i = j
      BY DEF IsInjective
    <3>1. i + 1 = j + 1
      BY <1>5, <1>8 DEF IsInjective
    <3>. QED  BY <1>1, <1>4, <3>1
  <2>2. \A i \in DOMAIN t : t[i] # s[1]
    BY <1>2, <1>5, <1>8 DEF IsInjective
  <2>. QED  BY <1>2, <1>5, <1>6, <2>1, <2>2 DEF Range
<1>. QED  BY <1>2, <1>3, <1>7, <1>8, HeadTailProperties DEF t, Range

(* The child that get_dbp takes is one of the children.                      *)
LEMMA LeastLoadedIsChild ==
  ASSUME children \in Seq(Recs), rec \in [Recs -> Records], children # <<>>
  PROVE  LeastLoaded \in Range(children)
<1> DEFINE Loads == {Load(i) : i \in Remembered}
           n == Len(children)
<1>1. n \in Nat \ {0} /\ DOMAIN children = 1 .. n /\ \A i \in 1 .. n : children[i] \in Recs
  BY LenProperties, EmptySeq
<1>2. \A i \in 1 .. n : Load(i) \in Nat
  <2>1. \A k \in Recs : rec[k].dbs \in Nat
    BY DEF Records
  <2>. QED  BY <1>1, <2>1 DEF Load
<1>3. Remembered \subseteq 1 .. n /\ n \in Remembered
  <2>. HIDE DEF n
  <2>1. \A j \in n .. n : j = n
    BY <1>1
  <2>. QED  BY <1>1, <2>1 DEF Remembered, n
<1>. HIDE DEF n
<1>4. PICK l \in Loads : \A m \in Loads : ~(m < l)
  <2>1. Loads \subseteq Nat /\ Loads # {}
    BY <1>2, <1>3
  <2>2. IsWellFoundedOn(OpToRel(<, Nat), Nat)
    BY NatLessThanWellFounded
  <2>3. PICK l \in Loads : \A m \in Loads : ~(<<m, l>> \in OpToRel(<, Nat))
    BY <2>1, <2>2, WFMin
  <2>4. \A a, b \in Nat : a < b => <<a, b>> \in OpToRel(<, Nat)
    BY DEF OpToRel
  <2>. QED  BY <2>1, <2>3, <2>4
<1> DEFINE Firsts == {i \in Remembered : Load(i) = l}
<1>5. PICK i \in Firsts : \A j \in Firsts : ~(j < i)
  <2>1. Firsts \subseteq Nat /\ Firsts # {}
    BY <1>1, <1>3, <1>4
  <2>2. IsWellFoundedOn(OpToRel(<, Nat), Nat)
    BY NatLessThanWellFounded
  <2>3. PICK i \in Firsts : \A j \in Firsts : ~(<<j, i>> \in OpToRel(<, Nat))
    BY <2>1, <2>2, WFMin
  <2>4. \A a, b \in Nat : a < b => <<a, b>> \in OpToRel(<, Nat)
    BY DEF OpToRel
  <2>. QED  BY <2>1, <2>3, <2>4
<1>6. /\ i \in Remembered
      /\ \A j \in Remembered : Load(i) < Load(j) \/ (Load(i) = Load(j) /\ i <= j)
  <2>1. \A j \in Remembered : Load(j) \in Nat /\ ~(Load(j) < l) /\ i \in Nat /\ j \in Nat
    BY <1>1, <1>2, <1>3, <1>4
  <2>2. \A j \in Remembered : Load(j) = l => ~(j < i)
    BY <1>5
  <2>. HIDE DEF Load
  <2>. QED  BY <1>4, <1>5, <2>1, <2>2
<1>7. \E j \in Remembered : LeastLoaded = children[j]
  <2>. HIDE DEF Load, Remembered
  <2>. QED  BY <1>6 DEF LeastLoaded
<1>. QED  BY <1>1, <1>3, <1>7 DEF Range

-----------------------------------------------------------------------------
(* The inductive invariant, in layers; each is proved from those before it.  *)

(* Types, without what takes the other layers: that a list is injective.     *)
Typed ==
  /\ link \in [Conns -> Links] /\ queue \in Seq(Conns)
  /\ phase \in [Procs -> Phases]
  /\ list \in [Procs -> Seq(Entries)]
  /\ todo \in [Procs -> Seq(Entries)] /\ closing \in [Procs -> SUBSET Entries]
  /\ channel \in [Procs -> Seq(Conns)]
  /\ dbp \in [Conns -> Slots \cup {0}] /\ slot \in [Procs -> [Slots -> Dbases]]
  /\ handler \in [Databases -> Recs \cup {0}] /\ rec \in [Recs -> Records]
  /\ children \in Seq(Recs)
  /\ stray \in Procs /\ unhandled \subseteq Databases
  /\ faults \in 0 .. MaxFaults /\ cut \in BOOLEAN

(* A process that has not begun, or has ended, holds nothing.                *)
Live(p) == phase[p] \in {"select", "serve", "spin"} \cup HandingOff
MotherPhases == {"spin"} \cup HandingOff
Blank(p) == /\ list[p] = <<>> /\ todo[p] = <<>> /\ closing[p] = {} /\ channel[p] = <<>>
            /\ \A s \in Slots : slot[p][s] = NoDbase
(* The process at the other end of a record was forked, and is no more if    *)
(* the record is marked.                                                     *)
Forked(k) == rec[k].r \in Children /\ phase[rec[k].r] # "none"
Holding ==
  /\ phase[Mother] # "none"
  /\ \A p \in Children : phase[p] \notin MotherPhases
  /\ \A p \in Procs : Live(p) \/ Blank(p)
  /\ \A p \in Procs, e \in Procs : e \in Range(list[p]) => phase[e] # "none"
  /\ \A e \in Procs : e \in Range(todo[Mother]) \cup closing[Mother] => phase[e] = "dead"
RecordStands(k) == Forked(k) /\ (rec[k].close => phase[rec[k].r] = "dead")
HandlerStands(d) == handler[d] # 0 =>
  /\ Forked(handler[d])
  /\ handler[d] \in Range(children) \/ phase[rec[handler[d]].r] = "dead"
Recorded ==
  /\ IsInjective(children)
  /\ \A k \in Range(children) : RecordStands(k)
  /\ \A d \in Databases : HandlerStands(d)

(* What the mother hands off is still the connection that she found ready,   *)
(* and its database has a child.                                             *)
Handing == phase[Mother] \in HandingOff =>
  /\ todo[Mother] # <<>> /\ InHand \in Conns /\ InHand \in Range(list[Mother])
  /\ link[InHand].want \in Databases /\ handler[link[InHand].want] # 0

(* A connection is in one place, once, as long as it is open; what is sent   *)
(* is open as long as the mother has not forgotten it.                       *)
InQueue(x)      == x \in Range(queue)
InList(x, p)    == x \in Range(list[p]) /\ ~(p = Mother /\ x \in Sent)
InChannel(x, p) == x \in Range(channel[p])
OnePlace(x) ==
  /\ (link[x].want # None /\ ~link[x].shut)
       <=> (x \in Sent \/ InQueue(x) \/ \E p \in Procs : InList(x, p) \/ InChannel(x, p))
  /\ x \in Sent => ~InQueue(x)
  /\ \A p \in Procs :
       /\ InList(x, p) \/ InChannel(x, p) => ~InQueue(x)
       /\ ~(InList(x, p) /\ InChannel(x, p))
       /\ \A q \in Procs :
            (InList(x, p) \/ InChannel(x, p)) /\ (InList(x, q) \/ InChannel(x, q)) => p = q
NoneTwice == /\ IsInjective(queue)
             /\ \A p \in Procs : IsInjective(list[p]) /\ IsInjective(channel[p])
             /\ Range(channel[Mother]) = {}
Placed == NoneTwice /\ \A x \in Conns : OnePlace(x)

(* What a process has to do with a database, the mother knows.               *)
Concerned(p, d) == \/ \E s \in Slots : slot[p][s].name = d
                   \/ \E x \in Conns : InChannel(x, p) /\ link[x].want = d
Known ==
  /\ \A p \in Procs, d \in Databases :
       Concerned(p, d) => handler[d] # 0 /\ rec[handler[d]].r = p
  /\ \A p \in Procs, s, t \in Slots :
       slot[p][s].name # None /\ slot[p][s].name = slot[p][t].name => s = t

(* Only a connection that a child lists points to a database record; without *)
(* cuts it is the record of the database it wants, and the record counts it. *)
Pointing ==
  /\ \A x \in Conns : dbp[x] # 0 => \E p \in Children : InList(x, p)
  /\ \A p \in Procs, s \in Slots : slot[p][s].name = None => slot[p][s] = NoDbase
Exact(p) ==
  /\ \A x \in Conns : InList(x, p) /\ dbp[x] # 0 => slot[p][dbp[x]].name = link[x].want
  /\ \A s \in Slots : slot[p][s].name # None =>
       /\ slot[p][s].clients = Cardinality(Users(p, s)) /\ Users(p, s) # {}
       /\ ~slot[p][s].close
Counting == ~cut => \A p \in Children : Exact(p)

LEMMA ConstantTypes ==
  /\ Mother \in Procs /\ Children \subseteq Procs /\ Procs = Children \cup {Mother}
  /\ Mother \notin Children
  /\ \A x \in Conns : x \notin Procs
  /\ \A k \in Recs : k # 0
  /\ \A s \in Slots : s # 0
  /\ None \notin Databases
BY DaemonConstants DEF Mother, Children, Procs, Recs, Slots

(* The steps of one connection keep its type.                                *)
LEMMA FieldTypes ==
  ASSUME NEW r \in Links
  PROVE  /\ \A d \in Databases : [r EXCEPT !.want = d] \in Links
         /\ \A i \in Inputs : [r EXCEPT !.input = i] \in Links
         /\ \A b \in BOOLEAN : /\ [r EXCEPT !.waiting = b] \in Links
                               /\ [r EXCEPT !.selected = b] \in Links
                               /\ [r EXCEPT !.out = b] \in Links
                               /\ [r EXCEPT !.gone = b] \in Links
                               /\ [r EXCEPT !.shut = b] \in Links
BY DEF Links

LEMMA OpenTypes ==
  ASSUME NEW l \in [Conns -> Links], NEW x \in Conns, NEW d \in Databases
  PROVE  [l EXCEPT ![x].want = d, ![x].input = "init", ![x].waiting = TRUE] \in [Conns -> Links]
BY FieldTypes DEF Inputs

LEMMA AnswerTypes ==
  ASSUME NEW l \in [Conns -> Links], NEW x \in Conns
  PROVE  Answer(l, x) \in [Conns -> Links]
BY FieldTypes DEF Inputs, Answer

LEMMA InputTypes ==
  ASSUME NEW l \in [Conns -> Links], NEW x \in Conns, NEW i \in Inputs
  PROVE  /\ [l EXCEPT ![x].input = i] \in [Conns -> Links]
         /\ [l EXCEPT ![x].input = i, ![x].waiting = TRUE] \in [Conns -> Links]
         /\ [l EXCEPT ![x].gone = TRUE, ![x].waiting = FALSE, ![x].input = i] \in [Conns -> Links]
<1>1. [l EXCEPT ![x].input = i] \in [Conns -> Links]
  BY DEF Links
<1>2. [l EXCEPT ![x].input = i, ![x].waiting = TRUE] \in [Conns -> Links]
  BY FieldTypes
<1>3. [l EXCEPT ![x].gone = TRUE, ![x].waiting = FALSE, ![x].input = i] \in [Conns -> Links]
  BY FieldTypes
<1>. QED  BY <1>1, <1>2, <1>3

LEMMA TakenTypes ==
  ASSUME NEW l \in [Conns -> Links], NEW x \in Conns
  PROVE  [l EXCEPT ![x].input = "none", ![x].waiting = FALSE, ![x].selected = TRUE] \in [Conns -> Links]
BY FieldTypes DEF Inputs

LEMMA FlagTypes ==
  ASSUME NEW l \in [Conns -> Links], NEW x \in Conns
  PROVE  /\ [l EXCEPT ![x].shut = TRUE, ![x].waiting = FALSE] \in [Conns -> Links]
         /\ [l EXCEPT ![x].selected = TRUE] \in [Conns -> Links]
         /\ [l EXCEPT ![x].input = "none", ![x].out = TRUE] \in [Conns -> Links]
         /\ [l EXCEPT ![x].out = FALSE, ![x].waiting = FALSE] \in [Conns -> Links]
<1>1. [l EXCEPT ![x].shut = TRUE, ![x].waiting = FALSE] \in [Conns -> Links]
  BY FieldTypes
<1>2. [l EXCEPT ![x].selected = TRUE] \in [Conns -> Links]
  BY DEF Links
<1>3. [l EXCEPT ![x].input = "none", ![x].out = TRUE] \in [Conns -> Links]
  BY FieldTypes DEF Inputs
<1>4. [l EXCEPT ![x].out = FALSE, ![x].waiting = FALSE] \in [Conns -> Links]
  BY FieldTypes
<1>. QED  BY <1>1, <1>2, <1>3, <1>4

LEMMA GoneTypes ==
  ASSUME NEW l \in [Conns -> Links], NEW S
  PROVE  Gone(l, S) \in [Conns -> Links]
BY DEF Gone, Links, Inputs

LEMMA ReleasedTypes ==
  ASSUME NEW l \in [Slots -> Dbases], NEW S, IsFiniteSet(S)
  PROVE  Released(l, S) \in [Slots -> Dbases]
<1>1. ASSUME NEW s \in Slots
      PROVE  Cardinality({x \in S : dbp[x] = s}) \in Nat
  <2>1. {x \in S : dbp[x] = s} \in SUBSET S
    OBVIOUS
  <2>. QED  BY <2>1, FS_Subset, FS_CardinalityType
<1> DEFINE n(s) == l[s].clients - Cardinality({x \in S : dbp[x] = s})
           r(s) == IF l[s].name = None \/ n(s) = l[s].clients THEN l[s]
                   ELSE [l[s] EXCEPT !.clients = n(s), !.close = @ \/ n(s) <= 0]
<1>2. ASSUME NEW s \in Slots
      PROVE  r(s) \in Dbases
  <2>1. l[s] \in Dbases /\ n(s) \in Int
    BY <1>1 DEF Dbases
  <2>2. (l[s].close \/ n(s) <= 0) \in BOOLEAN
    OBVIOUS
  <2>. HIDE DEF n
  <2>3. \A b \in BOOLEAN : [l[s] EXCEPT !.clients = n(s), !.close = b] \in Dbases
    BY <2>1 DEF Dbases
  <2>. QED  BY <2>1, <2>2, <2>3
<1>3. Released(l, S) = [s \in Slots |-> r(s)]
  BY DEF Released
<1>. QED  BY <1>2, <1>3

LEMMA AcceptTypes ==
  ASSUME Typed, Accept
  PROVE  /\ link' \in [Conns -> Links] /\ queue' \in Seq(Conns)
         /\ list' \in [Procs -> Seq(Entries)]
<1>1. CASE queue = <<>>
  BY <1>1 DEF Typed, Accept
<1>2. CASE queue # <<>>
  <2> DEFINE x == Head(queue)
  <2>1. x \in Conns /\ Tail(queue) \in Seq(Conns)
    BY <1>2, TailMembers DEF Typed
  <2>2. queue' = Tail(queue)
    BY <1>2 DEF Accept
  <2>3. <<x>> \o list[Mother] \in Seq(Entries)
    BY <2>1, ConstantTypes, PrependMembers DEF Typed, Entries
  <2>4. link' = [link EXCEPT ![x].shut = TRUE, ![x].waiting = FALSE] \/ link' = link
    BY <1>2 DEF Accept
  <2>5. list' = list \/ list' = [list EXCEPT ![Mother] = <<x>> \o @]
    BY <1>2 DEF Accept
  <2>. HIDE DEF x
  <2>6. link' \in [Conns -> Links]
    <3>1. CASE link' = link
      BY <3>1 DEF Typed
    <3>2. CASE link' # link
      <4>1. \A y \in Conns : [link EXCEPT ![y].shut = TRUE, ![y].waiting = FALSE] \in [Conns -> Links]
        BY FieldTypes DEF Typed
      <4>. QED  BY <2>1, <2>4, <3>2, <4>1
    <3>. QED  BY <3>1, <3>2
  <2>. QED  BY <2>1, <2>2, <2>3, <2>5, <2>6 DEF Typed
<1>. QED  BY <1>1, <1>2

LEMMA EndsTypes ==
  ASSUME Typed, NEW p \in Procs, Ends(p)
  PROVE  /\ phase' \in [Procs -> Phases] /\ link' \in [Conns -> Links]
         /\ list' \in [Procs -> Seq(Entries)] /\ todo' \in [Procs -> Seq(Entries)]
         /\ closing' \in [Procs -> SUBSET Entries] /\ channel' \in [Procs -> Seq(Conns)]
         /\ slot' \in [Procs -> [Slots -> Dbases]] /\ dbp' \in [Conns -> Slots \cup {0}]
<1>1. phase' \in [Procs -> Phases]
  BY DEF Ends, Typed, Phases
<1>2. link' \in [Conns -> Links]
  <2>1. Gone(link, OnlyIn(p, Held(p))) \in [Conns -> Links]
    BY GoneTypes DEF Typed
  <2>. QED  BY <2>1 DEF Ends
<1>3. /\ list' \in [Procs -> Seq(Entries)] /\ todo' \in [Procs -> Seq(Entries)]
      /\ channel' \in [Procs -> Seq(Conns)]
  BY EmptyMembers DEF Ends, Typed
<1>4. closing' \in [Procs -> SUBSET Entries]
  BY DEF Ends, Typed
<1>5. slot' \in [Procs -> [Slots -> Dbases]]
  <2>1. [s \in Slots |-> NoDbase] \in [Slots -> Dbases]
    BY DEF NoDbase, Dbases
  <2>. QED  BY <2>1 DEF Ends, Typed
<1>6. dbp' \in [Conns -> Slots \cup {0}]
  BY DEF Ends, Typed, Set
<1>. QED  BY <1>1, <1>2, <1>3, <1>4, <1>5, <1>6

(* The end of the mother after a refused fork, wherever it comes.            *)
Collapse == Ends(Mother) /\ queue' = <<>> /\ UNCHANGED <<mothers, cut, faults>>

(* The steps, with their actors.                                             *)
Steps ==
  \/ \E x \in Conns, d \in Databases : Open(x, d)
  \/ \E x \in Conns, what \in {"request", "close", "drop"} : Ask(x, what)
  \/ \E x \in Conns : Leave(x)
  \/ \E p \in Procs : Select(p)
  \/ \E p \in Procs : TimeOut(p)
  \/ \E p \in Procs : Skip(p)
  \/ \E p \in Procs : MumLost(p)
  \/ \E p \in Procs, e \in Conns \cup Children : Eof(p, e)
  \/ \E p \in Procs, x \in Conns : Full(p, x)
  \/ \E p \in Procs, x \in Conns : Pass(p, x)
  \/ \E p \in Procs, x \in Conns : Serve(p, x)
  \/ \E p \in Procs, x \in Conns : Close(p, x)
  \/ \E p \in Procs, x \in Conns : Drop(p, x)
  \/ \E p \in Procs, x \in Conns : SendMore(p, x)
  \/ \E p \in Procs, x \in Conns : CutOff(p, x)
  \/ \E p \in Procs : CleanChild(p)
  \/ \E x \in Conns : Refuse(x)
  \/ \E x \in Conns : PassOn(x)
  \/ \E x \in Conns : Assign(x)
  \/ \E x \in Conns, p \in Children, k \in Recs : Fork(x, p, k)
  \/ \E x \in Conns, p \in Children : ForkRefused(x, p)
  \/ SendNotice
  \/ SendSocket
  \/ Forget
  \/ Collapse
  \/ CleanMother
  \/ \E p \in Procs, x \in Conns : OpenFails(p, x)
  \/ \E p \in Procs : Stop(p)
  \/ \E p \in Procs : Die(p)
  \/ \E k \in Recs : Childied(k)

LEMMA NextSteps ==
  ASSUME Next
  PROVE  Steps
<1>1. Mother \in Procs /\ Children \subseteq Procs
  BY ConstantTypes
<1>2. ASSUME NEW p \in Procs, Round(p)
      PROVE  Steps
  BY <1>2 DEF Round, Steps
<1>3. ASSUME MotherRound
      PROVE  Steps
  <2>1. CASE Round(Mother)
    BY <1>1, <1>2, <2>1
  <2>2. CASE \E x \in Conns : Refuse(x) \/ PassOn(x) \/ Assign(x)
    BY <2>2 DEF Steps
  <2>3. CASE \E x \in Conns, p \in Children, k \in Recs : Fork(x, p, k)
    BY <2>3 DEF Steps
  <2>4. CASE \E x \in Conns, p \in Children : ForkRefused(x, p)
    BY <2>4 DEF Steps
  <2>5. CASE (\E x \in Conns : Wreck(x)) \/ Abort
    BY <2>5 DEF Steps, Wreck, Abort, Collapse
  <2>6. CASE SendNotice \/ SendSocket \/ Forget \/ CleanMother
    BY <2>6 DEF Steps
  <2>. QED  BY <1>3, <2>1, <2>2, <2>3, <2>4, <2>5, <2>6 DEF MotherRound
<1>4. ASSUME NEW p \in Children, Round(p) \/ \E x \in Conns : OpenFails(p, x)
      PROVE  Steps
  <2>1. CASE Round(p)
    BY <1>1, <1>2, <2>1
  <2>2. CASE \E x \in Conns : OpenFails(p, x)
    BY <1>1, <2>2 DEF Steps
  <2>. QED  BY <1>4, <2>1, <2>2
<1>5. ASSUME NEW x \in Conns,
             \/ \E d \in Databases : Open(x, d)
             \/ \E what \in {"request", "close", "drop"} : Ask(x, what)
             \/ Leave(x)
      PROVE  Steps
  BY <1>5 DEF Steps
<1>6. ASSUME \/ \E p \in Procs : Stop(p) \/ Die(p)
             \/ \E k \in Recs : Childied(k)
      PROVE  Steps
  BY <1>6 DEF Steps
<1>. QED  BY <1>3, <1>4, <1>5, <1>6 DEF Next

LEMMA WantIsDatabase ==
  ASSUME Typed, Placed, NEW x \in Conns, Asked(x)
  PROVE  /\ link[x].want \in Databases /\ InList(x, Mother)
         /\ x \in Range(list[Mother]) /\ todo[Mother] # <<>> /\ x = Head(todo[Mother])
         /\ phase[Mother] = "serve"
<1>1. /\ InList(x, Mother) /\ x \in Range(list[Mother]) /\ phase[Mother] = "serve"
      /\ todo[Mother] # <<>> /\ x = Head(todo[Mother])
  BY DEF Asked, Skipped, InList, Turn, Sent
<1>2. link[x].want # None
  BY <1>1, ConstantTypes DEF Placed, OnePlace
<1>. QED  BY <1>1, <1>2 DEF Typed, Links

(* The hand-off goes to a child.                                             *)
LEMMA HandedOver ==
  ASSUME Typed, Handing, Recorded, phase[Mother] \in HandingOff
  PROVE  /\ InHand \in Conns /\ Receiver \in Children /\ Receiver \in Procs
         /\ InHand \in Range(list[Mother])
         /\ phase[Receiver] # "none"
<1> DEFINE d == link[InHand].want
<1>1. InHand \in Conns /\ d \in Databases /\ handler[d] # 0 /\ InHand \in Range(list[Mother])
  BY DEF Handing
<1>2. Forked(handler[d])
  BY <1>1 DEF Recorded, HandlerStands
<1>3. Receiver = rec[handler[d]].r
  BY DEF Receiver
<1>. HIDE DEF d, Receiver, InHand
<1>. QED  BY <1>1, <1>2, <1>3, ConstantTypes DEF Forked

LEMMA TypedNext ==
  ASSUME Typed, Placed, Handing, Recorded, Next
  PROVE  Typed'
<1>1. ASSUME NEW x \in Conns, NEW d \in Databases, Open(x, d)
      PROVE  Typed'
  <2>1. link' \in [Conns -> Links]
    BY <1>1, OpenTypes DEF Typed, Open
  <2>2. queue' \in Seq(Conns)
    BY <1>1, AppendMembers DEF Typed, Open
  <2>. QED  BY <1>1, <2>1, <2>2 DEF Typed, Open, childs, mothers
<1>2. ASSUME NEW x \in Conns, NEW what \in {"request", "close", "drop"}, Ask(x, what)
      PROVE  Typed'
  <2>1. link' \in [Conns -> Links]
    BY <1>2, InputTypes DEF Typed, Ask, Inputs
  <2>. QED  BY <1>2, <2>1 DEF Typed, Ask, childs, mothers
<1>3. ASSUME NEW x \in Conns, Leave(x)
      PROVE  Typed'
  <2>1. PICK i \in {link[x].input, "none"} :
                link' = [link EXCEPT ![x].gone = TRUE, ![x].waiting = FALSE, ![x].input = i]
    BY <1>3 DEF Leave
  <2>2. i \in Inputs
    BY DEF Typed, Links, Inputs
  <2>3. link' \in [Conns -> Links]
    BY <2>1, <2>2, InputTypes DEF Typed
  <2>. QED  BY <1>3, <2>3 DEF Typed, Leave, childs, mothers
<1>4. ASSUME NEW p \in Procs, Select(p)
      PROVE  Typed'
  <2>1. phase' \in [Procs -> Phases]
    BY <1>4 DEF Typed, Select, Phases
  <2>2. todo' \in [Procs -> Seq(Entries)]
    BY <1>4, OnlyMembers DEF Typed, Select, Ready
  <2>3. link' \in [Conns -> Links] /\ queue' \in Seq(Conns) /\ list' \in [Procs -> Seq(Entries)]
    <3>1. CASE p = Mother
      BY <1>4, <3>1, AcceptTypes DEF Select
    <3>2. CASE p # Mother
      BY <1>4, <3>2 DEF Select, Typed
    <3>. QED  BY <3>1, <3>2
  <2>. QED  BY <1>4, <2>1, <2>2, <2>3 DEF Typed, Select, childs, mothers
<1>5. ASSUME NEW p \in Procs, TimeOut(p)
      PROVE  Typed'
  <2>1. phase' \in [Procs -> Phases]
    BY <1>5 DEF Typed, TimeOut, Phases
  <2>. QED  BY <1>5, <2>1 DEF Typed, TimeOut, childs, mothers
<1>6. ASSUME NEW p \in Procs, Skip(p)
      PROVE  Typed'
  <2>1. todo' \in [Procs -> Seq(Entries)]
    BY <1>6, TailMembers DEF Typed, Skip, Done
  <2>. QED  BY <1>6, <2>1 DEF Typed, Skip, childs, mothers
<1>7. ASSUME NEW p \in Procs, MumLost(p)
      PROVE  Typed'
  <2>2. queue' \in Seq(Conns)
    BY <1>7, EmptyMembers DEF Typed, MumLost
  <2>. QED  BY <1>7, <2>2, EndsTypes DEF Typed, MumLost, mothers
<1>8. ASSUME NEW p \in Procs, NEW e \in Conns \cup Children, Eof(p, e)
      PROVE  Typed'
  <2>1. closing' \in [Procs -> SUBSET Entries]
    <3>1. e \in Entries /\ closing[p] \in SUBSET Entries
      BY ConstantTypes DEF Typed, Entries
    <3>2. closing' = [closing EXCEPT ![p] = @ \cup ({e} \cap Range(list[p]))]
      BY <1>8 DEF Eof, Mark
    <3>. QED  BY <3>1, <3>2 DEF Typed
  <2>2. todo' \in [Procs -> Seq(Entries)]
    BY <1>8, TailMembers DEF Typed, Eof, Done, Turn
  <2>. QED  BY <1>8, <2>1, <2>2 DEF Typed, Eof, childs, mothers
<1>9. ASSUME NEW p \in Procs, NEW x \in Conns, Full(p, x)
      PROVE  Typed'
  <2>1. channel' \in [Procs -> Seq(Conns)]
    BY <1>9, TailMembers DEF Typed, Full, Passed
  <2>2. todo' \in [Procs -> Seq(Entries)]
    BY <1>9, TailMembers DEF Typed, Full, Passed, Turn, Done
  <2>3. link' \in [Conns -> Links]
    BY <1>9, GoneTypes DEF Typed, Full
  <2>. QED  BY <1>9, <2>1, <2>2, <2>3 DEF Typed, Full, childs, mothers, Passed
<1>10. ASSUME NEW p \in Procs, NEW x \in Conns, Pass(p, x)
      PROVE  Typed'
  <2>1. channel' \in [Procs -> Seq(Conns)]
    BY <1>10, TailMembers DEF Typed, Pass, TakeOn, Passed
  <2>2. todo' \in [Procs -> Seq(Entries)]
    BY <1>10, TailMembers DEF Typed, Pass, TakeOn, Passed, Turn, Done
  <2>3. list' \in [Procs -> Seq(Entries)]
    BY <1>10, PrependMembers DEF Typed, Pass, TakeOn, Entries
  <2>4. link' \in [Conns -> Links]
    BY <1>10, TakenTypes DEF Typed, Pass
  <2>5. slot' \in [Procs -> [Slots -> Dbases]]
    <3>1. PICK s \in Slots : slot' = [slot EXCEPT ![p][s] = Attached(p, s, link[x].want)]
      BY <1>10 DEF Pass, Matching
    <3>2. \A b \in Dbases : b.clients + 1 \in Int
      BY DEF Dbases
    <3>5. \A b \in Dbases : \A d \in Databases \cup {None} : \A n \in Int :
            [b EXCEPT !.name = d, !.clients = n] \in Dbases
      BY DEF Dbases
    <3>3. slot[p][s] \in Dbases /\ link[x].want \in Databases \cup {None}
      BY DEF Typed, Links
    <3>4. Attached(p, s, link[x].want) \in Dbases
      BY <3>2, <3>3, <3>5 DEF Attached
    <3>. QED  BY <3>1, <3>4 DEF Typed
  <2>6. dbp' \in [Conns -> Slots \cup {0}]
    BY <1>10 DEF Typed, Pass, Matching
  <2>. QED  BY <1>10, <2>1, <2>2, <2>3, <2>4, <2>5, <2>6 DEF Typed, Pass, childs, mothers, TakeOn, Passed
<1>11. ASSUME NEW p \in Procs, NEW x \in Conns, Serve(p, x)
      PROVE  Typed'
  <2>1. todo' \in [Procs -> Seq(Entries)]
    BY <1>11, TailMembers DEF Typed, Serve, Requested, Turn, Done
  <2>2. link' \in [Conns -> Links]
    <3>1. CASE link' = Answer(link, x)
      BY <3>1, AnswerTypes DEF Typed
    <3>2. CASE link' = [link EXCEPT ![x].input = "none", ![x].out = TRUE]
      BY <3>2, FlagTypes DEF Typed
    <3>. QED  BY <1>11, <3>1, <3>2 DEF Serve
  <2>. QED  BY <1>11, <2>1, <2>2 DEF Typed, Serve, childs, mothers, Requested
<1>12. ASSUME NEW p \in Procs, NEW x \in Conns, Close(p, x)
      PROVE  Typed'
  <2>1. todo' \in [Procs -> Seq(Entries)]
    BY <1>12, TailMembers DEF Typed, Close, Requested, Turn, Done
  <2>2. link' \in [Conns -> Links]
    BY <1>12, AnswerTypes DEF Typed, Close
  <2>3. closing' \in [Procs -> SUBSET Entries]
    BY <1>12 DEF Typed, Close, Mark, Entries
  <2>. QED  BY <1>12, <2>1, <2>2, <2>3 DEF Typed, Close, childs, mothers, Requested
<1>13. ASSUME NEW p \in Procs, NEW x \in Conns, Drop(p, x)
      PROVE  Typed'
  <2>1. todo' \in [Procs -> Seq(Entries)]
    BY <1>13, TailMembers DEF Typed, Drop, Requested, Turn, Done
  <2>2. link' \in [Conns -> Links]
    BY <1>13, AnswerTypes DEF Typed, Drop
  <2>3. closing' \in [Procs -> SUBSET Entries]
    BY <1>13 DEF Typed, Drop, Mark, Entries
  <2>4. slot' \in [Procs -> [Slots -> Dbases]]
    <3>1. NoDbase \in Dbases
      BY DEF NoDbase, Dbases
    <3>. QED  BY <1>13, <3>1 DEF Typed, Drop
  <2>5. cut' \in BOOLEAN
    BY <1>13 DEF Typed, Drop
  <2>. QED  BY <1>13, <2>1, <2>2, <2>3, <2>4, <2>5 DEF Typed, Drop, childs, mothers, Requested
<1>14. ASSUME NEW p \in Procs, NEW x \in Conns, SendMore(p, x)
      PROVE  Typed'
  <2>1. todo' \in [Procs -> Seq(Entries)]
    BY <1>14, TailMembers DEF Typed, SendMore, Turn, Done
  <2>2. link' \in [Conns -> Links]
    BY <1>14, FlagTypes DEF Typed, SendMore
  <2>. QED  BY <1>14, <2>1, <2>2 DEF Typed, SendMore, childs, mothers
<1>15. ASSUME NEW p \in Procs, NEW x \in Conns, CutOff(p, x)
      PROVE  Typed'
  <2>1. todo' \in [Procs -> Seq(Entries)]
    BY <1>15, TailMembers DEF Typed, CutOff, Turn, Done
  <2>2. link' \in [Conns -> Links]
    BY <1>15, GoneTypes DEF Typed, CutOff
  <2>3. slot' \in [Procs -> [Slots -> Dbases]]
    <3>1. Released(slot[p], {x}) \in [Slots -> Dbases]
      BY ReleasedTypes, FS_Singleton DEF Typed
    <3>. QED  BY <1>15, <3>1 DEF Typed, CutOff
  <2>4. dbp' \in [Conns -> Slots \cup {0}]
    BY <1>15 DEF Typed, CutOff
  <2>5. list' \in [Procs -> Seq(Entries)]
    BY <1>15, WithoutMembers DEF Typed, CutOff
  <2>6. cut' \in BOOLEAN
    BY <1>15 DEF Typed, CutOff
  <2>. QED  BY <1>15, <2>1, <2>2, <2>3, <2>4, <2>5, <2>6 DEF Typed, CutOff, childs, mothers
<1>16. ASSUME NEW p \in Procs, CleanChild(p)
      PROVE  Typed'
  <2>1. phase' \in [Procs -> Phases]
    BY <1>16 DEF Typed, CleanChild, Phases
  <2>2. list' \in [Procs -> Seq(Entries)]
    BY <1>16, WithoutMembers DEF Typed, CleanChild, Kept
  <2>3. link' \in [Conns -> Links]
    BY <1>16, GoneTypes DEF Typed, CleanChild
  <2>4. dbp' \in [Conns -> Slots \cup {0}]
    BY <1>16 DEF Typed, CleanChild, Set
  <2>5. slot' \in [Procs -> [Slots -> Dbases]]
    <3> DEFINE left == Released(slot[p], Zapped(p) \cap Conns)
    <3>1. IsFiniteSet(Zapped(p) \cap Conns)
      BY RangeInside, FS_Intersection DEF Zapped, Typed
    <3>2. left \in [Slots -> Dbases]
      <4>1. slot[p] \in [Slots -> Dbases]
        BY DEF Typed
      <4>. QED  BY <3>1, <4>1, ReleasedTypes
    <3>4. NoDbase \in Dbases
      BY DEF NoDbase, Dbases
    <3>. HIDE DEF left
    <3>3. Set(left, {s \in Slots : left[s].close}, NoDbase) \in [Slots -> Dbases]
      BY <3>2, <3>4 DEF Set
    <3>. QED  BY <1>16, <3>3 DEF Typed, CleanChild, left
  <2>6. closing' \in [Procs -> SUBSET Entries]
    BY <1>16 DEF Typed, CleanChild, Entries
  <2>. QED  BY <1>16, <2>1, <2>2, <2>3, <2>4, <2>5, <2>6 DEF Typed, CleanChild, childs, mothers
<1>17. ASSUME NEW x \in Conns, Refuse(x)
      PROVE  Typed'
  <2>1. link' \in [Conns -> Links]
    BY <1>17, AnswerTypes DEF Typed, Refuse
  <2>2. todo' \in [Procs -> Seq(Entries)]
    BY <1>17, TailMembers, ConstantTypes DEF Typed, Refuse, Unknown, Allowed, Asked, Turn, Done
  <2>3. faults' \in 0 .. MaxFaults
    BY <1>17, DaemonConstants DEF Typed, Refuse, OneFault
  <2>. QED  BY <1>17, <2>1, <2>2, <2>3 DEF Typed, Refuse, childs, mothers
<1>18. ASSUME NEW x \in Conns, PassOn(x)
      PROVE  Typed'
  <2>1. link' \in [Conns -> Links]
    BY <1>18, InputTypes DEF Typed, PassOn, Begin, Inputs
  <2>2. phase' \in [Procs -> Phases]
    BY <1>18 DEF Typed, PassOn, Phases, HandingOff
  <2>. QED  BY <1>18, <2>1, <2>2 DEF Typed, PassOn, childs, mothers
<1>19. ASSUME NEW x \in Conns, Assign(x)
      PROVE  Typed'
  <2> DEFINE k == LeastLoaded
  <2>1. children # <<>>
    BY <1>19, DaemonConstants, EmptySeq DEF Assign
  <2>2. k \in Recs
    BY <2>1, LeastLoadedIsChild, RangeInside DEF Typed
  <2>3. /\ rec' = [rec EXCEPT ![k].dbs = @ + 1] /\ handler' = [handler EXCEPT ![link[x].want] = k]
        /\ link' = [link EXCEPT ![x].input = "none"]
        /\ phase' = [phase EXCEPT ![Mother] = "handoff"]
    BY <1>19 DEF Assign, Begin
  <2>. HIDE DEF k
  <2>4. rec' \in [Recs -> Records]
    <3>1. \A m \in Records : [m EXCEPT !.dbs = @ + 1] \in Records
      BY DEF Records
    <3>. QED  BY <2>2, <2>3, <3>1 DEF Typed
  <2>5. handler' \in [Databases -> Recs \cup {0}]
    BY <2>2, <2>3 DEF Typed
  <2>6. link' \in [Conns -> Links]
    BY <2>3, InputTypes DEF Typed, Inputs
  <2>7. phase' \in [Procs -> Phases]
    BY <2>3 DEF Typed, Phases, HandingOff
  <2>. QED  BY <1>19, <2>4, <2>5, <2>6, <2>7 DEF Typed, Assign, childs
<1>20. ASSUME NEW x \in Conns, NEW p \in Children, NEW k \in Recs, Fork(x, p, k)
      PROVE  Typed'
  <2>1. rec' \in [Recs -> Records]
    BY <1>20, ConstantTypes DEF Typed, Fork, Records
  <2>2. children' \in Seq(Recs)
    BY <1>20, PrependMembers DEF Typed, Fork
  <2>3. handler' \in [Databases -> Recs \cup {0}]
    BY <1>20, ConstantTypes DEF Typed, Fork
  <2>4. phase' \in [Procs -> Phases]
    BY <1>20 DEF Typed, Fork, Phases, HandingOff
  <2>5. link' \in [Conns -> Links]
    BY <1>20, InputTypes DEF Typed, Fork, Begin, Inputs
  <2>6. list' \in [Procs -> Seq(Entries)]
    <3>1. p \in Entries /\ Mother \in Entries /\ list[Mother] \in Seq(Entries)
      BY ConstantTypes DEF Typed, Entries
    <3>2. <<p>> \o list[Mother] \in Seq(Entries) /\ <<Mother>> \in Seq(Entries)
      BY <3>1, PrependMembers, SingleMember
    <3>. QED  BY <1>20, <3>2 DEF Typed, Fork
  <2>. QED  BY <1>20, <2>1, <2>2, <2>3, <2>4, <2>5, <2>6 DEF Typed, Fork, childs, mothers
<1>26. ASSUME NEW x \in Conns, NEW p \in Children, ForkRefused(x, p)
      PROVE  Typed'
  <2>1. link' \in [Conns -> Links]
    BY <1>26, AnswerTypes DEF Typed, ForkRefused
  <2>2. todo' \in [Procs -> Seq(Entries)]
    BY <1>26, TailMembers, ConstantTypes DEF Typed, ForkRefused, Unknown, Allowed, Asked, Turn, Done
  <2>3. phase' \in [Procs -> Phases]
    BY <1>26 DEF Typed, ForkRefused, Phases
  <2>4. stray' \in Procs
    BY <1>26, ConstantTypes DEF ForkRefused
  <2>5. unhandled' \subseteq Databases
    <3>1. Asked(x)
      BY <1>26 DEF ForkRefused, Unknown, Allowed
    <3>2. link[x].want \in Databases
      BY <3>1, WantIsDatabase
    <3>. QED  BY <1>26, <3>2 DEF Typed, ForkRefused
  <2>. QED  BY <1>26, <2>1, <2>2, <2>3, <2>4, <2>5 DEF Typed, ForkRefused, childs
<1>27. ASSUME SendNotice
      PROVE  Typed'
  <2>1. phase' \in [Procs -> Phases]
    BY <1>27 DEF Typed, SendNotice, Phases, HandingOff
  <2>. QED  BY <1>27, <2>1 DEF Typed, SendNotice, childs, mothers
<1>28. ASSUME SendSocket
      PROVE  Typed'
  <2>1. phase' \in [Procs -> Phases]
    BY <1>28 DEF Typed, SendSocket, Phases, HandingOff
  <2>2. channel' \in [Procs -> Seq(Conns)]
    <3>1. InHand \in Conns /\ Receiver \in Procs
      BY <1>28, HandedOver DEF SendSocket, HandingOff
    <3>2. Append(channel[Receiver], InHand) \in Seq(Conns)
      BY <3>1, AppendMembers DEF Typed
    <3>. HIDE DEF Receiver, InHand
    <3>. QED  BY <1>28, <3>2 DEF Typed, SendSocket
  <2>. QED  BY <1>28, <2>1, <2>2 DEF Typed, SendSocket, childs, mothers
<1>29. ASSUME Forget
      PROVE  Typed'
  <2>1. phase' \in [Procs -> Phases]
    BY <1>29 DEF Typed, Forget, Phases
  <2>2. list' \in [Procs -> Seq(Entries)]
    BY <1>29, WithoutMembers, ConstantTypes DEF Typed, Forget
  <2>3. link' \in [Conns -> Links]
    BY <1>29, GoneTypes DEF Typed, Forget
  <2>4. todo' \in [Procs -> Seq(Entries)]
    <3>1. todo[Mother] # <<>>
      BY <1>29 DEF Handing, HandingOff, Forget
    <3>. QED  BY <1>29, <3>1, TailMembers, ConstantTypes DEF Typed, Forget, Done
  <2>. QED  BY <1>29, <2>1, <2>2, <2>3, <2>4 DEF Typed, Forget, childs, mothers
<1>30. ASSUME Collapse
      PROVE  Typed'
  <2>1. queue' \in Seq(Conns)
    BY <1>30, EmptyMembers DEF Collapse
  <2>. QED  BY <1>30, <2>1, EndsTypes, ConstantTypes DEF Typed, Collapse, mothers
<1>21. ASSUME CleanMother
      PROVE  Typed'
  <2>1. phase' \in [Procs -> Phases]
    BY <1>21 DEF Typed, CleanMother, Phases
  <2>2. list' \in [Procs -> Seq(Entries)]
    BY <1>21, WithoutMembers DEF Typed, CleanMother, Kept
  <2>3. link' \in [Conns -> Links]
    BY <1>21, GoneTypes DEF Typed, CleanMother
  <2>4. handler' \in [Databases -> Recs \cup {0}]
    BY <1>21 DEF Typed, CleanMother, Set
  <2>5. children' \in Seq(Recs)
    BY <1>21, WithoutMembers DEF Typed, CleanMother
  <2>6. rec' \in [Recs -> Records]
    BY <1>21 DEF Typed, CleanMother, Records
  <2>7. closing' \in [Procs -> SUBSET Entries]
    <3>1. Range(list'[Mother]) \subseteq Entries
      BY <2>2, ConstantTypes, RangeInside
    <3>. QED  BY <1>21, <3>1 DEF Typed, CleanMother
  <2>. QED  BY <1>21, <2>1, <2>2, <2>3, <2>4, <2>5, <2>6, <2>7 DEF Typed, CleanMother, childs, mothers
<1>22. ASSUME NEW p \in Procs, NEW x \in Conns, OpenFails(p, x)
      PROVE  Typed'
  <2>1. channel' \in [Procs -> Seq(Conns)]
    BY <1>22, TailMembers DEF Typed, OpenFails, TakeOn, Passed
  <2>2. todo' \in [Procs -> Seq(Entries)]
    BY <1>22, TailMembers DEF Typed, OpenFails, TakeOn, Passed, Turn, Done
  <2>3. list' \in [Procs -> Seq(Entries)]
    BY <1>22, PrependMembers DEF Typed, OpenFails, TakeOn, Entries
  <2>4. link' \in [Conns -> Links]
    BY <1>22, AnswerTypes DEF Typed, OpenFails
  <2>5. closing' \in [Procs -> SUBSET Entries]
    <3>1. closing' = closing \/ closing' = [closing EXCEPT ![p] = @ \cup {x}]
      BY <1>22 DEF OpenFails
    <3>2. closing[p] \cup {x} \in SUBSET Entries
      BY DEF Typed, Entries
    <3>. QED  BY <3>1, <3>2 DEF Typed
  <2>6. faults' \in 0 .. MaxFaults
    BY <1>22, DaemonConstants DEF Typed, OpenFails, OneFault
  <2>. QED  BY <1>22, <2>1, <2>2, <2>3, <2>4, <2>5, <2>6 DEF Typed, OpenFails, childs, mothers, TakeOn, Passed
<1>23. ASSUME NEW p \in Procs, Stop(p)
      PROVE  Typed'
  <2>1. faults' \in 0 .. MaxFaults
    BY <1>23, DaemonConstants DEF Typed, Stop, OneFault
  <2>2. queue' \in Seq(Conns)
    BY <1>23, EmptyMembers DEF Typed, Stop
  <2>. QED  BY <1>23, <2>1, <2>2, EndsTypes DEF Typed, Stop, mothers
<1>24. ASSUME NEW p \in Procs, Die(p)
      PROVE  Typed'
  <2>1. faults' \in 0 .. MaxFaults
    BY <1>24, DaemonConstants DEF Typed, Die, OneFault
  <2>2. queue' \in Seq(Conns)
    BY <1>24, EmptyMembers DEF Typed, Die
  <2>. QED  BY <1>24, <2>1, <2>2, EndsTypes DEF Typed, Die, mothers
<1>25. ASSUME NEW k \in Recs, Childied(k)
      PROVE  Typed'
  <2>1. rec' \in [Recs -> Records]
    BY <1>25 DEF Typed, Childied, Records
  <2>. QED  BY <1>25, <2>1 DEF Typed, Childied, childs, mothers
<1>. QED
  BY NextSteps, <1>1, <1>2, <1>3, <1>4, <1>5, <1>6, <1>7, <1>8, <1>9, <1>10, <1>11, <1>12, <1>13,
     <1>14, <1>15, <1>16, <1>17, <1>18, <1>19, <1>20, <1>21, <1>22, <1>23, <1>24, <1>25, <1>26,
     <1>27, <1>28, <1>29, <1>30 DEF Steps
-----------------------------------------------------------------------------
(* How the steps move connections between the queue, lists and channels.     *)
Same(x) == /\ x \in Sent' <=> x \in Sent
           /\ InQueue(x)' <=> InQueue(x)
           /\ \A p \in Procs : (InList(x, p)' <=> InList(x, p)) /\ (InChannel(x, p)' <=> InChannel(x, p))
Stays(x) == link'[x].want = link[x].want /\ link'[x].shut = link[x].shut /\ Same(x)

LEMMA SentStays ==
  ASSUME Typed,
         \/ phase'[Mother] = phase[Mother] /\ todo'[Mother] = todo[Mother]
         \/ phase[Mother] # "passed" /\ phase'[Mother] # "passed"
  PROVE  Sent' = Sent
BY DEF Sent, InHand

(* A step of one process in its round, or its end.                           *)
LEMMA ActorSent ==
  ASSUME Typed, NEW p \in Procs, phase[p] \in {"select", "serve"}, phase'[p] # "passed",
         \A q \in Procs : q # p => phase'[q] = phase[q] /\ todo'[q] = todo[q]
  PROVE  Sent' = Sent
BY SentStays, ConstantTypes

LEMMA TurnSent ==
  ASSUME Typed, NEW p \in Procs, phase[p] = "serve", phase' = phase, Done(p)
  PROVE  Sent' = Sent
BY ActorSent DEF Done, Typed

LEMMA EndsSent ==
  ASSUME Typed, NEW p \in Procs, Ends(p)
  PROVE  Sent' = IF p = Mother THEN {} ELSE Sent
<1>1. CASE p = Mother
  <2>1. phase'[Mother] = "dead"
    BY <1>1 DEF Ends, Typed
  <2>. QED  BY <1>1, <2>1 DEF Sent
<1>2. CASE p # Mother
  <2>1. phase'[Mother] = phase[Mother] /\ todo'[Mother] = todo[Mother]
    BY <1>2, ConstantTypes DEF Ends, Typed
  <2>. QED  BY <1>2, <2>1, SentStays
<1>. QED  BY <1>1, <1>2

LEMMA OthersStay ==
  ASSUME Placed, NoneTwice', \A x \in Conns : Stays(x) \/ OnePlace(x)'
  PROVE  Placed'
<1>1. ASSUME NEW x \in Conns, Stays(x)
      PROVE  OnePlace(x)'
  BY <1>1 DEF Placed, OnePlace, Stays, Same
<1>. QED  BY <1>1 DEF Placed

(* A connection that is closed, or in one of the three kinds of places.      *)
LEMMA Nowhere ==
  ASSUME NEW x \in Conns, link'[x].shut, x \notin Sent',
         ~InQueue(x)', \A p \in Procs : ~InList(x, p)' /\ ~InChannel(x, p)'
  PROVE  OnePlace(x)'
BY DEF OnePlace

LEMMA AcceptMoves ==
  ASSUME Typed, Placed, Accept, queue # <<>>
  PROVE  LET x == Head(queue)
         IN  /\ x \in Conns /\ InQueue(x)
             /\ Range(queue') = Range(queue) \ {x} /\ IsInjective(queue')
             /\ \/ link' = [link EXCEPT ![x].shut = TRUE, ![x].waiting = FALSE] /\ list' = list
                \/ /\ link' = link
                   /\ Range(list'[Mother]) = Range(list[Mother]) \cup {x}
                   /\ IsInjective(list'[Mother])
                   /\ \A q \in Procs : q # Mother => list'[q] = list[q]
<1> DEFINE x == Head(queue)
<1>1. x \in Conns /\ InQueue(x) /\ Range(Tail(queue)) = Range(queue) \ {x} /\ IsInjective(Tail(queue))
  BY TailMembers DEF Typed, Placed, NoneTwice, InQueue
<1>2. queue' = Tail(queue)
  BY DEF Accept
<1>3. \/ link' = [link EXCEPT ![x].shut = TRUE, ![x].waiting = FALSE] /\ list' = list
      \/ link' = link /\ list' = [list EXCEPT ![Mother] = <<x>> \o @]
  BY DEF Accept
<1>. HIDE DEF x
<1>4. x \notin Range(list[Mother])
  BY <1>1, ConstantTypes DEF Placed, OnePlace, InList
<1>5. /\ Range(<<x>> \o list[Mother]) = Range(list[Mother]) \cup {x}
      /\ IsInjective(<<x>> \o list[Mother])
  <2>1. list[Mother] \in Seq(Entries) /\ x \in Entries
    BY <1>1, ConstantTypes DEF Typed, Entries
  <2>. QED  BY <1>4, <2>1, ConstantTypes, PrependMembers DEF Placed, NoneTwice
<1>6. list' = [list EXCEPT ![Mother] = <<x>> \o @] =>
        /\ list'[Mother] = <<x>> \o list[Mother]
        /\ \A q \in Procs : q # Mother => list'[q] = list[q]
  BY ConstantTypes DEF Typed
<1>. QED  BY <1>1, <1>2, <1>3, <1>5, <1>6 DEF x

LEMMA ForkMoves ==
  ASSUME Typed, Placed, Holding, NEW x \in Conns, NEW p \in Children, NEW k \in Recs, Fork(x, p, k)
  PROVE  /\ Asked(x) /\ link' = [link EXCEPT ![x].input = "none"]
         /\ Range(list'[Mother]) = Range(list[Mother]) \cup {p} /\ IsInjective(list'[Mother])
         /\ Range(list'[p]) = {Mother} /\ IsInjective(list'[p])
         /\ \A q \in Procs : q # Mother /\ q # p => list'[q] = list[q]
         /\ Range(list[p]) = {} /\ Range(channel[p]) = {}
         /\ phase'[p] = "select" /\ phase'[Mother] = "handoff"
         /\ \A q \in Procs : q # Mother /\ q # p => phase'[q] = phase[q]
<1>1. Asked(x)
  BY DEF Fork, Unknown, Allowed
<1>2. p \in Procs /\ p # Mother /\ Mother \in Procs /\ phase[p] = "none"
  BY ConstantTypes DEF Fork
<1>3. /\ list' = [list EXCEPT ![Mother] = <<p>> \o @, ![p] = <<Mother>>]
      /\ link' = [link EXCEPT ![x].input = "none"]
      /\ phase' = [phase EXCEPT ![p] = "select", ![Mother] = "handoff"]
  BY DEF Fork, Begin
<1>4. Blank(p) /\ p \notin Range(list[Mother])
  BY <1>2 DEF Holding, Live, HandingOff
<1>5. list[Mother] \in Seq(Entries) /\ IsInjective(list[Mother]) /\ p \in Entries
  BY <1>2 DEF Typed, Placed, NoneTwice, Entries
<1>6. list'[Mother] = <<p>> \o list[Mother] /\ list'[p] = <<Mother>>
  BY <1>2, <1>3 DEF Typed
<1>7. \A q \in Procs : q # Mother /\ q # p => list'[q] = list[q]
  BY <1>2, <1>3 DEF Typed
<1>8. /\ Range(<<p>> \o list[Mother]) = Range(list[Mother]) \cup {p}
      /\ IsInjective(<<p>> \o list[Mother])
  BY <1>4, <1>5, PrependMembers
<1>9. /\ phase'[p] = "select" /\ phase'[Mother] = "handoff"
      /\ \A q \in Procs : q # Mother /\ q # p => phase'[q] = phase[q]
  BY <1>2, <1>3 DEF Typed
<1>10. Range(list[p]) = {} /\ Range(channel[p]) = {}
  BY <1>4, EmptyMembers DEF Blank
<1>11. Range(<<Mother>>) = {Mother} /\ IsInjective(<<Mother>>)
  BY SingleMember
<1>. QED  BY <1>1, <1>3, <1>6, <1>7, <1>8, <1>9, <1>10, <1>11

(* The second message of a hand-off.                                         *)
LEMMA SendSocketMoves ==
  ASSUME Typed, Placed, Handing, Recorded, SendSocket, ~NeverSent
  PROVE  /\ Receiver \in Children /\ phase[Receiver] \notin {"none", "dead"}
         /\ InHand \in Conns /\ InList(InHand, Mother)
         /\ Range(channel'[Receiver]) = Range(channel[Receiver]) \cup {InHand}
         /\ IsInjective(channel'[Receiver])
         /\ \A q \in Procs : q # Receiver => channel'[q] = channel[q]
         /\ phase'[Mother] = "passed" /\ Sent = {} /\ Sent' = {InHand}
<1> DEFINE x == InHand
           r == Receiver
<1>1. phase[Mother] = "sent" /\ channel' = [channel EXCEPT ![r] = Append(@, x)]
  BY DEF SendSocket
<1>2. /\ x \in Conns /\ r \in Children /\ r \in Procs /\ x \in Range(list[Mother])
      /\ phase[r] # "none"
  BY <1>1, HandedOver DEF HandingOff
<1>3. phase[r] # "dead"
  BY DEF NeverSent
<1>4. phase'[Mother] = "passed" /\ todo' = todo
  BY ConstantTypes DEF SendSocket, Typed
<1>5. Sent = {} /\ Sent' = {x}
  BY <1>1, <1>4 DEF Sent, InHand
<1>. HIDE DEF x, r
<1>6. InList(x, Mother)
  BY <1>2, <1>5 DEF InList
<1>7. /\ Range(Append(channel[r], x)) = Range(channel[r]) \cup {x}
      /\ IsInjective(Append(channel[r], x))
  <2>1. channel[r] \in Seq(Conns)
    BY <1>2 DEF Typed
  <2>2. x \notin Range(channel[r]) /\ IsInjective(channel[r])
    BY <1>2, <1>6, ConstantTypes DEF Placed, OnePlace, NoneTwice, InChannel
  <2>. QED  BY <1>2, <2>1, <2>2, AppendMembers
<1>8. channel'[r] = Append(channel[r], x) /\ \A q \in Procs : q # r => channel'[q] = channel[q]
  BY <1>1, <1>2 DEF Typed
<1>. QED  BY <1>2, <1>3, <1>4, <1>5, <1>6, <1>7, <1>8 DEF x, r

(* The mother forgets what she handed off.                                   *)
LEMMA ForgetMoves ==
  ASSUME Typed, Placed, Handing, Forget
  PROVE  /\ InHand \in Conns /\ Sent = {InHand} /\ Sent' = {} /\ phase'[Mother] = "serve"
         /\ InHand \in Range(list[Mother])
         /\ Range(list'[Mother]) = Range(list[Mother]) \ {InHand} /\ IsInjective(list'[Mother])
         /\ \A q \in Procs : q # Mother => list'[q] = list[q] /\ phase'[q] = phase[q]
         /\ todo[Mother] # <<>> /\ Done(Mother)
<1> DEFINE x == InHand
<1>1. /\ phase[Mother] = "passed" /\ list' = [list EXCEPT ![Mother] = Without(@, {x})]
      /\ phase' = [phase EXCEPT ![Mother] = "serve"] /\ Done(Mother)
  BY DEF Forget
<1>2. x \in Conns /\ x \in Range(list[Mother]) /\ todo[Mother] # <<>>
  BY <1>1 DEF Handing, HandingOff
<1>3. /\ phase'[Mother] = "serve" /\ \A q \in Procs : q # Mother => phase'[q] = phase[q]
  BY <1>1, ConstantTypes DEF Typed
<1>4. Sent = {x} /\ Sent' = {}
  BY <1>1, <1>3 DEF Sent
<1>. HIDE DEF x
<1>5. list[Mother] \in Seq(Entries) /\ IsInjective(list[Mother])
  BY ConstantTypes DEF Typed, Placed, NoneTwice
<1>6. /\ list'[Mother] = Without(list[Mother], {x})
      /\ \A q \in Procs : q # Mother => list'[q] = list[q]
  BY <1>1, ConstantTypes DEF Typed
<1>. QED  BY <1>1, <1>2, <1>3, <1>4, <1>5, <1>6, WithoutMembers DEF x

LEMMA PassedMoves ==
  ASSUME Typed, Placed, NEW p \in Procs, NEW x \in Conns, Passed(p, x)
  PROVE  /\ InChannel(x, p) /\ p # Mother /\ phase[p] = "serve"
         /\ Range(channel'[p]) = Range(channel[p]) \ {x} /\ IsInjective(channel'[p])
         /\ \A q \in Procs : q # p => channel'[q] = channel[q]
         /\ todo' = [todo EXCEPT ![p] = Tail(@)] /\ todo[p] # <<>>
<1>1. /\ channel[p] # <<>> /\ x = Head(channel[p]) /\ channel' = [channel EXCEPT ![p] = Tail(@)]
      /\ p # Mother /\ phase[p] = "serve" /\ todo[p] # <<>> /\ todo' = [todo EXCEPT ![p] = Tail(@)]
  BY DEF Passed, Turn, Done
<1>2. channel[p] \in Seq(Conns) /\ IsInjective(channel[p])
  BY DEF Typed, Placed, NoneTwice
<1>3. channel'[p] = Tail(channel[p]) /\ \A q \in Procs : q # p => channel'[q] = channel[q]
  BY <1>1 DEF Typed
<1>. QED  BY <1>1, <1>2, <1>3, TailMembers DEF InChannel

LEMMA TakeOnMoves ==
  ASSUME Typed, Placed, NEW p \in Procs, NEW x \in Conns, TakeOn(p, x)
  PROVE  /\ Passed(p, x)
         /\ Range(list'[p]) = Range(list[p]) \cup {x} /\ IsInjective(list'[p])
         /\ \A q \in Procs : q # p => list'[q] = list[q]
<1>1. Passed(p, x) /\ list' = [list EXCEPT ![p] = <<x>> \o @]
  BY DEF TakeOn
<1>2. x \notin Range(list[p]) /\ IsInjective(list[p]) /\ list[p] \in Seq(Entries) /\ x \in Entries
  BY <1>1, PassedMoves DEF Placed, OnePlace, NoneTwice, InList, Typed, Entries
<1>3. list'[p] = <<x>> \o list[p] /\ \A q \in Procs : q # p => list'[q] = list[q]
  BY <1>1 DEF Typed
<1>. QED  BY <1>1, <1>2, <1>3, PrependMembers

LEMMA CutOffMoves ==
  ASSUME Typed, Placed, NEW p \in Procs, NEW x \in Conns, CutOff(p, x)
  PROVE  /\ InList(x, p) /\ phase[p] = "serve"
         /\ Range(list'[p]) = Range(list[p]) \ {x} /\ IsInjective(list'[p])
         /\ \A q \in Procs : q # p => list'[q] = list[q]
<1>1. InList(x, p) /\ phase[p] = "serve" /\ list' = [list EXCEPT ![p] = Without(@, {x})]
  BY DEF CutOff, Skipped, InList, Turn, Sent
<1>2. IsInjective(list[p]) /\ list[p] \in Seq(Entries)
  BY DEF Placed, NoneTwice, Typed
<1>3. list'[p] = Without(list[p], {x}) /\ \A q \in Procs : q # p => list'[q] = list[q]
  BY <1>1 DEF Typed
<1>. QED  BY <1>1, <1>2, <1>3, WithoutMembers

LEMMA KeptMoves ==
  ASSUME Typed, Placed, NEW p \in Procs, list' = Kept(p)
  PROVE  /\ Range(list'[p]) = Range(list[p]) \ closing[p] /\ IsInjective(list'[p])
         /\ \A q \in Procs : q # p => list'[q] = list[q]
<1>1. IsInjective(list[p]) /\ list[p] \in Seq(Entries)
  BY DEF Placed, NoneTwice, Typed
<1>2. list'[p] = Without(list[p], closing[p]) /\ \A q \in Procs : q # p => list'[q] = list[q]
  BY DEF Typed, Kept
<1>. QED  BY <1>1, <1>2, WithoutMembers

LEMMA EndsMoves ==
  ASSUME Typed, NEW p \in Procs, Ends(p)
  PROVE  /\ Range(list'[p]) = {} /\ IsInjective(list'[p])
         /\ Range(channel'[p]) = {} /\ IsInjective(channel'[p])
         /\ \A q \in Procs : q # p => /\ list'[q] = list[q] /\ channel'[q] = channel[q]
                                     /\ todo'[q] = todo[q] /\ closing'[q] = closing[q]
                                     /\ slot'[q] = slot[q] /\ phase'[q] = phase[q]
         /\ Blank(p)' /\ phase'[p] = "dead"
<1>1. /\ list'[p] = <<>> /\ channel'[p] = <<>> /\ todo'[p] = <<>> /\ closing'[p] = {}
      /\ phase'[p] = "dead"
  BY DEF Ends, Typed
<1>2. slot'[p] = [s \in Slots |-> NoDbase]
  BY DEF Ends, Typed
<1>3. \A q \in Procs : q # p => /\ list'[q] = list[q] /\ channel'[q] = channel[q]
                                /\ todo'[q] = todo[q] /\ closing'[q] = closing[q]
                                /\ slot'[q] = slot[q] /\ phase'[q] = phase[q]
  BY DEF Ends, Typed
<1>. QED  BY <1>1, <1>2, <1>3, EmptyMembers DEF Blank
-----------------------------------------------------------------------------
(* No step of the daemon revives a process.                                  *)
GoOn == \A q \in Procs : /\ phase[q] # "none" => phase'[q] # "none"
                         /\ phase[q] = "dead" => phase'[q] = "dead"

(* Steps that leave the phases, and steps within select_loop.                *)
LEMMA RoundsGoOn ==
  ASSUME Typed, NEW p \in Procs, phase[p] \in {"select", "serve"} \cup HandingOff,
         \E v \in {"select", "serve", "spin", "dead"} \cup HandingOff : phase' = [phase EXCEPT ![p] = v]
  PROVE  GoOn
BY DEF Typed, GoOn, HandingOff

LEMMA EndsGoOn ==
  ASSUME Typed, NEW p \in Procs, Ends(p)
  PROVE  GoOn
BY DEF Typed, GoOn, Ends

LEMMA StepsGoOn ==
  ASSUME Typed, Placed, Next
  PROVE  GoOn
<1>1. ASSUME phase' = phase
      PROVE  GoOn
  BY <1>1 DEF GoOn
<1>2. ASSUME NEW p \in Procs, Select(p) \/ TimeOut(p)
      PROVE  GoOn
  BY <1>2, RoundsGoOn DEF Select, TimeOut
<1>3. ASSUME NEW p \in Procs, MumLost(p) \/ Stop(p) \/ Die(p)
      PROVE  GoOn
  BY <1>3, EndsGoOn DEF MumLost, Stop, Die
<1>4. ASSUME NEW p \in Procs, CleanChild(p)
      PROVE  GoOn
  BY <1>4, RoundsGoOn DEF CleanChild, Finished
<1>5. ASSUME CleanMother
      PROVE  GoOn
  BY <1>5, RoundsGoOn, ConstantTypes DEF CleanMother, Finished
<1>6. ASSUME NEW x \in Conns, NEW p \in Children, NEW k \in Recs, Fork(x, p, k)
      PROVE  GoOn
  <2>1. phase' = [phase EXCEPT ![p] = "select", ![Mother] = "handoff"]
    BY <1>6 DEF Fork
  <2>2. phase[p] = "none" /\ phase[Mother] = "serve"
    BY <1>6 DEF Fork, Unknown, Allowed, Asked, Turn
  <2>. QED  BY <2>1, <2>2 DEF GoOn, Typed
<1>7. ASSUME NEW x \in Conns, PassOn(x) \/ Assign(x)
      PROVE  GoOn
  <2>1. phase' = [phase EXCEPT ![Mother] = "handoff"] /\ phase[Mother] = "serve"
    BY <1>7 DEF PassOn, Assign, Unknown, Allowed, Asked, Turn
  <2>. QED  BY <2>1, RoundsGoOn, ConstantTypes DEF HandingOff
<1>8. ASSUME NEW x \in Conns, NEW p \in Children, ForkRefused(x, p)
      PROVE  GoOn
  BY <1>8 DEF ForkRefused, GoOn, Typed
<1>13. ASSUME SendNotice \/ SendSocket \/ Forget
       PROVE  GoOn
  <2>1. PICK v \in {"serve", "spin"} \cup HandingOff : phase' = [phase EXCEPT ![Mother] = v]
    BY <1>13 DEF SendNotice, SendSocket, Forget, HandingOff
  <2>2. phase[Mother] \in HandingOff
    BY <1>13 DEF SendNotice, SendSocket, Forget, HandingOff
  <2>. QED  BY <2>1, <2>2, RoundsGoOn, ConstantTypes
<1>14. ASSUME Collapse
       PROVE  GoOn
  BY <1>14, EndsGoOn, ConstantTypes DEF Collapse
<1>. HIDE DEF GoOn
<1>9. ASSUME NEW x \in Conns,
             \/ \E d \in Databases : Open(x, d)
             \/ \E what \in {"request", "close", "drop"} : Ask(x, what)
             \/ Leave(x) \/ Refuse(x)
      PROVE  GoOn
  BY <1>1, <1>9 DEF Open, Ask, Leave, Refuse
<1>10. ASSUME NEW p \in Procs, Skip(p) \/ \E e \in Conns \cup Children : Eof(p, e)
      PROVE  GoOn
  BY <1>1, <1>10 DEF Skip, Eof
<1>11. ASSUME NEW p \in Procs, NEW x \in Conns,
              \/ Full(p, x) \/ Pass(p, x) \/ Serve(p, x) \/ Close(p, x) \/ Drop(p, x)
              \/ SendMore(p, x) \/ CutOff(p, x) \/ OpenFails(p, x)
      PROVE  GoOn
  BY <1>1, <1>11 DEF Full, Pass, Serve, Close, Drop, SendMore, CutOff, OpenFails, TakeOn, Requested
<1>12. ASSUME NEW k \in Recs, Childied(k)
      PROVE  GoOn
  BY <1>1, <1>12 DEF Childied
<1>. QED
  BY NextSteps, <1>2, <1>3, <1>4, <1>5, <1>6, <1>7, <1>8, <1>9, <1>10, <1>11, <1>12, <1>13,
     <1>14 DEF Steps

-----------------------------------------------------------------------------
(* What the records of the mother say of her children.                       *)
LEMMA HandlerKept ==
  ASSUME Typed, Recorded, GoOn, NEW d \in Databases, handler'[d] = handler[d],
         handler[d] # 0 =>
           /\ rec'[handler[d]].r = rec[handler[d]].r
           /\ handler[d] \in Range(children) =>
                handler[d] \in Range(children') \/ phase[rec[handler[d]].r] = "dead"
  PROVE  HandlerStands(d)'
<1>1. CASE handler[d] = 0
  BY <1>1 DEF HandlerStands
<1>2. CASE handler[d] # 0
  <2> DEFINE k == handler[d]
  <2>1. /\ rec[k].r \in Children /\ phase[rec[k].r] # "none" /\ rec[k].r \in Procs
        /\ k \in Range(children) \/ phase[rec[k].r] = "dead"
    BY <1>2, ConstantTypes DEF Recorded, HandlerStands, Forked
  <2>2. handler'[d] = k /\ rec'[k].r = rec[k].r
    BY <1>2
  <2>3. k \in Range(children') \/ phase[rec[k].r] = "dead"
    BY <1>2, <2>1
  <2>. HIDE DEF k
  <2>. QED  BY <2>1, <2>2, <2>3 DEF HandlerStands, Forked, GoOn
<1>. QED  BY <1>1, <1>2

LEMMA RecordsFrame ==
  ASSUME Typed, Recorded, GoOn, UNCHANGED <<handler, rec, children>>
  PROVE  Recorded'
<1>1. rec' = rec /\ children' = children /\ handler' = handler
  OBVIOUS
<1>2. \A k \in Recs : Forked(k) => Forked(k)'
  BY <1>1, ConstantTypes DEF Forked, GoOn
<1>3. \A k \in Range(children) : k \in Recs /\ (Forked(k) => rec[k].r \in Procs)
  BY RangeInside, ConstantTypes DEF Typed, Forked
<1>4. \A d \in Databases : HandlerStands(d)'
  BY <1>1, HandlerKept
<1>5. \A k \in Range(children') : RecordStands(k)'
  BY <1>1, <1>2, <1>3 DEF Recorded, RecordStands, GoOn
<1>. QED  BY <1>1, <1>4, <1>5 DEF Recorded

LEMMA AssignRecords ==
  ASSUME Typed, Placed, Recorded, GoOn, NEW x \in Conns, Assign(x)
  PROVE  /\ Recorded' /\ LeastLoaded \in Recs /\ Forked(LeastLoaded)
         /\ rec' \in [Recs -> Records] /\ \A k \in Recs : rec'[k].r = rec[k].r
         /\ handler' = [handler EXCEPT ![link[x].want] = LeastLoaded] /\ link[x].want \in Databases
         /\ Asked(x) /\ handler[link[x].want] = 0
<1> DEFINE b == LeastLoaded
<1>1. children # <<>>
  BY DaemonConstants, EmptySeq DEF Assign
<1>2. b \in Range(children) /\ b \in Recs
  BY <1>1, LeastLoadedIsChild, RangeInside DEF Typed
<1>3. /\ rec' = [rec EXCEPT ![b].dbs = @ + 1] /\ handler' = [handler EXCEPT ![link[x].want] = b]
      /\ children' = children /\ Asked(x) /\ handler[link[x].want] = 0
  BY DEF Assign, Unknown, Allowed
<1>4. link[x].want \in Databases
  BY <1>3, WantIsDatabase
<1>. HIDE DEF b
<1>5. \A m \in Records : /\ [m EXCEPT !.dbs = @ + 1] \in Records
                         /\ [m EXCEPT !.dbs = @ + 1].r = m.r /\ [m EXCEPT !.dbs = @ + 1].close = m.close
  BY DEF Records
<1>6. rec' \in [Recs -> Records] /\ \A k \in Recs : rec'[k].r = rec[k].r /\ rec'[k].close = rec[k].close
  BY <1>2, <1>3, <1>5 DEF Typed
<1>7. \A k \in Recs : Forked(k) => Forked(k)' /\ rec[k].r \in Procs
  BY <1>6, ConstantTypes DEF Forked, GoOn
<1>8. \A k \in Range(children) : k \in Recs /\ Forked(k) /\ (rec[k].close => phase[rec[k].r] = "dead")
  BY RangeInside DEF Typed, Recorded, RecordStands, HandlerStands
<1>9. \A k \in Range(children') : RecordStands(k)'
  BY <1>3, <1>6, <1>7, <1>8 DEF GoOn, RecordStands
<1>10. ASSUME NEW d \in Databases
       PROVE  HandlerStands(d)'
  <2>1. CASE d = link[x].want
    <3>1. handler'[d] = b
      BY <1>3, <1>4, <2>1 DEF Typed
    <3>. QED  BY <1>2, <1>3, <1>9, <3>1 DEF HandlerStands, RecordStands
  <2>2. CASE d # link[x].want
    <3>1. handler'[d] = handler[d] /\ (handler[d] # 0 => handler[d] \in Recs)
      BY <1>3, <2>2 DEF Typed
    <3>. QED  BY <1>3, <1>6, <3>1, HandlerKept
  <2>. QED  BY <2>1, <2>2
<1>11. Recorded'
  BY <1>3, <1>9, <1>10 DEF Recorded
<1>. QED  BY <1>2, <1>3, <1>4, <1>6, <1>8, <1>11 DEF b

LEMMA ForkRecords ==
  ASSUME Typed, Placed, Recorded, GoOn,
         NEW x \in Conns, NEW p \in Children, NEW k \in Recs, Fork(x, p, k)
  PROVE  /\ Recorded' /\ rec'[k].r = p /\ \A m \in Recs : m # k => rec'[m] = rec[m]
         /\ handler' = [handler EXCEPT ![link[x].want] = k] /\ link[x].want \in Databases
         /\ handler[link[x].want] = 0 /\ phase[p] = "none" /\ phase'[p] = "select"
         /\ k \notin Range(children)
<1>1. /\ k \notin Range(children) /\ phase[p] = "none"
      /\ phase' = [phase EXCEPT ![p] = "select", ![Mother] = "handoff"]
      /\ rec' = [rec EXCEPT ![k] = [r |-> p, close |-> FALSE, dbs |-> 1]]
      /\ children' = <<k>> \o children /\ handler' = [handler EXCEPT ![link[x].want] = k]
      /\ Asked(x) /\ handler[link[x].want] = 0
  BY DEF Fork, Unknown, Allowed
<1>2. link[x].want \in Databases
  BY <1>1, WantIsDatabase
<1>3. rec'[k] = [r |-> p, close |-> FALSE, dbs |-> 1] /\ \A m \in Recs : m # k => rec'[m] = rec[m]
  BY <1>1 DEF Typed
<1>4. rec'[k].r = p /\ ~rec'[k].close
  BY <1>3
<1>5. Range(children') = Range(children) \cup {k}
  BY <1>1, PrependMembers DEF Typed
<1>14. IsInjective(children')
  BY <1>1, PrependMembers DEF Typed, Recorded, RecordStands, HandlerStands
<1>6. phase'[p] = "select" /\ p \in Procs
  BY <1>1, ConstantTypes DEF Typed
<1>7. Forked(k)'
  BY <1>4, <1>6 DEF Forked
<1>8. \A m \in Recs : m # k /\ Forked(m) => Forked(m)' /\ rec[m].r \in Procs
  BY <1>3, ConstantTypes DEF Forked, GoOn
<1>9. \A m \in Range(children) : m \in Recs /\ m # k /\ Forked(m) /\ (rec[m].close => phase[rec[m].r] = "dead")
  BY <1>1, RangeInside DEF Typed, Recorded, RecordStands, HandlerStands
<1>10. \A m \in Range(children') : RecordStands(m)'
  <2>1. \A m \in Range(children) : RecordStands(m)'
    BY <1>3, <1>8, <1>9 DEF GoOn, RecordStands
  <2>. QED  BY <1>4, <1>5, <1>7, <2>1 DEF RecordStands
<1>11. ASSUME NEW d \in Databases
       PROVE  HandlerStands(d)'
  <2>1. CASE handler'[d] = k
    BY <1>5, <1>7, <2>1 DEF HandlerStands
  <2>2. CASE handler'[d] # k
    <3>1. handler'[d] = handler[d] /\ (handler[d] # 0 => handler[d] \in Recs)
      BY <1>1, <1>2, <2>2 DEF Typed
    <3>. QED  BY <1>3, <1>5, <2>2, <3>1, HandlerKept
  <2>. QED  BY <2>1, <2>2
<1>12. Recorded'
  BY <1>10, <1>11, <1>14 DEF Recorded
<1>. QED  BY <1>1, <1>2, <1>3, <1>4, <1>6, <1>12

LEMMA ChildiedRecords ==
  ASSUME Typed, Recorded, GoOn, NEW k \in Recs, Childied(k)
  PROVE  Recorded' /\ handler' = handler /\ \A m \in Recs : rec'[m].r = rec[m].r
<1>1. /\ rec' = [rec EXCEPT ![k].close = TRUE] /\ phase' = phase /\ children' = children
      /\ handler' = handler /\ phase[rec[k].r] = "dead"
  BY DEF Childied
<1>2. \A m \in Records : [m EXCEPT !.close = TRUE].r = m.r
  BY DEF Records
<1>3. \A m \in Recs : rec'[m].r = rec[m].r /\ (m # k => rec'[m] = rec[m])
  BY <1>1, <1>2 DEF Typed
<1>4. \A m \in Recs : Forked(m) => Forked(m)'
  BY <1>1, <1>3 DEF Forked
<1>5. \A m \in Range(children) : m \in Recs
  BY RangeInside DEF Typed
<1>6. \A m \in Range(children') : RecordStands(m)'
  BY <1>1, <1>3, <1>4, <1>5 DEF Recorded, RecordStands
<1>7. ASSUME NEW d \in Databases
      PROVE  HandlerStands(d)'
  BY <1>1, <1>3, HandlerKept DEF Typed
<1>. QED  BY <1>1, <1>3, <1>6, <1>7 DEF Recorded

LEMMA CleanMotherRecords ==
  ASSUME Typed, Holding, Recorded, CleanMother
  PROVE  /\ Recorded' /\ \A m \in Recs : rec'[m].r = rec[m].r
         /\ \A m \in MarkedChildren : m \in Recs /\ Forked(m) /\ phase[rec[m].r] = "dead"
         /\ \A d \in Databases : handler'[d] = IF d \in Lost THEN 0 ELSE handler[d]
         /\ \A d \in Lost : phase[rec[handler[d]].r] = "dead"
<1>1. /\ handler' = Set(handler, Lost, 0) /\ children' = Without(children, MarkedChildren)
      /\ rec' = [k \in Recs |-> IF k \in MarkedChildren \cup Losers
                               THEN [rec[k] EXCEPT !.close = TRUE] ELSE rec[k]]
      /\ phase' = [phase EXCEPT ![Mother] = "select"] /\ phase[Mother] = "serve"
  BY DEF CleanMother, Finished
<1>2. \A d \in Databases : handler'[d] = IF d \in Lost THEN 0 ELSE handler[d]
  BY <1>1 DEF Set, Typed
<1>3. \A d \in Lost : d \in Databases /\ handler[d] \in Recs /\ Forked(handler[d])
                      /\ phase[rec[handler[d]].r] = "dead"
  <2>1. \A d \in Lost : d \in Databases /\ handler[d] # 0 /\ rec[handler[d]].r \in closing[Mother]
    BY DEF Lost, Zapped
  <2>2. \A d \in Lost : Forked(handler[d]) /\ rec[handler[d]].r \in Procs
    BY <2>1, ConstantTypes DEF Recorded, RecordStands, HandlerStands, Forked
  <2>. QED  BY <2>1, <2>2 DEF Holding, Typed
<1>4. \A m \in Range(children) : m \in Recs /\ Forked(m) /\ (rec[m].close => phase[rec[m].r] = "dead")
  BY RangeInside DEF Typed, Recorded, RecordStands, HandlerStands
<1>5. \A m \in MarkedChildren \cup Losers : m \in Recs /\ Forked(m) /\ phase[rec[m].r] = "dead"
  BY <1>3, <1>4 DEF MarkedChildren, Losers
<1>6. \A m \in Records : [m EXCEPT !.close = TRUE].r = m.r
  BY DEF Records
<1>7. \A m \in Recs : rec'[m].r = rec[m].r /\ (m \notin MarkedChildren \cup Losers => rec'[m] = rec[m])
  BY <1>1, <1>6 DEF Typed
<1>8. \A q \in Procs : phase[q] = "dead" => phase'[q] = "dead"
  BY <1>1 DEF Typed
<1>9. \A q \in Procs : phase[q] # "none" => phase'[q] # "none"
  BY <1>1 DEF Typed
<1>10. \A m \in Recs : Forked(m) => Forked(m)' /\ rec[m].r \in Procs
  BY <1>7, <1>9, ConstantTypes DEF Forked
<1>11. Range(children') = Range(children) \ MarkedChildren /\ IsInjective(children')
  BY <1>1, WithoutMembers DEF Typed, Recorded, RecordStands, HandlerStands
<1>12. \A m \in Range(children') : RecordStands(m)'
  BY <1>4, <1>5, <1>7, <1>8, <1>10, <1>11 DEF RecordStands
<1>13. ASSUME NEW d \in Databases
       PROVE  HandlerStands(d)'
  <2>1. CASE d \in Lost
    BY <1>2, <2>1 DEF HandlerStands
  <2>2. CASE d \notin Lost
    <3>1. handler'[d] = handler[d] /\ (handler[d] # 0 => handler[d] \in Recs)
      BY <1>2, <2>2 DEF Typed
    <3>2. GoOn
      BY <1>8, <1>9 DEF GoOn
    <3>. QED  BY <1>5, <1>7, <1>11, <3>1, <3>2, HandlerKept
  <2>. QED  BY <2>1, <2>2
<1>14. Recorded'
  BY <1>11, <1>12, <1>13 DEF Recorded
<1>. QED  BY <1>2, <1>3, <1>5, <1>7, <1>14

LEMMA RecordedNext ==
  ASSUME Typed, Placed, Holding, Recorded, Next
  PROVE  Recorded'
<1>0. GoOn
  BY StepsGoOn
<1>1. ASSUME UNCHANGED <<handler, rec, children>>
      PROVE  Recorded'
  BY <1>0, <1>1, RecordsFrame
<1>2. ASSUME NEW x \in Conns, Assign(x)
      PROVE  Recorded'
  BY <1>0, <1>2, AssignRecords
<1>3. ASSUME NEW x \in Conns, NEW p \in Children, NEW k \in Recs, Fork(x, p, k)
      PROVE  Recorded'
  BY <1>0, <1>3, ForkRecords
<1>4. ASSUME NEW k \in Recs, Childied(k)
      PROVE  Recorded'
  BY <1>0, <1>4, ChildiedRecords
<1>5. ASSUME CleanMother
      PROVE  Recorded'
  BY <1>5, CleanMotherRecords
<1>6. ASSUME NEW x \in Conns,
             \/ \E d \in Databases : Open(x, d)
             \/ \E what \in {"request", "close", "drop"} : Ask(x, what)
             \/ Leave(x) \/ Refuse(x) \/ PassOn(x)
      PROVE  Recorded'
  BY <1>1, <1>6 DEF Open, Ask, Leave, Refuse, PassOn, mothers
<1>9. ASSUME \/ \E x \in Conns, p \in Children : ForkRefused(x, p)
             \/ SendNotice \/ SendSocket \/ Forget \/ Collapse
      PROVE  Recorded'
  BY <1>1, <1>9 DEF ForkRefused, SendNotice, SendSocket, Forget, Collapse, mothers
<1>7. ASSUME NEW p \in Procs,
             \/ Select(p) \/ TimeOut(p) \/ Skip(p) \/ MumLost(p) \/ CleanChild(p) \/ Stop(p) \/ Die(p)
             \/ \E e \in Conns \cup Children : Eof(p, e)
      PROVE  Recorded'
  BY <1>1, <1>7 DEF Select, TimeOut, Skip, MumLost, CleanChild, Stop, Die, Eof, mothers
<1>8. ASSUME NEW p \in Procs, NEW x \in Conns,
             \/ Full(p, x) \/ Pass(p, x) \/ Serve(p, x) \/ Close(p, x) \/ Drop(p, x)
             \/ SendMore(p, x) \/ CutOff(p, x) \/ OpenFails(p, x)
      PROVE  Recorded'
  BY <1>1, <1>8 DEF Full, Pass, Serve, Close, Drop, SendMore, CutOff, OpenFails, TakeOn, Requested,
                    mothers
<1>. QED  BY NextSteps, <1>2, <1>3, <1>4, <1>5, <1>6, <1>7, <1>8, <1>9 DEF Steps

-----------------------------------------------------------------------------
(* What a process holds.                                                     *)
Still(q) == /\ phase'[q] = phase[q] /\ list'[q] = list[q] /\ todo'[q] = todo[q]
            /\ closing'[q] = closing[q] /\ channel'[q] = channel[q] /\ slot'[q] = slot[q]

LEMMA HoldingStep ==
  ASSUME Typed, Holding, GoOn,
         \A q \in Children : phase'[q] \in MotherPhases => phase'[q] = phase[q],
         \A q \in Procs : Live(q)' \/ Blank(q)' \/ Still(q),
         \A q, e \in Procs : e \in Range(list'[q]) => e \in Range(list[q]) \/ phase'[e] # "none",
         \A e \in Procs : e \in Range(todo'[Mother]) \cup closing'[Mother] =>
            e \in Range(todo[Mother]) \cup closing[Mother] \/ phase'[e] = "dead"
  PROVE  Holding'
<1>1. phase'[Mother] # "none"
  BY ConstantTypes DEF Holding, GoOn
<1>2. \A q \in Children : phase'[q] \notin MotherPhases
  BY DEF Holding
<1>3. ASSUME NEW q \in Procs
      PROVE  Live(q)' \/ Blank(q)'
  <2>1. CASE Still(q)
    BY <2>1 DEF Holding, Live, Blank, Still
  <2>. QED  BY <2>1
<1>4. \A q, e \in Procs : e \in Range(list'[q]) => phase'[e] # "none"
  BY DEF Holding, GoOn
<1>5. \A e \in Procs : e \in Range(todo'[Mother]) \cup closing'[Mother] => phase'[e] = "dead"
  BY DEF Holding, GoOn
<1>. QED  BY <1>1, <1>2, <1>3, <1>4, <1>5 DEF Holding

(* One connection of a round of process p.                                   *)
LEMMA HoldingTurn ==
  ASSUME Typed, Holding, GoOn, NEW p \in Procs, phase[p] = "serve", phase' = phase, Done(p),
         todo[p] # <<>>,
         \A q \in Procs : q # p => /\ list'[q] = list[q] /\ closing'[q] = closing[q]
                                   /\ channel'[q] = channel[q] /\ slot'[q] = slot[q],
         \A e \in Procs : e \in Range(list'[p]) => e \in Range(list[p]),
         p = Mother => \A e \in Procs : e \in closing'[p] => e \in Range(todo[p]) \cup closing[p]
  PROVE  Holding'
<1>1. todo'[p] = Tail(todo[p]) /\ \A q \in Procs : q # p => todo'[q] = todo[q]
  BY DEF Done, Typed
<1>2. Range(todo'[p]) \subseteq Range(todo[p])
  <2>1. todo[p] \in Seq(Entries)
    BY DEF Typed
  <2>. QED  BY <1>1, <2>1, TailMembers
<1>3. ASSUME NEW q \in Procs
      PROVE  Live(q)' \/ Blank(q)' \/ Still(q)
  BY <1>1 DEF Live, Still
<1>4. \A q, e \in Procs : e \in Range(list'[q]) => e \in Range(list[q])
  OBVIOUS
<1>5. \A e \in Procs : e \in Range(todo'[Mother]) \cup closing'[Mother] =>
            e \in Range(todo[Mother]) \cup closing[Mother]
  BY <1>1, <1>2, ConstantTypes
<1>. QED  BY <1>3, <1>4, <1>5, HoldingStep

(* The mother goes from one phase of a round to another, with what she holds. *)
LEMMA HoldingPhase ==
  ASSUME Typed, Holding, GoOn, NEW v \in {"serve"} \cup MotherPhases,
         phase' = [phase EXCEPT ![Mother] = v], UNCHANGED <<list, todo, closing, slot>>,
         \A q \in Children : channel'[q] = channel[q] \/ phase[q] \notin {"none", "dead"}
  PROVE  Holding'
<1>1. phase'[Mother] = v /\ \A q \in Procs : q # Mother => phase'[q] = phase[q]
  BY ConstantTypes DEF Typed
<1>2. ASSUME NEW q \in Procs
      PROVE  Live(q)' \/ Blank(q)' \/ Still(q)
  <2>1. CASE q = Mother
    BY <1>1, <2>1 DEF Live, MotherPhases, HandingOff
  <2>2. CASE q # Mother /\ channel'[q] = channel[q]
    BY <1>1, <2>2 DEF Still
  <2>3. CASE q # Mother /\ phase[q] \notin {"none", "dead"}
    <3>1. phase[q] \in Phases /\ phase'[q] = phase[q]
      BY <1>1, <2>3 DEF Typed
    <3>. QED  BY <2>3, <3>1 DEF Live, Phases
  <2>. QED  BY <2>1, <2>2, <2>3, ConstantTypes
<1>3. \A q \in Children : phase'[q] \in MotherPhases => phase'[q] = phase[q]
  BY <1>1, ConstantTypes
<1>. QED  BY <1>2, <1>3, HoldingStep

LEMMA HoldingEnds ==
  ASSUME Typed, Holding, GoOn, NEW p \in Procs, Ends(p)
  PROVE  Holding'
<1>1. /\ Range(list'[p]) = {} /\ Blank(p)' /\ phase'[p] = "dead"
      /\ \A q \in Procs : q # p => Still(q)
  BY EndsMoves DEF Still
<1>2. \A q, e \in Procs : e \in Range(list'[q]) => e \in Range(list[q])
  BY <1>1 DEF Still
<1>3. \A e \in Procs : e \in Range(todo'[Mother]) \cup closing'[Mother] =>
            e \in Range(todo[Mother]) \cup closing[Mother]
  <2>1. CASE p = Mother
    BY <1>1, <2>1, EmptyMembers DEF Blank
  <2>2. CASE p # Mother
    BY <1>1, <2>2, ConstantTypes DEF Still
  <2>. QED  BY <2>1, <2>2
<1>4. \A q \in Children : phase'[q] \in MotherPhases => phase'[q] = phase[q]
  BY <1>1, ConstantTypes DEF Still, MotherPhases, HandingOff
<1>. QED  BY <1>1, <1>2, <1>3, <1>4, HoldingStep

LEMMA HoldingNext ==
  ASSUME Typed, Placed, Holding, Handing, Recorded, Next
  PROVE  Holding'
<1>0. GoOn
  BY StepsGoOn
<1>1. ASSUME UNCHANGED <<phase, list, todo, closing, channel, slot>>
      PROVE  Holding'
  BY <1>0, <1>1, HoldingStep DEF Still
<1>2. ASSUME NEW x \in Conns,
             \/ \E d \in Databases : Open(x, d)
             \/ \E what \in {"request", "close", "drop"} : Ask(x, what)
             \/ Leave(x)
      PROVE  Holding'
  BY <1>1, <1>2 DEF Open, Ask, Leave, childs
<1>3. ASSUME NEW k \in Recs, Childied(k)
      PROVE  Holding'
  BY <1>1, <1>3 DEF Childied, childs
<1>4. ASSUME NEW p \in Procs, Select(p)
      PROVE  Holding'
  <2>1. /\ phase' = [phase EXCEPT ![p] = "serve"] /\ todo' = [todo EXCEPT ![p] = Ready(p)]
        /\ closing' = closing /\ channel' = channel /\ slot' = slot /\ phase[p] = "select"
    BY <1>4 DEF Select, childs
  <2>2. /\ phase'[p] = "serve" /\ \A q \in Procs : q # p => phase'[q] = phase[q]
        /\ todo'[p] = Ready(p) /\ \A q \in Procs : q # p => todo'[q] = todo[q]
    BY <2>1 DEF Typed
  <2>3. /\ \A q \in Procs : q # p => list'[q] = list[q]
        /\ \A q, e \in Procs : e \in Range(list'[q]) => e \in Range(list[q])
    <3>1. CASE p = Mother /\ queue # <<>>
      <4>1. Accept
        BY <1>4, <3>1 DEF Select
      <4>2. /\ Head(queue) \in Conns
            /\ list' = list \/ Range(list'[Mother]) = Range(list[Mother]) \cup {Head(queue)}
            /\ \A q \in Procs : q # Mother => list'[q] = list[q]
        BY <3>1, <4>1, AcceptMoves
      <4>. QED  BY <3>1, <4>2, ConstantTypes
    <3>2. CASE ~(p = Mother /\ queue # <<>>)
      BY <1>4, <3>2 DEF Select, Accept
    <3>. QED  BY <3>1, <3>2
  <2>4. \A q \in Procs : Live(q)' \/ Blank(q)' \/ Still(q)
    BY <2>1, <2>2, <2>3 DEF Live, Still
  <2>5. \A e \in Procs : e \in Range(todo'[Mother]) \cup closing'[Mother] =>
            e \in Range(todo[Mother]) \cup closing[Mother] \/ phase'[e] = "dead"
    <3>1. CASE p = Mother
      <4> DEFINE R == {e \in Range(list[Mother]) : Readable(Mother, e) \/ Writable(e)}
      <4>1. list[Mother] \in Seq(Entries)
        BY ConstantTypes DEF Typed
      <4>2. todo'[Mother] = Only(list[Mother], R)
        BY <2>2, <3>1 DEF Ready
      <4>3. Range(todo'[Mother]) = Range(list[Mother]) \cap R
        BY <4>1, <4>2, OnlyMembers
      <4>4. \A e \in Procs : e \in R => phase[e] = "dead"
        BY ConstantTypes DEF Readable, Writable
      <4>5. \A e \in Procs : phase[e] = "dead" => phase'[e] = "dead"
        BY <1>0 DEF GoOn
      <4>. HIDE DEF R
      <4>. QED  BY <2>1, <4>3, <4>4, <4>5
    <3>2. CASE p # Mother
      BY <2>1, <2>2, <3>2, ConstantTypes
    <3>. QED  BY <3>1, <3>2
  <2>6. \A q \in Children : phase'[q] \in MotherPhases => phase'[q] = phase[q]
    BY <2>2, ConstantTypes DEF MotherPhases, HandingOff
  <2>. QED  BY <1>0, <2>3, <2>4, <2>5, <2>6, HoldingStep
<1>5. ASSUME NEW p \in Procs, TimeOut(p)
      PROVE  Holding'
  <2>1. /\ phase'[p] = "serve" /\ \A q \in Procs : q # p => phase'[q] = phase[q]
        /\ UNCHANGED <<list, todo, closing, channel, slot>>
    BY <1>5 DEF TimeOut, childs, Typed
  <2>2. \A q \in Procs : Live(q)' \/ Blank(q)' \/ Still(q)
    BY <2>1 DEF Live, Still
  <2>3. \A q \in Children : phase'[q] \in MotherPhases => phase'[q] = phase[q]
    BY <2>1, ConstantTypes DEF MotherPhases, HandingOff
  <2>. QED  BY <1>0, <2>1, <2>2, <2>3, HoldingStep
<1>6. ASSUME NEW p \in Procs, MumLost(p) \/ Stop(p) \/ Die(p)
      PROVE  Holding'
  BY <1>0, <1>6, HoldingEnds DEF MumLost, Stop, Die
<1>7. ASSUME NEW x \in Conns, PassOn(x) \/ Assign(x)
      PROVE  Holding'
  <2>1. phase' = [phase EXCEPT ![Mother] = "handoff"] /\ UNCHANGED <<list, todo, closing, channel, slot>>
    BY <1>7 DEF PassOn, Assign, childs
  <2>. QED  BY <1>0, <2>1, HoldingPhase DEF MotherPhases, HandingOff
<1>8. ASSUME SendNotice
      PROVE  Holding'
  <2>1. /\ phase' = [phase EXCEPT ![Mother] = "spin"] \/ phase' = [phase EXCEPT ![Mother] = "sent"]
        /\ UNCHANGED <<list, todo, closing, channel, slot>>
    BY <1>8 DEF SendNotice, childs
  <2>. QED  BY <1>0, <2>1, HoldingPhase DEF MotherPhases, HandingOff
<1>20. ASSUME SendSocket
      PROVE  Holding'
  <2>1. CASE NeverSent
    <3>1. /\ phase' = [phase EXCEPT ![Mother] = "spin"] /\ UNCHANGED <<list, todo, closing, channel, slot>>
      BY <1>20, <2>1 DEF SendSocket, childs
    <3>. QED  BY <1>0, <3>1, HoldingPhase DEF MotherPhases
  <2>2. CASE ~NeverSent
    <3>1. /\ phase' = [phase EXCEPT ![Mother] = "passed"] /\ UNCHANGED <<list, todo, closing, slot>>
      BY <1>20, <2>2 DEF SendSocket, childs
    <3> DEFINE r == Receiver
    <3>2. phase[r] \notin {"none", "dead"} /\ \A q \in Procs : q # r => channel'[q] = channel[q]
      BY <1>20, <2>2, SendSocketMoves
    <3>. HIDE DEF r
    <3>3. \A q \in Children : channel'[q] = channel[q] \/ phase[q] \notin {"none", "dead"}
      BY <3>2, ConstantTypes
    <3>. QED  BY <1>0, <3>1, <3>3, HoldingPhase DEF MotherPhases, HandingOff
  <2>. QED  BY <2>1, <2>2
<1>21. ASSUME Forget
      PROVE  Holding'
  <2>1. /\ phase'[Mother] = "serve" /\ Range(list'[Mother]) \subseteq Range(list[Mother])
        /\ \A q \in Procs : q # Mother => list'[q] = list[q] /\ phase'[q] = phase[q]
        /\ todo[Mother] # <<>> /\ Done(Mother)
    BY <1>21, ForgetMoves
  <2>2. closing' = closing /\ channel' = channel /\ slot' = slot
    BY <1>21 DEF Forget, childs
  <2>3. /\ todo'[Mother] = Tail(todo[Mother]) /\ \A q \in Procs : q # Mother => todo'[q] = todo[q]
    BY <2>1, ConstantTypes DEF Typed, Done
  <2>4. Range(todo'[Mother]) \subseteq Range(todo[Mother])
    <3>1. todo[Mother] \in Seq(Entries)
      BY ConstantTypes DEF Typed
    <3>. QED  BY <2>1, <2>3, <3>1, TailMembers
  <2>5. \A q \in Procs : Live(q)' \/ Blank(q)' \/ Still(q)
    BY <2>1, <2>2, <2>3 DEF Live, Still
  <2>6. \A q, e \in Procs : e \in Range(list'[q]) => e \in Range(list[q])
    BY <2>1
  <2>7. \A q \in Children : phase'[q] \in MotherPhases => phase'[q] = phase[q]
    BY <2>1, ConstantTypes
  <2>. QED  BY <1>0, <2>2, <2>4, <2>5, <2>6, <2>7, HoldingStep
<1>22. ASSUME Collapse
      PROVE  Holding'
  BY <1>0, <1>22, HoldingEnds, ConstantTypes DEF Collapse
<1>9. ASSUME NEW x \in Conns, NEW p \in Children, NEW k \in Recs, Fork(x, p, k)
      PROVE  Holding'
  <2>1. todo' = todo /\ closing' = closing /\ channel' = channel /\ slot' = slot
    BY <1>9 DEF Fork, childs
  <2>2. /\ phase'[p] = "select" /\ phase'[Mother] = "handoff"
        /\ \A q \in Procs : q # Mother /\ q # p => phase'[q] = phase[q]
        /\ Range(list'[Mother]) = Range(list[Mother]) \cup {p} /\ Range(list'[p]) = {Mother}
        /\ \A q \in Procs : q # Mother /\ q # p => list'[q] = list[q]
    BY <1>9, ForkMoves
  <2>3. \A q \in Procs : Live(q)' \/ Blank(q)' \/ Still(q)
    BY <2>1, <2>2 DEF Live, Still, HandingOff
  <2>4. \A q, e \in Procs : e \in Range(list'[q]) => e \in Range(list[q]) \/ phase'[e] # "none"
    BY <2>2
  <2>5. \A q \in Children : phase'[q] \in MotherPhases => phase'[q] = phase[q]
    BY <2>2, ConstantTypes DEF MotherPhases, HandingOff
  <2>. QED  BY <1>0, <2>1, <2>3, <2>4, <2>5, HoldingStep
<1>23. ASSUME NEW x \in Conns, NEW p \in Children, ForkRefused(x, p)
      PROVE  Holding'
  <2>1. /\ phase' = [phase EXCEPT ![p] = "select"] /\ Done(Mother) /\ todo[Mother] # <<>>
        /\ list' = list /\ closing' = closing /\ channel' = channel /\ slot' = slot
        /\ phase[Mother] = "serve"
    BY <1>23 DEF ForkRefused, Unknown, Allowed, Asked, Turn, childs
  <2>2. /\ phase'[p] = "select" /\ \A q \in Procs : q # p => phase'[q] = phase[q]
        /\ todo'[Mother] = Tail(todo[Mother]) /\ \A q \in Procs : q # Mother => todo'[q] = todo[q]
    BY <2>1, ConstantTypes DEF Typed, Done
  <2>3. Range(todo'[Mother]) \subseteq Range(todo[Mother])
    <3>1. todo[Mother] \in Seq(Entries)
      BY ConstantTypes DEF Typed
    <3>. QED  BY <2>1, <2>2, <3>1, TailMembers
  <2>4. \A q \in Procs : Live(q)' \/ Blank(q)' \/ Still(q)
    BY <2>1, <2>2, ConstantTypes DEF Live, Still
  <2>5. \A q \in Children : phase'[q] \in MotherPhases => phase'[q] = phase[q]
    BY <2>2, ConstantTypes DEF MotherPhases, HandingOff
  <2>. QED  BY <1>0, <2>1, <2>3, <2>4, <2>5, HoldingStep
<1>10. ASSUME NEW x \in Conns, Refuse(x)
       PROVE  Holding'
  BY <1>0, <1>10, ConstantTypes, HoldingTurn DEF Refuse, Unknown, Allowed, Asked, Turn, childs
<1>11. ASSUME NEW p \in Procs, Skip(p)
       PROVE  Holding'
  BY <1>0, <1>11, HoldingTurn DEF Skip, childs
<1>12. ASSUME NEW p \in Procs, NEW e \in Conns \cup Children, Eof(p, e)
       PROVE  Holding'
  <2>1. /\ phase[p] = "serve" /\ todo[p] # <<>> /\ e = Head(todo[p]) /\ Done(p) /\ phase' = phase
        /\ list' = list /\ channel' = channel /\ slot' = slot
        /\ closing' = [closing EXCEPT ![p] = @ \cup ({e} \cap Range(list[p]))]
    BY <1>12 DEF Eof, Turn, Mark, childs
  <2>2. Head(todo[p]) \in Range(todo[p])
    BY <2>1, TailMembers DEF Typed
  <2>3. closing'[p] \subseteq closing[p] \cup {e} /\ \A q \in Procs : q # p => closing'[q] = closing[q]
    BY <2>1 DEF Typed
  <2>4. \A g \in Procs : g \in closing'[p] => g \in Range(todo[p]) \cup closing[p]
    BY <2>1, <2>2, <2>3
  <2>. QED  BY <1>0, <2>1, <2>3, <2>4, HoldingTurn
<1>13. ASSUME NEW p \in Procs, NEW x \in Conns, Full(p, x)
       PROVE  Holding'
  <2>1. Passed(p, x) /\ phase' = phase /\ list' = list /\ closing' = closing /\ slot' = slot
    BY <1>13 DEF Full, childs
  <2>2. /\ phase[p] = "serve" /\ Done(p) /\ todo[p] # <<>>
        /\ \A q \in Procs : q # p => channel'[q] = channel[q]
    BY <2>1, PassedMoves DEF Done
  <2>. QED  BY <1>0, <2>1, <2>2, HoldingTurn
<1>14. ASSUME NEW p \in Procs, NEW x \in Conns, Pass(p, x) \/ OpenFails(p, x)
       PROVE  Holding'
  <2>1. TakeOn(p, x) /\ phase' = phase
    BY <1>14 DEF Pass, OpenFails, TakeOn
  <2>2. /\ Passed(p, x) /\ Range(list'[p]) = Range(list[p]) \cup {x}
        /\ \A q \in Procs : q # p => list'[q] = list[q]
    BY <2>1, TakeOnMoves
  <2>3. /\ phase[p] = "serve" /\ Done(p) /\ todo[p] # <<>> /\ p # Mother
        /\ \A q \in Procs : q # p => channel'[q] = channel[q]
    BY <2>2, PassedMoves DEF Done
  <2>4. \A q \in Procs : q # p => closing'[q] = closing[q] /\ slot'[q] = slot[q]
    <3>1. CASE Pass(p, x)
      BY <3>1 DEF Pass, Matching, Typed
    <3>2. CASE OpenFails(p, x)
      BY <3>2 DEF OpenFails, Typed
    <3>. QED  BY <1>14, <3>1, <3>2
  <2>5. \A e \in Procs : e \in Range(list'[p]) => e \in Range(list[p])
    BY <2>2, ConstantTypes
  <2>. QED  BY <1>0, <2>1, <2>2, <2>3, <2>4, <2>5, HoldingTurn
<1>15. ASSUME NEW p \in Procs, NEW x \in Conns, Serve(p, x) \/ Close(p, x) \/ Drop(p, x)
       PROVE  Holding'
  <2>1. /\ phase[p] = "serve" /\ todo[p] # <<>> /\ Done(p) /\ phase' = phase /\ list' = list
        /\ channel' = channel
    BY <1>15 DEF Serve, Close, Drop, Requested, Turn
  <2>2. \A q \in Procs : q # p => closing'[q] = closing[q] /\ slot'[q] = slot[q]
    <3>1. CASE Serve(p, x)
      BY <3>1 DEF Serve, childs
    <3>2. CASE Close(p, x)
      BY <3>2 DEF Close, childs, Mark, Typed
    <3>3. CASE Drop(p, x)
      BY <3>3 DEF Drop, Mark, Typed
    <3>. QED  BY <1>15, <3>1, <3>2, <3>3
  <2>3. \A e \in Procs : e \in closing'[p] => e \in closing[p]
    <3>1. CASE Serve(p, x)
      BY <3>1 DEF Serve, childs
    <3>2. CASE Close(p, x)
      BY <3>2, ConstantTypes DEF Close, childs, Mark, Typed
    <3>3. CASE Drop(p, x)
      BY <3>3, ConstantTypes DEF Drop, Mark, Typed
    <3>. QED  BY <1>15, <3>1, <3>2, <3>3
  <2>. QED  BY <1>0, <2>1, <2>2, <2>3, HoldingTurn
<1>16. ASSUME NEW p \in Procs, NEW x \in Conns, SendMore(p, x)
       PROVE  Holding'
  BY <1>0, <1>16, HoldingTurn DEF SendMore, Turn, childs
<1>17. ASSUME NEW p \in Procs, NEW x \in Conns, CutOff(p, x)
       PROVE  Holding'
  <2>1. /\ phase[p] = "serve" /\ todo[p] # <<>> /\ Done(p) /\ phase' = phase
        /\ channel' = channel /\ closing' = closing
        /\ slot' = [slot EXCEPT ![p] = Released(slot[p], {x})]
    BY <1>17 DEF CutOff, Turn
  <2>2. \A q \in Procs : q # p => slot'[q] = slot[q]
    BY <2>1 DEF Typed
  <2>. QED  BY <1>0, <1>17, <2>1, <2>2, CutOffMoves, HoldingTurn
<1>18. ASSUME NEW p \in Procs, CleanChild(p)
       PROVE  Holding'
  <2>1. /\ phase' = [phase EXCEPT ![p] = "select"] /\ list' = Kept(p) /\ todo' = todo
        /\ channel' = channel /\ p # Mother
    BY <1>18 DEF CleanChild
  <2>2. /\ phase'[p] = "select" /\ \A q \in Procs : q # p => phase'[q] = phase[q]
    BY <2>1 DEF Typed
  <2>3. /\ Range(list'[p]) \subseteq Range(list[p])
        /\ \A q \in Procs : q # p => list'[q] = list[q]
    BY <2>1, KeptMoves
  <2>4. \A q \in Procs : q # p => slot'[q] = slot[q] /\ closing'[q] = closing[q]
    BY <1>18 DEF CleanChild, Typed
  <2>5. \A q \in Procs : Live(q)' \/ Blank(q)' \/ Still(q)
    BY <2>1, <2>2, <2>3, <2>4 DEF Live, Still
  <2>6. \A q, e \in Procs : e \in Range(list'[q]) => e \in Range(list[q])
    BY <2>3
  <2>7. \A q \in Children : phase'[q] \in MotherPhases => phase'[q] = phase[q]
    BY <2>2, ConstantTypes DEF MotherPhases, HandingOff
  <2>. QED  BY <1>0, <2>1, <2>4, <2>5, <2>6, <2>7, ConstantTypes, HoldingStep
<1>19. ASSUME CleanMother
       PROVE  Holding'
  <2>1. /\ phase' = [phase EXCEPT ![Mother] = "select"] /\ list' = Kept(Mother) /\ todo' = todo
        /\ channel' = channel /\ slot' = slot
    BY <1>19 DEF CleanMother, childs
  <2>2. /\ phase'[Mother] = "select" /\ \A q \in Procs : q # Mother => phase'[q] = phase[q]
    BY <2>1, ConstantTypes DEF Typed
  <2>3. /\ Range(list'[Mother]) \subseteq Range(list[Mother])
        /\ \A q \in Procs : q # Mother => list'[q] = list[q]
    BY <2>1, KeptMoves, ConstantTypes
  <2>4. /\ \A q \in Procs : q # Mother => closing'[q] = closing[q]
        /\ closing'[Mother] \subseteq {rec[k].r : k \in MarkedChildren}
    BY <1>19, ConstantTypes DEF CleanMother, Typed
  <2>5. \A k \in MarkedChildren : phase[rec[k].r] = "dead" /\ rec[k].r \in Procs
    BY <1>19, CleanMotherRecords, ConstantTypes DEF Forked
  <2>6. \A q \in Procs : Live(q)' \/ Blank(q)' \/ Still(q)
    BY <2>1, <2>2, <2>3, <2>4 DEF Live, Still
  <2>7. \A q, e \in Procs : e \in Range(list'[q]) => e \in Range(list[q])
    BY <2>3
  <2>8. \A e \in Procs : e \in closing'[Mother] => phase'[e] = "dead"
    BY <1>0, <2>4, <2>5 DEF GoOn
  <2>9. \A q \in Children : phase'[q] \in MotherPhases => phase'[q] = phase[q]
    BY <2>2, ConstantTypes
  <2>. QED  BY <1>0, <2>1, <2>6, <2>7, <2>8, <2>9, HoldingStep
<1>. QED
  BY NextSteps, <1>2, <1>3, <1>4, <1>5, <1>6, <1>7, <1>8, <1>9, <1>10, <1>11, <1>12, <1>13, <1>14,
     <1>15, <1>16, <1>17, <1>18, <1>19, <1>20, <1>21, <1>22, <1>23 DEF Steps

-----------------------------------------------------------------------------
(* Where connections are.                                                    *)
Unmoved == \A x \in Conns : link'[x].want = link[x].want /\ link'[x].shut = link[x].shut

LEMMA PlacedFrame ==
  ASSUME Placed, Unmoved, UNCHANGED <<queue, list, channel>>, Sent' = Sent
  PROVE  Placed'
<1>1. \A x \in Conns : Stays(x) \/ OnePlace(x)'
  BY DEF Unmoved, Stays, Same, InQueue, InList, InChannel
<1>2. NoneTwice'
  BY DEF Placed, NoneTwice
<1>. QED  BY <1>1, <1>2, OthersStay

(* The steps of a connection that neither open nor close it.                 *)
LEMMA StepsUnmoved ==
  ASSUME Typed, NEW x \in Conns,
         \/ link' = link
         \/ link' = Answer(link, x)
         \/ \E i \in Inputs : link' = [link EXCEPT ![x].input = i]
         \/ \E i \in Inputs : link' = [link EXCEPT ![x].input = i, ![x].waiting = TRUE]
         \/ \E i \in Inputs : link' = [link EXCEPT ![x].gone = TRUE, ![x].waiting = FALSE, ![x].input = i]
         \/ link' = [link EXCEPT ![x].input = "none", ![x].waiting = FALSE, ![x].selected = TRUE]
         \/ link' = [link EXCEPT ![x].input = "none", ![x].out = TRUE]
         \/ link' = [link EXCEPT ![x].out = FALSE, ![x].waiting = FALSE]
  PROVE  Unmoved
<1>. SUFFICES ASSUME NEW y \in Conns
              PROVE  link'[y].want = link[y].want /\ link'[y].shut = link[y].shut
  BY DEF Unmoved
<1>1. link[y] \in Links /\ DOMAIN link = Conns
  BY DEF Typed
<1>2. ASSUME NEW l \in Links, NEW i, NEW b, NEW c
      PROVE  LET Alike(m) == m.want = l.want /\ m.shut = l.shut
             IN  /\ Alike([l EXCEPT !.input = i]) /\ Alike([l EXCEPT !.input = i, !.waiting = b])
                 /\ Alike([l EXCEPT !.gone = b, !.waiting = c, !.input = i])
                 /\ Alike([l EXCEPT !.input = i, !.waiting = b, !.selected = c])
                 /\ Alike([l EXCEPT !.input = i, !.out = b])
                 /\ Alike([l EXCEPT !.out = b, !.waiting = c])
  BY DEF Links
<1>3. CASE link' = link
  BY <1>3
<1>4. CASE link' = Answer(link, x)
  BY <1>1, <1>2, <1>4 DEF Answer
<1>5. CASE \E i \in Inputs : link' = [link EXCEPT ![x].input = i]
  <2>1. PICK i \in Inputs : link' = [link EXCEPT ![x].input = i]
    BY <1>5
  <2>. QED  BY <1>1, <2>1 DEF Links
<1>6. CASE \E i \in Inputs : link' = [link EXCEPT ![x].input = i, ![x].waiting = TRUE]
  <2>1. PICK i \in Inputs : link' = [link EXCEPT ![x].input = i, ![x].waiting = TRUE]
    BY <1>6
  <2>. QED  BY <1>1, <2>1 DEF Links
<1>7. CASE \E i \in Inputs : link' = [link EXCEPT ![x].gone = TRUE, ![x].waiting = FALSE, ![x].input = i]
  <2>1. PICK i \in Inputs : link' = [link EXCEPT ![x].gone = TRUE, ![x].waiting = FALSE, ![x].input = i]
    BY <1>7
  <2>. QED  BY <1>1, <2>1 DEF Links
<1>8. CASE link' = [link EXCEPT ![x].input = "none", ![x].waiting = FALSE, ![x].selected = TRUE]
  BY <1>1, <1>2, <1>8
<1>9. CASE link' = [link EXCEPT ![x].input = "none", ![x].out = TRUE]
  BY <1>1, <1>2, <1>9
<1>10. CASE link' = [link EXCEPT ![x].out = FALSE, ![x].waiting = FALSE]
  BY <1>1, <1>2, <1>10
<1>. QED  BY <1>3, <1>4, <1>5, <1>6, <1>7, <1>8, <1>9, <1>10

LEMMA GoneMembers ==
  ASSUME NEW S, link \in [Conns -> Links], link' = Gone(link, S)
  PROVE  \A x \in Conns : /\ link'[x].want = link[x].want
                          /\ x \in S => link'[x].shut
                          /\ x \notin S => link'[x] = link[x]
<1>1. ASSUME NEW l \in Links
      PROVE  LET m == [l EXCEPT !.shut = TRUE, !.waiting = FALSE, !.out = FALSE, !.input = "none"]
             IN  m.want = l.want /\ m.shut
  BY DEF Links
<1>. QED  BY <1>1 DEF Gone

(* A set of connections is closed, and leaves where it was.                  *)
LEMMA PlacedGone ==
  ASSUME Typed, Placed, NEW S, link' = Gone(link, S), NoneTwice',
         \A x \in Conns : x \notin S => Same(x) \/ OnePlace(x)',
         \A x \in Conns : x \in S =>
            /\ x \notin Sent' /\ ~InQueue(x)'
            /\ \A p \in Procs : ~InList(x, p)' /\ ~InChannel(x, p)'
  PROVE  Placed'
<1>1. \A x \in Conns : (x \in S => link'[x].shut) /\ (x \notin S => link'[x] = link[x])
  BY GoneMembers DEF Typed
<1>2. \A x \in Conns : x \notin S => Stays(x) \/ OnePlace(x)'
  BY <1>1 DEF Stays
<1>3. \A x \in Conns : x \in S => OnePlace(x)'
  BY <1>1, Nowhere
<1>4. \A x \in Conns : Stays(x) \/ OnePlace(x)'
  BY <1>2, <1>3
<1>. QED  BY <1>4, OthersStay

(* A process holds a connection alone, but for the one in hand: the mother   *)
(* has it still, and perhaps a child has it already.                         *)
LEMMA HeldMembers ==
  ASSUME NEW p \in Procs, NEW x \in Conns
  PROVE  x \in Held(p) <=> x \in Range(list[p]) \/ InChannel(x, p) \/ (p = Mother /\ InQueue(x))
BY DEF Held, InChannel, InQueue

LEMMA OnlyInMembers ==
  ASSUME Typed, Placed, Handing, NEW p \in Procs, NEW S, S \subseteq Held(p)
  PROVE  /\ \A x \in Conns : x \notin Sent => (x \in OnlyIn(p, S) <=> x \in S)
         /\ \A x \in Conns : x \in Sent =>
              /\ link[x].want # None /\ ~link[x].shut /\ ~InQueue(x) /\ x \in Range(list[Mother])
              /\ p # Mother => x \notin OnlyIn(p, S)
              /\ p = Mother => (x \in OnlyIn(p, S) <=>
                   x \in S /\ \A q \in Procs : ~InList(x, q) /\ ~InChannel(x, q))
<1>1. \A x : x \in OnlyIn(p, S) <=> x \in S /\ \A q \in Procs \ {p} : x \notin Held(q)
  BY DEF OnlyIn
<1>2. ASSUME NEW x \in Conns, x \notin Sent
      PROVE  x \in OnlyIn(p, S) <=> x \in S
  <2>1. \A q \in Procs : x \in Held(q) <=> InList(x, q) \/ InChannel(x, q) \/ (q = Mother /\ InQueue(x))
    BY <1>2, HeldMembers DEF InList
  <2>2. x \in Held(p) => \A q \in Procs \ {p} : x \notin Held(q)
    BY <2>1, ConstantTypes DEF Placed, OnePlace
  <2>. QED  BY <1>1, <2>2
<1>3. ASSUME NEW x \in Conns, x \in Sent
      PROVE  /\ link[x].want # None /\ ~link[x].shut /\ ~InQueue(x) /\ x \in Range(list[Mother])
             /\ p # Mother => x \notin OnlyIn(p, S)
             /\ p = Mother => (x \in OnlyIn(p, S) <=>
                   x \in S /\ \A q \in Procs : ~InList(x, q) /\ ~InChannel(x, q))
  <2>1. x \in Range(list[Mother])
    BY <1>3 DEF Sent, Handing, HandingOff
  <2>2. link[x].want # None /\ ~link[x].shut /\ ~InQueue(x) /\ ~InChannel(x, Mother)
    BY <1>3 DEF Placed, OnePlace, NoneTwice, InChannel
  <2>3. x \in Held(Mother)
    BY <2>1, HeldMembers, ConstantTypes
  <2>4. p # Mother => x \notin OnlyIn(p, S)
    BY <1>1, <2>3, ConstantTypes
  <2>5. \A q \in Procs \ {Mother} : x \in Held(q) <=> InList(x, q) \/ InChannel(x, q)
    BY HeldMembers DEF InList
  <2>6. ~InList(x, Mother)
    BY <1>3 DEF InList
  <2>7. p = Mother => (x \in OnlyIn(p, S) <=>
                   x \in S /\ \A q \in Procs : ~InList(x, q) /\ ~InChannel(x, q))
    BY <1>1, <2>2, <2>5, <2>6
  <2>. QED  BY <2>1, <2>2, <2>4, <2>7
<1>. QED  BY <1>2, <1>3

(* A connection goes from a child that is not alone with it.                 *)
LEMMA SentOnePlace ==
  ASSUME Placed, NEW x \in Conns, x \in Sent, x \in Sent', link'[x] = link[x], ~InQueue(x)',
         \A q \in Procs : (InList(x, q)' => InList(x, q)) /\ (InChannel(x, q)' => InChannel(x, q))
  PROVE  OnePlace(x)'
BY DEF Placed, OnePlace

(* One connection leaves the place it has with a child, and is closed there. *)
LEMMA PlacedDrop ==
  ASSUME Typed, Placed, Handing, NEW p \in Procs, NEW S,
         link' = Gone(link, OnlyIn(p, S)), NoneTwice', Sent' = Sent, S \subseteq Held(p), S \subseteq Conns,
         p = Mother => Sent = {},
         \A y \in Conns : y \notin S => Same(y),
         \A y \in Conns : y \in S => /\ ~InQueue(y)'
            /\ \A q \in Procs : ~InList(y, q)' /\ ~InChannel(y, q)'
  PROVE  Placed'
<1> DEFINE G == OnlyIn(p, S)
<1>1. /\ \A y \in Conns : y \notin Sent => (y \in G <=> y \in S)
      /\ \A y \in Conns : y \in Sent => /\ ~InQueue(y) /\ y \notin G
  BY OnlyInMembers
<1>2. link' = Gone(link, G)
  OBVIOUS
<1>. HIDE DEF G
<1>3. \A y \in Conns : y \notin G => link'[y] = link[y]
  BY <1>2, GoneMembers DEF Typed
<1>4. \A y \in Conns : y \notin G => Same(y) \/ OnePlace(y)'
  <2>. SUFFICES ASSUME NEW y \in Conns, y \notin G, y \in S PROVE OnePlace(y)'
    OBVIOUS
  <2>1. y \in Sent /\ y \in Sent'
    BY <1>1
  <2>. QED  BY <1>3, <2>1, SentOnePlace
<1>5. \A y \in Conns : y \in G => y \notin Sent' /\ y \in S
  BY <1>1
<1>. QED  BY <1>2, <1>4, <1>5, PlacedGone

(* The second message goes out.                                              *)
LEMMA PlacedSendSocket ==
  ASSUME Typed, Placed, Handing, Recorded, SendSocket
  PROVE  Placed'
<1>0. /\ link' = link /\ queue' = queue /\ list' = list /\ todo' = todo
      /\ phase' = [phase EXCEPT ![Mother] = IF NeverSent THEN "spin" ELSE "passed"]
      /\ phase[Mother] = "sent"
  BY DEF SendSocket
<1>1. CASE NeverSent
  <2>1. channel' = channel
    BY <1>1 DEF SendSocket
  <2>2. phase'[Mother] = "spin"
    BY <1>0, <1>1, ConstantTypes DEF Typed
  <2>3. Sent' = Sent
    BY <1>0, <2>2, SentStays
  <2>. QED  BY <1>0, <2>1, <2>3, PlacedFrame DEF Unmoved
<1>2. CASE ~NeverSent
  <2>8. InHand \in Conns /\ Receiver \in Children
    BY <1>2, SendSocketMoves
  <2>9. PICK x \in Conns, r \in Children : x = InHand /\ r = Receiver
    BY <2>8
  <2>1. /\ InList(x, Mother)
        /\ Range(channel'[r]) = Range(channel[r]) \cup {x} /\ IsInjective(channel'[r])
        /\ \A q \in Procs : q # r => channel'[q] = channel[q]
        /\ Sent = {} /\ Sent' = {x}
    BY <1>2, <2>9, SendSocketMoves
  <2>2. NoneTwice'
    BY <1>0, <2>1, ConstantTypes DEF Placed, NoneTwice
  <2>3. \A y \in Conns : y # x => Stays(y)
    BY <1>0, <2>1 DEF Stays, Same, InQueue, InList, InChannel
  <2>4. /\ ~InQueue(x)' /\ \A q \in Procs : ~InList(x, q)' /\ (InChannel(x, q)' <=> q = r)
    BY <1>0, <2>1, ConstantTypes DEF Placed, OnePlace, InQueue, InList, InChannel
  <2>5. link[x].want # None /\ ~link[x].shut
    BY <2>1, ConstantTypes DEF Placed, OnePlace
  <2>6. OnePlace(x)'
    BY <1>0, <2>1, <2>4, <2>5, ConstantTypes DEF OnePlace
  <2>7. \A y \in Conns : Stays(y) \/ OnePlace(y)'
    BY <2>3, <2>6
  <2>. QED  BY <2>2, <2>7, OthersStay
<1>. QED  BY <1>1, <1>2

(* The mother forgets the connection, which closes if the child is not there *)
(* to have it.                                                               *)
LEMMA PlacedForget ==
  ASSUME Typed, Placed, Handing, Forget
  PROVE  Placed'
<1>0. InHand \in Conns
  BY ForgetMoves
<1>13. PICK x \in Conns : x = InHand
  BY <1>0
<1> DEFINE S == {x}
           G == OnlyIn(Mother, S)
<1>1. /\ Sent = {x} /\ Sent' = {} /\ x \in Range(list[Mother])
      /\ Range(list'[Mother]) = Range(list[Mother]) \ {x} /\ IsInjective(list'[Mother])
      /\ \A q \in Procs : q # Mother => list'[q] = list[q]
  BY <1>13, ForgetMoves
<1>2. link' = Gone(link, G) /\ queue' = queue /\ channel' = channel
  BY <1>13 DEF Forget
<1>3. S \subseteq Held(Mother)
  BY <1>1, HeldMembers, ConstantTypes
<1>. HIDE DEF S
<1>4. /\ \A y \in Conns : y \notin Sent => (y \in G <=> y \in S)
      /\ \A y \in Conns : y \in Sent =>
           /\ link[y].want # None /\ ~link[y].shut /\ ~InQueue(y)
           /\ y \in G <=> y \in S /\ \A q \in Procs : ~InList(y, q) /\ ~InChannel(y, q)
  BY <1>3, OnlyInMembers, ConstantTypes
<1>. HIDE DEF G
<1>5. \A y \in Conns : y \notin G => link'[y] = link[y]
  BY <1>2, GoneMembers DEF Typed
<1>6. NoneTwice'
  BY <1>1, <1>2 DEF Placed, NoneTwice
<1>7. \A q \in Procs : (InList(x, q)' <=> InList(x, q)) /\ (InChannel(x, q)' <=> InChannel(x, q))
  BY <1>1, <1>2 DEF InList, InChannel
<1>8. ~InQueue(x)'
  BY <1>1, <1>2, <1>4 DEF InQueue
<1>9. \A y \in Conns : y # x => Same(y) /\ y \notin G
  BY <1>1, <1>2, <1>4 DEF Same, InQueue, InList, InChannel, S
<1>10. x \notin G => OnePlace(x)'
  <2>. SUFFICES ASSUME x \notin G PROVE OnePlace(x)'
    OBVIOUS
  <2>1. \E q \in Procs : InList(x, q) \/ InChannel(x, q)
    BY <1>1, <1>4 DEF S
  <2>2. link'[x].want # None /\ ~link'[x].shut
    BY <1>1, <1>4, <1>5
  <2>. QED  BY <1>1, <1>7, <1>8, <2>1, <2>2 DEF Placed, OnePlace
<1>11. \A y \in Conns : y \notin G => Same(y) \/ OnePlace(y)'
  BY <1>9, <1>10
<1>12. \A y \in Conns : y \in G => /\ y \notin Sent' /\ ~InQueue(y)'
                                 /\ \A p \in Procs : ~InList(y, p)' /\ ~InChannel(y, p)'
  BY <1>1, <1>4, <1>7, <1>8, <1>9
<1>. QED  BY <1>2, <1>6, <1>11, <1>12, PlacedGone

LEMMA PlacedEnds ==
  ASSUME Typed, Placed, Handing, NEW p \in Procs, Ends(p),
         queue' = IF p = Mother THEN <<>> ELSE queue
  PROVE  Placed'
<1> DEFINE S == Held(p)
           G == OnlyIn(p, S)
<1>1. /\ Range(list'[p]) = {} /\ IsInjective(list'[p]) /\ Range(channel'[p]) = {} /\ IsInjective(channel'[p])
      /\ \A q \in Procs : q # p => list'[q] = list[q] /\ channel'[q] = channel[q]
  BY EndsMoves
<1>2. link' = Gone(link, G)
  BY DEF Ends
<1>3. NoneTwice'
  BY <1>1, EmptyMembers, ConstantTypes DEF Placed, NoneTwice
<1>4. \A x \in Conns :
         x \in S <=> x \in Range(list[p]) \/ InChannel(x, p) \/ (p = Mother /\ InQueue(x))
  BY HeldMembers
<1>5. Range(queue') = IF p = Mother THEN {} ELSE Range(queue)
  BY EmptyMembers
<1>6. Sent' = IF p = Mother THEN {} ELSE Sent
  BY EndsSent
<1>7. /\ \A x \in Conns : x \notin Sent => (x \in G <=> x \in S)
      /\ \A x \in Conns : x \in Sent =>
              /\ link[x].want # None /\ ~link[x].shut /\ ~InQueue(x) /\ x \in Range(list[Mother])
              /\ p # Mother => x \notin G
              /\ p = Mother => (x \in G <=>
                   x \in S /\ \A q \in Procs : ~InList(x, q) /\ ~InChannel(x, q))
  BY OnlyInMembers
<1>. HIDE DEF S, G
<1>8. \A x \in Conns : x \notin G => link'[x] = link[x]
  BY <1>2, GoneMembers DEF Typed
<1>9. \A x \in Conns : x \in S /\ x \notin Sent =>
         ~InQueue(x)' /\ \A q \in Procs : ~InList(x, q)' /\ ~InChannel(x, q)'
  <2>. SUFFICES ASSUME NEW x \in Conns, x \in S, x \notin Sent, NEW q \in Procs
                PROVE  ~InQueue(x)' /\ ~InList(x, q)' /\ ~InChannel(x, q)'
    BY ConstantTypes
  <2>0. InList(x, p) \/ InChannel(x, p) \/ (p = Mother /\ InQueue(x))
    BY <1>4 DEF InList
  <2>1. CASE q = p
    BY <1>1, <1>5, <2>0, <2>1, ConstantTypes DEF Placed, OnePlace, InList, InChannel, InQueue
  <2>2. CASE q # p
    <3>1. ~InList(x, q) /\ ~InChannel(x, q) /\ (p # Mother => ~InQueue(x))
      BY <2>0, <2>2, ConstantTypes DEF Placed, OnePlace
    <3>2. x \notin Range(list[q])
      BY <3>1 DEF InList
    <3>. QED  BY <1>1, <1>5, <2>2, <3>1, <3>2 DEF InList, InChannel, InQueue
  <2>. QED  BY <2>1, <2>2
<1>10. ASSUME NEW x \in Conns, x \in Sent, x \notin G
       PROVE  OnePlace(x)'
  <2>1. link'[x] = link[x] /\ link[x].want # None /\ ~link[x].shut /\ ~InQueue(x)'
    BY <1>5, <1>7, <1>8, <1>10 DEF InQueue
  <2>2. CASE p # Mother
    <3>1. \A q \in Procs : (InList(x, q)' => InList(x, q)) /\ (InChannel(x, q)' => InChannel(x, q))
      BY <1>1, <1>6, <2>2 DEF InList, InChannel
    <3>. QED  BY <1>6, <1>10, <2>1, <2>2, <3>1, SentOnePlace
  <2>3. CASE p = Mother
    <3>1. ~InList(x, Mother) /\ ~InChannel(x, Mother)
      BY <1>10 DEF InList, InChannel, Placed, NoneTwice
    <3>2. \A q \in Procs : (InList(x, q)' <=> InList(x, q)) /\ (InChannel(x, q)' <=> InChannel(x, q))
      BY <1>1, <2>3, <3>1 DEF InList, InChannel
    <3>3. \E q \in Procs : InList(x, q) \/ InChannel(x, q)
      BY <1>4, <1>7, <1>10, <2>3
    <3>. QED  BY <1>6, <2>1, <2>3, <3>2, <3>3 DEF Placed, OnePlace
  <2>. QED  BY <2>2, <2>3
<1>11. ASSUME NEW x \in Conns, x \notin Sent, x \notin G
       PROVE  Same(x)
  <2>1. x \notin S
    BY <1>7, <1>11
  <2>2. x \notin Range(list[p]) /\ x \notin Range(channel[p]) /\ (p = Mother => x \notin Range(queue))
    BY <1>4, <2>1 DEF InChannel, InQueue
  <2>3. \A q \in Procs : (x \in Range(list'[q]) <=> x \in Range(list[q]))
                         /\ (x \in Range(channel'[q]) <=> x \in Range(channel[q]))
    BY <1>1, <2>2
  <2>4. x \in Range(queue') <=> x \in Range(queue)
    BY <1>5, <2>2
  <2>5. x \notin Sent'
    BY <1>6, <1>11
  <2>. QED  BY <1>11, <2>3, <2>4, <2>5 DEF Same, InList, InChannel, InQueue
<1>12. ASSUME NEW x \in Conns, x \in G
       PROVE  /\ x \notin Sent' /\ ~InQueue(x)'
              /\ \A q \in Procs : ~InList(x, q)' /\ ~InChannel(x, q)'
  <2>1. CASE x \notin Sent
    BY <1>6, <1>7, <1>9, <1>12, <2>1
  <2>2. CASE x \in Sent
    <3>1. p = Mother /\ ~InQueue(x) /\ \A q \in Procs : ~InList(x, q) /\ ~InChannel(x, q)
      BY <1>7, <1>12, <2>2
    <3>. QED  BY <1>1, <1>5, <1>6, <3>1, EmptyMembers DEF InList, InChannel, InQueue
  <2>. QED  BY <2>1, <2>2
<1>. QED  BY <1>2, <1>3, <1>10, <1>11, <1>12, PlacedGone

LEMMA PlacedClean ==
  ASSUME Typed, Placed, Handing, NEW p \in Procs, list' = Kept(p), queue' = queue, channel' = channel,
         Sent' = Sent, p = Mother => Sent = {},
         link' = Gone(link, OnlyIn(p, Zapped(p) \cap Conns))
           \/ (p = Mother /\ link' = Gone(link, Zapped(p) \cap Conns))
  PROVE  Placed'
<1> DEFINE S == Zapped(p) \cap Conns
<1>1. /\ Range(list'[p]) = Range(list[p]) \ closing[p] /\ IsInjective(list'[p])
      /\ \A q \in Procs : q # p => list'[q] = list[q]
  BY KeptMoves
<1>2. NoneTwice'
  BY <1>1 DEF Placed, NoneTwice
<1>3. \A x \in Conns : x \in S <=> x \in Range(list[p]) /\ x \in closing[p]
  BY DEF Zapped
<1>4. S \subseteq Conns /\ S \subseteq Held(p)
  BY DEF Zapped, Held
<1>0. link' = Gone(link, OnlyIn(p, S)) \/ (p = Mother /\ link' = Gone(link, S))
  OBVIOUS
<1>. HIDE DEF S
<1>5. \A x \in Conns : x \notin S => Same(x)
  BY <1>1, <1>3 DEF Same, InList, InChannel, InQueue
<1>6. \A x \in Conns : x \in S =>
         ~InQueue(x)' /\ \A q \in Procs : ~InList(x, q)' /\ ~InChannel(x, q)'
  <2>. SUFFICES ASSUME NEW x \in Conns, x \in S
                PROVE  ~InQueue(x)' /\ \A q \in Procs : ~InList(x, q)' /\ ~InChannel(x, q)'
    OBVIOUS
  <2>1. InList(x, p)
    BY <1>3 DEF InList
  <2>2. ~InQueue(x) /\ \A q \in Procs : (q # p => ~InList(x, q)) /\ ~InChannel(x, q)
    BY <2>1 DEF Placed, OnePlace
  <2>3. x \notin Range(list'[p])
    BY <1>1, <1>3
  <2>. QED  BY <1>1, <2>2, <2>3 DEF InList, InChannel, InQueue
<1>7. CASE link' = Gone(link, OnlyIn(p, S))
  BY <1>2, <1>4, <1>5, <1>6, <1>7, PlacedDrop
<1>8. CASE p = Mother /\ link' = Gone(link, S)
  <2>1. \A x \in Conns : x \notin Sent'
    BY <1>8
  <2>. QED  BY <1>2, <1>5, <1>6, <1>8, <2>1, PlacedGone
<1>. QED  BY <1>0, <1>7, <1>8

LEMMA PlacedNext ==
  ASSUME Typed, Placed, Holding, Handing, Recorded, Next
  PROVE  Placed'
<1>0. GoOn
  BY StepsGoOn
<1>1. ASSUME Unmoved, UNCHANGED <<queue, list, channel>>, Sent' = Sent
      PROVE  Placed'
  BY <1>1, PlacedFrame
<1>2. ASSUME NEW x \in Conns, NEW d \in Databases, Open(x, d)
      PROVE  Placed'
  <2>1. /\ link[x] = Unused /\ queue' = Append(queue, x) /\ list' = list /\ channel' = channel
        /\ Sent' = Sent
        /\ link' = [link EXCEPT ![x].want = d, ![x].input = "init", ![x].waiting = TRUE]
    BY <1>2, SentStays DEF Open
  <2>2. link[x].want = None /\ ~link[x].shut
    BY <2>1 DEF Unused
  <2>3. x \notin Sent /\ ~InQueue(x) /\ \A p \in Procs : ~InList(x, p) /\ ~InChannel(x, p)
    BY <2>2 DEF Placed, OnePlace
  <2>4. Range(queue') = Range(queue) \cup {x} /\ IsInjective(queue')
    BY <2>1, <2>3, AppendMembers DEF Typed, Placed, NoneTwice, InQueue
  <2>5. link'[x].want = d /\ link'[x].shut = link[x].shut /\ \A y \in Conns : y # x => link'[y] = link[y]
    BY <2>1 DEF Typed, Links
  <2>6. NoneTwice'
    BY <2>1, <2>4 DEF Placed, NoneTwice
  <2>7. \A y \in Conns : y # x => Stays(y)
    BY <2>1, <2>4, <2>5 DEF Stays, Same, InQueue, InList, InChannel
  <2>8. OnePlace(x)'
    BY <2>1, <2>2, <2>3, <2>4, <2>5, ConstantTypes DEF OnePlace, InQueue, InList, InChannel
  <2>20. \A y \in Conns : Stays(y) \/ OnePlace(y)'
    BY <2>6, <2>7, <2>8
  <2>. QED  BY <2>6, <2>7, <2>8, <2>20, OthersStay
<1>3. ASSUME NEW x \in Conns, \E what \in {"request", "close", "drop"} : Ask(x, what)
      PROVE  Placed'
  <2>1. UNCHANGED <<queue, list, channel>> /\ Sent' = Sent
    BY <1>3, SentStays DEF Ask
  <2>2. \E i \in Inputs : link' = [link EXCEPT ![x].input = i, ![x].waiting = TRUE]
    BY <1>3 DEF Ask, Inputs
  <2>. QED  BY <1>1, <2>1, <2>2, StepsUnmoved
<1>4. ASSUME NEW x \in Conns, Leave(x)
      PROVE  Placed'
  <2>1. UNCHANGED <<queue, list, channel>> /\ Sent' = Sent
    BY <1>4, SentStays DEF Leave
  <2>2. link[x].input \in Inputs /\ "none" \in Inputs
    BY DEF Typed, Links, Inputs
  <2>3. \E i \in Inputs : link' = [link EXCEPT ![x].gone = TRUE, ![x].waiting = FALSE, ![x].input = i]
    BY <1>4, <2>2 DEF Leave
  <2>. QED  BY <1>1, <2>1, <2>3, StepsUnmoved
<1>5. ASSUME NEW p \in Procs, Select(p)
      PROVE  Placed'
  <2>1. channel' = channel /\ Sent' = Sent
    <3>1. phase[p] = "select" /\ phase'[p] = "serve"
      BY <1>5 DEF Select, Typed
    <3>2. \A q \in Procs : q # p => phase'[q] = phase[q] /\ todo'[q] = todo[q]
      BY <1>5 DEF Select, Typed
    <3>. QED  BY <1>5, <3>1, <3>2, ActorSent DEF Select
  <2>2. CASE p = Mother /\ queue # <<>>
    <3>1. Accept
      BY <1>5, <2>2 DEF Select
    <3>7. Head(queue) \in Conns
      BY <2>2, <3>1, AcceptMoves
    <3>8. PICK x \in Conns : x = Head(queue)
      BY <3>7
    <3>2. /\ x \in Conns /\ InQueue(x)
          /\ Range(queue') = Range(queue) \ {x} /\ IsInjective(queue')
          /\ \/ link' = [link EXCEPT ![x].shut = TRUE, ![x].waiting = FALSE] /\ list' = list
             \/ /\ link' = link
                /\ Range(list'[Mother]) = Range(list[Mother]) \cup {x}
                /\ IsInjective(list'[Mother])
                /\ \A q \in Procs : q # Mother => list'[q] = list[q]
      BY <2>2, <3>1, <3>8, AcceptMoves
    <3>3. NoneTwice'
      BY <2>1, <3>2 DEF Placed, NoneTwice
    <3>4. /\ x \notin Sent /\ ~InQueue(x)' /\ x \notin Range(list[Mother])
          /\ \A q \in Procs : ~InList(x, q) /\ ~InChannel(x, q)
      BY <3>2, ConstantTypes DEF Placed, OnePlace, InQueue, InList
    <3>5. CASE link' = [link EXCEPT ![x].shut = TRUE, ![x].waiting = FALSE] /\ list' = list
      <4>1. link'[x].shut /\ \A y \in Conns : y # x => link'[y] = link[y]
        BY <3>2, <3>5 DEF Typed, Links
      <4>2. \A y \in Conns : y # x => Stays(y)
        BY <2>1, <3>2, <3>5, <4>1 DEF Stays, Same, InQueue, InList, InChannel
      <4>3. OnePlace(x)'
        BY <2>1, <3>4, <3>5, <4>1 DEF OnePlace, InQueue, InList, InChannel
      <4>20. \A y \in Conns : Stays(y) \/ OnePlace(y)'
        BY <3>3, <4>2, <4>3
      <4>. QED  BY <3>3, <4>2, <4>3, <4>20, OthersStay
    <3>6. CASE /\ link' = link
               /\ Range(list'[Mother]) = Range(list[Mother]) \cup {x}
               /\ IsInjective(list'[Mother])
               /\ \A q \in Procs : q # Mother => list'[q] = list[q]
      <4>1. \A y \in Conns : y # x => Stays(y)
        BY <2>1, <3>2, <3>6 DEF Stays, Same, InQueue, InList, InChannel
      <4>2. link[x].want # None /\ ~link[x].shut
        BY <3>2 DEF Placed, OnePlace
      <4>3. \A q \in Procs : (InList(x, q)' <=> q = Mother) /\ ~InChannel(x, q)'
        BY <2>1, <3>4, <3>6 DEF InList, InChannel
      <4>4. OnePlace(x)'
        BY <2>1, <3>4, <3>6, <4>2, <4>3, ConstantTypes DEF OnePlace
      <4>20. \A y \in Conns : Stays(y) \/ OnePlace(y)'
        BY <3>3, <4>1, <4>4
      <4>. QED  BY <3>3, <4>1, <4>4, <4>20, OthersStay
    <3>. QED  BY <3>2, <3>5, <3>6
  <2>3. CASE ~(p = Mother /\ queue # <<>>)
    <3>1. UNCHANGED <<link, queue, list>>
      BY <1>5, <2>3 DEF Select, Accept
    <3>. QED  BY <1>1, <2>1, <3>1 DEF Unmoved
  <2>. QED  BY <2>2, <2>3
<1>6. ASSUME NEW p \in Procs, TimeOut(p) \/ Skip(p) \/ \E e \in Conns \cup Children : Eof(p, e)
      PROVE  Placed'
  <2>1. UNCHANGED <<link, queue, list, channel>>
    BY <1>6 DEF TimeOut, Skip, Eof
  <2>2. Sent' = Sent
    <3>1. CASE TimeOut(p)
      <4>1. phase'[Mother] = phase[Mother] /\ todo' = todo
        BY <3>1, ConstantTypes DEF TimeOut, Typed
      <4>. QED  BY <4>1, SentStays
    <3>2. CASE Skip(p) \/ \E e \in Conns \cup Children : Eof(p, e)
      BY <3>2, TurnSent DEF Skip, Eof, Turn
    <3>. QED  BY <1>6, <3>1, <3>2
  <2>. QED  BY <1>1, <2>1, <2>2 DEF Unmoved
<1>7. ASSUME NEW k \in Recs, Childied(k)
      PROVE  Placed'
  <2>1. UNCHANGED <<link, queue, list, channel>> /\ Sent' = Sent
    BY <1>7, SentStays DEF Childied
  <2>. QED  BY <1>1, <2>1 DEF Unmoved
<1>8. ASSUME NEW p \in Procs, MumLost(p) \/ Stop(p) \/ Die(p)
      PROVE  Placed'
  <2>1. queue' = IF p = Mother THEN <<>> ELSE queue
    BY <1>8 DEF MumLost, Turn, Stop, Die
  <2>. QED  BY <1>8, <2>1, PlacedEnds DEF MumLost, Stop, Die
<1>9. ASSUME NEW x \in Conns, PassOn(x) \/ Assign(x)
      PROVE  Placed'
  <2>1. /\ UNCHANGED <<queue, list, channel>> /\ link' = [link EXCEPT ![x].input = "none"]
        /\ phase' = [phase EXCEPT ![Mother] = "handoff"] /\ phase[Mother] = "serve"
    BY <1>9 DEF PassOn, Assign, Begin, Unknown, Allowed, Asked, Turn
  <2>2. Unmoved
    BY <2>1, StepsUnmoved DEF Inputs
  <2>3. phase'[Mother] = "handoff"
    BY <2>1, ConstantTypes DEF Typed
  <2>. QED  BY <1>1, <2>1, <2>2, <2>3, SentStays
<1>10. ASSUME SendNotice
       PROVE  Placed'
  <2>1. /\ UNCHANGED <<link, queue, list, channel>> /\ phase[Mother] = "handoff"
        /\ phase' = [phase EXCEPT ![Mother] = IF NeverSent THEN "spin" ELSE "sent"]
    BY <1>10 DEF SendNotice
  <2>2. phase'[Mother] # "passed"
    BY <2>1, ConstantTypes DEF Typed
  <2>. QED  BY <1>1, <2>1, <2>2, SentStays DEF Unmoved
<1>11. ASSUME NEW x \in Conns, NEW p \in Children, NEW k \in Recs, Fork(x, p, k)
       PROVE  Placed'
  <2>1. /\ Asked(x) /\ link' = [link EXCEPT ![x].input = "none"]
        /\ Range(list'[Mother]) = Range(list[Mother]) \cup {p} /\ IsInjective(list'[Mother])
        /\ Range(list'[p]) = {Mother} /\ IsInjective(list'[p])
        /\ \A q \in Procs : q # Mother /\ q # p => list'[q] = list[q]
        /\ Range(list[p]) = {} /\ phase'[Mother] = "handoff"
    BY <1>11, ForkMoves
  <2>2. queue' = queue /\ channel' = channel
    BY <1>11 DEF Fork
  <2>3. Unmoved
    BY <2>1, StepsUnmoved DEF Inputs
  <2>4. NoneTwice'
    BY <2>1, <2>2 DEF Placed, NoneTwice
  <2>5. \A y \in Conns : y # Mother /\ y # p
    BY ConstantTypes
  <2>6. Sent' = Sent
    <3>1. phase[Mother] = "serve"
      BY <2>1 DEF Asked, Turn
    <3>. QED  BY <2>1, <3>1, SentStays
  <2>7. \A y \in Conns, q \in Procs : y \in Range(list'[q]) <=> y \in Range(list[q])
    BY <2>1, <2>5
  <2>8. \A y \in Conns : Stays(y)
    BY <2>2, <2>3, <2>6, <2>7 DEF Stays, Same, Unmoved, InQueue, InList, InChannel
  <2>. QED  BY <2>4, <2>8, OthersStay
<1>19. ASSUME NEW x \in Conns, NEW p \in Children, ForkRefused(x, p)
       PROVE  Placed'
  <2>1. /\ UNCHANGED <<queue, list, channel>> /\ link' = Answer(link, x)
        /\ phase' = [phase EXCEPT ![p] = "select"] /\ phase[Mother] = "serve"
    BY <1>19 DEF ForkRefused, Unknown, Allowed, Asked, Turn
  <2>2. phase'[Mother] = "serve"
    BY <2>1, ConstantTypes DEF Typed
  <2>3. Unmoved
    BY <2>1, StepsUnmoved
  <2>. QED  BY <1>1, <2>1, <2>2, <2>3, SentStays
<1>20. ASSUME Collapse
       PROVE  Placed'
  BY <1>20, PlacedEnds, ConstantTypes DEF Collapse
<1>21. ASSUME SendSocket
       PROVE  Placed'
  BY <1>21, PlacedSendSocket
<1>22. ASSUME Forget
       PROVE  Placed'
  BY <1>22, PlacedForget
<1>12. ASSUME NEW x \in Conns, Refuse(x)
       PROVE  Placed'
  <2>1. /\ UNCHANGED <<queue, list, channel, phase>> /\ link' = Answer(link, x) /\ Done(Mother)
        /\ phase[Mother] = "serve"
    BY <1>12 DEF Refuse, Unknown, Allowed, Asked, Turn
  <2>2. Sent' = Sent
    BY <2>1, TurnSent, ConstantTypes
  <2>. QED  BY <1>1, <2>1, <2>2, StepsUnmoved
<1>13. ASSUME NEW p \in Procs, NEW x \in Conns, Full(p, x)
       PROVE  Placed'
  <2>0. PICK S : S = {x}
    OBVIOUS
  <2>1. Passed(p, x) /\ link' = Gone(link, OnlyIn(p, S)) /\ queue' = queue /\ list' = list
        /\ phase' = phase
    BY <1>13, <2>0 DEF Full
  <2>2. /\ InChannel(x, p) /\ Range(channel'[p]) = Range(channel[p]) \ {x} /\ IsInjective(channel'[p])
        /\ \A q \in Procs : q # p => channel'[q] = channel[q]
        /\ p # Mother /\ phase[p] = "serve" /\ Done(p)
    BY <2>1, PassedMoves DEF Done
  <2>3. NoneTwice'
    BY <2>1, <2>2, ConstantTypes DEF Placed, NoneTwice
  <2>4. Sent' = Sent
    BY <2>1, <2>2, TurnSent
  <2>5. \A y \in Conns : y \notin S => Same(y)
    BY <2>0, <2>1, <2>2, <2>4 DEF Same, InQueue, InList, InChannel
  <2>6. ~InQueue(x) /\ (\A q \in Procs : ~InList(x, q)) /\ \A q \in Procs : q # p => ~InChannel(x, q)
    BY <2>2 DEF Placed, OnePlace
  <2>7. \A y \in Conns : y \in S => /\ ~InQueue(y)'
                                   /\ \A q \in Procs : ~InList(y, q)' /\ ~InChannel(y, q)'
    BY <2>0, <2>1, <2>2, <2>4, <2>6 DEF InQueue, InList, InChannel
  <2>8. S \subseteq Held(p) /\ S \subseteq Conns
    BY <2>0, <2>2, HeldMembers
  <2>. QED  BY <2>1, <2>2, <2>3, <2>4, <2>5, <2>7, <2>8, PlacedDrop
<1>14. ASSUME NEW p \in Procs, NEW x \in Conns, Pass(p, x) \/ OpenFails(p, x)
       PROVE  Placed'
  <2>1. TakeOn(p, x) /\ queue' = queue
    BY <1>14 DEF Pass, OpenFails, TakeOn
  <2>2. /\ Passed(p, x) /\ Range(list'[p]) = Range(list[p]) \cup {x} /\ IsInjective(list'[p])
        /\ \A q \in Procs : q # p => list'[q] = list[q]
    BY <2>1, TakeOnMoves
  <2>3. /\ InChannel(x, p) /\ Range(channel'[p]) = Range(channel[p]) \ {x} /\ IsInjective(channel'[p])
        /\ \A q \in Procs : q # p => channel'[q] = channel[q]
    BY <2>2, PassedMoves
  <2>4. Unmoved
    BY <1>14, StepsUnmoved DEF Pass, OpenFails
  <2>10. p # Mother /\ Sent' = Sent
    <3>1. p # Mother /\ phase[p] = "serve" /\ Done(p) /\ phase' = phase
      BY <2>1, <2>2, PassedMoves DEF Done, TakeOn
    <3>. QED  BY <3>1, TurnSent
  <2>5. NoneTwice'
    BY <2>1, <2>2, <2>3, <2>10, ConstantTypes DEF Placed, NoneTwice
  <2>6. \A y \in Conns : y # x => Stays(y)
    BY <2>1, <2>2, <2>3, <2>4, <2>10 DEF Stays, Same, Unmoved, InQueue, InList, InChannel
  <2>11. ~InQueue(x) /\ (\A q \in Procs : ~InList(x, q)) /\ \A q \in Procs : q # p => ~InChannel(x, q)
    BY <2>3 DEF Placed, OnePlace
  <2>7. /\ ~InQueue(x)' /\ \A q \in Procs : (InList(x, q)' <=> q = p) /\ ~InChannel(x, q)'
    BY <2>1, <2>2, <2>3, <2>10, <2>11 DEF InQueue, InList, InChannel
  <2>8. link[x].want # None /\ ~link[x].shut
    BY <2>3 DEF Placed, OnePlace
  <2>9. OnePlace(x)'
    BY <2>4, <2>7, <2>8 DEF OnePlace, Unmoved
  <2>20. \A y \in Conns : Stays(y) \/ OnePlace(y)'
    BY <2>5, <2>6, <2>9
  <2>. QED  BY <2>5, <2>6, <2>9, <2>20, OthersStay
<1>15. ASSUME NEW p \in Procs, NEW x \in Conns, Serve(p, x) \/ Close(p, x) \/ Drop(p, x) \/ SendMore(p, x)
       PROVE  Placed'
  <2>1. UNCHANGED <<queue, list, channel>>
    BY <1>15 DEF Serve, Close, Drop, SendMore, Requested
  <2>2. Unmoved
    BY <1>15, StepsUnmoved DEF Serve, Close, Drop, SendMore
  <2>3. phase[p] = "serve" /\ phase' = phase /\ Done(p)
    BY <1>15 DEF Serve, Close, Drop, SendMore, Requested, Turn
  <2>. QED  BY <1>1, <2>1, <2>2, <2>3, TurnSent
<1>16. ASSUME NEW p \in Procs, NEW x \in Conns, CutOff(p, x)
       PROVE  Placed'
  <2>0. PICK S : S = {x}
    OBVIOUS
  <2>1. /\ link' = Gone(link, OnlyIn(p, S)) /\ queue' = queue /\ channel' = channel
        /\ phase' = phase /\ Done(p)
    BY <1>16, <2>0 DEF CutOff
  <2>2. /\ InList(x, p) /\ Range(list'[p]) = Range(list[p]) \ {x} /\ IsInjective(list'[p])
        /\ \A q \in Procs : q # p => list'[q] = list[q]
        /\ phase[p] = "serve"
    BY <1>16, CutOffMoves
  <2>3. NoneTwice'
    BY <2>1, <2>2 DEF Placed, NoneTwice
  <2>4. Sent' = Sent /\ (p = Mother => Sent = {})
    BY <2>1, <2>2, TurnSent DEF Sent
  <2>5. \A y \in Conns : y \notin S => Same(y)
    BY <2>0, <2>1, <2>2, <2>4 DEF Same, InQueue, InList, InChannel
  <2>6. ~InQueue(x) /\ (\A q \in Procs : ~InChannel(x, q)) /\ \A q \in Procs : q # p => ~InList(x, q)
    BY <2>2 DEF Placed, OnePlace
  <2>7. \A y \in Conns : y \in S => /\ ~InQueue(y)'
                                   /\ \A q \in Procs : ~InList(y, q)' /\ ~InChannel(y, q)'
    BY <2>0, <2>1, <2>2, <2>4, <2>6 DEF InQueue, InList, InChannel
  <2>8. S \subseteq Held(p) /\ S \subseteq Conns
    BY <2>0, <2>2, HeldMembers DEF InList
  <2>. QED  BY <2>1, <2>2, <2>3, <2>4, <2>5, <2>7, <2>8, PlacedDrop
<1>17. ASSUME NEW p \in Procs, CleanChild(p)
       PROVE  Placed'
  <2>1. /\ list' = Kept(p) /\ queue' = queue /\ channel' = channel /\ p # Mother
        /\ link' = Gone(link, OnlyIn(p, Zapped(p) \cap Conns))
        /\ phase' = [phase EXCEPT ![p] = "select"] /\ todo' = todo
    BY <1>17 DEF CleanChild
  <2>2. phase'[Mother] = phase[Mother]
    BY <2>1, ConstantTypes DEF Typed
  <2>. QED  BY <2>1, <2>2, SentStays, PlacedClean
<1>18. ASSUME CleanMother
       PROVE  Placed'
  <2>1. /\ list' = Kept(Mother) /\ queue' = queue /\ channel' = channel
        /\ link' = Gone(link, Zapped(Mother) \cap Conns)
        /\ phase' = [phase EXCEPT ![Mother] = "select"] /\ phase[Mother] = "serve"
    BY <1>18 DEF CleanMother, Finished
  <2>2. phase'[Mother] = "select"
    BY <2>1, ConstantTypes DEF Typed
  <2>3. Sent' = Sent /\ Sent = {}
    BY <2>1, <2>2 DEF Sent
  <2>. QED  BY <2>1, <2>3, PlacedClean, ConstantTypes
<1>. QED
  BY NextSteps, <1>2, <1>3, <1>4, <1>5, <1>6, <1>7, <1>8, <1>9, <1>10, <1>11, <1>12, <1>13, <1>14,
     <1>15, <1>16, <1>17, <1>18, <1>19, <1>20, <1>21, <1>22 DEF Steps

-----------------------------------------------------------------------------
(* What the mother knows of her children.                                    *)
Wants == \A x \in Conns : link'[x].want = link[x].want
Keeps(d) == handler[d] # 0 => handler'[d] = handler[d] /\ rec'[handler[d]].r = rec[handler[d]].r
Less(q) == /\ \A s \in Slots : slot'[q][s].name \in {slot[q][s].name, None}
           /\ \A x \in Conns : InChannel(x, q)' => InChannel(x, q)

LEMMA IdleUnconcerned ==
  ASSUME Holding, NEW p \in Procs, ~Live(p), NEW d \in Databases
  PROVE  ~Concerned(p, d)
BY DaemonConstants, EmptyMembers DEF Holding, Blank, Concerned, NoDbase, InChannel

LEMMA KnownStep ==
  ASSUME Known,
         \A p \in Procs, d \in Databases : Concerned(p, d)' =>
            (Concerned(p, d) /\ Keeps(d)) \/ (handler'[d] # 0 /\ rec'[handler'[d]].r = p),
         \A p \in Procs, s, t \in Slots :
            slot'[p][s].name # None /\ slot'[p][s].name = slot'[p][t].name => s = t
  PROVE  Known'
<1>1. ASSUME NEW p \in Procs, NEW d \in Databases, Concerned(p, d)'
      PROVE  handler'[d] # 0 /\ rec'[handler'[d]].r = p
  BY <1>1 DEF Known, Keeps
<1>. QED  BY <1>1 DEF Known

LEMMA LessConcerned ==
  ASSUME Wants, NEW q \in Procs, Less(q), NEW d \in Databases, Concerned(q, d)'
  PROVE  Concerned(q, d)
BY DaemonConstants DEF Wants, Less, Concerned

LEMMA KnownLess ==
  ASSUME Known, Wants, \A q \in Procs : Less(q),
         \A p \in Procs, d \in Databases : Concerned(p, d) => Keeps(d)
  PROVE  Known'
<1>1. \A p \in Procs, d \in Databases : Concerned(p, d)' => Concerned(p, d)
  BY LessConcerned
<1>2. \A p \in Procs, s, t \in Slots :
            slot'[p][s].name # None /\ slot'[p][s].name = slot'[p][t].name => s = t
  BY DEF Known, Less
<1>. QED  BY <1>1, <1>2, KnownStep

(* The records of the mother, and what is open or on its way, stay.          *)
LEMMA KnownFrame ==
  ASSUME Known, Wants, UNCHANGED <<slot, channel>>,
         \A p \in Procs, d \in Databases : Concerned(p, d) => Keeps(d)
  PROVE  Known'
BY KnownLess DEF Less, InChannel

LEMMA SameKeeps ==
  ASSUME UNCHANGED <<handler, rec>>
  PROVE  \A d \in Databases : Keeps(d)
BY DEF Keeps

LEMMA ReleasedNames ==
  ASSUME NEW sl \in [Slots -> Dbases], NEW S, NEW s \in Slots
  PROVE  Released(sl, S)[s].name = sl[s].name
<1>1. \A b \in Dbases : \A n, c : [b EXCEPT !.clients = n, !.close = c].name = b.name
  BY DEF Dbases
<1>. QED  BY <1>1 DEF Released

LEMMA KnownEnds ==
  ASSUME Typed, Known, NEW p \in Procs, Ends(p), UNCHANGED mothers
  PROVE  Known'
<1>1. /\ Range(channel'[p]) = {} /\ Blank(p)'
      /\ \A q \in Procs : q # p => channel'[q] = channel[q] /\ slot'[q] = slot[q]
  BY EndsMoves
<1>2. Wants
  BY GoneMembers DEF Ends, Wants, Typed
<1>3. \A q \in Procs : Less(q)
  BY <1>1 DEF Less, InChannel, Blank, NoDbase
<1>. QED  BY <1>2, <1>3, SameKeeps, KnownLess DEF mothers

(* What is sent asked for a database of the child it is sent to.             *)
LEMMA KnownSendSocket ==
  ASSUME Typed, Placed, Handing, Recorded, Known, SendSocket
  PROVE  Known'
<1>1. /\ phase[Mother] \in HandingOff /\ link' = link /\ slot' = slot /\ UNCHANGED <<handler, rec>>
      /\ NeverSent => channel' = channel
  BY DEF SendSocket, HandingOff, childs, mothers
<1>2. Wants /\ \A d \in Databases : Keeps(d)
  BY <1>1, SameKeeps DEF Wants
<1>3. CASE NeverSent
  BY <1>1, <1>2, <1>3, KnownFrame
<1>4. CASE ~NeverSent
  <2>1. PICK x : x = InHand
    OBVIOUS
  <2>2. PICK r : r = Receiver
    OBVIOUS
  <2>3. /\ Range(channel'[r]) = Range(channel[r]) \cup {x}
        /\ \A q \in Procs : q # r => channel'[q] = channel[q]
    BY <1>4, <2>1, <2>2, SendSocketMoves
  <2>4. handler[link[x].want] # 0 /\ rec[handler[link[x].want]].r = r
    BY <1>1, <2>1, <2>2 DEF Handing, Receiver
  <2>5. ASSUME NEW p \in Procs, NEW d \in Databases, Concerned(p, d)'
        PROVE  (Concerned(p, d) /\ Keeps(d)) \/ (handler'[d] # 0 /\ rec'[handler'[d]].r = p)
    <3>1. CASE \E s \in Slots : slot'[p][s].name = d
      BY <1>1, <1>2, <3>1 DEF Concerned
    <3>2. CASE \E y \in Conns : InChannel(y, p)' /\ link'[y].want = d
      <4>1. PICK y \in Conns : InChannel(y, p)' /\ link'[y].want = d
        BY <3>2
      <4>2. InChannel(y, p) \/ (y = x /\ p = r)
        BY <2>3, <4>1 DEF InChannel
      <4>. QED  BY <1>1, <1>2, <2>4, <4>1, <4>2 DEF Concerned
    <3>. QED  BY <2>5, <3>1, <3>2 DEF Concerned
  <2>. QED  BY <1>1, <2>5, KnownStep DEF Known
<1>. QED  BY <1>3, <1>4

LEMMA KnownNext ==
  ASSUME Typed, Placed, Holding, Handing, Recorded, Known, Next
  PROVE  Known'
<1>0. GoOn
  BY StepsGoOn
<1>1. ASSUME Wants, UNCHANGED <<slot, channel>>, UNCHANGED mothers
      PROVE  Known'
  BY <1>1, SameKeeps, KnownFrame DEF mothers
<1>2. ASSUME NEW x \in Conns, NEW d \in Databases, Open(x, d)
      PROVE  Known'
  <2>1. /\ link[x] = Unused /\ UNCHANGED <<slot, channel>> /\ UNCHANGED mothers
        /\ link' = [link EXCEPT ![x].want = d, ![x].input = "init", ![x].waiting = TRUE]
    BY <1>2 DEF Open, childs
  <2>2. link[x].want = None
    BY <2>1 DEF Unused
  <2>3. \A p \in Procs : ~InChannel(x, p)
    BY <2>2 DEF Placed, OnePlace
  <2>4. \A y \in Conns : y # x => link'[y] = link[y]
    BY <2>1 DEF Typed
  <2>5. \A p \in Procs, e \in Databases : Concerned(p, e)' => Concerned(p, e)
    BY <2>1, <2>3, <2>4 DEF Concerned, InChannel
  <2>6. \A e \in Databases : Keeps(e)
    BY <2>1, SameKeeps DEF mothers
  <2>7. \A p \in Procs, s, t \in Slots :
            slot'[p][s].name # None /\ slot'[p][s].name = slot'[p][t].name => s = t
    BY <2>1 DEF Known
  <2>. QED  BY <2>5, <2>6, <2>7, KnownStep
<1>3. ASSUME NEW x \in Conns, \E what \in {"request", "close", "drop"} : Ask(x, what)
      PROVE  Known'
  <2>1. \E i \in Inputs : link' = [link EXCEPT ![x].input = i, ![x].waiting = TRUE]
    BY <1>3 DEF Ask, Inputs
  <2>2. Wants
    BY <2>1, StepsUnmoved DEF Unmoved, Wants
  <2>. QED  BY <1>1, <1>3, <2>2 DEF Ask, childs
<1>4. ASSUME NEW x \in Conns, Leave(x)
      PROVE  Known'
  <2>1. link[x].input \in Inputs /\ "none" \in Inputs
    BY DEF Typed, Links, Inputs
  <2>2. \E i \in Inputs : link' = [link EXCEPT ![x].gone = TRUE, ![x].waiting = FALSE, ![x].input = i]
    BY <1>4, <2>1 DEF Leave
  <2>3. Wants
    BY <2>2, StepsUnmoved DEF Unmoved, Wants
  <2>. QED  BY <1>1, <1>4, <2>3 DEF Leave, childs
<1>5. ASSUME NEW p \in Procs, Select(p)
      PROVE  Known'
  <2>1. UNCHANGED <<slot, channel>> /\ UNCHANGED mothers
    BY <1>5 DEF Select, childs
  <2>2. CASE p = Mother /\ queue # <<>>
    <3>1. Accept
      BY <1>5, <2>2 DEF Select
    <3>2. PICK x \in Conns : link' = link \/ link' = [link EXCEPT ![x].shut = TRUE, ![x].waiting = FALSE]
      BY <2>2, <3>1, AcceptMoves
    <3>3. Wants
      <4>1. CASE link' = link
        BY <4>1 DEF Wants
      <4>2. CASE link' = [link EXCEPT ![x].shut = TRUE, ![x].waiting = FALSE]
        BY <4>2 DEF Wants, Typed, Links
      <4>. QED  BY <3>2, <4>1, <4>2
    <3>. QED  BY <1>1, <2>1, <3>3
  <2>3. CASE ~(p = Mother /\ queue # <<>>)
    <3>1. link' = link
      BY <1>5, <2>3 DEF Select, Accept
    <3>. QED  BY <1>1, <2>1, <3>1 DEF Wants
  <2>. QED  BY <2>2, <2>3
<1>6. ASSUME NEW p \in Procs, TimeOut(p) \/ Skip(p) \/ \E e \in Conns \cup Children : Eof(p, e)
      PROVE  Known'
  <2>1. link' = link /\ UNCHANGED <<slot, channel>> /\ UNCHANGED mothers
    BY <1>6 DEF TimeOut, Skip, Eof, childs
  <2>. QED  BY <1>1, <2>1 DEF Wants
<1>7. ASSUME NEW k \in Recs, Childied(k)
      PROVE  Known'
  <2>1. link' = link /\ UNCHANGED <<slot, channel>>
    BY <1>7 DEF Childied, childs
  <2>2. handler' = handler /\ \A m \in Recs : rec'[m].r = rec[m].r
    BY <1>0, <1>7, ChildiedRecords
  <2>3. \A d \in Databases : Keeps(d)
    BY <2>2 DEF Keeps, Typed
  <2>. QED  BY <2>1, <2>3, KnownFrame DEF Wants
<1>8. ASSUME NEW p \in Procs, MumLost(p) \/ Stop(p) \/ Die(p)
      PROVE  Known'
  BY <1>8, KnownEnds DEF MumLost, Stop, Die
<1>9. ASSUME NEW x \in Conns, PassOn(x)
      PROVE  Known'
  <2>1. Wants
    BY <1>9, StepsUnmoved DEF PassOn, Begin, Inputs, Unmoved, Wants
  <2>. QED  BY <1>1, <1>9, <2>1 DEF PassOn, childs
<1>10. ASSUME NEW x \in Conns, Assign(x)
       PROVE  Known'
  <2>1. Wants /\ UNCHANGED <<slot, channel>>
    BY <1>10, StepsUnmoved DEF Assign, Begin, Inputs, Unmoved, Wants, childs
  <2>2. PICK k \in Recs : k = LeastLoaded
    BY <1>0, <1>10, AssignRecords
  <2>3. /\ \A m \in Recs : rec'[m].r = rec[m].r
        /\ handler' = [handler EXCEPT ![link[x].want] = k] /\ handler[link[x].want] = 0
    BY <1>0, <1>10, <2>2, AssignRecords
  <2>4. \A d \in Databases : d # link[x].want => handler'[d] = handler[d]
    BY <2>3 DEF Typed
  <2>5. \A d \in Databases : Keeps(d)
    BY <2>3, <2>4 DEF Keeps, Typed
  <2>. QED  BY <2>1, <2>5, KnownFrame
<1>11. ASSUME NEW x \in Conns, NEW p \in Children, NEW k \in Recs, Fork(x, p, k)
       PROVE  Known'
  <2>1. link' = [link EXCEPT ![x].input = "none"]
    BY <1>11, ForkMoves
  <2>2. UNCHANGED <<slot, channel>> /\ p \in Procs
    BY <1>11, ConstantTypes DEF Fork, childs
  <2>3. /\ rec'[k].r = p /\ \A m \in Recs : m # k => rec'[m] = rec[m]
        /\ handler' = [handler EXCEPT ![link[x].want] = k] /\ link[x].want \in Databases
        /\ handler[link[x].want] = 0 /\ phase[p] = "none" /\ k \notin Range(children)
    BY <1>0, <1>11, ForkRecords
  <2>4. Wants
    BY <2>1, StepsUnmoved DEF Inputs, Unmoved, Wants
  <2>5. handler'[link[x].want] = k /\ \A d \in Databases : d # link[x].want => handler'[d] = handler[d]
    BY <2>3 DEF Typed
  <2>6. \A d \in Databases : ~Concerned(p, d)
    BY <2>2, <2>3, IdleUnconcerned DEF Live, HandingOff
  <2>7. \A q \in Procs, d \in Databases : Concerned(q, d) => Keeps(d)
    <3>. SUFFICES ASSUME NEW q \in Procs, NEW d \in Databases, Concerned(q, d), handler[d] # 0
                  PROVE  handler'[d] = handler[d] /\ rec'[handler[d]].r = rec[handler[d]].r
      BY DEF Keeps
    <3>1. handler'[d] = handler[d]
      BY <2>3, <2>5
    <3>2. handler[d] \in Recs /\ rec[handler[d]].r = q
      BY DEF Known, Typed
    <3>3. handler[d] # k
      <4>1. ASSUME handler[d] = k
            PROVE  FALSE
        <5>1. phase[q] = "dead"
          BY <2>2, <2>3, <3>2, <4>1 DEF Recorded, HandlerStands
        <5>. QED  BY <5>1, IdleUnconcerned DEF Live, HandingOff
      <4>. QED  BY <4>1
    <3>. QED  BY <2>3, <3>1, <3>2, <3>3
  <2>. QED  BY <2>2, <2>4, <2>7, KnownFrame
<1>20. ASSUME NEW x \in Conns, NEW p \in Children, ForkRefused(x, p)
       PROVE  Known'
  <2>1. Wants /\ UNCHANGED <<slot, channel>> /\ UNCHANGED <<handler, rec>>
    BY <1>20, StepsUnmoved DEF ForkRefused, Unmoved, Wants, childs
  <2>. QED  BY <2>1, SameKeeps, KnownFrame
<1>21. ASSUME SendNotice
       PROVE  Known'
  BY <1>1, <1>21 DEF SendNotice, childs, Wants
<1>22. ASSUME SendSocket
       PROVE  Known'
  BY <1>22, KnownSendSocket
<1>23. ASSUME Forget
       PROVE  Known'
  <2>1. /\ link' = Gone(link, OnlyIn(Mother, {InHand}))
        /\ UNCHANGED <<slot, channel>> /\ UNCHANGED mothers
    BY <1>23 DEF Forget, childs
  <2>2. Wants
    BY <2>1, GoneMembers DEF Wants, Typed
  <2>. QED  BY <1>1, <2>1, <2>2
<1>24. ASSUME Collapse
       PROVE  Known'
  BY <1>24, KnownEnds, ConstantTypes DEF Collapse
<1>12. ASSUME NEW x \in Conns, Refuse(x)
       PROVE  Known'
  <2>1. Wants
    BY <1>12, StepsUnmoved DEF Refuse, Unmoved, Wants
  <2>. QED  BY <1>1, <1>12, <2>1 DEF Refuse, childs
<1>13. ASSUME NEW p \in Procs, NEW x \in Conns, Full(p, x)
       PROVE  Known'
  <2>1. Passed(p, x) /\ link' = Gone(link, OnlyIn(p, {x})) /\ slot' = slot /\ UNCHANGED mothers
    BY <1>13 DEF Full, childs
  <2>2. /\ Range(channel'[p]) = Range(channel[p]) \ {x}
        /\ \A q \in Procs : q # p => channel'[q] = channel[q]
    BY <2>1, PassedMoves
  <2>3. Wants
    BY <2>1, GoneMembers DEF Wants, Typed
  <2>4. \A q \in Procs : Less(q)
    BY <2>1, <2>2 DEF Less, InChannel
  <2>. QED  BY <2>1, <2>3, <2>4, SameKeeps, KnownLess DEF mothers
<1>14. ASSUME NEW p \in Procs, NEW x \in Conns, Pass(p, x) \/ OpenFails(p, x)
       PROVE  Known'
  <2>1. TakeOn(p, x)
    BY <1>14 DEF Pass, OpenFails
  <2>2. Passed(p, x) /\ UNCHANGED mothers
    BY <2>1 DEF TakeOn
  <2>3. /\ InChannel(x, p) /\ Range(channel'[p]) = Range(channel[p]) \ {x}
        /\ \A q \in Procs : q # p => channel'[q] = channel[q]
    BY <2>2, PassedMoves
  <2>4. Wants
    BY <1>14, StepsUnmoved DEF Pass, OpenFails, Unmoved, Wants
  <2>5. CASE OpenFails(p, x)
    <3>1. slot' = slot
      BY <2>5 DEF OpenFails
    <3>2. \A q \in Procs : Less(q)
      BY <2>3, <3>1 DEF Less, InChannel
    <3>. QED  BY <2>2, <2>4, <3>2, SameKeeps, KnownLess DEF mothers
  <2>6. CASE Pass(p, x)
    <3>1. PICK s \in Matching(p, link[x].want) :
            slot' = [slot EXCEPT ![p][s] = Attached(p, s, link[x].want)]
      BY <2>6 DEF Pass
    <3>2. s \in Slots /\ Attached(p, s, link[x].want).name = link[x].want
      BY <3>1 DEF Matching, Attached, Typed, Dbases
    <3>3. /\ slot'[p][s].name = link[x].want
          /\ \A t \in Slots : t # s => slot'[p][t] = slot[p][t]
          /\ \A q \in Procs : q # p => slot'[q] = slot[q]
      BY <3>1, <3>2 DEF Typed
    <3>4. link[x].want \in Databases
      <4>1. link[x].want # None
        BY <2>3 DEF Placed, OnePlace
      <4>. QED  BY <4>1 DEF Typed, Links
    <3>5. Concerned(p, link[x].want)
      BY <2>3 DEF Concerned
    <3>6. ASSUME NEW q \in Procs, NEW d \in Databases, Concerned(q, d)'
          PROVE  Concerned(q, d)
      <4>1. CASE \E t \in Slots : slot'[q][t].name = d
        BY <3>2, <3>3, <3>5, <4>1 DEF Concerned
      <4>2. CASE \E y \in Conns : InChannel(y, q)' /\ link'[y].want = d
        BY <2>3, <2>4, <4>2 DEF Concerned, InChannel, Wants
      <4>. QED  BY <3>6, <4>1, <4>2 DEF Concerned
    <3>7. ASSUME NEW t \in Slots, slot[p][t].name = link[x].want
          PROVE  t = s
      <4>1. slot[p][s].name = link[x].want
        BY <3>1, <3>7 DEF Matching
      <4>. QED  BY <3>2, <3>4, <3>7, <4>1, DaemonConstants DEF Known
    <3>8. ASSUME NEW q \in Procs, NEW t \in Slots, NEW u \in Slots,
                 slot'[q][t].name # None, slot'[q][t].name = slot'[q][u].name
          PROVE  t = u
      <4>1. CASE q # p
        BY <3>3, <3>8, <4>1 DEF Known
      <4>2. CASE q = p /\ t # s /\ u # s
        BY <3>3, <3>8, <4>2 DEF Known
      <4>3. CASE q = p /\ t = s
        BY <3>3, <3>7, <3>8, <4>3
      <4>4. CASE q = p /\ u = s
        BY <3>3, <3>7, <3>8, <4>4
      <4>. QED  BY <4>1, <4>2, <4>3, <4>4
    <3>. QED  BY <2>2, <3>6, <3>8, SameKeeps, KnownStep DEF mothers
  <2>. QED  BY <1>14, <2>5, <2>6
<1>15. ASSUME NEW p \in Procs, NEW x \in Conns, Serve(p, x) \/ Close(p, x) \/ SendMore(p, x)
       PROVE  Known'
  <2>1. UNCHANGED <<slot, channel>> /\ UNCHANGED mothers
    BY <1>15 DEF Serve, Close, SendMore, Requested, childs
  <2>2. Wants
    BY <1>15, StepsUnmoved DEF Serve, Close, SendMore, Unmoved, Wants
  <2>. QED  BY <1>1, <2>1, <2>2
<1>16. ASSUME NEW p \in Procs, NEW x \in Conns, Drop(p, x)
       PROVE  Known'
  <2>1. channel' = channel /\ UNCHANGED mothers /\ slot' = [slot EXCEPT ![p][dbp[x]] = NoDbase]
    BY <1>16 DEF Drop, Requested
  <2>2. Wants
    BY <1>16, StepsUnmoved DEF Drop, Unmoved, Wants
  <2>3. \A q \in Procs, s \in Slots : slot'[q][s] = slot[q][s] \/ slot'[q][s] = NoDbase
    BY <2>1 DEF Typed
  <2>4. \A q \in Procs : Less(q)
    BY <2>1, <2>3 DEF Less, InChannel, NoDbase
  <2>. QED  BY <2>1, <2>2, <2>4, SameKeeps, KnownLess DEF mothers
<1>17. ASSUME NEW p \in Procs, NEW x \in Conns, CutOff(p, x)
       PROVE  Known'
  <2>1. /\ link' = Gone(link, OnlyIn(p, {x})) /\ channel' = channel /\ UNCHANGED mothers
        /\ slot' = [slot EXCEPT ![p] = Released(slot[p], {x})]
    BY <1>17 DEF CutOff
  <2>2. Wants
    BY <2>1, GoneMembers DEF Wants, Typed
  <2>3. slot'[p] = Released(slot[p], {x}) /\ \A q \in Procs : q # p => slot'[q] = slot[q]
    BY <2>1 DEF Typed
  <2>4. \A s \in Slots : slot'[p][s].name = slot[p][s].name
    <3>1. slot[p] \in [Slots -> Dbases]
      BY DEF Typed
    <3>2. \A s \in Slots : Released(slot[p], {x})[s].name = slot[p][s].name
      BY <3>1, ReleasedNames
    <3>. QED  BY <2>3, <3>2
  <2>5. \A q \in Procs : Less(q)
    BY <2>1, <2>3, <2>4 DEF Less, InChannel
  <2>. QED  BY <2>1, <2>2, <2>5, SameKeeps, KnownLess DEF mothers
<1>18. ASSUME NEW p \in Procs, CleanChild(p)
       PROVE  Known'
  <2> DEFINE left == Released(slot[p], Zapped(p) \cap Conns)
             dead == {s \in Slots : left[s].close}
  <2>1. /\ link' = Gone(link, OnlyIn(p, Zapped(p) \cap Conns)) /\ channel' = channel /\ UNCHANGED mothers
        /\ slot' = [slot EXCEPT ![p] = Set(left, dead, NoDbase)]
    BY <1>18 DEF CleanChild
  <2>2. Wants
    BY <2>1, GoneMembers DEF Wants, Typed
  <2>3. slot'[p] = Set(left, dead, NoDbase) /\ \A q \in Procs : q # p => slot'[q] = slot[q]
    BY <2>1 DEF Typed
  <2>4. /\ DOMAIN left = Slots /\ \A s \in Slots : left[s].name = slot[p][s].name
    <3>1. DOMAIN left = Slots
      BY DEF Released
    <3>. QED  BY <3>1, ReleasedNames DEF Typed
  <2>. HIDE DEF left, dead
  <2>5. \A s \in Slots : slot'[p][s].name \in {slot[p][s].name, None}
    BY <2>3, <2>4 DEF Set, NoDbase
  <2>6. \A q \in Procs : Less(q)
    BY <2>1, <2>3, <2>5 DEF Less, InChannel
  <2>. QED  BY <2>1, <2>2, <2>6, SameKeeps, KnownLess DEF mothers
<1>19. ASSUME CleanMother
       PROVE  Known'
  <2>1. link' = Gone(link, Zapped(Mother) \cap Conns) /\ UNCHANGED <<slot, channel>>
    BY <1>19 DEF CleanMother, childs
  <2>2. Wants
    BY <2>1, GoneMembers DEF Wants, Typed
  <2>3. /\ \A m \in Recs : rec'[m].r = rec[m].r
        /\ \A d \in Databases : handler'[d] = IF d \in Lost THEN 0 ELSE handler[d]
        /\ \A d \in Lost : phase[rec[handler[d]].r] = "dead"
    BY <1>19, CleanMotherRecords
  <2>4. \A q \in Procs, d \in Databases : Concerned(q, d) => Keeps(d)
    <3>. SUFFICES ASSUME NEW q \in Procs, NEW d \in Databases, Concerned(q, d), handler[d] # 0
                  PROVE  handler'[d] = handler[d] /\ rec'[handler[d]].r = rec[handler[d]].r
      BY DEF Keeps
    <3>1. handler[d] \in Recs /\ rec[handler[d]].r = q
      BY DEF Known, Typed
    <3>2. d \notin Lost
      BY <2>3, <3>1, IdleUnconcerned DEF Live, HandingOff
    <3>. QED  BY <2>3, <3>1, <3>2
  <2>. QED  BY <2>1, <2>2, <2>4, KnownFrame
<1>. QED
  BY NextSteps, <1>2, <1>3, <1>4, <1>5, <1>6, <1>7, <1>8, <1>9, <1>10, <1>11, <1>12, <1>13, <1>14,
     <1>15, <1>16, <1>17, <1>18, <1>19, <1>20, <1>21, <1>22, <1>23, <1>24 DEF Steps

-----------------------------------------------------------------------------
(* What the database records of a child say of its connections.              *)
LEMMA ChildLists ==
  ASSUME NEW p \in Children
  PROVE  \A x : (InList(x, p) <=> x \in Range(list[p])) /\ (InList(x, p)' <=> x \in Range(list'[p]))
BY ConstantTypes DEF InList

LEMMA UserMembers ==
  ASSUME Typed, NEW p \in Children, NEW s
  PROVE  /\ IsFiniteSet(Users(p, s)) /\ Users(p, s) \subseteq Conns
         /\ \A x \in Conns : x \in Users(p, s) <=> InList(x, p) /\ dbp[x] = s
<1>1. IsFiniteSet(Range(list[p]))
  BY RangeInside, ConstantTypes DEF Typed
<1>2. Users(p, s) \in SUBSET Range(list[p])
  BY DEF Users
<1>. QED  BY <1>1, <1>2, FS_Subset, ChildLists DEF Users

(* The connections that a child lists, and what they point to, stay; one     *)
(* that it begins to list points to nothing.                                 *)
Settled(p) ==
  /\ slot'[p] = slot[p]
  /\ \A x \in Conns : InList(x, p) =>
       InList(x, p)' /\ dbp'[x] = dbp[x] /\ link'[x].want = link[x].want
  /\ \A x \in Conns : InList(x, p)' => InList(x, p) \/ dbp'[x] = 0

LEMMA ExactSettled ==
  ASSUME NEW p \in Children, Exact(p), Settled(p)
  PROVE  Exact(p)'
<1>1. ASSUME NEW s \in Slots
      PROVE  Users(p, s)' = Users(p, s)
  <2>1. s # 0
    BY DEF Slots
  <2>. QED  BY <2>1, ChildLists DEF Users, Settled
<1>2. \A x \in Conns : InList(x, p)' /\ dbp'[x] # 0 => slot'[p][dbp'[x]].name = link'[x].want
  BY DEF Settled, Exact
<1>3. \A s \in Slots : slot'[p][s].name # None =>
       /\ slot'[p][s].clients = Cardinality(Users(p, s)') /\ Users(p, s)' # {}
       /\ ~slot'[p][s].close
  BY <1>1 DEF Settled, Exact
<1>. QED  BY <1>2, <1>3 DEF Exact

LEMMA PointingStep ==
  ASSUME Pointing,
         \A x \in Conns, q \in Children : dbp'[x] # 0 /\ InList(x, q) => dbp[x] = 0 \/ InList(x, q)',
         \A x \in Conns : dbp'[x] # 0 => dbp[x] # 0 \/ \E q \in Children : InList(x, q)',
         \A q \in Procs, s \in Slots :
            slot'[q][s].name = None => slot'[q][s] = NoDbase \/ slot'[q][s] = slot[q][s]
  PROVE  Pointing'
<1>1. \A x \in Conns : dbp'[x] # 0 => \E q \in Children : InList(x, q)'
  BY DEF Pointing
<1>2. \A q \in Procs, s \in Slots : slot'[q][s].name = None => slot'[q][s] = NoDbase
  BY DEF Pointing
<1>. QED  BY <1>1, <1>2 DEF Pointing

Points == Pointing /\ Counting

LEMMA PointsSettled ==
  ASSUME Points, \A q \in Children : Settled(q), slot' = slot, dbp' = dbp, cut' = cut
  PROVE  Points'
<1>1. Pointing'
  BY PointingStep DEF Points, Settled
<1>2. Counting'
  BY ExactSettled DEF Points, Counting
<1>. QED  BY <1>1, <1>2 DEF Points

(* Steps of the mother, and of a child that neither lists nor drops one.     *)
LEMMA PointsFrame ==
  ASSUME Points, Wants, UNCHANGED childs, slot' = slot,
         \A q \in Children : Range(list'[q]) = Range(list[q])
  PROVE  Points'
<1>1. \A q \in Children : Settled(q)
  BY ChildLists DEF Settled, Wants, childs
<1>. QED  BY <1>1, PointsSettled DEF childs

LEMMA PointsEnds ==
  ASSUME Typed, Placed, Points, NEW p \in Procs, Ends(p), cut' = cut
  PROVE  Points'
<1>1. /\ Range(list'[p]) = {} /\ Blank(p)'
      /\ \A q \in Procs : q # p => list'[q] = list[q] /\ slot'[q] = slot[q]
  BY EndsMoves
<1>9. PICK H : H = IF p = Mother THEN {} ELSE Held(p)
  OBVIOUS
<1>2. \A x \in Conns : p # Mother /\ InList(x, p) => x \in H
  BY <1>9 DEF Held, InList
<1>3. \A x \in Conns : dbp'[x] = IF x \in H THEN 0 ELSE dbp[x]
  BY <1>9 DEF Ends, Set, Typed
<1>4. \A x \in Conns : link'[x].want = link[x].want
  BY GoneMembers DEF Ends, Typed
<1>5. \A x \in Conns, q \in Children : q # p /\ InList(x, q) => x \notin H
  <2>1. ASSUME NEW x \in Conns, NEW q \in Children, q # p, InList(x, q), p # Mother, x \in Held(p)
        PROVE  FALSE
    <3>1. InList(x, p) \/ InChannel(x, p)
      BY <2>1, HeldMembers DEF InList
    <3>. QED  BY <2>1, <3>1, ConstantTypes DEF Placed, OnePlace
  <2>. QED  BY <1>9, <2>1
<1>6. Pointing'
  <2>1. \A x \in Conns, q \in Children : dbp'[x] # 0 /\ InList(x, q) => dbp[x] = 0 \/ InList(x, q)'
    <3>. SUFFICES ASSUME NEW x \in Conns, NEW q \in Children, dbp'[x] # 0, InList(x, q)
                  PROVE  InList(x, q)'
      OBVIOUS
    <3>1. q # p
      BY <1>2, <1>3, ConstantTypes
    <3>. QED  BY <1>1, <3>1, ConstantTypes, ChildLists
  <2>2. \A x \in Conns : dbp'[x] # 0 => dbp[x] # 0
    BY <1>3
  <2>3. \A q \in Procs, s \in Slots : slot'[q][s] = NoDbase \/ slot'[q][s] = slot[q][s]
    BY <1>1 DEF Blank
  <2>. QED  BY <2>1, <2>2, <2>3, PointingStep DEF Points
<1>7. ASSUME ~cut, NEW q \in Children
      PROVE  Exact(q)'
  <2>1. CASE q = p
    <3>1. \A x \in Conns : ~InList(x, q)'
      BY <1>1, <2>1 DEF InList
    <3>2. \A s \in Slots : slot'[q][s].name = None
      BY <1>1, <2>1 DEF Blank, NoDbase
    <3>. QED  BY <3>1, <3>2 DEF Exact
  <2>2. CASE q # p
    <3>1. Settled(q)
      BY <1>1, <1>3, <1>4, <1>5, <2>2, ConstantTypes, ChildLists DEF Settled
    <3>. QED  BY <1>7, <3>1, ExactSettled DEF Points, Counting
  <2>. QED  BY <2>1, <2>2
<1>. QED  BY <1>6, <1>7 DEF Points, Counting

(* A connection that a child has taken on is counted in its database record. *)
LEMMA PointsPass ==
  ASSUME Typed, Placed, Known, Points, NEW p \in Procs, NEW x \in Conns, Pass(p, x)
  PROVE  Points'
<1>1. Passed(p, x) /\ TakeOn(p, x) /\ cut' = cut
  BY DEF Pass, TakeOn
<1>2. /\ InChannel(x, p) /\ p # Mother
      /\ Range(list'[p]) = Range(list[p]) \cup {x} /\ \A q \in Procs : q # p => list'[q] = list[q]
  BY <1>1, PassedMoves, TakeOnMoves
<1>3. p \in Children
  BY <1>2, ConstantTypes
<1>4. PICK s \in Matching(p, link[x].want) :
        /\ slot' = [slot EXCEPT ![p][s] = Attached(p, s, link[x].want)]
        /\ dbp' = [dbp EXCEPT ![x] = s]
  BY DEF Pass
<1>5. PICK d : d = link[x].want
  OBVIOUS
<1>6. d \in Databases /\ d # None /\ \A q \in Procs : ~InList(x, q)
  <2>1. d # None /\ \A q \in Procs : ~InList(x, q)
    BY <1>2, <1>5 DEF Placed, OnePlace
  <2>. QED  BY <1>5, <2>1 DEF Typed, Links
<1>7. dbp[x] = 0
  BY <1>6, ConstantTypes DEF Points, Pointing
<1>8. s \in Slots /\ s # 0 /\ slot[p][s].name \in {None, d} /\ slot[p][s] \in Dbases
  <2>1. s \in Slots /\ slot[p][s].name \in {None, d}
    BY <1>4, <1>5 DEF Matching
  <2>2. s # 0
    BY <2>1 DEF Slots
  <2>. QED  BY <2>1, <2>2 DEF Typed
<1>9. /\ slot'[p][s] = [slot[p][s] EXCEPT !.name = d, !.clients = @ + 1]
      /\ \A t \in Slots : t # s => slot'[p][t] = slot[p][t]
      /\ \A q \in Procs : q # p => slot'[q] = slot[q]
  BY <1>4, <1>5, <1>8 DEF Typed, Attached
<1>10. /\ slot'[p][s].name = d /\ slot'[p][s].clients = slot[p][s].clients + 1
       /\ slot'[p][s].close = slot[p][s].close
  BY <1>8, <1>9 DEF Dbases
<1>11. dbp'[x] = s /\ \A y \in Conns : y # x => dbp'[y] = dbp[y]
  BY <1>4 DEF Typed
<1>12. Wants
  BY StepsUnmoved DEF Pass, Unmoved, Wants
<1>13. Pointing'
  <2>1. \A y \in Conns, q \in Children : InList(y, q) => InList(y, q)'
    BY <1>2, ConstantTypes DEF InList
  <2>2. InList(x, p)'
    BY <1>2 DEF InList
  <2>3. \A y \in Conns : dbp'[y] # 0 => dbp[y] # 0 \/ \E q \in Children : InList(y, q)'
    BY <1>3, <1>11, <2>2
  <2>4. \A q \in Procs, t \in Slots :
           slot'[q][t].name = None => slot'[q][t] = NoDbase \/ slot'[q][t] = slot[q][t]
    BY <1>6, <1>9, <1>10
  <2>. QED  BY <2>1, <2>3, <2>4, PointingStep DEF Points
<1>14. ASSUME ~cut, NEW q \in Children, q # p
       PROVE  Exact(q)'
  <2>1. Settled(q)
    BY <1>2, <1>6, <1>9, <1>11, <1>12, <1>14, ConstantTypes DEF Settled, InList, Wants
  <2>. QED  BY <1>14, <2>1, ExactSettled DEF Points, Counting
<1>15. ASSUME ~cut
       PROVE  Exact(p)'
  <2>1. Exact(p)
    BY <1>3, <1>15 DEF Points, Counting
  <2>2. \A y \in Conns : InList(y, p)' <=> InList(y, p) \/ y = x
    BY <1>2 DEF InList
  <2>3. \A t \in Slots : t # s => Users(p, t)' = Users(p, t)
    BY <1>2, <1>6, <1>11 DEF Users, InList
  <2>4. Users(p, s)' = Users(p, s) \cup {x} /\ x \notin Users(p, s)
    BY <1>2, <1>6, <1>11 DEF Users, InList
  <2>5. ~slot[p][s].close /\ slot[p][s].clients = Cardinality(Users(p, s))
    <3>1. CASE slot[p][s].name = None
      <4>1. slot[p][s] = NoDbase
        BY <1>8, <3>1 DEF Points, Pointing
      <4>2. Users(p, s) = {}
        <5>1. ASSUME NEW y \in Users(p, s)
              PROVE  FALSE
          <6>1. y \in Conns /\ InList(y, p) /\ dbp[y] = s
            BY <1>3, <5>1, UserMembers
          <6>2. link[y].want # None
            BY <6>1 DEF Placed, OnePlace
          <6>. QED  BY <1>8, <2>1, <3>1, <6>1, <6>2 DEF Exact
        <5>. QED  BY <5>1
      <4>. QED  BY <4>1, <4>2, FS_EmptySet DEF NoDbase
    <3>2. CASE slot[p][s].name # None
      BY <1>8, <2>1, <3>2 DEF Exact
    <3>. QED  BY <3>1, <3>2
  <2>6. Cardinality(Users(p, s) \cup {x}) = Cardinality(Users(p, s)) + 1
    BY <1>3, <2>4, UserMembers, FS_AddElement
  <2>7. ASSUME NEW y \in Conns, InList(y, p)', dbp'[y] # 0
        PROVE  slot'[p][dbp'[y]].name = link'[y].want
    <3>1. link'[y].want = link[y].want
      BY <1>12 DEF Wants
    <3>2. CASE y = x
      BY <1>5, <1>10, <1>11, <3>1, <3>2
    <3>3. CASE y # x
      <4>1. /\ InList(y, p) /\ dbp'[y] = dbp[y] /\ dbp[y] \in Slots
            /\ slot[p][dbp[y]].name = link[y].want
        BY <1>11, <2>1, <2>2, <2>7, <3>3 DEF Exact, Typed
      <4>2. link[y].want # None
        BY <4>1 DEF Placed, OnePlace
      <4>3. CASE dbp[y] = s
        BY <1>8, <1>10, <3>1, <4>1, <4>2, <4>3
      <4>4. CASE dbp[y] # s
        BY <1>9, <3>1, <4>1, <4>4
      <4>. QED  BY <4>3, <4>4
    <3>. QED  BY <3>2, <3>3
  <2>8. ASSUME NEW t \in Slots, slot'[p][t].name # None
        PROVE  /\ slot'[p][t].clients = Cardinality(Users(p, t)') /\ Users(p, t)' # {}
               /\ ~slot'[p][t].close
    <3>1. CASE t = s
      BY <1>10, <2>4, <2>5, <2>6, <3>1
    <3>2. CASE t # s
      BY <1>9, <2>1, <2>3, <2>8, <3>2 DEF Exact
    <3>. QED  BY <3>1, <3>2
  <2>. QED  BY <2>7, <2>8 DEF Exact
<1>. QED  BY <1>1, <1>13, <1>14, <1>15 DEF Points, Counting

LEMMA PointsDrop ==
  ASSUME Typed, Points, NEW p \in Procs, NEW x \in Conns, Drop(p, x)
  PROVE  Points'
<1>1. /\ slot' = [slot EXCEPT ![p][dbp[x]] = NoDbase] /\ cut' = TRUE /\ dbp' = dbp /\ list' = list
  BY DEF Drop, Requested
<1>2. \A q \in Procs, s \in Slots : slot'[q][s] = NoDbase \/ slot'[q][s] = slot[q][s]
  BY <1>1 DEF Typed
<1>3. Pointing'
  BY <1>1, <1>2, PointingStep, ChildLists DEF Points
<1>. QED  BY <1>1, <1>3 DEF Points, Counting

(* What releasing connections does to a record.                              *)
LEMMA ReleasedRecord ==
  ASSUME NEW sl \in [Slots -> Dbases], NEW S, NEW s \in Slots, NEW n \in Int,
         n = sl[s].clients - Cardinality({x \in S : dbp[x] = s})
  PROVE  /\ sl[s].name = None => Released(sl, S)[s] = sl[s]
         /\ sl[s].name # None => /\ Released(sl, S)[s].clients = n
                                 /\ n = sl[s].clients => Released(sl, S)[s].close = sl[s].close
                                 /\ n # sl[s].clients => (Released(sl, S)[s].close <=> sl[s].close \/ n <= 0)
<1>1. sl[s] \in Dbases
  OBVIOUS
<1>2. Released(sl, S)[s] = IF sl[s].name = None \/ n = sl[s].clients THEN sl[s]
                           ELSE [sl[s] EXCEPT !.clients = n, !.close = @ \/ n <= 0]
  BY DEF Released
<1>3. \A c : [sl[s] EXCEPT !.clients = n, !.close = c].clients = n /\ [sl[s] EXCEPT !.clients = n, !.close = c].close = c
  BY <1>1 DEF Dbases
<1>. QED  BY <1>1, <1>2, <1>3 DEF Dbases

LEMMA PointsCutOff ==
  ASSUME Typed, Placed, Points, NEW p \in Procs, NEW x \in Conns, CutOff(p, x)
  PROVE  Points'
<1>1. /\ cut' = TRUE /\ dbp' = [dbp EXCEPT ![x] = 0] /\ slot' = [slot EXCEPT ![p] = Released(slot[p], {x})]
  BY DEF CutOff
<1>2. /\ Range(list'[p]) = Range(list[p]) \ {x} /\ \A q \in Procs : q # p => list'[q] = list[q]
  BY CutOffMoves
<1>3. dbp'[x] = 0 /\ \A y \in Conns : y # x => dbp'[y] = dbp[y]
  BY <1>1 DEF Typed
<1>4. slot'[p] = Released(slot[p], {x}) /\ \A q \in Procs : q # p => slot'[q] = slot[q]
  BY <1>1 DEF Typed
<1>5. ASSUME NEW s \in Slots, slot'[p][s].name = None
      PROVE  slot'[p][s] = slot[p][s]
  <2>1. slot[p] \in [Slots -> Dbases]
    BY DEF Typed
  <2>2. slot[p][s].name = None
    BY <1>4, <1>5, <2>1, ReleasedNames
  <2>. QED  BY <1>4, <2>2 DEF Released
<1>6. \A y \in Conns, q \in Children : y # x /\ InList(y, q) => InList(y, q)'
  BY <1>2, ConstantTypes DEF InList
<1>7. Pointing'
  BY <1>3, <1>4, <1>5, <1>6, PointingStep DEF Points
<1>. QED  BY <1>1, <1>7 DEF Points, Counting

(* The end of a round of a child: who is zapped is no longer counted, and a  *)
(* record goes exactly when nobody is left.                                  *)
LEMMA PointsClean ==
  ASSUME Typed, Placed, Points, NEW p \in Procs, CleanChild(p)
  PROVE  Points'
<1>1. PICK S : S = Zapped(p) \cap Conns
  OBVIOUS
<1>2. PICK left : left = Released(slot[p], S)
  OBVIOUS
<1>3. PICK dead : dead = {s \in Slots : left[s].close}
  OBVIOUS
<1>4. /\ list' = Kept(p) /\ dbp' = Set(dbp, S, 0) /\ link' = Gone(link, OnlyIn(p, S)) /\ cut' = cut
      /\ slot' = [slot EXCEPT ![p] = Set(left, dead, NoDbase)] /\ p # Mother
  BY <1>1, <1>2, <1>3 DEF CleanChild
<1>5. /\ Range(list'[p]) = Range(list[p]) \ closing[p] /\ \A q \in Procs : q # p => list'[q] = list[q]
  BY <1>4, KeptMoves
<1>16. p \in Children
  BY <1>4, ConstantTypes
<1>6. \A y \in Conns : y \in S <=> InList(y, p) /\ ~InList(y, p)'
  BY <1>1, <1>5, <1>16, ChildLists DEF Zapped
<1>7. \A y \in Conns : InList(y, p)' <=> InList(y, p) /\ y \notin S
  BY <1>5, <1>6, <1>16, ChildLists
<1>8. \A y \in Conns : dbp'[y] = IF y \in S THEN 0 ELSE dbp[y]
  BY <1>4 DEF Set, Typed
<1>9. DOMAIN left = Slots /\ slot[p] \in [Slots -> Dbases]
  BY <1>2 DEF Released, Typed
<1>10. /\ slot'[p] = Set(left, dead, NoDbase) /\ \A q \in Procs : q # p => slot'[q] = slot[q]
  BY <1>4 DEF Typed
<1>11. \A s \in Slots : slot'[p][s] = IF left[s].close THEN NoDbase ELSE left[s]
  BY <1>3, <1>9, <1>10 DEF Set
<1>12. Wants
  BY <1>4, GoneMembers DEF Wants, Typed
<1>13. Pointing'
  <2>1. \A y \in Conns, q \in Children : dbp'[y] # 0 /\ InList(y, q) => InList(y, q)'
    <3>1. \A y \in Conns : dbp'[y] # 0 => y \notin S
      BY <1>8
    <3>. QED  BY <1>5, <1>7, <3>1, ConstantTypes DEF InList
  <2>2. \A y \in Conns : dbp'[y] # 0 => dbp[y] # 0
    BY <1>8
  <2>3. ASSUME NEW s \in Slots, slot'[p][s].name = None
        PROVE  slot'[p][s] = NoDbase \/ slot'[p][s] = slot[p][s]
    <3>1. CASE left[s].close
      BY <1>11, <3>1
    <3>2. CASE ~left[s].close
      <4>1. slot[p][s].name = None
        BY <1>2, <1>9, <1>11, <2>3, <3>2, ReleasedNames
      <4>2. left[s] = slot[p][s]
        BY <1>2, <4>1 DEF Released
      <4>. QED  BY <1>11, <3>2, <4>2
    <3>. QED  BY <3>1, <3>2
  <2>4. \A q \in Procs, s \in Slots :
           slot'[q][s].name = None => slot'[q][s] = NoDbase \/ slot'[q][s] = slot[q][s]
    BY <1>10, <2>3
  <2>. QED  BY <2>1, <2>2, <2>4, PointingStep DEF Points
<1>14. ASSUME ~cut, NEW q \in Children, q # p
       PROVE  Exact(q)'
  <2>1. \A y \in Conns : InList(y, q) => y \notin S
    BY <1>6, <1>14, ConstantTypes DEF Placed, OnePlace
  <2>2. Settled(q)
    BY <1>5, <1>8, <1>10, <1>12, <1>14, <2>1, ConstantTypes DEF Settled, InList, Wants
  <2>. QED  BY <1>14, <2>2, ExactSettled DEF Points, Counting
<1>15. ASSUME ~cut
       PROVE  Exact(p)'
  <2>1. Exact(p)
    BY <1>4, <1>15, ConstantTypes DEF Points, Counting
  <2>2. ASSUME NEW s \in Slots
        PROVE  Users(p, s)' = Users(p, s) \ S
    <3>1. s # 0
      BY DEF Slots
    <3>. QED  BY <1>7, <1>8, <1>16, <3>1, ChildLists DEF Users
  <2>3. ASSUME NEW s \in Slots, slot[p][s].name # None
        PROVE  /\ left[s].name = slot[p][s].name /\ left[s].clients = Cardinality(Users(p, s)')
               /\ left[s].close <=> Users(p, s)' = {}
    <3>1. PICK U : U = Users(p, s)
      OBVIOUS
    <3>2. IsFiniteSet(U) /\ {y \in S : dbp[y] = s} = U \cap S
      BY <1>1, <1>16, <3>1, UserMembers, ChildLists DEF Zapped
    <3>3. slot[p][s].clients = Cardinality(U) /\ U # {} /\ ~slot[p][s].close
      BY <2>1, <2>3, <3>1 DEF Exact
    <3>4. /\ IsFiniteSet(U \cap S) /\ IsFiniteSet(U \ S) /\ U \ S = U \ (U \cap S)
      BY <3>2, FS_Subset
    <3>5. Cardinality(U \ S) = Cardinality(U) - Cardinality(U \cap S)
      <4>1. U \cap (U \cap S) = U \cap S
        OBVIOUS
      <4>. QED  BY <3>2, <3>4, <4>1, FS_Difference
    <3>6. Cardinality(U \ S) \in Nat /\ (Cardinality(U \ S) = 0 <=> U \ S = {})
      BY <3>4, FS_CardinalityType, FS_EmptySet
    <3>7. PICK n \in Nat : n = Cardinality(U \ S)
      BY <3>6
    <3>8. n \in Int /\ n = slot[p][s].clients - Cardinality({y \in S : dbp[y] = s})
      <4>1. Cardinality({y \in S : dbp[y] = s}) = Cardinality(U \cap S)
        BY <3>2, Zenon
      <4>2. Cardinality(U) \in Nat /\ Cardinality(U \cap S) \in Nat
        BY <3>2, <3>4, FS_CardinalityType
      <4>. QED  BY <3>3, <3>5, <3>7, <4>1, <4>2
    <3>9. /\ left[s].clients = n
          /\ n = slot[p][s].clients => left[s].close = slot[p][s].close
          /\ n # slot[p][s].clients => (left[s].close <=> slot[p][s].close \/ n <= 0)
      BY <1>2, <1>9, <2>3, <3>8, ReleasedRecord
    <3>10. n = slot[p][s].clients => n # 0
      BY <3>2, <3>3, FS_EmptySet
    <3>11. left[s].close <=> n = 0
      BY <3>3, <3>7, <3>9, <3>10
    <3>12. left[s].name = slot[p][s].name
      BY <1>2, <1>9, ReleasedNames
    <3>. QED  BY <2>2, <3>1, <3>6, <3>7, <3>9, <3>11, <3>12
  <2>4. ASSUME NEW y \in Conns, InList(y, p)', dbp'[y] # 0
        PROVE  slot'[p][dbp'[y]].name = link'[y].want
    <3>1. InList(y, p) /\ y \notin S /\ dbp'[y] = dbp[y] /\ link'[y].want = link[y].want
      BY <1>7, <1>8, <1>12, <2>4 DEF Wants
    <3>2. PICK s \in Slots : s = dbp[y]
      BY <2>4, <3>1 DEF Typed
    <3>3. slot[p][s].name = link[y].want /\ link[y].want # None
      BY <2>1, <2>4, <3>1, <3>2 DEF Exact, Placed, OnePlace
    <3>4. y \in Users(p, s)'
      BY <2>4, <3>1, <3>2 DEF Users, InList
    <3>5. ~left[s].close /\ left[s].name = slot[p][s].name
      BY <2>3, <3>3, <3>4
    <3>. QED  BY <1>11, <3>1, <3>2, <3>3, <3>5
  <2>5. ASSUME NEW s \in Slots, slot'[p][s].name # None
        PROVE  /\ slot'[p][s].clients = Cardinality(Users(p, s)') /\ Users(p, s)' # {}
               /\ ~slot'[p][s].close
    <3>1. ~left[s].close /\ slot'[p][s] = left[s]
      BY <1>11, <2>5 DEF NoDbase
    <3>2. slot[p][s].name # None
      BY <1>2, <1>9, <2>5, <3>1, ReleasedNames
    <3>. QED  BY <2>3, <3>1, <3>2
  <2>. QED  BY <2>4, <2>5 DEF Exact
<1>. QED  BY <1>4, <1>13, <1>14, <1>15 DEF Points, Counting

LEMMA PointsNext ==
  ASSUME Typed, Placed, Holding, Handing, Recorded, Known, Points, Next
  PROVE  Points'
<1>1. ASSUME Wants, UNCHANGED childs, list' = list
      PROVE  Points'
  BY <1>1, PointsFrame DEF childs
<1>2. ASSUME NEW x \in Conns, NEW d \in Databases, Open(x, d)
      PROVE  Points'
  <2>1. /\ link[x] = Unused /\ UNCHANGED childs /\ slot' = slot /\ list' = list
        /\ link' = [link EXCEPT ![x].want = d, ![x].input = "init", ![x].waiting = TRUE]
    BY <1>2 DEF Open, childs
  <2>2. \A q \in Procs : ~InList(x, q)
    BY <2>1 DEF Placed, OnePlace, Unused
  <2>3. \A y \in Conns : y # x => link'[y] = link[y]
    BY <2>1 DEF Typed
  <2>4. \A q \in Children : Settled(q)
    BY <2>1, <2>2, <2>3, ConstantTypes DEF Settled, InList, childs
  <2>. QED  BY <2>1, <2>4, PointsSettled DEF childs
<1>3. ASSUME NEW x \in Conns, \E what \in {"request", "close", "drop"} : Ask(x, what)
      PROVE  Points'
  <2>1. \E i \in Inputs : link' = [link EXCEPT ![x].input = i, ![x].waiting = TRUE]
    BY <1>3 DEF Ask, Inputs
  <2>2. Wants
    BY <2>1, StepsUnmoved DEF Unmoved, Wants
  <2>3. UNCHANGED childs /\ list' = list
    BY <1>3 DEF Ask
  <2>. QED  BY <1>1, <2>2, <2>3
<1>4. ASSUME NEW x \in Conns, Leave(x)
      PROVE  Points'
  <2>1. link[x].input \in Inputs /\ "none" \in Inputs
    BY DEF Typed, Links, Inputs
  <2>2. \E i \in Inputs : link' = [link EXCEPT ![x].gone = TRUE, ![x].waiting = FALSE, ![x].input = i]
    BY <1>4, <2>1 DEF Leave
  <2>3. Wants
    BY <2>2, StepsUnmoved DEF Unmoved, Wants
  <2>4. UNCHANGED childs /\ list' = list
    BY <1>4 DEF Leave
  <2>. QED  BY <1>1, <2>3, <2>4
<1>5. ASSUME NEW p \in Procs, Select(p)
      PROVE  Points'
  <2>1. UNCHANGED childs
    BY <1>5 DEF Select
  <2>2. CASE p = Mother /\ queue # <<>>
    <3>1. Accept
      BY <1>5, <2>2 DEF Select
    <3>2. PICK x \in Conns : link' = link \/ link' = [link EXCEPT ![x].shut = TRUE, ![x].waiting = FALSE]
      BY <2>2, <3>1, AcceptMoves
    <3>3. Wants
      <4>1. CASE link' = link
        BY <4>1 DEF Wants
      <4>2. CASE link' = [link EXCEPT ![x].shut = TRUE, ![x].waiting = FALSE]
        BY <4>2 DEF Wants, Typed, Links
      <4>. QED  BY <3>2, <4>1, <4>2
    <3>4. \A q \in Procs : q # Mother => list'[q] = list[q]
      BY <2>2, <3>1, AcceptMoves
    <3>. QED  BY <2>1, <3>3, <3>4, ConstantTypes, PointsFrame DEF childs
  <2>3. CASE ~(p = Mother /\ queue # <<>>)
    <3>1. link' = link /\ list' = list
      BY <1>5, <2>3 DEF Select, Accept
    <3>. QED  BY <1>1, <2>1, <3>1 DEF Wants
  <2>. QED  BY <2>2, <2>3
<1>6. ASSUME NEW p \in Procs, TimeOut(p) \/ Skip(p) \/ \E e \in Conns \cup Children : Eof(p, e)
      PROVE  Points'
  <2>1. link' = link /\ list' = list /\ UNCHANGED childs
    BY <1>6 DEF TimeOut, Skip, Eof
  <2>. QED  BY <1>1, <2>1 DEF Wants
<1>7. ASSUME NEW k \in Recs, Childied(k)
      PROVE  Points'
  <2>1. link' = link /\ list' = list /\ UNCHANGED childs
    BY <1>7 DEF Childied
  <2>. QED  BY <1>1, <2>1 DEF Wants
<1>8. ASSUME NEW p \in Procs, MumLost(p) \/ Stop(p) \/ Die(p)
      PROVE  Points'
  BY <1>8, PointsEnds DEF MumLost, Stop, Die
<1>9. ASSUME NEW x \in Conns, PassOn(x) \/ Assign(x)
      PROVE  Points'
  <2>1. Wants
    BY <1>9, StepsUnmoved DEF PassOn, Assign, Begin, Inputs, Unmoved, Wants
  <2>. QED  BY <1>1, <1>9, <2>1 DEF PassOn, Assign
<1>10. ASSUME SendNotice \/ SendSocket
       PROVE  Points'
  BY <1>1, <1>10 DEF SendNotice, SendSocket, Wants
<1>11. ASSUME Forget
       PROVE  Points'
  <2>1. link' = Gone(link, OnlyIn(Mother, {InHand})) /\ UNCHANGED childs
    BY <1>11 DEF Forget
  <2>2. Wants
    BY <2>1, GoneMembers DEF Wants, Typed
  <2>3. \A q \in Procs : q # Mother => list'[q] = list[q]
    BY <1>11, ForgetMoves
  <2>. QED  BY <2>1, <2>2, <2>3, ConstantTypes, PointsFrame DEF childs
<1>18. ASSUME NEW x \in Conns, NEW p \in Children, ForkRefused(x, p)
       PROVE  Points'
  <2>1. Wants
    BY <1>18, StepsUnmoved DEF ForkRefused, Unmoved, Wants
  <2>. QED  BY <1>1, <1>18, <2>1 DEF ForkRefused
<1>19. ASSUME Collapse
       PROVE  Points'
  BY <1>19, PointsEnds, ConstantTypes DEF Collapse
<1>12. ASSUME NEW x \in Conns, NEW p \in Children, NEW k \in Recs, Fork(x, p, k)
       PROVE  Points'
  <2>1. /\ link' = [link EXCEPT ![x].input = "none"]
        /\ Range(list[p]) = {} /\ Range(list'[p]) = {Mother}
        /\ \A q \in Procs : q # Mother /\ q # p => list'[q] = list[q]
    BY <1>12, ForkMoves
  <2>2. UNCHANGED childs
    BY <1>12 DEF Fork
  <2>3. Wants
    BY <2>1, StepsUnmoved DEF Inputs, Unmoved, Wants
  <2>4. \A q \in Children : Settled(q)
    BY <2>1, <2>2, <2>3, ConstantTypes DEF Settled, InList, childs, Wants
  <2>. QED  BY <2>2, <2>4, PointsSettled DEF childs
<1>13. ASSUME NEW x \in Conns, Refuse(x)
       PROVE  Points'
  <2>1. Wants
    BY <1>13, StepsUnmoved DEF Refuse, Unmoved, Wants
  <2>2. UNCHANGED childs /\ list' = list
    BY <1>13 DEF Refuse
  <2>. QED  BY <1>1, <2>1, <2>2
<1>14. ASSUME NEW p \in Procs, NEW x \in Conns, Full(p, x)
       PROVE  Points'
  <2>1. link' = Gone(link, OnlyIn(p, {x})) /\ UNCHANGED childs /\ list' = list
    BY <1>14 DEF Full
  <2>2. Wants
    BY <2>1, GoneMembers DEF Wants, Typed
  <2>. QED  BY <1>1, <2>1, <2>2
<1>15. ASSUME NEW p \in Procs, NEW x \in Conns, OpenFails(p, x)
       PROVE  Points'
  <2>1. TakeOn(p, x) /\ Passed(p, x) /\ slot' = slot /\ dbp' = dbp /\ cut' = cut
    BY <1>15 DEF OpenFails, TakeOn
  <2>2. /\ InChannel(x, p) /\ Range(list'[p]) = Range(list[p]) \cup {x}
        /\ \A q \in Procs : q # p => list'[q] = list[q]
    BY <2>1, PassedMoves, TakeOnMoves
  <2>3. Wants
    BY <1>15, StepsUnmoved DEF OpenFails, Unmoved, Wants
  <2>4. \A q \in Procs : ~InList(x, q)
    BY <2>2 DEF Placed, OnePlace
  <2>5. dbp[x] = 0
    BY <2>4, ConstantTypes DEF Points, Pointing
  <2>6. \A q \in Children : Settled(q)
    BY <2>1, <2>2, <2>3, <2>5, ConstantTypes DEF Settled, InList, Wants
  <2>. QED  BY <2>1, <2>6, PointsSettled
<1>16. ASSUME NEW p \in Procs, NEW x \in Conns, Serve(p, x) \/ Close(p, x) \/ SendMore(p, x)
       PROVE  Points'
  <2>1. UNCHANGED childs /\ list' = list
    BY <1>16 DEF Serve, Close, SendMore, Requested
  <2>2. Wants
    BY <1>16, StepsUnmoved DEF Serve, Close, SendMore, Unmoved, Wants
  <2>. QED  BY <1>1, <2>1, <2>2
<1>17. ASSUME CleanMother
       PROVE  Points'
  <2>1. list' = Kept(Mother) /\ link' = Gone(link, Zapped(Mother) \cap Conns) /\ UNCHANGED childs
    BY <1>17 DEF CleanMother
  <2>2. Wants
    BY <2>1, GoneMembers DEF Wants, Typed
  <2>3. \A q \in Procs : q # Mother => list'[q] = list[q]
    BY <2>1, KeptMoves, ConstantTypes
  <2>. QED  BY <2>1, <2>2, <2>3, ConstantTypes, PointsFrame DEF childs
<1>. QED
  BY NextSteps, PointsPass, PointsDrop, PointsCutOff, PointsClean, <1>2, <1>3, <1>4, <1>5, <1>6,
     <1>7, <1>8, <1>9, <1>10, <1>11, <1>12, <1>13, <1>14, <1>15, <1>16, <1>17, <1>18, <1>19 DEF Steps

-----------------------------------------------------------------------------
(* What the mother hands off.                                                *)
Halts == phase'[Mother] \notin HandingOff
Goes == /\ phase[Mother] \in HandingOff /\ todo'[Mother] = todo[Mother]
        /\ list'[Mother] = list[Mother] /\ handler' = handler

LEMMA HandingStep ==
  ASSUME Handing, Halts \/ (Goes /\ Wants)
  PROVE  Handing'
<1>1. CASE Halts
  BY <1>1 DEF Halts, Handing
<1>2. CASE Goes /\ Wants
  <2>1. PICK x : x = InHand
    OBVIOUS
  <2>2. InHand' = x
    BY <1>2, <2>1 DEF Goes, InHand
  <2>3. /\ todo[Mother] # <<>> /\ x \in Conns /\ x \in Range(list[Mother])
        /\ link[x].want \in Databases /\ handler[link[x].want] # 0
    BY <1>2, <2>1 DEF Handing, Goes
  <2>4. /\ todo'[Mother] # <<>> /\ x \in Conns /\ x \in Range(list'[Mother])
        /\ link'[x].want \in Databases /\ handler'[link'[x].want] # 0
    BY <1>2, <2>3 DEF Goes, Wants
  <2>. QED  BY <2>2, <2>4 DEF Handing
<1>. QED  BY <1>1, <1>2

(* Another process makes a step, or one of the mother that is no hand-off.   *)
LEMMA HandingOther ==
  ASSUME Typed, Handing, Wants, handler' = handler, NEW p \in Procs,
         p = Mother => phase'[Mother] \notin HandingOff,
         \A q \in Procs : q # p => /\ phase'[q] = phase[q] /\ todo'[q] = todo[q]
                                   /\ list'[q] = list[q]
  PROVE  Handing'
<1>1. CASE p = Mother
  BY <1>1, HandingStep DEF Halts
<1>2. CASE p # Mother
  BY <1>2, ConstantTypes, HandingStep DEF Halts, Goes
<1>. QED  BY <1>1, <1>2

(* A step in a turn of p, which only drops or lists something.               *)
LEMMA HandingTurn ==
  ASSUME Typed, Handing, Wants, handler' = handler, NEW p \in Procs,
         phase[p] = "serve", phase' = phase, Done(p),
         \A q \in Procs : q # p => list'[q] = list[q]
  PROVE  Handing'
<1>1. \A q \in Procs : q # p => todo'[q] = todo[q]
  BY DEF Done, Typed
<1>2. "serve" \notin HandingOff
  BY DEF HandingOff
<1>. QED  BY <1>1, <1>2, HandingOther

LEMMA HandingEnds ==
  ASSUME Typed, Handing, NEW p \in Procs, Ends(p), handler' = handler
  PROVE  Handing'
<1>1. Wants
  BY GoneMembers DEF Ends, Wants, Typed
<1>. QED  BY <1>1, EndsMoves, HandingOther DEF HandingOff

(* do_init begins one.                                                       *)
LEMMA HandingBegins ==
  ASSUME Typed, Placed, NEW x \in Conns, Asked(x), Begin(x),
         todo'[Mother] = todo[Mother], Range(list[Mother]) \subseteq Range(list'[Mother]),
         handler'[link[x].want] # 0
  PROVE  Handing'
<1>1. Wants
  BY StepsUnmoved DEF Begin, Inputs, Unmoved, Wants
<1>2. /\ link[x].want \in Databases /\ x \in Range(list[Mother])
      /\ todo[Mother] # <<>> /\ x = Head(todo[Mother])
  BY WantIsDatabase
<1>3. InHand' = x
  BY <1>2 DEF InHand
<1>4. /\ todo'[Mother] # <<>> /\ x \in Range(list'[Mother])
      /\ link'[x].want \in Databases /\ handler'[link'[x].want] # 0
  BY <1>1, <1>2 DEF Wants
<1>. QED  BY <1>3, <1>4 DEF Handing

LEMMA HandingNext ==
  ASSUME Typed, Placed, Holding, Handing, Recorded, Next
  PROVE  Handing'
<1>0. GoOn
  BY StepsGoOn
<1>1. ASSUME Wants, UNCHANGED <<phase, list, todo>>, handler' = handler
      PROVE  Handing'
  BY <1>1, HandingStep DEF Halts, Goes
<1>2. ASSUME NEW x \in Conns, NEW d \in Databases, Open(x, d)
      PROVE  Handing'
  <2>1. /\ link[x] = Unused /\ UNCHANGED <<phase, list, todo>> /\ handler' = handler
        /\ link' = [link EXCEPT ![x].want = d, ![x].input = "init", ![x].waiting = TRUE]
    BY <1>2 DEF Open, mothers
  <2>2. x \notin Range(list[Mother])
    <3>1. x \notin Sent /\ ~InList(x, Mother)
      BY <2>1, ConstantTypes DEF Placed, OnePlace, Unused
    <3>. QED  BY <3>1 DEF InList
  <2>3. \A y \in Conns : y # x => link'[y] = link[y]
    BY <2>1 DEF Typed
  <2>4. PICK y : y = InHand
    OBVIOUS
  <2>5. InHand' = y
    BY <2>1, <2>4 DEF InHand
  <2>6. phase[Mother] \in HandingOff =>
           /\ todo[Mother] # <<>> /\ y \in Conns /\ y \in Range(list[Mother])
           /\ link[y].want \in Databases /\ handler[link[y].want] # 0
    BY <2>4 DEF Handing
  <2>7. phase'[Mother] \in HandingOff =>
           /\ todo'[Mother] # <<>> /\ y \in Conns /\ y \in Range(list'[Mother])
           /\ link'[y].want \in Databases /\ handler'[link'[y].want] # 0
    BY <2>1, <2>2, <2>3, <2>6
  <2>. QED  BY <2>5, <2>7 DEF Handing
<1>3. ASSUME NEW x \in Conns, \E what \in {"request", "close", "drop"} : Ask(x, what)
      PROVE  Handing'
  <2>1. \E i \in Inputs : link' = [link EXCEPT ![x].input = i, ![x].waiting = TRUE]
    BY <1>3 DEF Ask, Inputs
  <2>2. Wants
    BY <2>1, StepsUnmoved DEF Unmoved, Wants
  <2>. QED  BY <1>1, <1>3, <2>2 DEF Ask, mothers
<1>4. ASSUME NEW x \in Conns, Leave(x)
      PROVE  Handing'
  <2>1. link[x].input \in Inputs /\ "none" \in Inputs
    BY DEF Typed, Links, Inputs
  <2>2. \E i \in Inputs : link' = [link EXCEPT ![x].gone = TRUE, ![x].waiting = FALSE, ![x].input = i]
    BY <1>4, <2>1 DEF Leave
  <2>3. Wants
    BY <2>2, StepsUnmoved DEF Unmoved, Wants
  <2>. QED  BY <1>1, <1>4, <2>3 DEF Leave, mothers
<1>5. ASSUME NEW p \in Procs, Select(p)
      PROVE  Handing'
  <2>1. /\ handler' = handler /\ phase'[p] = "serve"
        /\ \A q \in Procs : q # p => phase'[q] = phase[q] /\ todo'[q] = todo[q]
    BY <1>5 DEF Select, mothers, Typed
  <2>2. CASE p = Mother
    BY <2>1, <2>2, HandingStep DEF Halts, HandingOff
  <2>3. CASE p # Mother
    <3>1. link' = link /\ list' = list
      BY <1>5, <2>3 DEF Select
    <3>. QED  BY <2>1, <2>3, <3>1, HandingOther DEF Wants
  <2>. QED  BY <2>2, <2>3
<1>6. ASSUME NEW p \in Procs, TimeOut(p)
      PROVE  Handing'
  <2>1. /\ p # Mother /\ link' = link /\ list' = list /\ todo' = todo /\ handler' = handler
        /\ \A q \in Procs : q # p => phase'[q] = phase[q]
    BY <1>6 DEF TimeOut, mothers, Typed
  <2>. QED  BY <2>1, HandingOther DEF Wants
<1>7. ASSUME NEW p \in Procs, Skip(p) \/ \E e \in Conns \cup Children : Eof(p, e)
      PROVE  Handing'
  <2>1. /\ link' = link /\ list' = list /\ phase' = phase /\ Done(p) /\ handler' = handler
        /\ phase[p] = "serve"
    BY <1>7 DEF Skip, Eof, Turn, mothers
  <2>. QED  BY <2>1, HandingTurn DEF Wants
<1>8. ASSUME NEW p \in Procs, MumLost(p) \/ Stop(p) \/ Die(p)
      PROVE  Handing'
  BY <1>8, HandingEnds DEF MumLost, Stop, Die, mothers
<1>9. ASSUME NEW x \in Conns, PassOn(x)
      PROVE  Handing'
  <2>1. /\ Asked(x) /\ Begin(x) /\ todo' = todo /\ list' = list
        /\ handler'[link[x].want] # 0
    BY <1>9 DEF PassOn, Allowed, mothers
  <2>. QED  BY <2>1, HandingBegins
<1>10. ASSUME NEW x \in Conns, Assign(x)
       PROVE  Handing'
  <2>1. Begin(x) /\ todo' = todo /\ list' = list
    BY <1>10 DEF Assign
  <2>2. PICK k \in Recs : k = LeastLoaded
    BY <1>0, <1>10, AssignRecords
  <2>3. /\ handler' = [handler EXCEPT ![link[x].want] = k] /\ link[x].want \in Databases
        /\ Asked(x)
    BY <1>0, <1>10, <2>2, AssignRecords
  <2>4. handler'[link[x].want] # 0
    BY <2>3 DEF Typed, Recs
  <2>. QED  BY <2>1, <2>3, <2>4, HandingBegins
<1>11. ASSUME NEW x \in Conns, NEW p \in Children, NEW k \in Recs, Fork(x, p, k)
       PROVE  Handing'
  <2>1. Begin(x) /\ todo' = todo
    BY <1>11 DEF Fork
  <2>2. Asked(x) /\ Range(list'[Mother]) = Range(list[Mother]) \cup {p}
    BY <1>11, ForkMoves
  <2>3. handler' = [handler EXCEPT ![link[x].want] = k] /\ link[x].want \in Databases
    BY <1>0, <1>11, ForkRecords
  <2>4. handler'[link[x].want] # 0
    BY <2>3 DEF Typed, Recs
  <2>. QED  BY <2>1, <2>2, <2>4, HandingBegins
<1>12. ASSUME NEW x \in Conns, Refuse(x) \/ \E p \in Children : ForkRefused(x, p)
       PROVE  Handing'
  <2>1. phase[Mother] = "serve"
    BY <1>12 DEF Refuse, ForkRefused, Unknown, Allowed, Asked, Turn
  <2>2. phase'[Mother] = "serve"
    BY <1>12, <2>1, ConstantTypes DEF Refuse, ForkRefused, Typed
  <2>. QED  BY <2>2, HandingStep DEF Halts, HandingOff
<1>13. ASSUME SendNotice \/ SendSocket
       PROVE  Handing'
  BY <1>13, HandingStep DEF SendNotice, SendSocket, Goes, Wants, HandingOff, mothers
<1>14. ASSUME Forget
       PROVE  Handing'
  BY <1>14, ForgetMoves, HandingStep DEF Halts, HandingOff
<1>15. ASSUME Collapse
       PROVE  Handing'
  BY <1>15, HandingEnds, ConstantTypes DEF Collapse, mothers
<1>16. ASSUME NEW p \in Procs, NEW x \in Conns, Full(p, x)
       PROVE  Handing'
  <2>1. /\ Passed(p, x) /\ link' = Gone(link, OnlyIn(p, {x})) /\ list' = list /\ phase' = phase
        /\ handler' = handler
    BY <1>16 DEF Full, mothers
  <2>2. Wants
    BY <2>1, GoneMembers DEF Wants, Typed
  <2>3. phase[p] = "serve" /\ Done(p)
    BY <2>1 DEF Passed, Turn
  <2>. QED  BY <2>1, <2>2, <2>3, HandingTurn
<1>17. ASSUME NEW p \in Procs, NEW x \in Conns, Pass(p, x) \/ OpenFails(p, x)
       PROVE  Handing'
  <2>1. TakeOn(p, x)
    BY <1>17 DEF Pass, OpenFails
  <2>2. /\ phase[p] = "serve" /\ Done(p) /\ phase' = phase /\ handler' = handler
        /\ \A q \in Procs : q # p => list'[q] = list[q]
    BY <2>1, TakeOnMoves DEF TakeOn, Passed, Turn, mothers
  <2>3. Wants
    BY <1>17, StepsUnmoved DEF Pass, OpenFails, Unmoved, Wants
  <2>. QED  BY <2>2, <2>3, HandingTurn
<1>18. ASSUME NEW p \in Procs, NEW x \in Conns, Serve(p, x) \/ Close(p, x) \/ Drop(p, x) \/ SendMore(p, x)
       PROVE  Handing'
  <2>1. Wants
    BY <1>18, StepsUnmoved DEF Serve, Close, Drop, SendMore, Unmoved, Wants
  <2>2. /\ phase[p] = "serve" /\ Done(p) /\ phase' = phase /\ list' = list /\ handler' = handler
    BY <1>18 DEF Serve, Close, Drop, SendMore, Requested, Turn, mothers
  <2>. QED  BY <2>1, <2>2, HandingTurn
<1>19. ASSUME NEW p \in Procs, NEW x \in Conns, CutOff(p, x)
       PROVE  Handing'
  <2>1. link' = Gone(link, OnlyIn(p, {x})) /\ phase' = phase /\ Done(p) /\ handler' = handler
    BY <1>19 DEF CutOff, mothers
  <2>2. Wants
    BY <2>1, GoneMembers DEF Wants, Typed
  <2>. QED  BY <1>19, <2>1, <2>2, CutOffMoves, HandingTurn
<1>20. ASSUME NEW p \in Procs, CleanChild(p)
       PROVE  Handing'
  <2>1. /\ p # Mother /\ list' = Kept(p) /\ todo' = todo /\ handler' = handler
        /\ link' = Gone(link, OnlyIn(p, Zapped(p) \cap Conns))
        /\ phase' = [phase EXCEPT ![p] = "select"]
    BY <1>20 DEF CleanChild, mothers
  <2>2. Wants
    BY <2>1, GoneMembers DEF Wants, Typed
  <2>3. \A q \in Procs : q # p => phase'[q] = phase[q] /\ list'[q] = list[q]
    BY <2>1 DEF Kept, Typed
  <2>. QED  BY <2>1, <2>2, <2>3, HandingOther
<1>21. ASSUME CleanMother
       PROVE  Handing'
  <2>1. phase'[Mother] = "select"
    BY <1>21, ConstantTypes DEF CleanMother, Typed
  <2>. QED  BY <2>1, HandingStep DEF Halts, HandingOff
<1>22. ASSUME NEW k \in Recs, Childied(k)
       PROVE  Handing'
  BY <1>1, <1>22 DEF Childied, Wants
<1>. QED
  BY NextSteps, <1>2, <1>3, <1>4, <1>5, <1>6, <1>7, <1>8, <1>9, <1>10, <1>11, <1>12, <1>13, <1>14,
     <1>15, <1>16, <1>17, <1>18, <1>19, <1>20, <1>21, <1>22 DEF Steps

-----------------------------------------------------------------------------
(* The inductive invariant.                                                  *)
Inv == Typed /\ Placed /\ Holding /\ Handing /\ Recorded /\ Known /\ Points

LEMMA InvInit ==
  ASSUME Init
  PROVE  Inv
<1>1. Typed
  <2>1. link \in [Conns -> Links]
    BY DEF Init, Unused, Links, Inputs
  <2>2. phase \in [Procs -> Phases]
    BY DEF Init, Phases
  <2>3. slot \in [Procs -> [Slots -> Dbases]]
    BY DEF Init, NoDbase, Dbases
  <2>4. rec \in [Recs -> Records]
    BY ConstantTypes DEF Init, NoRec, Records
  <2>5. faults \in 0 .. MaxFaults
    BY DaemonConstants DEF Init
  <2>. QED  BY <2>1, <2>2, <2>3, <2>4, <2>5, EmptyMembers, ConstantTypes DEF Init, Typed, Mother
<1>2. /\ Range(queue) = {} /\ IsInjective(queue) /\ Range(children) = {} /\ IsInjective(children)
      /\ \A p \in Procs : /\ Range(list[p]) = {} /\ IsInjective(list[p])
                          /\ Range(channel[p]) = {} /\ IsInjective(channel[p])
                          /\ Range(todo[p]) = {} /\ closing[p] = {}
  BY EmptyMembers DEF Init
<1>3. \A x \in Conns : link[x].want = None
  BY DEF Init, Unused
<1>9. phase[Mother] = "select"
  BY ConstantTypes DEF Init
<1>4. Placed
  BY <1>2, <1>3, <1>9, ConstantTypes DEF Placed, NoneTwice, OnePlace, InQueue, InList, InChannel, Sent
<1>10. Handing
  BY <1>9 DEF Handing, HandingOff
<1>5. Holding
  <2>1. phase[Mother] = "select" /\ \A p \in Procs : p # Mother => phase[p] = "none"
    BY ConstantTypes DEF Init
  <2>2. \A p \in Procs : Blank(p)
    BY DEF Init, Blank
  <2>. QED  BY <1>2, <2>1, <2>2, ConstantTypes DEF Holding, MotherPhases, HandingOff
<1>6. Recorded
  BY <1>2 DEF Recorded, HandlerStands, Init
<1>7. Known
  <2>1. \A p \in Procs, s \in Slots : slot[p][s].name = None
    BY DEF Init, NoDbase
  <2>. QED  BY <1>2, <2>1, DaemonConstants DEF Known, Concerned, InChannel
<1>8. Points
  <2>1. \A p \in Procs, s \in Slots : slot[p][s] = NoDbase /\ slot[p][s].name = None
    BY DEF Init, NoDbase
  <2>2. \A x \in Conns : dbp[x] = 0
    BY DEF Init
  <2>. QED  BY <2>1, <2>2, ConstantTypes DEF Points, Pointing, Counting, Exact
<1>. QED  BY <1>1, <1>4, <1>5, <1>6, <1>7, <1>8, <1>10 DEF Inv

LEMMA InvNext ==
  ASSUME Inv, [Next]_vars
  PROVE  Inv'
<1>1. CASE Next
  BY <1>1, TypedNext, PlacedNext, HoldingNext, HandingNext, RecordedNext, KnownNext, PointsNext DEF Inv
<1>2. CASE UNCHANGED vars
  <2>1. /\ Typed' /\ Holding' /\ Recorded'
    BY <1>2 DEF Inv, vars, childs, mothers, Typed, Holding, Live, Blank, Recorded, RecordStands,
                HandlerStands, Forked
  <2>2. Sent' = Sent /\ Handing'
    BY <1>2 DEF Inv, vars, childs, mothers, Sent, InHand, Handing
  <2>3. /\ Placed' /\ Known'
    BY <1>2, <2>2 DEF Inv, vars, childs, mothers, Placed, NoneTwice, OnePlace, InQueue, InList,
                      InChannel, Known, Concerned
  <2>4. Points'
    BY <1>2, <2>2 DEF Inv, vars, childs, mothers, Points, Pointing, Counting, Exact, Users, InList
  <2>. QED  BY <2>1, <2>2, <2>3, <2>4 DEF Inv
<1>. QED  BY <1>1, <1>2

THEOREM Invariance == Spec => []Inv
BY InvInit, InvNext, PTL DEF Spec

(* The types of the variables of the daemon; a process lists nothing twice,  *)
(* and the mother keeps no record of a child twice.                          *)
THEOREM DaemonTypes == Spec => []TypeOK
<1>1. Inv => TypeOK
  BY DEF Inv, Typed, Placed, NoneTwice, Recorded, TypeOK
<1>. QED  BY <1>1, Invariance, PTL

(* A connection is in one place, as long as it is open, or with the mother   *)
(* who has sent it and only forgets it: handoff_fd hands it to a child and   *)
(* forgets it, whoever dies between its messages.                            *)
THEOREM OneProcess == Spec => []InOnePlace
<1>1. ASSUME Inv, NEW x \in Conns
      PROVE  /\ x \in Sent => Cardinality(Places(x)) <= 1
             /\ x \notin Sent =>
                  Cardinality(Places(x)) = IF link[x].want # None /\ ~link[x].shut THEN 1 ELSE 0
  <2>1. OnePlace(x)
    BY <1>1 DEF Inv, Placed
  <2>2. \A e : e \in Places(x) <=> \/ InQueue(x) /\ e = <<"queue">>
                                   \/ \E p \in Procs : InList(x, p) /\ e = <<"list", p>>
                                   \/ \E p \in Procs : InChannel(x, p) /\ e = <<"channel", p>>
    <3>1. \A p \in Procs : x \in Reads(p) <=> InList(x, p)
      BY DEF Reads, InList
    <3>. QED  BY <3>1 DEF Places, InQueue, InChannel
  <2>3. Places(x) = {} \/ \E e : Places(x) = {e}
    <3>1. CASE InQueue(x)
      <4>1. Places(x) = {<<"queue">>}
        BY <2>1, <2>2, <3>1 DEF OnePlace
      <4>. QED  BY <4>1
    <3>2. ASSUME NEW p \in Procs, InList(x, p)
          PROVE  \E e : Places(x) = {e}
      <4>1. ~InQueue(x) /\ \A q \in Procs : (InList(x, q) => q = p) /\ ~InChannel(x, q)
        BY <2>1, <3>2 DEF OnePlace
      <4>2. Places(x) = {<<"list", p>>}
        BY <2>2, <3>2, <4>1
      <4>. QED  BY <4>2
    <3>3. ASSUME NEW p \in Procs, InChannel(x, p)
          PROVE  \E e : Places(x) = {e}
      <4>1. ~InQueue(x) /\ \A q \in Procs : (InChannel(x, q) => q = p) /\ ~InList(x, q)
        BY <2>1, <3>3 DEF OnePlace
      <4>2. Places(x) = {<<"channel", p>>}
        BY <2>2, <3>3, <4>1
      <4>. QED  BY <4>2
    <3>4. CASE ~InQueue(x) /\ \A p \in Procs : ~InList(x, p) /\ ~InChannel(x, p)
      BY <2>2, <3>4
    <3>. QED  BY <3>1, <3>2, <3>3, <3>4
  <2>4. Places(x) = {} => Cardinality(Places(x)) = 0
    BY FS_EmptySet
  <2>5. (\E e : Places(x) = {e}) => Cardinality(Places(x)) = 1
    BY FS_Singleton
  <2>6. x \notin Sent => (Places(x) # {} <=> link[x].want # None /\ ~link[x].shut)
    BY <2>1, <2>2 DEF OnePlace
  <2>. QED  BY <2>3, <2>4, <2>5, <2>6
<1>2. Inv => InOnePlace
  BY <1>1 DEF InOnePlace
<1>. QED  BY <1>2, Invariance, PTL

(* Whatever a process has to do with a database, an open record of it or a   *)
(* connection on its way that asked for it, the mother has noted in get_dbp, *)
(* and her note outlives every fork, hand-off, death and reaped record.      *)
THEOREM MotherKnows == Spec => []Known
<1>1. Inv => Known
  BY DEF Inv
<1>. QED  BY <1>1, Invariance, PTL

(* A database is open in one process, once.                                  *)
THEOREM OneOwner == Spec => []OpenOnce
<1>1. ASSUME Inv, NEW d \in Databases
      PROVE  /\ Cardinality(Opened(d)) <= 1
             /\ \A o \in Opened(d) : handler[d] # 0 /\ rec[handler[d]].r = o[1]
  <2>1. \A o \in Opened(d) : /\ o[1] \in Procs /\ o[2] \in Slots /\ o = <<o[1], o[2]>>
                             /\ slot[o[1]][o[2]].name = d
    BY DEF Opened
  <2>2. \A o \in Opened(d) : handler[d] # 0 /\ rec[handler[d]].r = o[1]
    BY <1>1, <2>1 DEF Inv, Known, Concerned
  <2>3. \A o, u \in Opened(d) : o = u
    <3>. SUFFICES ASSUME NEW o \in Opened(d), NEW u \in Opened(d)
                  PROVE  o = u
      OBVIOUS
    <3>1. o[1] = u[1]
      BY <2>2
    <3>2. o[2] = u[2]
      BY <1>1, <2>1, <3>1, DaemonConstants DEF Inv, Known
    <3>. QED  BY <2>1, <3>1, <3>2
  <2>4. CASE Opened(d) = {}
    BY <2>2, <2>4, FS_EmptySet
  <2>5. CASE Opened(d) # {}
    <3>1. PICK o : Opened(d) = {o}
      BY <2>3, <2>5
    <3>2. Cardinality(Opened(d)) = 1
      BY <3>1, FS_Singleton
    <3>. QED  BY <2>2, <3>2
  <2>. QED  BY <2>4, <2>5
<1>2. Inv => OpenOnce
  BY <1>1 DEF OpenOnce
<1>. QED  BY <1>2, Invariance, PTL

(* As long as nothing was zapped in the middle of a round, a database record *)
(* counts the connections to it, and clean_children frees none that is used. *)
THEOREM CountsExact == Spec => []CountsAgree
<1>1. ASSUME Inv, ~cut, NEW p \in Children
      PROVE  Counted(p) /\ NoneFreed(p)
  <2>1. Exact(p)
    BY <1>1 DEF Inv, Points, Counting
  <2>2. Counted(p)
    BY <2>1 DEF Exact, Counted
  <2>3. NoneFreed(p)
    BY <2>1, ChildLists DEF Exact, NoneFreed
  <2>. QED  BY <2>2, <2>3
<1>2. Inv => CountsAgree
  BY <1>1 DEF CountsAgree
<1>. QED  BY <1>2, Invariance, PTL
=============================================================================
