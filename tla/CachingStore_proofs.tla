------------------------- MODULE CachingStore_proofs -------------------------
(***************************************************************************)
(* Proofs about CachingStore: the list of the cache is exact, what it will *)
(* not write back is what the backend holds, and the calls that no failing *)
(* request precedes are answered as FlatStore promises.                    *)
(***************************************************************************)
EXTENDS CachingStore, SequenceTheorems, TLAPS

(* What cachekey knows of the call under way: a key that is about to be    *)
(* read or stored is not cached and has room.                              *)
CallOK ==
  /\ call.pc = "idle" => call = Idle
  /\ call.pc \in {"evict", "request"} =>
       /\ call.key \in usage.plain \cup usage.packed
       /\ call.op # "delete" => call.key \in usage.plain
       /\ call.op \in Reads \cup {"store", "delete"}
       /\ call.op = "store" => call.val \in Value
  /\ call.pc = "evict" => call.key \notin Cached /\ Len(lru) >= MaxCache
  /\ call.pc = "request" =>
       \/ call.key \notin Cached /\ Len(lru) < MaxCache
       \/ call.key \in Cached /\ call.op = "delete"
  /\ call.pc = "purge" => call.op \in Purgers

(* An entry e beside the value b of the backend.  Without failing requests *)
(* every entry tells what the backend holds, or is to be written.          *)
EntryOK(e, b, f) ==
  /\ e.state = "EXISTS" => e.val = b
  /\ f = 0 => e.state # "UNDEF" /\ (e.state = "NOTFOUND" => b = None)

(* That is so of the keys that are not written around the cache.  Of those *)
(* that only are, the cache knows at most a deletion.                      *)
Fits(k, e, b, f) ==
  /\ k \in usage.plain \cup usage.packed
  /\ e.state \in {"EXISTS", "CHANGED"} <=> e.val # None
  /\ k \notin usage.plain => e.state = "NOTFOUND"
  /\ k \notin usage.packed => EntryOK(e, b, f)

EntriesOK == \A k \in Cached : Fits(k, cache[k], backend[k], faults)

IInv == TypeOK /\ LruExact /\ CallOK /\ EntriesOK /\ NothingOlder

-----------------------------------------------------------------------------
(* The list.                                                               *)

(* Taking the element at position i of a list out of it. *)
LEMMA ListWithout ==
  ASSUME NEW S, NEW s \in Seq(S), NEW i \in 1 .. Len(s)
  PROVE  /\ Without(s, i) \in Seq(S)
         /\ Len(Without(s, i)) = Len(s) - 1
         /\ \A j \in 1 .. Len(s) - 1 :
              Without(s, i)[j] = IF j < i THEN s[j] ELSE s[j + 1]
  <1> DEFINE a == SubSeq(s, 1, i - 1)
             b == SubSeq(s, i + 1, Len(s))
  <1>1. /\ i \in Int /\ i - 1 \in Int /\ i + 1 \in Int /\ Len(s) \in Nat
        /\ 1 <= i /\ i <= Len(s)
    BY LenProperties
  <1>2. /\ a \in Seq(S) /\ Len(a) = i - 1
        /\ \A j \in 1 .. i - 1 : a[j] = s[j]
    <2>1. \A j \in 1 .. i - 1 : s[j] \in S
      BY <1>1, ElementOfSeq
    <2>2. /\ a \in Seq(S)
          /\ Len(a) = IF 1 <= i - 1 THEN (i - 1) - 1 + 1 ELSE 0
          /\ \A j \in 1 .. (i - 1) - 1 + 1 : a[j] = s[1 + j - 1]
      BY <2>1, <1>1, SubSeqProperties
    <2> QED BY <2>2, <1>1
  <1>3. /\ b \in Seq(S) /\ Len(b) = Len(s) - i
        /\ \A j \in 1 .. Len(s) - i : b[j] = s[i + j]
    <2>1. \A j \in i + 1 .. Len(s) : s[j] \in S
      BY <1>1, ElementOfSeq
    <2>2. /\ b \in Seq(S)
          /\ Len(b) = IF i + 1 <= Len(s) THEN Len(s) - (i + 1) + 1 ELSE 0
          /\ \A j \in 1 .. Len(s) - (i + 1) + 1 : b[j] = s[(i + 1) + j - 1]
      BY <2>1, <1>1, SubSeqProperties
    <2> QED BY <2>2, <1>1
  <1> HIDE DEF a, b
  <1>4. /\ a \o b \in Seq(S) /\ Len(a \o b) = Len(a) + Len(b)
        /\ \A j \in 1 .. Len(a) + Len(b) :
             (a \o b)[j] = IF j <= Len(a) THEN a[j] ELSE b[j - Len(a)]
    BY <1>2, <1>3, ConcatProperties
  <1>5. \A j \in 1 .. Len(a \o b) : (a \o b)[j] = IF j < i THEN s[j] ELSE s[j + 1]
    <2> TAKE j \in 1 .. Len(a \o b)
    <2>1. CASE j < i
      BY <2>1, <1>1, <1>2, <1>3, <1>4
    <2>2. CASE ~(j < i)
      <3>1. j - (i - 1) \in 1 .. Len(s) - i /\ i + (j - (i - 1)) = j + 1
        BY <2>2, <1>1, <1>2, <1>3, <1>4
      <3> QED BY <3>1, <2>2, <1>1, <1>2, <1>3, <1>4
    <2> QED BY <2>1, <2>2
  <1>6. Len(a \o b) = Len(s) - 1
    BY <1>1, <1>2, <1>3, <1>4
  <1>7. Without(s, i) = a \o b
    BY DEF Without, a, b
  <1> QED BY <1>4, <1>5, <1>6, <1>7

(* Putting an element in front of a list. *)
LEMMA ListFront ==
  ASSUME NEW S, NEW s \in Seq(S), NEW x \in S
  PROVE  /\ <<x>> \o s \in Seq(S)
         /\ Len(<<x>> \o s) = Len(s) + 1
         /\ \A j \in 1 .. Len(s) + 1 : (<<x>> \o s)[j] = IF j = 1 THEN x ELSE s[j - 1]
  <1>1. <<x>> \in Seq(S) /\ Len(<<x>>) = 1 /\ <<x>>[1] = x
    OBVIOUS
  <1>2. /\ <<x>> \o s \in Seq(S) /\ Len(<<x>> \o s) = 1 + Len(s)
        /\ \A j \in 1 .. 1 + Len(s) :
             (<<x>> \o s)[j] = IF j <= 1 THEN <<x>>[j] ELSE s[j - 1]
    BY <1>1, ConcatProperties
  <1> QED BY <1>1, <1>2, LenProperties

Distinct(s) == \A i, j \in 1 .. Len(s) : s[i] = s[j] => i = j
ElementsOf(s) == {s[i] : i \in 1 .. Len(s)}

(* cachekey moves or puts a key to the head of the list; no other key      *)
(* enters, leaves or is doubled.                                           *)
LEMMA ToHeadList ==
  ASSUME lru \in Seq(Key), LruExact, NEW k \in Key
  PROVE  /\ ToHead(k) \in Seq(Key)
         /\ Len(ToHead(k)) = IF k \in Cached THEN Len(lru) ELSE Len(lru) + 1
         /\ Distinct(ToHead(k))
         /\ ElementsOf(ToHead(k)) = Cached \cup {k}
  <1>1. Len(lru) \in Nat /\ ElementsOf(lru) = Cached /\ Distinct(lru)
    BY LenProperties DEF LruExact, ElementsOf, Distinct
  <1>2. CASE k \in Cached
    <2> DEFINE i == At(k)
               t == Without(lru, i)
    <2>1. i \in 1 .. Len(lru) /\ lru[i] = k
      BY <1>1, <1>2 DEF At, ElementsOf
    <2> HIDE DEF i
    <2>2. /\ t \in Seq(Key) /\ Len(t) = Len(lru) - 1
          /\ \A j \in 1 .. Len(t) : t[j] = IF j < i THEN lru[j] ELSE lru[j + 1]
      BY <2>1, ListWithout
    <2>3. ToHead(k) = <<k>> \o t
      BY <1>2 DEF ToHead, i
    <2> HIDE DEF t
    <2>4. /\ ToHead(k) \in Seq(Key) /\ Len(ToHead(k)) = Len(lru)
          /\ \A j \in 1 .. Len(lru) : ToHead(k)[j] = IF j = 1 THEN k ELSE t[j - 1]
      BY <2>2, <2>3, <1>1, ListFront
    <2> DEFINE Old(j) == IF j = 1 THEN i ELSE IF j - 1 < i THEN j - 1 ELSE j
    <2>5. \A j \in 1 .. Len(lru) : Old(j) \in 1 .. Len(lru) /\ ToHead(k)[j] = lru[Old(j)]
      BY <2>1, <2>2, <2>4, <1>1
    <2>6. \A j, m \in 1 .. Len(lru) : Old(j) = Old(m) => j = m
      BY <2>1, <1>1
    <2>7. \A n \in 1 .. Len(lru) : \E j \in 1 .. Len(lru) : Old(j) = n
      <3> TAKE n \in 1 .. Len(lru)
      <3> DEFINE j == IF n = i THEN 1 ELSE IF n < i THEN n + 1 ELSE n
      <3>1. j \in 1 .. Len(lru) /\ Old(j) = n
        BY <2>1, <1>1
      <3> QED BY <3>1
    <2> HIDE DEF Old
    <2>8. Distinct(ToHead(k))
      BY <2>4, <2>5, <2>6, <1>1 DEF Distinct
    <2>9. ElementsOf(ToHead(k)) = ElementsOf(lru)
      <3>1. Len(ToHead(k)) = Len(lru)
        BY <2>4
      <3>2. ASSUME NEW x \in ElementsOf(lru) PROVE x \in ElementsOf(ToHead(k))
        <4>1. PICK n \in 1 .. Len(lru) : x = lru[n]
          BY <3>2 DEF ElementsOf
        <4>2. PICK j \in 1 .. Len(lru) : Old(j) = n
          BY <2>7
        <4> QED BY <4>1, <4>2, <2>5, <3>1 DEF ElementsOf
      <3>3. ASSUME NEW x \in ElementsOf(ToHead(k)) PROVE x \in ElementsOf(lru)
        <4>1. PICK j \in 1 .. Len(lru) : x = ToHead(k)[j]
          BY <3>1 DEF ElementsOf
        <4> QED BY <4>1, <2>5 DEF ElementsOf
      <3> QED BY <3>2, <3>3
    <2> QED BY <1>1, <1>2, <2>4, <2>8, <2>9
  <1>3. CASE k \notin Cached
    <2>1. ToHead(k) = <<k>> \o lru
      BY <1>3 DEF ToHead
    <2>2. /\ ToHead(k) \in Seq(Key) /\ Len(ToHead(k)) = Len(lru) + 1
          /\ \A j \in 1 .. Len(lru) + 1 : ToHead(k)[j] = IF j = 1 THEN k ELSE lru[j - 1]
      BY <2>1, ListFront
    <2>3. \A j \in 1 .. Len(lru) : lru[j] # k
      BY <1>1, <1>3 DEF ElementsOf
    <2>4. Distinct(ToHead(k))
      <3> SUFFICES ASSUME NEW j \in 1 .. Len(lru) + 1, NEW m \in 1 .. Len(lru) + 1,
                          ToHead(k)[j] = ToHead(k)[m]
                   PROVE  j = m
        BY <2>2 DEF Distinct
      <3>1. CASE j = 1 \/ m = 1
        BY <3>1, <2>2, <2>3, <1>1
      <3>2. CASE j # 1 /\ m # 1
        <4>1. /\ j - 1 \in 1 .. Len(lru) /\ m - 1 \in 1 .. Len(lru)
              /\ lru[j - 1] = lru[m - 1]
          BY <3>2, <2>2, <1>1
        <4>2. j - 1 = m - 1
          BY <4>1, <1>1 DEF Distinct
        <4> QED BY <4>2
      <3> QED BY <3>1, <3>2
    <2>5. ElementsOf(ToHead(k)) = ElementsOf(lru) \cup {k}
      <3>1. \A j \in 1 .. Len(lru) : j + 1 \in 1 .. Len(lru) + 1 /\ ToHead(k)[j + 1] = lru[j]
        BY <2>2, <1>1
      <3>2. \A j \in 1 .. Len(lru) + 1 : j # 1 => j - 1 \in 1 .. Len(lru)
        BY <1>1
      <3>3. 1 \in 1 .. Len(lru) + 1
        BY <1>1
      <3> QED BY <2>2, <3>1, <3>2, <3>3 DEF ElementsOf
    <2> QED BY <1>1, <1>3, <2>2, <2>4, <2>5
  <1> QED BY <1>2, <1>3

(* The two places where an entry leaves: the tail of the list, when one is *)
(* evicted, and its head, when the cache is purged.                        *)
LEMMA ListShorter ==
  ASSUME lru \in Seq(Key), LruExact, lru # <<>>, NEW k \in Key, NEW s,
         \/ k = Last /\ s = SubSeq(lru, 1, Len(lru) - 1)
         \/ k = Head(lru) /\ s = Tail(lru)
  PROVE  /\ s \in Seq(Key) /\ Len(s) = Len(lru) - 1
         /\ Distinct(s) /\ ElementsOf(s) = Cached \ {k}
         /\ k \in Cached
  <1>1. /\ Len(lru) \in Nat /\ Len(lru) >= 1
        /\ ElementsOf(lru) = Cached /\ Distinct(lru)
        /\ \A j \in 1 .. Len(lru) : lru[j] \in Key
    BY LenProperties, EmptySeq, ElementOfSeq DEF LruExact, ElementsOf, Distinct
  <1>2. ASSUME NEW i \in 1 .. Len(lru), k = lru[i], NEW d \in {0, 1},
               i = IF d = 0 THEN Len(lru) ELSE 1,
               s \in Seq(Key), Len(s) = Len(lru) - 1,
               \A j \in 1 .. Len(lru) - 1 : s[j] = lru[j + d]
        PROVE  Distinct(s) /\ ElementsOf(s) = Cached \ {k} /\ k \in Cached
    <2>1. \A j \in 1 .. Len(lru) - 1 : j + d \in 1 .. Len(lru) /\ j + d # i
      BY <1>1, <1>2
    <2>2. Distinct(s)
      <3> SUFFICES ASSUME NEW j \in 1 .. Len(lru) - 1, NEW m \in 1 .. Len(lru) - 1,
                          s[j] = s[m]
                   PROVE  j = m
        BY <1>2 DEF Distinct
      <3>1. j + d = m + d
        BY <2>1, <1>1, <1>2 DEF Distinct
      <3> QED BY <3>1, <1>1
    <2>3. \A j \in 1 .. Len(lru) - 1 : s[j] \in ElementsOf(lru) /\ s[j] # k
      BY <2>1, <1>1, <1>2 DEF Distinct, ElementsOf
    <2>4. ASSUME NEW x \in ElementsOf(lru), x # k PROVE x \in ElementsOf(s)
      <3>1. PICK n \in 1 .. Len(lru) : x = lru[n]
        BY <2>4 DEF ElementsOf
      <3>2. n - d \in 1 .. Len(lru) - 1 /\ (n - d) + d = n
        BY <3>1, <2>4, <1>1, <1>2
      <3>3. s[n - d] = x
        BY <3>1, <3>2, <1>2
      <3> QED BY <3>2, <3>3, <1>2 DEF ElementsOf
    <2>5. ElementsOf(s) = ElementsOf(lru) \ {k}
      <3>1. \A x \in ElementsOf(s) : x \in ElementsOf(lru) \ {k}
        BY <2>3, <1>2 DEF ElementsOf
      <3> QED BY <3>1, <2>4
    <2>6. k \in ElementsOf(lru)
      BY <1>2 DEF ElementsOf
    <2> QED BY <2>2, <2>5, <2>6, <1>1
  <1>3. CASE k = Last /\ s = SubSeq(lru, 1, Len(lru) - 1)
    <2>1. /\ 1 \in Int /\ Len(lru) - 1 \in Int
          /\ \A j \in 1 .. Len(lru) - 1 : lru[j] \in Key
      BY <1>1
    <2>2. /\ s \in Seq(Key)
          /\ Len(s) = IF 1 <= Len(lru) - 1 THEN (Len(lru) - 1) - 1 + 1 ELSE 0
          /\ \A j \in 1 .. (Len(lru) - 1) - 1 + 1 : s[j] = lru[1 + j - 1]
      BY <2>1, <1>3, SubSeqProperties
    <2>3. Len(s) = Len(lru) - 1 /\ \A j \in 1 .. Len(lru) - 1 : s[j] = lru[j + 0]
      <3>1. (Len(lru) - 1) - 1 + 1 = Len(lru) - 1
        BY <1>1
      <3>2. \A j \in 1 .. Len(lru) - 1 : 1 + j - 1 = j + 0
        BY <1>1
      <3>3. Len(s) = Len(lru) - 1
        <4>1. \A n \in Nat : n >= 1 =>
                (IF 1 <= n - 1 THEN (n - 1) - 1 + 1 ELSE 0) = n - 1
          OBVIOUS
        <4>2. Len(s) = IF 1 <= Len(lru) - 1 THEN (Len(lru) - 1) - 1 + 1 ELSE 0
          BY <2>2
        <4> QED BY <4>1, <4>2, <1>1, Zenon
      <3> QED BY <2>2, <3>1, <3>2, <3>3
    <2>4. Len(lru) \in 1 .. Len(lru) /\ k = lru[Len(lru)]
      BY <1>1, <1>3 DEF Last
    <2> QED BY <2>2, <2>3, <2>4, <1>2
  <1>4. CASE k = Head(lru) /\ s = Tail(lru)
    <2>1. /\ s \in Seq(Key) /\ Len(s) = Len(lru) - 1
          /\ \A j \in 1 .. Len(lru) - 1 : s[j] = lru[j + 1]
      BY <1>4, HeadTailProperties
    <2>2. 1 \in 1 .. Len(lru) /\ k = lru[1]
      BY <1>1, <1>4
    <2> QED BY <2>1, <2>2, <1>2
  <1> QED BY <1>3, <1>4

-----------------------------------------------------------------------------
(* The entries.                                                            *)

USE CacheConstants

LEMMA EntryIsSome == None \notin Entry /\ \A s \in States, v \in Value \cup {None} :
                       [state |-> s, val |-> v] \in Entry \ {None}
  BY DEF Entry

(* Every key a caller may use is a key. *)
LEMMA UsedIsKey ==
  ASSUME TypeOK
  PROVE  usage.plain \subseteq Key /\ usage.packed \subseteq Key
  BY DEF TypeOK, UsageType

(* What cachekey does with an entry it puts at the head: if the new entry  *)
(* fits what the backend holds by then, all is well.                       *)
LEMMA Installed ==
  ASSUME IInv, NEW k, NEW s \in States, NEW v \in Value \cup {None},
         Install(k, s, v), k \in Cached \/ Len(lru) < MaxCache,
         usage' = usage, running' = running,
         faults' \in 0 .. MaxFaults, faults' = 0 => faults = 0,
         backend' \in [Key -> Value \cup {None}],
         \A j \in Key \ {k} : backend'[j] = backend[j],
         recent' \in [Key -> SUBSET (Value \cup {None})],
         \A j \in Key : recent[j] \subseteq recent'[j],
         backend'[k] \in recent'[k], s = "CHANGED" => v \in recent'[k],
         Fits(k, [state |-> s, val |-> v], backend'[k], faults'),
         call' = Idle, answer' \in ReplyType
  PROVE  IInv'
  <1>1. k \in Key
    BY UsedIsKey DEF IInv, Fits
  <1>2. /\ cache' \in [Key -> Entry \cup {None}]
        /\ cache'[k] = [state |-> s, val |-> v]
        /\ \A j \in Key \ {k} : cache'[j] = cache[j]
    BY <1>1, EntryIsSome DEF IInv, TypeOK, Install
  <1>3. Cached' = Cached \cup {k}
    BY <1>1, <1>2, EntryIsSome DEF Cached
  <1>4. /\ lru' \in Seq(Key)
        /\ Len(lru') = IF k \in Cached THEN Len(lru) ELSE Len(lru) + 1
        /\ Distinct(lru') /\ ElementsOf(lru') = Cached'
    <2>1. lru \in Seq(Key) /\ LruExact /\ lru' = ToHead(k)
      BY DEF IInv, TypeOK, Install
    <2> QED BY <2>1, <1>1, <1>3, ToHeadList
  <1>5. TypeOK'
    <2>1. call' \in CallType
      BY DEF Idle, CallType
    <2> QED BY <2>1, <1>2, <1>4 DEF IInv, TypeOK
  <1>6. LruExact'
    <2>1. Len(lru') <= MaxCache
      BY <1>4, LenProperties DEF IInv, TypeOK, LruExact
    <2> QED BY <2>1, <1>4 DEF LruExact, Distinct, ElementsOf
  <1>7. CallOK'
    BY DEF CallOK, Idle
  <1>8. EntriesOK'
    <2> SUFFICES ASSUME NEW j \in Cached'
                 PROVE  Fits(j, cache'[j], backend'[j], faults')
      BY DEF EntriesOK, Fits
    <2>1. CASE j = k
      BY <2>1, <1>2
    <2>2. CASE j # k
      <3>1. j \in Cached /\ j \in Key
        BY <2>2, <1>3 DEF Cached
      <3>2. Fits(j, cache[j], backend[j], faults)
        BY <3>1 DEF IInv, EntriesOK
      <3>3. cache'[j] = cache[j] /\ backend'[j] = backend[j]
        BY <3>1, <2>2, <1>2
      <3> QED BY <3>2, <3>3 DEF Fits, EntryOK
    <2> QED BY <2>1, <2>2
  <1>9. NothingOlder'
    <2> SUFFICES ASSUME NEW j \in Key
                 PROVE  /\ backend'[j] \in recent'[j]
                        /\ (j \in Cached' /\ cache'[j].state = "CHANGED")
                             => cache'[j].val \in recent'[j]
      BY DEF NothingOlder
    <2>1. CASE j = k
      BY <2>1, <1>2
    <2>2. CASE j # k
      BY <2>2, <1>2, <1>3 DEF IInv, NothingOlder
    <2> QED BY <2>1, <2>2
  <1> QED BY <1>5, <1>6, <1>7, <1>8, <1>9 DEF IInv

(* _store and _drp: an entry is written if need be and leaves the cache.   *)
LEMMA Dropped ==
  ASSUME IInv, lru # <<>>, NEW k \in Key, Drop(k),
         \/ k = Last /\ lru' = SubSeq(lru, 1, Len(lru) - 1)
         \/ k = Head(lru) /\ lru' = Tail(lru),
         UNCHANGED <<usage, answer, running, recent>>, call' \in CallType
  PROVE  /\ TypeOK' /\ LruExact' /\ EntriesOK' /\ NothingOlder'
         /\ Cached' = Cached \ {k} /\ k \in Cached
         /\ Len(lru') = Len(lru) - 1
         /\ faults' = 0 => faults = 0
         /\ faults' = 0 /\ Apart => Contents' = Contents
  <1>1. /\ lru' \in Seq(Key) /\ Len(lru') = Len(lru) - 1
        /\ Distinct(lru') /\ ElementsOf(lru') = Cached \ {k}
        /\ k \in Cached
    <2>1. lru \in Seq(Key) /\ LruExact
      BY DEF IInv, TypeOK
    <2> QED BY <2>1, ListShorter
  <1>2. /\ cache' \in [Key -> Entry \cup {None}] /\ cache'[k] = None
        /\ \A j \in Key \ {k} : cache'[j] = cache[j]
    BY DEF IInv, TypeOK, Drop
  <1>3. Cached' = Cached \ {k}
    BY <1>2 DEF Cached
  <1>4. cache[k] \in Entry /\ Fits(k, cache[k], backend[k], faults)
    BY <1>1 DEF IInv, TypeOK, EntriesOK, Cached
  <1>5. /\ backend' \in [Key -> Value \cup {None}]
        /\ \A j \in Key \ {k} : backend'[j] = backend[j]
        /\ \/ backend'[k] = backend[k]
           \/ cache[k].state = "CHANGED" /\ backend'[k] = cache[k].val
        /\ faults' \in 0 .. MaxFaults
        /\ faults' = 0 => /\ faults = 0
                          /\ cache[k].state = "CHANGED" => backend'[k] = cache[k].val
    <2>1. backend \in [Key -> Value \cup {None}] /\ faults \in 0 .. MaxFaults
      BY DEF IInv, TypeOK
    <2>2. cache[k].val \in Value \cup {None}
      BY <1>4 DEF Entry
    <2>3. CASE cache[k].state # "CHANGED"
      BY <2>1, <2>3 DEF Drop
    <2>4. CASE cache[k].state = "CHANGED"
      <3>1. CASE backend' = Written(k) /\ UNCHANGED faults
        BY <2>1, <2>2, <2>4, <3>1 DEF Written
      <3>2. CASE /\ faults < MaxFaults /\ faults' = faults + 1
                 /\ backend' \in {backend, Written(k)}
        <4>1. faults' \in 0 .. MaxFaults /\ faults' # 0
          BY <2>1, <3>2
        <4> QED BY <2>1, <2>2, <2>4, <3>2, <4>1 DEF Written
      <3> QED BY <2>4, <3>1, <3>2 DEF Drop
    <2> QED BY <2>3, <2>4
  <1>6. TypeOK'
    BY <1>1, <1>2, <1>5 DEF IInv, TypeOK
  <1>7. LruExact'
    <2>1. Len(lru') <= MaxCache
      <3>1. Len(lru) <= MaxCache /\ Len(lru) \in Nat /\ MaxCache \in Nat
        BY LenProperties DEF IInv, TypeOK, LruExact
      <3> QED BY <1>1, <3>1
    <2> QED BY <1>1, <1>3, <2>1 DEF LruExact, Distinct, ElementsOf
  <1>8. EntriesOK'
    <2> SUFFICES ASSUME NEW j \in Cached'
                 PROVE  Fits(j, cache'[j], backend'[j], faults')
      BY DEF EntriesOK, Fits
    <2>1. j \in Cached /\ j \in Key \ {k}
      BY <1>3 DEF Cached
    <2>2. Fits(j, cache[j], backend[j], faults)
      BY <2>1 DEF IInv, EntriesOK
    <2> QED BY <2>1, <2>2, <1>2, <1>5 DEF Fits, EntryOK
  <1>9. NothingOlder'
    BY <1>1, <1>2, <1>3, <1>5 DEF IInv, NothingOlder
  <1>10. ASSUME faults' = 0, Apart PROVE Contents' = Contents
    <2>1. ASSUME NEW j \in Key
          PROVE  (IF cache'[j] = None \/ j \notin usage.plain THEN backend'[j]
                  ELSE IF cache'[j].state \in {"EXISTS", "CHANGED"} THEN cache'[j].val
                  ELSE None)
                 = (IF cache[j] = None \/ j \notin usage.plain THEN backend[j]
                    ELSE IF cache[j].state \in {"EXISTS", "CHANGED"} THEN cache[j].val
                    ELSE None)
      <3>1. CASE j # k
        BY <3>1, <1>2, <1>5
      <3>2. CASE j = k
        <4>1. cache[k] # None /\ cache[k].state \in States /\ faults = 0
          BY <1>4, <1>5, <1>10, EntryIsSome DEF Entry
        <4>2. CASE k \in usage.plain
          <5>1. k \notin usage.packed
            BY <4>2, <1>10 DEF Apart
          <5> QED BY <3>2, <4>1, <4>2, <5>1, <1>2, <1>4, <1>5, <1>10
                DEF Fits, EntryOK, States
        <4>3. CASE k \notin usage.plain
          BY <3>2, <4>1, <4>3, <1>2, <1>4, <1>5 DEF Fits
        <4> QED BY <4>2, <4>3
      <3> QED BY <3>1, <3>2
    <2> QED BY <2>1 DEF Contents
  <1> QED BY <1>1, <1>3, <1>5, <1>6, <1>7, <1>8, <1>9, <1>10

-----------------------------------------------------------------------------
(* What the caller sees.                                                   *)

(* The value of a key is in its entry, if it has one. *)
LEMMA View ==
  ASSUME TypeOK, EntriesOK
  PROVE  /\ Contents \in [Key -> Value \cup {None}]
         /\ \A k \in Key : Contents[k] = IF cache[k] = None \/ k \notin usage.plain
                                        THEN backend[k] ELSE cache[k].val
  <1> SUFFICES ASSUME NEW k \in Key
               PROVE  /\ Contents[k] \in Value \cup {None}
                      /\ Contents[k] = IF cache[k] = None \/ k \notin usage.plain
                                       THEN backend[k] ELSE cache[k].val
    BY DEF Contents
  <1>1. CASE cache[k] = None \/ k \notin usage.plain
    BY <1>1 DEF Contents, TypeOK
  <1>2. CASE ~(cache[k] = None \/ k \notin usage.plain)
    <2>1. cache[k] \in Entry /\ Fits(k, cache[k], backend[k], faults)
      BY <1>2 DEF TypeOK, EntriesOK, Cached
    <2> QED BY <1>2, <2>1 DEF Contents, Fits, Entry
  <1> QED BY <1>1, <1>2

LEMMA Seen ==
  ASSUME IInv, NEW k \in Key, NEW s \in States, NEW v \in Value \cup {None},
         Install(k, s, v), Fits(k, [state |-> s, val |-> v], backend'[k], faults'),
         k \in usage.plain \/ backend'[k] = v, usage' = usage,
         \A j \in Key \ {k} : backend'[j] = backend[j]
  PROVE  Contents' = [Contents EXCEPT ![k] = v]
  <1>1. /\ cache'[k] = [state |-> s, val |-> v] /\ cache'[k] # None
        /\ \A j \in Key \ {k} : cache'[j] = cache[j]
    BY EntryIsSome DEF IInv, TypeOK, Install
  <1>2. ASSUME NEW j \in Key
        PROVE  (IF cache'[j] = None \/ j \notin usage.plain THEN backend'[j]
                ELSE IF cache'[j].state \in {"EXISTS", "CHANGED"} THEN cache'[j].val
                ELSE None)
               = IF j = k THEN v ELSE Contents[j]
    <2>1. CASE j = k
      BY <2>1, <1>1 DEF Fits
    <2>2. CASE j # k
      BY <2>2, <1>1 DEF Contents
    <2> QED BY <2>1, <2>2
  <1> QED BY <1>2 DEF Contents

PromiseStep ==
  faults' = 0 /\ Apart => Promise!Next \/ UNCHANGED <<Contents, recent, answer>>

LEMMA PromiseOf ==
  ASSUME NEW k \in Key
  PROVE  /\ Promise!Fetch(k) => Promise!Next
         /\ Promise!Exists(k) => Promise!Next
         /\ Promise!Delete(k) => Promise!Next
         /\ Promise!Count("inc", k, 1) => Promise!Next
         /\ Promise!Count("dec", k, MaxValue) => Promise!Next
         /\ \A v \in Value : Promise!Store(k, v) => Promise!Next
  BY DEF Promise!Next, Promise!Value, Value

LEMMA Ended ==
  ASSUME IInv, Die, UNCHANGED <<usage, backend, faults>>
  PROVE  IInv' /\ PromiseStep
  <1>1. backend \in [Key -> Value \cup {None}] /\ \A k \in Key : cache'[k] = None
    BY DEF IInv, TypeOK, Die
  <1>2. TypeOK'
    <2>1. /\ call' \in CallType /\ answer' \in ReplyType /\ running' \in BOOLEAN
          /\ lru' \in Seq(Key)
      <3>1. call' \in CallType
        BY DEF Die, Idle, CallType
      <3>2. answer' \in ReplyType
        BY DEF Die, NoReply, Reply, ReplyType
      <3>3. lru' \in Seq(Key) /\ running' \in BOOLEAN
        BY EmptySeq DEF Die
      <3> QED BY <3>1, <3>2, <3>3
    <2>2. cache' \in [Key -> Entry \cup {None}]
      BY DEF Die
    <2>3. recent' \in [Key -> SUBSET (Value \cup {None})]
      BY <1>1 DEF Die
    <2> QED BY <2>1, <2>2, <2>3 DEF IInv, TypeOK
  <1>3. LruExact'
    <2>1. Cached' = {}
      BY <1>1 DEF Cached
    <2>2. lru' = <<>> /\ Len(lru') = 0
      BY DEF Die
    <2>3. {lru'[i] : i \in 1 .. Len(lru')} = {}
      BY <2>2
    <2> QED BY <2>1, <2>2, <2>3 DEF LruExact
  <1>4. CallOK' /\ EntriesOK'
    BY <1>1 DEF Die, CallOK, Idle, EntriesOK, Cached
  <1>5. NothingOlder'
    BY <1>1 DEF Die, NothingOlder, Cached
  <1>6. Promise!Crash
    <2>1. Contents' = [k \in Key |-> backend[k]]
      BY <1>1 DEF Contents
    <2>2. \A k \in Key : Contents[k] = backend[k] \/ backend[k] \in recent[k]
      BY DEF IInv, NothingOlder
    <2> QED BY <2>1, <1>1 DEF Promise!Crash, Promise!Value, Value, Die, NoReply, Reply,
          Promise!NoReply, Promise!Reply, IInv, NothingOlder
  <1> QED BY <1>2, <1>3, <1>4, <1>5, <1>6 DEF IInv, PromiseStep, Promise!Next

LEMMA CountInValue ==
  ASSUME NEW v \in Value
  PROVE  /\ Count("inc", v) = (v + 1) % (MaxValue + 1) /\ Count("inc", v) \in Value
         /\ Count("dec", v) = (v + MaxValue) % (MaxValue + 1) /\ Count("dec", v) \in Value
  BY DEF Count, Value

(* A read, when the entry of its key is or becomes e. *)
LEMMA ReadStep ==
  ASSUME IInv, NEW k \in usage.plain, k \in Cached \/ Len(lru) < MaxCache,
         NEW op \in Reads, NEW e \in Entry, Fits(k, e, backend[k], faults),
         e.state = "CHANGED" => e.val \in recent[k], Contents[k] = e.val,
         Read(op, k, e), UNCHANGED <<usage, backend, faults>>
  PROVE  IInv' /\ PromiseStep
  <1>1. /\ k \in Key /\ e.state \in States /\ e.val \in Value \cup {None}
        /\ faults \in 0 .. MaxFaults /\ backend \in [Key -> Value \cup {None}]
        /\ recent \in [Key -> SUBSET (Value \cup {None})]
        /\ backend[k] \in recent[k]
        /\ Contents \in [Key -> Value \cup {None}]
    BY UsedIsKey, View DEF IInv, TypeOK, Entry, NothingOlder
  <1>2. CASE op \in {"inc", "dec"} /\ e.state # "NOTFOUND" /\ e.val = None
    BY <1>2, Ended DEF Read
  <1>3. CASE op \in {"inc", "dec"} /\ e.state # "NOTFOUND" /\ e.val # None
    <2> DEFINE v == Count(op, e.val)
    <2>1. v \in Value /\ v # None
      BY <1>1, <1>3, CountInValue
    <2>2. Counted(op, k, e)
      BY <1>3 DEF Read
    <2> HIDE DEF v
    <2>3. /\ Install(k, "CHANGED", v) /\ Remember(k, v)
          /\ call' = Idle /\ answer' = Reply(op, k, "OK", v) /\ running' = running
      BY <2>2 DEF Counted, Return, v
    <2>4. /\ recent' \in [Key -> SUBSET (Value \cup {None})]
          /\ \A j \in Key : recent[j] \subseteq recent'[j]
          /\ v \in recent'[k]
      BY <1>1, <2>1, <2>3 DEF Remember
    <2>5. Fits(k, [state |-> "CHANGED", val |-> v], backend'[k], faults')
      BY <2>1 DEF Fits, EntryOK
    <2>6. answer' \in ReplyType
      BY <1>1, <2>1, <2>3 DEF Reply, ReplyType, Reads
    <2>7. IInv'
      BY <1>1, <2>1, <2>3, <2>4, <2>5, <2>6, Installed DEF States
    <2>8. Contents' = [Contents EXCEPT ![k] = v]
      BY <1>1, <2>1, <2>3, <2>5, Seen DEF States
    <2>9. CASE op = "inc"
      <3>1. v = (Contents[k] + 1) % (MaxValue + 1) /\ Contents[k] # None
        BY <1>1, <1>3, <2>9, CountInValue DEF v
      <3>2. Promise!Count("inc", k, 1)
        BY <3>1, <2>3, <2>8, <2>9
           DEF Promise!Count, Promise!Put, Promise!Reply, Reply, Remember
      <3> QED BY <3>2, <2>7, <1>1, PromiseOf DEF PromiseStep
    <2>10. CASE op = "dec"
      <3>1. v = (Contents[k] + MaxValue) % (MaxValue + 1) /\ Contents[k] # None
        BY <1>1, <1>3, <2>10, CountInValue DEF v
      <3>2. Promise!Count("dec", k, MaxValue)
        BY <3>1, <2>3, <2>8, <2>10
           DEF Promise!Count, Promise!Put, Promise!Reply, Reply, Remember
      <3> QED BY <3>2, <2>7, <1>1, PromiseOf DEF PromiseStep
    <2> QED BY <1>3, <2>9, <2>10
  <1>4. CASE ~(op \in {"inc", "dec"} /\ e.state # "NOTFOUND")
    <2> DEFINE err == IF op = "exists"
                      THEN IF e.state \in {"EXISTS", "CHANGED"} THEN "OK" ELSE "NOTFOUND"
                      ELSE IF e.state = "NOTFOUND" THEN "NOTFOUND" ELSE "OK"
               val == IF op = "exists" THEN None ELSE e.val
    <2>1. /\ Install(k, e.state, e.val) /\ call' = Idle
          /\ answer' = Reply(op, k, err, val)
          /\ recent' = recent /\ running' = running
      BY <1>4 DEF Read, Return
    <2>2. answer' \in ReplyType
      BY <1>1, <2>1 DEF Reply, ReplyType, Reads
    <2>3. Fits(k, [state |-> e.state, val |-> e.val], backend'[k], faults')
      BY DEF Fits, EntryOK
    <2>4. IInv'
      BY <1>1, <2>1, <2>2, <2>3, Installed
    <2>5. Contents' = Contents
      <3>1. Contents' = [Contents EXCEPT ![k] = e.val]
        BY <1>1, <2>1, <2>3, Seen
      <3> QED BY <3>1, <1>1
    <2>6. ASSUME faults' = 0, Apart PROVE Promise!Next
      <3>1. /\ e.state \in {"EXISTS", "CHANGED"} <=> e.val # None
            /\ e.state = "NOTFOUND" <=> e.val = None
        BY <2>6, <1>1 DEF Fits, EntryOK, States, Apart
      <3>2. CASE op = "fetch"
        <4>1. Promise!Fetch(k)
          BY <3>1, <3>2, <2>1, <2>5 DEF Promise!Fetch, Promise!Reply, Reply
        <4> QED BY <4>1, <1>1, PromiseOf
      <3>3. CASE op = "exists"
        <4>1. Promise!Exists(k)
          BY <3>1, <3>3, <2>1, <2>5 DEF Promise!Exists, Promise!Reply, Reply
        <4> QED BY <4>1, <1>1, PromiseOf
      <3>4. CASE op = "inc"
        <4>1. Promise!Count("inc", k, 1)
          BY <3>1, <3>4, <1>4, <2>1, <2>5 DEF Promise!Count, Promise!Reply, Reply
        <4> QED BY <4>1, <1>1, PromiseOf
      <3>5. CASE op = "dec"
        <4>1. Promise!Count("dec", k, MaxValue)
          BY <3>1, <3>5, <1>4, <2>1, <2>5 DEF Promise!Count, Promise!Reply, Reply
        <4> QED BY <4>1, <1>1, PromiseOf
      <3> QED BY <3>2, <3>3, <3>4, <3>5 DEF Reads
    <2> QED BY <2>4, <2>6 DEF PromiseStep
  <1> QED BY <1>2, <1>3, <1>4

LEMMA StoreStep ==
  ASSUME IInv, NEW k \in usage.plain, k \in Cached \/ Len(lru) < MaxCache,
         NEW v \in Value, Stored(k, v), UNCHANGED <<usage, backend, running, faults>>
  PROVE  IInv' /\ PromiseStep
  <1>1. /\ k \in Key /\ v # None
        /\ faults \in 0 .. MaxFaults /\ backend \in [Key -> Value \cup {None}]
        /\ recent \in [Key -> SUBSET (Value \cup {None})]
        /\ backend[k] \in recent[k]
    BY UsedIsKey DEF IInv, TypeOK, NothingOlder
  <1>2. /\ Install(k, "CHANGED", v) /\ Remember(k, v)
        /\ call' = Idle /\ answer' = Reply("store", k, "OK", None)
    BY DEF Stored, Return
  <1>3. /\ recent' \in [Key -> SUBSET (Value \cup {None})]
        /\ \A j \in Key : recent[j] \subseteq recent'[j]
        /\ v \in recent'[k]
    BY <1>1, <1>2 DEF Remember
  <1>4. Fits(k, [state |-> "CHANGED", val |-> v], backend'[k], faults')
    BY <1>1 DEF Fits, EntryOK
  <1>5. answer' \in ReplyType
    BY <1>1, <1>2 DEF Reply, ReplyType
  <1>6. IInv'
    BY <1>1, <1>2, <1>3, <1>4, <1>5, Installed DEF States
  <1>7. Contents' = [Contents EXCEPT ![k] = v]
    BY <1>1, <1>2, <1>4, Seen DEF States
  <1>8. Promise!Store(k, v)
    BY <1>2, <1>7 DEF Promise!Store, Promise!Put, Promise!Reply, Reply, Remember
  <1> QED BY <1>1, <1>6, <1>8, PromiseOf DEF PromiseStep

(* The key of a call that is about to make its request has room. *)
LEMMA Requested ==
  ASSUME IInv, call.pc = "request"
  PROVE  /\ call.key \in usage.plain \cup usage.packed /\ call.key \in Key
         /\ call.key \in Cached \/ Len(lru) < MaxCache
         /\ call.op # "delete" => call.key \in usage.plain /\ call.key \notin Cached
         /\ call.op = "store" => call.val \in Value
  BY UsedIsKey DEF IInv, CallOK

LEMMA ReadMissStep ==
  ASSUME IInv, ReadMiss
  PROVE  IInv' /\ PromiseStep
  <1> DEFINE k == call.key
             e == Fetched(k)
  <1>1. /\ k \in usage.plain /\ k \in Key /\ k \notin Cached /\ Len(lru) < MaxCache
        /\ call.op \in Reads
    BY Requested DEF ReadMiss, Requesting, Reads
  <1>2. backend[k] \in Value \cup {None}
    BY <1>1 DEF IInv, TypeOK
  <1>3. e \in Entry /\ Fits(k, e, backend[k], faults) /\ e.state # "CHANGED"
        /\ e.val = backend[k]
    BY <1>1, <1>2 DEF Fetched, Entry, States, Fits, EntryOK
  <1>4. Contents[k] = backend[k]
    BY <1>1 DEF Contents, Cached
  <1>5. Read(call.op, k, e) /\ UNCHANGED <<usage, backend, faults>>
    BY DEF ReadMiss
  <1> HIDE DEF e, k
  <1> QED BY <1>1, <1>3, <1>4, <1>5, ReadStep

LEMMA ReadHitStep ==
  ASSUME IInv, NEW k \in usage.plain, NEW op \in Reads, ReadHit(op, k)
  PROVE  IInv' /\ PromiseStep
  <1>1. k \in Key /\ k \in Cached
    BY UsedIsKey DEF IInv, ReadHit
  <1>2. /\ cache[k] \in Entry /\ cache[k] # None
        /\ Fits(k, cache[k], backend[k], faults)
        /\ cache[k].state = "CHANGED" => cache[k].val \in recent[k]
    BY <1>1 DEF IInv, TypeOK, EntriesOK, NothingOlder, Cached
  <1>3. Contents[k] = cache[k].val
    BY <1>1, <1>2, View DEF IInv
  <1>4. Read(op, k, cache[k]) /\ UNCHANGED <<usage, backend, faults>>
    BY DEF ReadHit
  <1> QED BY <1>1, <1>2, <1>3, <1>4, ReadStep

LEMMA ReadFailsStep ==
  ASSUME IInv, ReadFails
  PROVE  IInv' /\ PromiseStep
  <1> DEFINE k == call.key
  <1>1. /\ k \in usage.plain /\ k \in Key
        /\ k \in Cached \/ Len(lru) < MaxCache
        /\ call.op \in Reads
    BY Requested DEF ReadFails, Requesting, Reads
  <1>2. /\ faults' \in 0 .. MaxFaults /\ faults' # 0
        /\ backend' \in [Key -> Value \cup {None}]
        /\ recent' \in [Key -> SUBSET (Value \cup {None})]
        /\ backend'[k] \in recent'[k]
        /\ UNCHANGED <<usage, backend, running, recent>>
    <2>1. /\ faults \in 0 .. MaxFaults /\ backend \in [Key -> Value \cup {None}]
          /\ recent \in [Key -> SUBSET (Value \cup {None})]
          /\ backend[k] \in recent[k]
      BY <1>1 DEF IInv, TypeOK, NothingOlder
    <2> QED BY <2>1 DEF ReadFails
  <1>3. PICK s \in {"UNDEF", "NOTFOUND"}, err \in {"ERROR", "NOTFOUND"} :
          Install(k, s, None) /\ call' = Idle /\ answer' = Reply(call.op, k, err, None)
    BY DEF ReadFails, Return
  <1>4. answer' \in ReplyType
    BY <1>1, <1>3 DEF Reply, ReplyType, Reads
  <1>5. Fits(k, [state |-> s, val |-> None], backend'[k], faults')
    BY <1>1, <1>2, <1>3 DEF Fits, EntryOK
  <1>6. IInv'
    BY <1>1, <1>2, <1>3, <1>4, <1>5, Installed DEF States
  <1> QED BY <1>2, <1>6 DEF PromiseStep

LEMMA DeleteStep ==
  ASSUME IInv, Delete
  PROVE  IInv' /\ PromiseStep
  <1> DEFINE k == call.key
  <1>1. /\ k \in usage.plain \cup usage.packed /\ k \in Key
        /\ k \in Cached \/ Len(lru) < MaxCache
    BY Requested DEF Delete, Requesting
  <1>2. /\ faults \in 0 .. MaxFaults /\ backend \in [Key -> Value \cup {None}]
        /\ recent \in [Key -> SUBSET (Value \cup {None})]
        /\ backend[k] \in recent[k]
    BY <1>1 DEF IInv, TypeOK, NothingOlder
  <1> HIDE DEF k
  <1>3. /\ Install(k, "NOTFOUND", None) /\ Remember(k, None)
        /\ UNCHANGED <<usage, running>>
    BY DEF Delete, k
  <1>4. /\ recent' \in [Key -> SUBSET (Value \cup {None})]
        /\ \A j \in Key : recent[j] \subseteq recent'[j]
        /\ None \in recent'[k]
    BY <1>1, <1>2, <1>3 DEF Remember
  <1>5. CASE /\ backend' = Deleted(k)
             /\ Return("delete", k, IF backend[k] = None THEN "NOTFOUND" ELSE "OK", None)
             /\ UNCHANGED faults
    <2>1. /\ backend' \in [Key -> Value \cup {None}] /\ backend'[k] = None
          /\ \A j \in Key \ {k} : backend'[j] = backend[j]
      BY <1>1, <1>2, <1>5 DEF Deleted
    <2>2. call' = Idle /\ answer' \in ReplyType
      BY <1>1, <1>5 DEF Return, Reply, ReplyType
    <2>3. Fits(k, [state |-> "NOTFOUND", val |-> None], backend'[k], faults')
      BY <1>1, <2>1 DEF Fits, EntryOK
    <2>4. IInv'
      BY <1>1, <1>2, <1>3, <1>4, <1>5, <2>1, <2>2, <2>3, Installed DEF States
    <2>5. Contents' = [Contents EXCEPT ![k] = None]
      BY <1>1, <1>3, <2>1, <2>3, Seen DEF States
    <2>6. ASSUME faults' = 0, Apart PROVE Promise!Delete(k)
      <3>1. backend[k] # None => Contents[k] # None
        <4>1. CASE k \notin Cached \/ k \notin usage.plain
          BY <4>1, <1>1 DEF Contents, Cached
        <4>2. CASE k \in Cached /\ k \in usage.plain
          <5>1. /\ cache[k] \in Entry /\ cache[k] # None
                /\ Fits(k, cache[k], backend[k], faults) /\ faults = 0
            BY <4>2, <2>6, <1>5 DEF IInv, TypeOK, EntriesOK, Cached
          <5>2. Contents[k] = cache[k].val
            BY <4>2, <5>1, <1>1, View DEF IInv
          <5>3. EntryOK(cache[k], backend[k], faults)
            BY <4>2, <5>1, <2>6 DEF Fits, Apart
          <5> QED BY <5>1, <5>2, <5>3 DEF Fits, EntryOK, Entry, States
        <4> QED BY <4>1, <4>2
      <3>2. \/ Contents[k] # None /\ answer' = Reply("delete", k, "OK", None)
            \/ answer' = Reply("delete", k, "NOTFOUND", None)
        BY <3>1, <1>5 DEF Return
      <3> QED BY <3>2, <2>5, <1>3 DEF Promise!Delete, Promise!Put, Promise!Reply,
            Reply, Remember
    <2> QED BY <2>4, <2>6, <1>1, PromiseOf DEF PromiseStep
  <1>6. CASE /\ faults < MaxFaults /\ faults' = faults + 1
             /\ backend' \in {backend, Deleted(k)}
             /\ \E err \in Failures : Return("delete", k, err, None)
    <2>1. /\ backend' \in [Key -> Value \cup {None}]
          /\ backend'[k] \in {backend[k], None}
          /\ \A j \in Key \ {k} : backend'[j] = backend[j]
          /\ faults' \in 0 .. MaxFaults /\ faults' # 0
      BY <1>1, <1>2, <1>6 DEF Deleted
    <2>2. call' = Idle /\ answer' \in ReplyType
      BY <1>1, <1>6 DEF Return, Reply, ReplyType, Failures
    <2>3. Fits(k, [state |-> "NOTFOUND", val |-> None], backend'[k], faults')
      BY <1>1, <2>1 DEF Fits, EntryOK
    <2>4. backend'[k] \in recent'[k]
      BY <1>1, <1>2, <1>4, <2>1
    <2>5. IInv'
      BY <1>1, <1>3, <1>4, <2>1, <2>2, <2>3, <2>4, Installed DEF States
    <2> QED BY <2>1, <2>5 DEF PromiseStep
  <1> QED BY <1>5, <1>6 DEF Delete, k

(* Steps that leave the cache and the table alone. *)
LEMMA SameTables ==
  ASSUME IInv, UNCHANGED <<usage, backend, cache, lru, recent>>,
         faults' \in 0 .. MaxFaults, faults' = 0 => faults = 0,
         call' \in CallType, answer' \in ReplyType, running' \in BOOLEAN
  PROVE  TypeOK' /\ LruExact' /\ EntriesOK' /\ NothingOlder' /\ Contents' = Contents
         /\ Cached' = Cached
  <1>1. Cached' = Cached /\ Contents' = Contents
    BY DEF Cached, Contents
  <1>2. TypeOK' /\ LruExact' /\ NothingOlder'
    BY <1>1 DEF IInv, TypeOK, LruExact, NothingOlder
  <1>3. EntriesOK'
    BY <1>1 DEF IInv, EntriesOK, Fits, EntryOK
  <1> QED BY <1>1, <1>2, <1>3

LEMMA BeginStep ==
  ASSUME IInv, NEW k \in usage.plain \cup usage.packed,
         NEW op \in Reads \cup {"store", "delete"}, op # "delete" => k \in usage.plain,
         NEW v \in Value \cup {None}, op = "store" => v \in Value, Begin(op, k, v)
  PROVE  IInv' /\ PromiseStep
  <1>1. k \in Key /\ running \in BOOLEAN /\ faults \in 0 .. MaxFaults /\ Len(lru) \in Nat
        /\ (k \in Cached => op = "delete")
    BY UsedIsKey, LenProperties DEF IInv, TypeOK, Begin
  <1>2. /\ call'.op = op /\ call'.key = k /\ call'.val = v
        /\ call'.pc = IF k \notin Cached /\ Len(lru) >= MaxCache THEN "evict" ELSE "request"
        /\ call' \in CallType
        /\ UNCHANGED <<usage, backend, cache, lru, running, recent, faults>>
    BY <1>1 DEF Begin, CallType
  <1>3. answer' = NoReply /\ answer' \in ReplyType
    BY DEF Begin, NoReply, Reply, ReplyType
  <1>4. /\ TypeOK' /\ LruExact' /\ EntriesOK' /\ NothingOlder' /\ Contents' = Contents
        /\ Cached' = Cached
    BY <1>1, <1>2, <1>3, SameTables
  <1>5. CallOK'
    <2>1. call'.pc \in {"evict", "request"} /\ usage' = usage /\ lru' = lru
      BY <1>2
    <2>2. call'.pc = "evict" => k \notin Cached /\ Len(lru) >= MaxCache
      BY <1>2
    <2>3. call'.pc = "request" => \/ k \notin Cached /\ Len(lru) < MaxCache
                                  \/ k \in Cached /\ op = "delete"
      BY <1>1, <1>2 DEF IInv, TypeOK
    <2> QED BY <2>1, <2>2, <2>3, <1>2, <1>4 DEF CallOK
  <1>6. Promise!Call
    BY <1>2, <1>3, <1>4 DEF Promise!Call, Promise!NoReply, Promise!Reply, NoReply, Reply
  <1> QED BY <1>4, <1>5, <1>6 DEF IInv, PromiseStep, Promise!Next

LEMMA BeginPurgeStep ==
  ASSUME IInv, NEW op \in Purgers, BeginPurge(op)
  PROVE  IInv' /\ PromiseStep
  <1>1. running \in BOOLEAN /\ faults \in 0 .. MaxFaults
    BY DEF IInv, TypeOK
  <1>2. /\ call'.op = op /\ call'.pc = "purge" /\ call' \in CallType
        /\ UNCHANGED <<usage, backend, cache, lru, running, recent, faults>>
    BY DEF BeginPurge, CallType
  <1>3. answer' = NoReply /\ answer' \in ReplyType
    BY DEF BeginPurge, NoReply, Reply, ReplyType
  <1>4. /\ TypeOK' /\ LruExact' /\ EntriesOK' /\ NothingOlder' /\ Contents' = Contents
    BY <1>1, <1>2, <1>3, SameTables
  <1>5. CallOK'
    BY <1>2 DEF CallOK
  <1>6. Promise!Call
    BY <1>2, <1>3, <1>4 DEF Promise!Call, Promise!NoReply, Promise!Reply, NoReply, Reply
  <1> QED BY <1>4, <1>5, <1>6 DEF IInv, PromiseStep, Promise!Next

LEMMA EvictStep ==
  ASSUME IInv, Evict
  PROVE  IInv' /\ PromiseStep
  <1>1. /\ call.pc = "evict" /\ call.key \in usage.plain \cup usage.packed
        /\ call.key \notin Cached /\ (call.op # "delete" => call.key \in usage.plain)
        /\ call.op \in Reads \cup {"store", "delete"}
        /\ call.op = "store" => call.val \in Value
        /\ Len(lru) >= MaxCache /\ Len(lru) <= MaxCache
        /\ Len(lru) \in Nat /\ lru \in Seq(Key) /\ call \in CallType
    BY LenProperties DEF Evict, IInv, CallOK, TypeOK, LruExact
  <1>2. lru # <<>> /\ Last \in Key
    <2>1. Len(lru) # 0 /\ Len(lru) \in 1 .. Len(lru)
      BY <1>1
    <2>2. lru # <<>>
      BY <2>1
    <2> QED BY <2>1, <2>2, <1>1, ElementOfSeq DEF Last
  <1>3. /\ call' = [call EXCEPT !.pc = "request"] /\ call' \in CallType
        /\ Drop(Last) /\ lru' = SubSeq(lru, 1, Len(lru) - 1)
        /\ UNCHANGED <<usage, answer, running, recent>>
    BY <1>1 DEF Evict, CallType
  <1>4. /\ TypeOK' /\ LruExact' /\ EntriesOK' /\ NothingOlder'
        /\ Cached' = Cached \ {Last}
        /\ Len(lru') = Len(lru) - 1
        /\ faults' = 0 /\ Apart => Contents' = Contents
    BY <1>2, <1>3, Dropped
  <1>5. CallOK'
    <2>1. /\ call'.pc = "request" /\ call'.op = call.op /\ call'.key = call.key
          /\ call'.val = call.val /\ usage' = usage
      BY <1>1, <1>3 DEF CallType
    <2>2. call.key \notin Cached' /\ Len(lru') < MaxCache
      BY <1>1, <1>4
    <2> QED BY <1>1, <2>1, <2>2 DEF CallOK
  <1> QED BY <1>3, <1>4, <1>5 DEF IInv, PromiseStep

LEMMA PurgeStep ==
  ASSUME IInv, Purge
  PROVE  IInv' /\ PromiseStep
  <1>1. /\ lru # <<>> /\ Drop(Head(lru)) /\ lru' = Tail(lru)
        /\ UNCHANGED <<usage, call, answer, running, recent>>
        /\ call.pc = "purge"
    BY DEF Purge
  <1>2. Head(lru) \in Key /\ call' \in CallType
    BY <1>1, HeadTailProperties DEF IInv, TypeOK
  <1>3. /\ TypeOK' /\ LruExact' /\ EntriesOK' /\ NothingOlder'
        /\ faults' = 0 /\ Apart => Contents' = Contents
    BY <1>1, <1>2, Dropped
  <1>4. CallOK'
    BY <1>1 DEF IInv, CallOK
  <1> QED BY <1>1, <1>3, <1>4 DEF IInv, PromiseStep

(* After purgecache the table below is all there is. *)
LEMMA Bare ==
  ASSUME IInv, lru = <<>>
  PROVE  /\ Cached = {}
         /\ Contents \in [Key -> Value \cup {None}]
         /\ \A k \in Key : Contents[k] = backend[k]
  <1>1. {lru[i] : i \in 1 .. Len(lru)} = {}
    OBVIOUS
  <1>2. Cached = {}
    BY <1>1 DEF IInv, LruExact
  <1>3. \A k \in Key : cache[k] = None
    BY <1>2 DEF Cached
  <1> QED BY <1>2, <1>3, View DEF IInv

(* Calls that end without touching the cache. *)
LEMMA Returned ==
  ASSUME IInv, NEW op, NEW k, NEW err, NEW v, Return(op, k, err, v),
         Reply(op, k, err, v) \in ReplyType
  PROVE  /\ call' = Idle /\ call' \in CallType /\ CallOK'
         /\ answer' = Reply(op, k, err, v) /\ answer' \in ReplyType
  BY DEF Return, Idle, CallType, CallOK

LEMMA ScanStep ==
  ASSUME IInv, Scan
  PROVE  IInv' /\ PromiseStep
  <1>1. /\ lru = <<>> /\ running \in BOOLEAN /\ faults \in 0 .. MaxFaults
        /\ UNCHANGED <<usage, backend, cache, lru, running, recent>>
    BY DEF Scan, Purged, IInv, TypeOK
  <1>2. ASSUME NEW k \in Key \cup {None}, NEW err \in {"OK", "NOTFOUND", "ERROR"},
               Return("scan", k, err, None), faults' \in 0 .. MaxFaults,
               faults' = 0 => faults = 0
        PROVE  /\ IInv' /\ Contents' = Contents
               /\ answer' = Reply("scan", k, err, None)
    <2>1. Reply("scan", k, err, None) \in ReplyType
      BY DEF Reply, ReplyType, Purgers
    <2>2. /\ call' \in CallType /\ CallOK' /\ answer' \in ReplyType
          /\ answer' = Reply("scan", k, err, None)
      BY <2>1, <1>2, Returned
    <2> QED BY <2>2, <1>1, <1>2, SameTables DEF IInv
  <1>3. ASSUME NEW k \in Key, backend[k] # None, Return("scan", k, "OK", None),
               UNCHANGED faults
        PROVE  IInv' /\ PromiseStep
    <2>1. /\ IInv' /\ Contents' = Contents /\ answer' = Reply("scan", k, "OK", None)
      BY <1>1, <1>2, <1>3
    <2>2. Promise!Scan
      BY <2>1, <1>1, <1>3, Bare DEF Promise!Scan, Promise!Reply, Reply
    <2> QED BY <2>1, <2>2 DEF PromiseStep, Promise!Next
  <1>4. ASSUME Return("scan", None, "NOTFOUND", None), UNCHANGED faults
        PROVE  IInv' /\ PromiseStep
    <2>1. /\ IInv' /\ Contents' = Contents /\ answer' = Reply("scan", None, "NOTFOUND", None)
      BY <1>1, <1>2, <1>4
    <2>2. Promise!Scan
      BY <2>1, <1>1 DEF Promise!Scan, Promise!Reply, Reply
    <2> QED BY <2>1, <2>2 DEF PromiseStep, Promise!Next
  <1>5. ASSUME faults < MaxFaults, faults' = faults + 1, Return("scan", None, "ERROR", None)
        PROVE  IInv' /\ PromiseStep
    <2>1. faults' \in 0 .. MaxFaults /\ faults' # 0
      BY <1>1, <1>5
    <2> QED BY <2>1, <1>2, <1>5 DEF PromiseStep
  <1> QED BY <1>3, <1>4, <1>5 DEF Scan

LEMMA SettleStep ==
  ASSUME IInv, NEW op \in {"sync", "close"}, Settle(op)
  PROVE  IInv' /\ PromiseStep
  <1>1. /\ lru = <<>> /\ running' \in BOOLEAN /\ faults \in 0 .. MaxFaults
        /\ UNCHANGED <<usage, backend, cache, lru>>
        /\ recent \in [Key -> SUBSET (Value \cup {None})]
        /\ backend \in [Key -> Value \cup {None}]
    BY DEF Settle, Purged, IInv, TypeOK
  <1>2. /\ Cached = {} /\ Cached' = {} /\ Contents' = Contents
        /\ Contents \in [Key -> Value \cup {None}]
        /\ \A k \in Key : Contents[k] = backend[k]
    BY <1>1, Bare DEF Cached, Contents
  <1>3. LruExact' /\ EntriesOK'
    BY <1>1, <1>2 DEF IInv, LruExact, EntriesOK
  <1>4. ASSUME NEW err \in {"OK", "ERROR"}, Return(op, None, err, None),
               faults' \in 0 .. MaxFaults,
               recent' = recent \/ recent' = [k \in Key |-> {Contents[k]}]
        PROVE  IInv' /\ answer' = Reply(op, None, err, None)
    <2>1. Reply(op, None, err, None) \in ReplyType
      BY DEF Reply, ReplyType, Purgers
    <2>2. /\ call' \in CallType /\ CallOK' /\ answer' \in ReplyType
          /\ answer' = Reply(op, None, err, None)
      BY <2>1, <1>4, Returned
    <2>3. TypeOK'
      BY <1>1, <1>2, <1>4, <2>2 DEF IInv, TypeOK
    <2>4. NothingOlder'
      BY <1>1, <1>2, <1>4 DEF IInv, NothingOlder
    <2> QED BY <1>3, <2>2, <2>3, <2>4 DEF IInv
  <1>5. CASE /\ recent' = [k \in Key |-> {Contents[k]}]
             /\ Return(op, None, "OK", None)
             /\ UNCHANGED faults
    <2>1. IInv' /\ answer' = Reply(op, None, "OK", None)
      BY <1>1, <1>4, <1>5
    <2>2. Promise!Settle(op)
      BY <2>1, <1>2, <1>5 DEF Promise!Settle, Promise!Reply, Reply
    <2> QED BY <2>1, <2>2 DEF PromiseStep, Promise!Next
  <1>6. CASE /\ op = "sync"
             /\ faults < MaxFaults /\ faults' = faults + 1
             /\ Return(op, None, "ERROR", None)
             /\ UNCHANGED recent
    <2>1. faults' \in 0 .. MaxFaults /\ faults' # 0
      BY <1>1, <1>6
    <2> QED BY <2>1, <1>4, <1>6 DEF PromiseStep
  <1> QED BY <1>5, <1>6 DEF Settle

(* The table below is what the callers see of a key they only read and     *)
(* write compressed.                                                       *)
LEMMA PackedBare ==
  ASSUME IInv, NEW k \in usage.packed
  PROVE  /\ k \in Key
         /\ Apart => k \notin usage.plain /\ Contents[k] = backend[k]
  <1>1. k \in Key
    BY UsedIsKey DEF IInv
  <1> QED BY <1>1 DEF Apart, Contents

LEMMA FetchPackedStep ==
  ASSUME IInv, NEW k \in usage.packed, FetchPacked(k)
  PROVE  IInv' /\ PromiseStep
  <1> DEFINE err == IF backend[k] = None THEN "NOTFOUND" ELSE "OK"
  <1>1. /\ k \in Key /\ (Apart => Contents[k] = backend[k])
        /\ backend[k] \in Value \cup {None}
        /\ running \in BOOLEAN /\ faults \in 0 .. MaxFaults
        /\ UNCHANGED <<usage, backend, cache, lru, running, recent, faults>>
    BY PackedBare DEF IInv, TypeOK, FetchPacked
  <1>2. Return("fetch", k, err, backend[k])
    BY DEF FetchPacked
  <1>3. Reply("fetch", k, err, backend[k]) \in ReplyType
    BY <1>1 DEF Reply, ReplyType, Reads
  <1>4. /\ call' \in CallType /\ CallOK' /\ answer' \in ReplyType
        /\ answer' = Reply("fetch", k, err, backend[k])
    BY <1>2, <1>3, Returned
  <1>5. IInv' /\ Contents' = Contents
    BY <1>1, <1>4, SameTables DEF IInv
  <1>6. Apart => Promise!Fetch(k)
    BY <1>1, <1>4, <1>5 DEF Promise!Fetch, Promise!Reply, Reply
  <1> QED BY <1>1, <1>5, <1>6, PromiseOf DEF PromiseStep

(* A value written around the cache. *)
LEMMA WrittenAround ==
  ASSUME IInv, NEW k \in usage.packed, NEW v \in Value,
         backend' = [backend EXCEPT ![k] = v], Remember(k, v),
         UNCHANGED <<usage, cache, lru, running>>,
         faults' \in 0 .. MaxFaults, faults' = 0 => faults = 0,
         call' \in CallType, CallOK', answer' \in ReplyType
  PROVE  IInv' /\ (Apart => Contents' = [Contents EXCEPT ![k] = v])
  <1>1. k \in Key
    BY PackedBare
  <1>2. /\ backend' \in [Key -> Value \cup {None}] /\ backend'[k] = v
        /\ \A j \in Key \ {k} : backend'[j] = backend[j]
        /\ recent' \in [Key -> SUBSET (Value \cup {None})] /\ v \in recent'[k]
        /\ \A j \in Key : recent[j] \subseteq recent'[j]
    BY <1>1 DEF IInv, TypeOK, Remember
  <1>3. Cached' = Cached
    BY DEF Cached
  <1>4. TypeOK' /\ LruExact'
    BY <1>2, <1>3 DEF IInv, TypeOK, LruExact
  <1>5. EntriesOK'
    <2> SUFFICES ASSUME NEW j \in Cached
                 PROVE  Fits(j, cache[j], backend'[j], faults')
      BY <1>3 DEF EntriesOK, Fits
    <2>1. Fits(j, cache[j], backend[j], faults)
      BY DEF IInv, EntriesOK
    <2>2. j # k => backend'[j] = backend[j]
      BY <1>2 DEF Cached
    <2> QED BY <2>1, <2>2 DEF Fits, EntryOK
  <1>6. NothingOlder'
    <2> SUFFICES ASSUME NEW j \in Key
                 PROVE  /\ backend'[j] \in recent'[j]
                        /\ (j \in Cached /\ cache[j].state = "CHANGED")
                             => cache[j].val \in recent'[j]
      BY <1>3 DEF NothingOlder
    <2>1. CASE j = k
      BY <2>1, <1>1, <1>2 DEF IInv, NothingOlder
    <2>2. CASE j # k
      BY <2>2, <1>2 DEF IInv, NothingOlder
    <2> QED BY <2>1, <2>2
  <1>7. ASSUME Apart PROVE Contents' = [Contents EXCEPT ![k] = v]
    <2>1. ASSUME NEW j \in Key
          PROVE  (IF cache'[j] = None \/ j \notin usage.plain THEN backend'[j]
                  ELSE IF cache'[j].state \in {"EXISTS", "CHANGED"} THEN cache'[j].val
                  ELSE None)
                 = IF j = k THEN v ELSE Contents[j]
      <3>1. CASE j = k
        BY <3>1, <1>2, <1>7 DEF Apart
      <3>2. CASE j # k
        BY <3>2, <1>2 DEF Contents
      <3> QED BY <3>1, <3>2
    <2> QED BY <2>1 DEF Contents
  <1> QED BY <1>4, <1>5, <1>6, <1>7 DEF IInv

LEMMA StorePackedStep ==
  ASSUME IInv, NEW k \in usage.packed, NEW v \in Value, StorePacked(k, v)
  PROVE  IInv' /\ PromiseStep
  <1>1. k \in Key /\ faults \in 0 .. MaxFaults
    BY PackedBare DEF IInv, TypeOK
  <1>2. /\ backend' = [backend EXCEPT ![k] = v] /\ Remember(k, v)
        /\ UNCHANGED <<usage, cache, lru, running, faults>>
        /\ Return("store", k, "OK", None)
    BY DEF StorePacked
  <1>3. Reply("store", k, "OK", None) \in ReplyType
    BY <1>1 DEF Reply, ReplyType
  <1>4. /\ call' \in CallType /\ CallOK' /\ answer' \in ReplyType
        /\ answer' = Reply("store", k, "OK", None)
    BY <1>2, <1>3, Returned
  <1>5. IInv' /\ (Apart => Contents' = [Contents EXCEPT ![k] = v])
    BY <1>1, <1>2, <1>4, WrittenAround
  <1>6. Apart => Promise!Store(k, v)
    BY <1>2, <1>4, <1>5 DEF Promise!Store, Promise!Put, Promise!Reply, Reply, Remember
  <1> QED BY <1>1, <1>5, <1>6, PromiseOf DEF PromiseStep

LEMMA PackedFailsStep ==
  ASSUME IInv, NEW k \in usage.packed, NEW op \in {"fetch", "store"}, NEW v,
         op = "store" => v \in Value, PackedFails(op, k, v)
  PROVE  IInv' /\ PromiseStep
  <1>1. k \in Key /\ running \in BOOLEAN
    BY PackedBare DEF IInv, TypeOK
  <1>2. /\ UNCHANGED <<usage, cache, lru, running>>
        /\ faults' \in 0 .. MaxFaults /\ faults' # 0
    <2>1. faults \in 0 .. MaxFaults
      BY DEF IInv, TypeOK
    <2> QED BY <2>1 DEF PackedFails
  <1>3. PICK err \in Failures : Return(op, k, err, None)
    BY DEF PackedFails
  <1>4. Reply(op, k, err, None) \in ReplyType
    BY <1>1 DEF Reply, ReplyType, Reads, Failures
  <1>5. call' \in CallType /\ CallOK' /\ answer' \in ReplyType
    BY <1>3, <1>4, Returned
  <1>6. CASE UNCHANGED <<backend, recent>>
    BY <1>1, <1>2, <1>5, <1>6, SameTables DEF IInv, PromiseStep
  <1>7. CASE op = "store" /\ backend' = [backend EXCEPT ![k] = v] /\ Remember(k, v)
    BY <1>2, <1>5, <1>7, WrittenAround DEF PromiseStep
  <1> QED BY <1>6, <1>7 DEF PackedFails

-----------------------------------------------------------------------------
(* All steps.                                                              *)

LEMMA PlainStepOK ==
  ASSUME IInv, NEW k \in usage.plain, PlainStep(k)
  PROVE  IInv' /\ PromiseStep
  <1>1. ASSUME NEW op \in Reads, ReadHit(op, k) PROVE IInv' /\ PromiseStep
    BY <1>1, ReadHitStep
  <1>2. ASSUME NEW op \in Reads \cup {"delete"}, Begin(op, k, None)
        PROVE  IInv' /\ PromiseStep
    <2>1. op # "store"
      BY DEF Reads
    <2> QED BY <2>1, <1>2, BeginStep
  <1>3. ASSUME NEW v \in Value, StoreHit(k, v) PROVE IInv' /\ PromiseStep
    <2>1. k \in Cached /\ Stored(k, v) /\ UNCHANGED <<usage, backend, running, faults>>
      BY <1>3 DEF StoreHit
    <2> QED BY <2>1, StoreStep
  <1>4. ASSUME NEW v \in Value, Begin("store", k, v) PROVE IInv' /\ PromiseStep
    BY <1>4, BeginStep
  <1> QED BY <1>1, <1>2, <1>3, <1>4 DEF PlainStep

LEMMA PackedStepOK ==
  ASSUME IInv, NEW k \in usage.packed, PackedStep(k)
  PROVE  IInv' /\ PromiseStep
  <1>1. CASE FetchPacked(k)
    BY <1>1, FetchPackedStep
  <1>2. CASE PackedFails("fetch", k, None)
    <2>1. "fetch" # "store"
      OBVIOUS
    <2> QED BY <2>1, <1>2, PackedFailsStep
  <1>3. ASSUME NEW v \in Value, StorePacked(k, v) PROVE IInv' /\ PromiseStep
    BY <1>3, StorePackedStep
  <1>4. ASSUME NEW v \in Value, PackedFails("store", k, v) PROVE IInv' /\ PromiseStep
    BY <1>4, PackedFailsStep
  <1>5. CASE Begin("delete", k, None)
    <2>1. k \in usage.plain \cup usage.packed /\ "delete" # "store"
      OBVIOUS
    <2> QED BY <2>1, <1>5, BeginStep
  <1> QED BY <1>1, <1>2, <1>3, <1>4, <1>5 DEF PackedStep

LEMMA StepOK ==
  ASSUME IInv, [Next]_vars
  PROVE  IInv' /\ PromiseStep
  <1>1. ASSUME NEW k \in usage.plain, PlainStep(k) PROVE IInv' /\ PromiseStep
    BY <1>1, PlainStepOK
  <1>2. ASSUME NEW k \in usage.packed, PackedStep(k) PROVE IInv' /\ PromiseStep
    BY <1>2, PackedStepOK
  <1>3. ASSUME NEW op \in Purgers, BeginPurge(op) PROVE IInv' /\ PromiseStep
    BY <1>3, BeginPurgeStep
  <1>4. CASE Evict
    BY <1>4, EvictStep
  <1>5. CASE StoreMiss
    <2>1. /\ Stored(call.key, call.val) /\ call.pc = "request" /\ call.op = "store"
          /\ UNCHANGED <<usage, backend, running, faults>>
      BY <1>5 DEF StoreMiss, Requesting
    <2>2. /\ call.key \in usage.plain /\ call.val \in Value
          /\ call.key \in Cached \/ Len(lru) < MaxCache
      BY <2>1, Requested
    <2> QED BY <2>1, <2>2, StoreStep
  <1>6. CASE ReadMiss
    BY <1>6, ReadMissStep
  <1>7. CASE ReadFails
    BY <1>7, ReadFailsStep
  <1>8. CASE Delete
    BY <1>8, DeleteStep
  <1>9. CASE Purge
    BY <1>9, PurgeStep
  <1>10. CASE Scan
    BY <1>10, ScanStep
  <1>11. CASE Settle("sync") \/ Settle("close")
    BY <1>11, SettleStep
  <1>12. CASE Crash
    BY <1>12, Ended DEF Crash
  <1>13. CASE Open \/ UNCHANGED vars
    <2>1. /\ UNCHANGED <<usage, backend, cache, lru, call, answer, recent, faults>>
          /\ running' \in BOOLEAN
      BY <1>13 DEF Open, vars, IInv, TypeOK
    <2>2. call' \in CallType /\ answer' \in ReplyType /\ faults' \in 0 .. MaxFaults
      BY <2>1 DEF IInv, TypeOK
    <2>3. /\ TypeOK' /\ LruExact' /\ EntriesOK' /\ NothingOlder' /\ Contents' = Contents
          /\ Cached' = Cached
      BY <2>1, <2>2, SameTables
    <2>4. CallOK'
      BY <2>1, <2>3 DEF IInv, CallOK
    <2> QED BY <2>1, <2>3, <2>4 DEF IInv, PromiseStep
  <1> QED
    BY <1>1, <1>2, <1>3, <1>4, <1>5, <1>6, <1>7, <1>8, <1>9, <1>10, <1>11, <1>12, <1>13
       DEF Next

LEMMA InitOK ==
  ASSUME Init
  PROVE  IInv /\ Promise!Init
  <1>1. /\ call \in CallType /\ answer \in ReplyType /\ lru = <<>> /\ lru \in Seq(Key)
        /\ faults \in 0 .. MaxFaults
    BY EmptySeq DEF Init, Idle, CallType, NoReply, Reply, ReplyType
  <1>2. /\ cache \in [Key -> Entry \cup {None}]
        /\ recent \in [Key -> SUBSET (Value \cup {None})]
        /\ Cached = {}
    BY DEF Init, Cached
  <1>3. TypeOK
    BY <1>1, <1>2 DEF Init, TypeOK
  <1>4. LruExact
    <2>1. Len(lru) = 0 /\ {lru[i] : i \in 1 .. Len(lru)} = {}
      BY <1>1
    <2> QED BY <2>1, <1>2 DEF LruExact
  <1>5. CallOK /\ EntriesOK /\ NothingOlder
    BY <1>2 DEF Init, CallOK, Idle, EntriesOK, NothingOlder
  <1>6. Promise!Init
    <2>1. \A k \in Key : cache[k] = None /\ backend[k] \in Value \cup {None}
      BY DEF Init
    <2>2. Contents \in [Key -> Value \cup {None}] /\ \A k \in Key : Contents[k] = backend[k]
      BY <2>1 DEF Contents
    <2> QED BY <2>2 DEF Init, Promise!Init, Promise!Value, Value, Promise!NoReply,
          Promise!Reply, NoReply, Reply
  <1> QED BY <1>3, <1>4, <1>5, <1>6 DEF IInv

LEMMA Invariance == Spec => []IInv
  <1>1. Init => IInv
    BY InitOK
  <1>2. IInv /\ [Next]_vars => IInv'
    BY StepOK
  <1> QED BY <1>1, <1>2, PTL DEF Spec

(* Whatever the callers do and whichever requests fail, cache, list, call  *)
(* and answer stay what backend_caching_store.c declares them to be.       *)
THEOREM TypeCorrect == Spec => []TypeOK
  <1>1. IInv => TypeOK
    BY DEF IInv
  <1> QED BY <1>1, Invariance, PTL

(* cachekey and purgecache keep the circular list and the index in step,   *)
(* and the cache never holds more than maxcache keys.                      *)
THEOREM LruIsExact == Spec => []LruExact
  <1>1. IInv => LruExact
    BY DEF IInv
  <1> QED BY <1>1, Invariance, PTL

(* What cachekey would drop without writing is what the backend holds, for *)
(* every key that is not written around the cache.                         *)
THEOREM CleanEntriesAreBacked == Spec => []CleanIsBackend
  <1>1. IInv => CleanIsBackend
    BY DEF IInv, EntriesOK, Fits, EntryOK, CleanIsBackend
  <1> QED BY <1>1, Invariance, PTL

(* A death of the process, or a write-back whose failure cachekey ignores, *)
(* takes a key back at most to the last sync or close.                     *)
THEOREM LossIsBounded == Spec => []NothingOlder
  <1>1. IInv => NothingOlder
    BY DEF IInv
  <1> QED BY <1>1, Invariance, PTL

(* The cache implements the flat store as long as no request has failed,   *)
(* if the callers use no key both ways.                                    *)
THEOREM Implements == Spec => KeepsPromise
  <1>1. Init => Promise!Init
    BY InitOK
  <1>2. IInv /\ [Next]_vars => [faults' = 0 /\ Apart => Promise!Next]_<<Contents, recent, answer>>
    <2> SUFFICES ASSUME IInv, [Next]_vars
                 PROVE  [faults' = 0 /\ Apart => Promise!Next]_<<Contents, recent, answer>>
      OBVIOUS
    <2>1. PromiseStep
      BY StepOK
    <2> QED BY <2>1 DEF PromiseStep
  <1> QED BY <1>1, <1>2, Invariance, PTL DEF Spec, KeepsPromise
=============================================================================
