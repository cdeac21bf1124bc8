------------------------- MODULE DeckClient_proof -------------------------
(* The deck's side of the Ulanzi application.  First the image cache, for   *)
(* every capacity and every set of keys and images.  Then the profiles on   *)
(* the disk and the ids of the keys, for any number of pages, profiles,     *)
(* reconnects, faults and ends of the process.                              *)
EXTENDS ImageCache, Profile, TLAPS, FiniteSetTheorems, SequenceTheorems

-----------------------------------------------------------------------------
(* The invariants of the image cache. *)

Hashes == {Hash(image) : image \in Images}
Data == {Nothing} \cup {Png(image) : image \in Images} \cup {Direct(image) : image \in Images}

Calls == [step : {"look", "direct", "lru", "convert", "reuse", "store", "keep", "send"},
          key : Keys, image : Images, data : Data]

\* A call carries the picture of its image once it has one, and the converted
\* one while that may still be kept.
CallInv ==
    /\ call \in {NoCall} \cup Calls
    /\ call.step = "send" => call.data \in {Png(call.image), Direct(call.image)}
    /\ call.step \in {"reuse", "store", "keep"} => call.data = Png(call.image)

\* What is kept under a hash is the conversion of an image with that hash.
KeptInv ==
    /\ lru = [items |-> lru.items, order |-> lru.order]
    /\ \A h \in DOMAIN lru.items :
          \E image \in Images : h = Hash(image) /\ lru.items[h] = Png(image)
    /\ DOMAIN latestByKey = Keys
    /\ \A k \in Keys : latestByKey[k] # Nothing =>
          \E image \in Images :
             latestByKey[k] = [hash |-> Hash(image), data |-> Png(image)]

Distinct(s) == \A i, j \in DOMAIN s : s[i] = s[j] => i = j
Suffix(t, s) ==
    /\ Len(t) <= Len(s)
    /\ \A i \in 1 .. Len(t) : t[i] = s[Len(s) - Len(t) + i]

\* The order is the end of the hashes used, and as long as there is room for.
OrderInv ==
    /\ recent \in Seq(Hashes) /\ lru.order \in Seq(Hashes)
    /\ Distinct(recent)
    /\ Suffix(lru.order, recent)
    /\ Len(lru.order) = IF Len(recent) > Capacity THEN Capacity ELSE Len(recent)
    /\ DOMAIN lru.items = Elements(lru.order)

-----------------------------------------------------------------------------
(* Lists without repetitions. *)

\* Of the images, no two have one hash.
LEMMA HashTells ==
    ASSUME NEW a \in Images, NEW b \in Images, Hash(a) = Hash(b) PROVE a = b
  BY DEF Images, Hash

\* An element moved to the end: those before it stay, those after it close up.
LEMMA MoveOld ==
    ASSUME NEW S, NEW s \in Seq(S), Distinct(s), NEW p \in 1 .. Len(s)
    PROVE  /\ MovedToEnd(s, s[p]) \in Seq(S)
           /\ Len(MovedToEnd(s, s[p])) = Len(s)
           /\ \A j \in 1 .. Len(s) :
                 MovedToEnd(s, s[p])[j] =
                     IF j < p THEN s[j] ELSE IF j < Len(s) THEN s[j + 1] ELSE s[p]
<1> DEFINE a == SubSeq(s, 1, p - 1)
           b == SubSeq(s, p + 1, Len(s))
           ab == a \o b
<1>1. DOMAIN s = 1 .. Len(s) /\ Len(s) \in Nat /\ \A i \in 1 .. Len(s) : s[i] \in S
  BY LenProperties, ElementOfSeq
<1>2. (CHOOSE i \in DOMAIN s : s[i] = s[p]) = p
  BY <1>1 DEF Distinct
<1>3. s[p] \in Elements(s)
  BY <1>1 DEF Elements
<1>4. MovedToEnd(s, s[p]) = Append(ab, s[p])
  BY <1>2, <1>3 DEF MovedToEnd, Without
<1>5. a \in Seq(S) /\ Len(a) = p - 1 /\ \A i \in 1 .. p - 1 : a[i] = s[i]
  <2>1. \A i \in 1 .. p - 1 : s[i] \in S
    BY <1>1
  <2>2. /\ SubSeq(s, 1, p - 1) \in Seq(S)
        /\ Len(SubSeq(s, 1, p - 1)) = IF 1 <= p - 1 THEN p - 1 - 1 + 1 ELSE 0
        /\ \A i \in 1 .. p - 1 - 1 + 1 : SubSeq(s, 1, p - 1)[i] = s[1 + i - 1]
    <3> HIDE DEF a
    <3>1. p - 1 \in Int
      OBVIOUS
    <3> QED
      BY <2>1, <3>1, SubSeqProperties
  <2>3. QED
    BY <2>2
<1>6. b \in Seq(S) /\ Len(b) = Len(s) - p /\ \A i \in 1 .. Len(s) - p : b[i] = s[p + i]
  <2>1. \A i \in p + 1 .. Len(s) : s[i] \in S
    BY <1>1
  <2>2. /\ SubSeq(s, p + 1, Len(s)) \in Seq(S)
        /\ Len(SubSeq(s, p + 1, Len(s))) = IF p + 1 <= Len(s) THEN Len(s) - (p + 1) + 1 ELSE 0
        /\ \A i \in 1 .. Len(s) - (p + 1) + 1 :
              SubSeq(s, p + 1, Len(s))[i] = s[(p + 1) + i - 1]
    <3>1. p + 1 \in Int /\ Len(s) \in Int
      BY <1>1
    <3> QED
      BY <2>1, <3>1, SubSeqProperties
  <2>3. QED
    BY <2>2, <1>1
<1> HIDE DEF a, b
<1>7. /\ ab \in Seq(S)
      /\ Len(ab) = Len(s) - 1
      /\ \A j \in 1 .. Len(s) - 1 : ab[j] = IF j <= p - 1 THEN a[j] ELSE b[j - (p - 1)]
  <2>1. /\ a \o b \in Seq(S)
        /\ Len(a \o b) = Len(a) + Len(b)
        /\ \A j \in 1 .. Len(a) + Len(b) :
              (a \o b)[j] = IF j <= Len(a) THEN a[j] ELSE b[j - Len(a)]
    BY <1>5, <1>6, ConcatProperties
  <2>2. Len(a) + Len(b) = Len(s) - 1
    BY <1>1, <1>5, <1>6
  <2> QED
    BY <2>1, <2>2, <1>5
<1>8. \A j \in 1 .. Len(s) - 1 : ab[j] = IF j < p THEN s[j] ELSE s[j + 1]
  <2> SUFFICES ASSUME NEW j \in 1 .. Len(s) - 1
               PROVE  ab[j] = IF j < p THEN s[j] ELSE s[j + 1]
    OBVIOUS
  <2>1. CASE j < p
    BY <2>1, <1>1, <1>5, <1>7
  <2>2. CASE ~(j < p)
    <3>1. j - (p - 1) \in 1 .. Len(s) - p /\ p + (j - (p - 1)) = j + 1
      BY <2>2, <1>1
    <3>2. b[j - (p - 1)] = s[j + 1]
      BY <3>1, <1>6
    <3> QED
      BY <2>2, <3>2, <1>1, <1>7
  <2> QED
    BY <2>1, <2>2
<1> HIDE DEF ab
<1>9. /\ Append(ab, s[p]) \in Seq(S)
      /\ Len(Append(ab, s[p])) = Len(s)
      /\ \A j \in 1 .. Len(s) : Append(ab, s[p])[j] = IF j <= Len(s) - 1 THEN ab[j] ELSE s[p]
  <2>1. ab \in Seq(S) /\ s[p] \in S
    BY <1>1, <1>7
  <2>2. /\ Append(ab, s[p]) \in Seq(S)
        /\ Len(Append(ab, s[p])) = Len(ab) + 1
        /\ \A j \in 1 .. Len(ab) : Append(ab, s[p])[j] = ab[j]
        /\ Append(ab, s[p])[Len(ab) + 1] = s[p]
    BY <2>1, AppendProperties
  <2> DEFINE new == Append(ab, s[p])
  <2> HIDE DEF new
  <2>3. \A j \in 1 .. Len(s) : new[j] = IF j <= Len(s) - 1 THEN ab[j] ELSE s[p]
    BY <1>1, <1>7, <2>2 DEF new
  <2> QED
    BY <1>1, <1>7, <2>2, <2>3 DEF new
<1>10. QED
  BY <1>1, <1>4, <1>8, <1>9

\* A new element comes after all others.
LEMMA MoveNew ==
    ASSUME NEW S, NEW s \in Seq(S), NEW h \in S, h \notin Elements(s)
    PROVE  /\ MovedToEnd(s, h) \in Seq(S)
           /\ Len(MovedToEnd(s, h)) = Len(s) + 1
           /\ \A j \in 1 .. Len(s) : MovedToEnd(s, h)[j] = s[j]
           /\ MovedToEnd(s, h)[Len(s) + 1] = h
<1>1. MovedToEnd(s, h) = Append(s, h)
  BY DEF MovedToEnd
<1>2. QED
  BY <1>1

\* An element of a list has a place in it.
LEMMA PlaceOf ==
    ASSUME NEW S, NEW s \in Seq(S), NEW h \in Elements(s)
    PROVE  \E p \in 1 .. Len(s) : h = s[p]
  BY LenProperties DEF Elements

\* Moving an element to the end, or adding one, repeats none.
LEMMA MoveDistinct ==
    ASSUME NEW S, NEW s \in Seq(S), Distinct(s), NEW h \in S
    PROVE  /\ MovedToEnd(s, h) \in Seq(S)
           /\ Distinct(MovedToEnd(s, h))
<1>1. Len(s) \in Nat /\ DOMAIN s = 1 .. Len(s)
  BY LenProperties
<1>2. CASE h \in Elements(s)
  <2>1. PICK p \in 1 .. Len(s) : h = s[p]
    BY <1>2, PlaceOf
  <2> DEFINE r == MovedToEnd(s, s[p])
  <2>2. /\ r \in Seq(S)
        /\ Len(r) = Len(s)
        /\ \A j \in 1 .. Len(s) :
              r[j] = IF j < p THEN s[j] ELSE IF j < Len(s) THEN s[j + 1] ELSE s[p]
    BY MoveOld
  <2> HIDE DEF r
  <2>3. DOMAIN r = 1 .. Len(s)
    BY <2>2, LenProperties
  <2>4. Distinct(r)
    <3> SUFFICES ASSUME NEW i \in 1 .. Len(s), NEW j \in 1 .. Len(s), r[i] = r[j]
                 PROVE  i = j
      BY <2>3 DEF Distinct
    <3> DEFINE At(x) == IF x < p THEN x ELSE IF x < Len(s) THEN x + 1 ELSE p
    <3>1. \A x \in 1 .. Len(s) : At(x) \in 1 .. Len(s) /\ r[x] = s[At(x)]
      BY <1>1, <2>2
    <3>2. At(i) = At(j)
      BY <1>1, <3>1 DEF Distinct
    <3> QED
      BY <1>1, <3>2
  <2> QED
    BY <2>1, <2>2, <2>4 DEF r
<1>3. CASE h \notin Elements(s)
  <2> DEFINE r == MovedToEnd(s, h)
  <2>1. /\ r \in Seq(S)
        /\ Len(r) = Len(s) + 1
        /\ \A j \in 1 .. Len(s) : r[j] = s[j]
        /\ r[Len(s) + 1] = h
    BY <1>3, MoveNew
  <2> HIDE DEF r
  <2>2. DOMAIN r = 1 .. Len(s) + 1
    BY <2>1, LenProperties
  <2>3. \A j \in 1 .. Len(s) : s[j] # h
    BY <1>1, <1>3 DEF Elements
  <2>4. Distinct(r)
    BY <1>1, <2>1, <2>2, <2>3 DEF Distinct
  <2> QED
    BY <2>1, <2>4 DEF r
<1> QED
  BY <1>2, <1>3

\* The end of a list without repetitions has none.
LEMMA SuffixDistinct ==
    ASSUME NEW S, NEW s \in Seq(S), NEW t \in Seq(S), Distinct(s), Suffix(t, s)
    PROVE  Distinct(t)
<1>1. /\ Len(s) \in Nat /\ DOMAIN s = 1 .. Len(s)
      /\ Len(t) \in Nat /\ DOMAIN t = 1 .. Len(t)
  BY LenProperties
<1> SUFFICES ASSUME NEW i \in 1 .. Len(t), NEW j \in 1 .. Len(t), t[i] = t[j]
             PROVE  i = j
  BY <1>1 DEF Distinct
<1>2. /\ Len(s) - Len(t) + i \in 1 .. Len(s)
      /\ Len(s) - Len(t) + j \in 1 .. Len(s)
  BY <1>1 DEF Suffix
<1>3. s[Len(s) - Len(t) + i] = s[Len(s) - Len(t) + j]
  BY DEF Suffix
<1>4. Len(s) - Len(t) + i = Len(s) - Len(t) + j
  BY <1>1, <1>2, <1>3 DEF Distinct
<1> QED
  BY <1>1, <1>4

\* An element of the end, moved in both lists, leaves one the end of the other.
LEMMA MoveSuffix ==
    ASSUME NEW S, NEW s \in Seq(S), NEW t \in Seq(S), Distinct(s), Suffix(t, s),
           NEW h \in Elements(t)
    PROVE  /\ MovedToEnd(t, h) \in Seq(S)
           /\ Len(MovedToEnd(t, h)) = Len(t)
           /\ Len(MovedToEnd(s, h)) = Len(s)
           /\ Elements(MovedToEnd(t, h)) = Elements(t)
           /\ Suffix(MovedToEnd(t, h), MovedToEnd(s, h))
<1>1. /\ Len(s) \in Nat /\ DOMAIN s = 1 .. Len(s)
      /\ Len(t) \in Nat /\ DOMAIN t = 1 .. Len(t)
  BY LenProperties
<1>2. PICK p \in 1 .. Len(t) : h = t[p]
  BY PlaceOf
<1> DEFINE q == Len(s) - Len(t) + p
           rt == MovedToEnd(t, h)
           rs == MovedToEnd(s, h)
<1>3. q \in 1 .. Len(s) /\ h = s[q]
  BY <1>1, <1>2 DEF Suffix
<1>4. Distinct(t)
  BY SuffixDistinct
<1>5. /\ rt \in Seq(S) /\ Len(rt) = Len(t)
      /\ \A j \in 1 .. Len(t) :
            rt[j] = IF j < p THEN t[j] ELSE IF j < Len(t) THEN t[j + 1] ELSE t[p]
  <2>1. rt = MovedToEnd(t, t[p])
    BY <1>2
  <2> HIDE DEF rt
  <2> QED
    BY <1>4, <2>1, MoveOld
<1>6. /\ Len(rs) = Len(s)
      /\ \A j \in 1 .. Len(s) :
            rs[j] = IF j < q THEN s[j] ELSE IF j < Len(s) THEN s[j + 1] ELSE s[q]
  <2>1. rs = MovedToEnd(s, s[q])
    BY <1>3
  <2> HIDE DEF rs, q
  <2> QED
    BY <1>3, <2>1, MoveOld
<1> HIDE DEF rs, rt
<1>7. Suffix(rt, rs)
  <2> SUFFICES ASSUME NEW i \in 1 .. Len(t) PROVE rt[i] = rs[Len(s) - Len(t) + i]
    BY <1>5, <1>6 DEF Suffix
  <2> DEFINE j == Len(s) - Len(t) + i
  <2>1. j \in 1 .. Len(s) /\ (j < q <=> i < p) /\ (j < Len(s) <=> i < Len(t))
    BY <1>1 DEF Suffix
  <2>2. t[i] = s[j]
    BY DEF Suffix
  <2>3. i < Len(t) => t[i + 1] = s[j + 1]
    <3>1. ASSUME i < Len(t) PROVE i + 1 \in 1 .. Len(t) /\ Len(s) - Len(t) + (i + 1) = j + 1
      BY <1>1, <3>1
    <3> QED
      BY <3>1 DEF Suffix
  <2> HIDE DEF j, q
  <2> QED
    BY <1>2, <1>3, <1>5, <1>6, <2>1, <2>2, <2>3 DEF j
<1>8. Elements(rt) = Elements(t)
  <2>1. DOMAIN rt = 1 .. Len(t)
    BY <1>5, LenProperties
  <2>2. \A j \in 1 .. Len(t) : \E i \in 1 .. Len(t) : rt[j] = t[i]
    <3> SUFFICES ASSUME NEW j \in 1 .. Len(t) PROVE \E i \in 1 .. Len(t) : rt[j] = t[i]
      OBVIOUS
    <3>1. CASE j < p
      BY <3>1, <1>5
    <3>2. CASE ~(j < p) /\ j < Len(t)
      <4>1. j + 1 \in 1 .. Len(t) /\ rt[j] = t[j + 1]
        BY <3>2, <1>1, <1>5
      <4> QED
        BY <4>1
    <3>3. CASE ~(j < p) /\ ~(j < Len(t))
      BY <3>3, <1>5
    <3> QED
      BY <3>1, <3>2, <3>3
  <2>3. \A i \in 1 .. Len(t) : \E j \in 1 .. Len(t) : rt[j] = t[i]
    <3> SUFFICES ASSUME NEW i \in 1 .. Len(t) PROVE \E j \in 1 .. Len(t) : rt[j] = t[i]
      OBVIOUS
    <3>1. CASE i < p
      BY <3>1, <1>5
    <3>2. CASE i = p
      <4>1. Len(t) \in 1 .. Len(t) /\ rt[Len(t)] = t[p]
        BY <1>1, <1>5
      <4> QED
        BY <3>2, <4>1
    <3>3. CASE i > p
      <4>1. i - 1 \in 1 .. Len(t) /\ ~(i - 1 < p) /\ i - 1 < Len(t) /\ (i - 1) + 1 = i
        BY <3>3, <1>1
      <4>2. rt[i - 1] = t[i]
        BY <4>1, <1>5
      <4> QED
        BY <4>1, <4>2
    <3> QED
      BY <3>1, <3>2, <3>3
  <2>4. Elements(rt) = {rt[j] : j \in 1 .. Len(t)} /\ Elements(t) = {t[i] : i \in 1 .. Len(t)}
    BY <1>1, <2>1 DEF Elements
  <2>5. \A x \in Elements(rt) : x \in Elements(t)
    BY <2>2, <2>4
  <2>6. \A x \in Elements(t) : x \in Elements(rt)
    BY <2>3, <2>4
  <2> QED
    BY <2>5, <2>6, Zenon
<1> QED
  BY <1>5, <1>6, <1>7, <1>8 DEF rs, rt

\* A list without repetitions has as many elements as it is long.
LEMMA DistinctCount ==
    ASSUME NEW S, NEW s \in Seq(S), Distinct(s)
    PROVE  Cardinality(Elements(s)) = Len(s)
<1>1. Len(s) \in Nat /\ DOMAIN s = 1 .. Len(s) /\ s \in [1 .. Len(s) -> S]
  BY LenProperties
<1>2. s \in [1 .. Len(s) -> Elements(s)]
  BY <1>1 DEF Elements
<1>3. s \in Bijection(1 .. Len(s), Elements(s))
  BY <1>1, <1>2 DEF Bijection, Injection, IsInjective, Surjection, Distinct, Elements
<1>4. ExistsBijection(1 .. Len(s), Elements(s))
  BY <1>3 DEF ExistsBijection
<1>5. IsFiniteSet(1 .. Len(s)) /\ Cardinality(1 .. Len(s)) = Len(s)
  <2>1. 1 \in Int /\ Len(s) \in Int
    BY <1>1
  <2>2. /\ IsFiniteSet(1 .. Len(s))
        /\ Cardinality(1 .. Len(s)) = IF 1 > Len(s) THEN 0 ELSE Len(s) - 1 + 1
    BY <2>1, FS_Interval
  <2> QED
    BY <2>2, <1>1
<1> QED
  BY <1>4, <1>5, FS_Bijection

-----------------------------------------------------------------------------
(* What is sent and kept. *)

\* What a call under way consists of.
LEMMA CallShape ==
    ASSUME CallInv, call # NoCall
    PROVE  /\ call = [step |-> call.step, key |-> call.key, image |-> call.image,
                      data |-> call.data]
           /\ call.key \in Keys /\ call.image \in Images /\ call.data \in Data
           /\ call.step \in {"look", "direct", "lru", "convert", "reuse", "store",
                             "keep", "send"}
  BY DEF CallInv, Calls

\* A call that goes on carries what its next step asks for.
LEMMA CallStep == CallInv /\ KeptInv /\ [Next]_vars => CallInv'
<1> SUFFICES ASSUME CallInv, KeptInv, [Next]_vars PROVE CallInv'
  OBVIOUS
<1>1. ASSUME call # NoCall, NEW s \in {"lru", "convert"}, GoTo(s) PROVE CallInv'
  <2>1. call' = [step |-> s, key |-> call.key, image |-> call.image, data |-> call.data]
    BY <1>1, CallShape DEF GoTo
  <2> QED
    BY <1>1, <2>1, CallShape DEF CallInv, Calls
<1>2. ASSUME call # NoCall, NEW s \in {"keep", "send"}, GoTo(s),
             call.data = Png(call.image)
      PROVE  CallInv'
  <2>1. call' = [step |-> s, key |-> call.key, image |-> call.image, data |-> call.data]
    BY <1>2, CallShape DEF GoTo
  <2> QED
    BY <1>2, <2>1, CallShape DEF CallInv, Calls
<1>3. ASSUME call # NoCall, NEW s \in {"reuse", "store"}, GoOn(s, Png(call.image))
      PROVE  CallInv'
  <2>1. call' = [step |-> s, key |-> call.key, image |-> call.image,
                 data |-> Png(call.image)]
    BY <1>3, CallShape DEF GoOn
  <2>2. Png(call.image) \in Data
    BY <1>3, CallShape DEF Data
  <2> QED
    BY <1>3, <2>1, <2>2, CallShape DEF CallInv, Calls
<1>4. ASSUME call # NoCall, GoOn("send", Direct(call.image)) PROVE CallInv'
  <2>1. call' = [step |-> "send", key |-> call.key, image |-> call.image,
                 data |-> Direct(call.image)]
    BY <1>4, CallShape DEF GoOn
  <2>2. Direct(call.image) \in Data
    BY <1>4, CallShape DEF Data
  <2> QED
    BY <1>4, <2>1, <2>2, CallShape DEF CallInv, Calls
<1>5. ASSUME call' = NoCall PROVE CallInv'
  BY <1>5 DEF CallInv, NoCall
<1>6. ASSUME call' = call PROVE CallInv'
  BY <1>6 DEF CallInv
<1>7. ASSUME NEW s \in {"look", "direct"}, NEW k \in Keys, NEW image \in Images,
             Begin(s, k, image)
      PROVE  CallInv'
  BY <1>7 DEF Begin, CallInv, Calls, Data
<1>8. call.step # "none" => call # NoCall
  BY DEF NoCall
<1>9. CASE GetByKey
  BY <1>1, <1>5, <1>8, <1>9 DEF GetByKey
<1>10. CASE GetLRU
  <2>1. CASE Hash(call.image) \in DOMAIN lru.items
    <3>1. call # NoCall
      BY <1>8, <1>10 DEF GetLRU
    <3>2. PICK image \in Images : /\ Hash(call.image) = Hash(image)
                                  /\ lru.items[Hash(call.image)] = Png(image)
      BY <2>1 DEF KeptInv
    <3>3. image = call.image
      BY <3>1, <3>2, CallShape, HashTells
    <3>4. GoOn("reuse", Png(call.image))
      BY <1>10, <2>1, <3>2, <3>3 DEF GetLRU
    <3> QED
      BY <1>3, <3>1, <3>4
  <2>2. CASE Hash(call.image) \notin DOMAIN lru.items
    BY <1>1, <1>8, <1>10, <2>2 DEF GetLRU
  <2> QED
    BY <2>1, <2>2
<1>11. CASE Convert
  BY <1>3, <1>5, <1>8, <1>11 DEF Convert
<1>12. CASE PutByKey
  BY <1>2, <1>8, <1>12 DEF PutByKey, CallInv
<1>13. CASE PutLRU
  BY <1>2, <1>8, <1>13 DEF PutLRU, CallInv
<1>14. CASE ClearByKey
  BY <1>4, <1>8, <1>14 DEF ClearByKey
<1>15. CASE SkipDirect \/ Send
  BY <1>5, <1>15 DEF SkipDirect, Send
<1>16. CASE Reset \/ UNCHANGED vars
  BY <1>6, <1>16 DEF Reset, vars
<1>17. ASSUME NEW k \in Keys, NEW image \in Images,
              SetKeyImage(k, image) \/ SetKeyDirect(k, image)
       PROVE  CallInv'
  BY <1>7, <1>17 DEF SetKeyImage, SetKeyDirect
<1> QED
  BY <1>9, <1>10, <1>11, <1>12, <1>13, <1>14, <1>15, <1>16, <1>17 DEF Next

\* Evicting and moving change no picture; putting adds the one of the hash.
LEMMA KeptStep == CallInv /\ KeptInv /\ [Next]_vars => KeptInv'
<1> SUFFICES ASSUME CallInv, KeptInv, [Next]_vars PROVE KeptInv'
  OBVIOUS
<1>1. lru = [items |-> lru.items, order |-> lru.order] /\ DOMAIN latestByKey = Keys
  BY DEF KeptInv
<1>2. CASE UNCHANGED <<latestByKey, lru>>
  BY <1>2 DEF KeptInv
<1>3. CASE GetLRU
  <2>1. latestByKey' = latestByKey /\ lru' \in {lru, Promote(lru, Hash(call.image))}
    BY <1>3 DEF GetLRU
  <2>2. lru' = [items |-> lru.items, order |-> lru'.order]
    BY <1>1, <2>1 DEF Promote
  <2> QED
    BY <2>1, <2>2 DEF KeptInv
<1>4. CASE PutByKey
  <2>1. call # NoCall /\ call.data = Png(call.image)
    BY <1>4 DEF PutByKey, NoCall, CallInv
  <2>2. call.image \in Images
    BY <2>1, CallShape
  <2>3. /\ lru' = lru
        /\ latestByKey' = [latestByKey EXCEPT ![call.key] =
                              [hash |-> Hash(call.image), data |-> Png(call.image)]]
    BY <1>4, <2>1 DEF PutByKey
  <2> QED
    BY <1>1, <2>2, <2>3 DEF KeptInv
<1>5. CASE PutLRU
  <2> DEFINE h == Hash(call.image)
  <2>1. call # NoCall /\ call.data = Png(call.image)
    BY <1>5 DEF PutLRU, NoCall, CallInv
  <2>2. call.image \in Images
    BY <2>1, CallShape
  <2>3. latestByKey' = latestByKey /\ lru' = Put(lru, h, Png(call.image))
    BY <1>5, <2>1 DEF PutLRU
  <2>4. /\ lru' = [items |-> lru'.items, order |-> lru'.order]
        /\ \A g \in DOMAIN lru'.items :
              IF g = h THEN lru'.items[g] = Png(call.image)
              ELSE g \in DOMAIN lru.items /\ lru'.items[g] = lru.items[g]
    <3>1. CASE h \in DOMAIN lru.items
      <4> DEFINE l == [items |-> [lru.items EXCEPT ![h] = Png(call.image)],
                       order |-> lru.order]
      <4>1. lru' = Promote(l, h)
        BY <1>1, <2>3, <3>1 DEF Put
      <4>2. lru' = [items |-> [lru.items EXCEPT ![h] = Png(call.image)], order |-> lru'.order]
        BY <4>1 DEF Promote
      <4> QED
        BY <3>1, <4>2
    <3>2. CASE h \notin DOMAIN lru.items
      <4> DEFINE room == IF Cardinality(DOMAIN lru.items) >= Capacity THEN Evict(lru) ELSE lru
      <4>1. lru' = [items |-> [g \in DOMAIN room.items \cup {h} |->
                                  IF g = h THEN Png(call.image) ELSE room.items[g]],
                    order |-> Append(room.order, h)]
        BY <2>3, <3>2 DEF Put
      <4>2. \A g \in DOMAIN room.items :
               g \in DOMAIN lru.items /\ room.items[g] = lru.items[g]
        BY DEF Evict
      <4> HIDE DEF room
      <4> QED
        BY <4>1, <4>2
    <3> QED
      BY <3>1, <3>2
  <2>5. \A g \in DOMAIN lru'.items :
           \E image \in Images : g = Hash(image) /\ lru'.items[g] = Png(image)
    BY <2>2, <2>4 DEF KeptInv
  <2> QED
    BY <2>3, <2>4, <2>5 DEF KeptInv
<1>6. CASE ClearByKey
  BY <1>1, <1>6 DEF ClearByKey, KeptInv
<1>7. CASE Reset
  <2>1. lru' = [items |-> <<>>, order |-> <<>>] /\ latestByKey' = [k \in Keys |-> Nothing]
    BY <1>7 DEF Reset, EmptyLRU, Nothing
  <2>2. DOMAIN lru'.items = {}
    BY <2>1
  <2> QED
    BY <2>1, <2>2 DEF KeptInv
<1>8. CASE GetByKey \/ Convert \/ SkipDirect \/ Send \/ UNCHANGED vars
  BY <1>2, <1>8 DEF GetByKey, Convert, SkipDirect, Send, vars
<1>9. ASSUME NEW k \in Keys, NEW image \in Images,
             SetKeyImage(k, image) \/ SetKeyDirect(k, image)
      PROVE  KeptInv'
  BY <1>2, <1>9 DEF SetKeyImage, SetKeyDirect, Begin
<1> QED
  BY <1>3, <1>4, <1>5, <1>6, <1>7, <1>8, <1>9 DEF Next

\* What calls carry and levels keep is so in every state of every behaviour.
LEMMA SentAlways == Spec => [](CallInv /\ KeptInv)
<1>1. Init => CallInv /\ KeptInv
  <2> SUFFICES ASSUME Init PROVE CallInv /\ KeptInv
    OBVIOUS
  <2>1. CallInv
    BY DEF Init, CallInv, NoCall
  <2>2. lru = [items |-> <<>>, order |-> <<>>] /\ latestByKey = [k \in Keys |-> Nothing]
    BY DEF Init, EmptyLRU, Nothing
  <2>3. DOMAIN lru.items = {}
    BY <2>2
  <2>4. KeptInv
    BY <2>2, <2>3 DEF KeptInv
  <2> QED
    BY <2>1, <2>4
<1>2. QED
  BY <1>1, CallStep, KeptStep, PTL DEF Spec

\* What the invariant says of a kept picture is what SentIsAsked asks for.
LEMMA KeptIsTrue == CallInv /\ KeptInv => SentIsAsked
<1> SUFFICES ASSUME CallInv, KeptInv PROVE SentIsAsked
  OBVIOUS
<1>1. ASSUME NEW image \in Images, Hash(image) \in DOMAIN lru.items
      PROVE  lru.items[Hash(image)] = Png(image)
  <2>1. PICK i \in Images : Hash(image) = Hash(i) /\ lru.items[Hash(image)] = Png(i)
    BY <1>1 DEF KeptInv
  <2> QED
    BY <2>1, HashTells
<1>2. ASSUME NEW image \in Images, NEW k \in Keys,
             latestByKey[k] # Nothing, latestByKey[k].hash = Hash(image)
      PROVE  latestByKey[k].data = Png(image)
  <2>1. PICK i \in Images : latestByKey[k] = [hash |-> Hash(i), data |-> Png(i)]
    BY <1>2 DEF KeptInv
  <2>2. Hash(i) = Hash(image)
    BY <1>2, <2>1
  <2> QED
    BY <2>1, <2>2, HashTells
<1>3. call.step \in {"reuse", "store", "keep", "send"} =>
         call.data \in {Png(call.image), Direct(call.image)}
  BY DEF CallInv
<1> QED
  BY <1>1, <1>2, <1>3 DEF SentIsAsked

\* What is sent for an image is the picture of that image, for every capacity,
\* whatever was evicted or reset meanwhile.
THEOREM SentAsAsked == Spec => []SentIsAsked
  BY SentAlways, KeptIsTrue, PTL

-----------------------------------------------------------------------------
(* The order of use. *)

\* A use of a hash that is kept changes the order alone, as the reference does.
LEMMA PromoteOrder ==
    ASSUME OrderInv, NEW h \in Elements(lru.order),
           lru'.order = MovedToEnd(lru.order, h),
           DOMAIN lru'.items = DOMAIN lru.items,
           recent' = MovedToEnd(recent, h)
    PROVE  OrderInv'
<1>1. h \in Hashes
  <2>1. PICK p \in 1 .. Len(lru.order) : h = lru.order[p]
    BY PlaceOf DEF OrderInv
  <2> QED
    BY <2>1, ElementOfSeq DEF OrderInv
<1>2. recent' \in Seq(Hashes) /\ Distinct(recent')
  BY <1>1, MoveDistinct DEF OrderInv
<1>3. /\ lru'.order \in Seq(Hashes)
      /\ Len(lru'.order) = Len(lru.order)
      /\ Len(recent') = Len(recent)
      /\ Elements(lru'.order) = Elements(lru.order)
      /\ Suffix(lru'.order, recent')
  BY MoveSuffix DEF OrderInv
<1> QED
  BY <1>2, <1>3 DEF OrderInv

\* Leaving out the first element of a list without repetitions leaves out that
\* element only.
LEMMA TailElements ==
    ASSUME NEW S, NEW s \in Seq(S), s # <<>>, Distinct(s)
    PROVE  Elements(Tail(s)) = Elements(s) \ {Head(s)}
<1>1. /\ Len(s) \in Nat \ {0} /\ DOMAIN s = 1 .. Len(s) /\ Head(s) = s[1]
      /\ DOMAIN Tail(s) = 1 .. Len(s) - 1
      /\ \A i \in 1 .. Len(s) - 1 : Tail(s)[i] = s[i + 1]
  BY LenProperties, EmptySeq, HeadTailProperties
<1>2. Elements(Tail(s)) = {s[i + 1] : i \in 1 .. Len(s) - 1}
  BY <1>1 DEF Elements
<1>3. Elements(s) = {s[i] : i \in 1 .. Len(s)}
  BY <1>1 DEF Elements
<1>4. \A i \in 1 .. Len(s) - 1 : i + 1 \in 1 .. Len(s) /\ i + 1 # 1 /\ s[i + 1] # s[1]
  BY <1>1 DEF Distinct
<1>5. \A j \in 1 .. Len(s) : j = 1 \/ (j - 1 \in 1 .. Len(s) - 1 /\ (j - 1) + 1 = j)
  BY <1>1
<1>6. ASSUME NEW x \in Elements(s), x # s[1] PROVE x \in Elements(Tail(s))
  <2>1. PICK j \in 1 .. Len(s) : x = s[j]
    BY <1>3
  <2>2. j - 1 \in 1 .. Len(s) - 1 /\ x = s[(j - 1) + 1]
    BY <1>5, <1>6, <2>1
  <2> QED
    BY <1>2, <2>2
<1>7. ASSUME NEW x \in Elements(Tail(s)) PROVE x \in Elements(s) /\ x # s[1]
  BY <1>2, <1>3, <1>4
<1> QED
  BY <1>1, <1>6, <1>7

\* A new last element of both lists leaves the one the end of the other, if the
\* shorter list drops its first element when it is full: also when the longer
\* one had the element before.
LEMMA AppendSuffix ==
    ASSUME NEW S, NEW s \in Seq(S), NEW o \in Seq(S), Distinct(s), Suffix(o, s),
           Len(o) = IF Len(s) > Capacity THEN Capacity ELSE Len(s),
           NEW h \in S, h \notin Elements(o),
           NEW rest \in Seq(S),
           Len(o) >= Capacity => rest = Tail(o),
           Len(o) < Capacity => rest = o
    PROVE  /\ Append(rest, h) \in Seq(S)
           /\ Len(Append(rest, h)) = IF Len(MovedToEnd(s, h)) > Capacity THEN Capacity
                                     ELSE Len(MovedToEnd(s, h))
           /\ Suffix(Append(rest, h), MovedToEnd(s, h))
           /\ Elements(Append(rest, h)) = Elements(rest) \cup {h}
<1> DEFINE n == Len(s)
           k == Len(o)
           m == Len(rest)
           new == Append(rest, h)
           moved == MovedToEnd(s, h)
           size == Len(moved)
<1>1. /\ n \in Nat /\ DOMAIN s = 1 .. n
      /\ k \in Nat /\ DOMAIN o = 1 .. k
      /\ m \in Nat /\ DOMAIN rest = 1 .. m
      /\ Capacity \in Nat \ {0}
  BY LenProperties, CapacityAssumption
<1>2. /\ k = IF n > Capacity THEN Capacity ELSE n
      /\ \A i \in 1 .. k : o[i] = s[n - k + i]
  BY DEF Suffix
<1>3. /\ k >= Capacity => rest = Tail(o)
      /\ k < Capacity => rest = o
      /\ o = <<>> => k = 0
      /\ o # <<>> => Len(Tail(o)) = k - 1 /\ \A i \in 1 .. k - 1 : Tail(o)[i] = o[i + 1]
  <2>1. o # <<>> => Len(Tail(o)) = k - 1 /\ \A i \in 1 .. k - 1 : Tail(o)[i] = o[i + 1]
    BY HeadTailProperties
  <2>2. o = <<>> => k = 0
    BY EmptySeq
  <2> QED
    BY ONLY <2>1, <2>2, Len(o) >= Capacity => rest = Tail(o), Len(o) < Capacity => rest = o
<1>4. /\ new \in Seq(S) /\ Len(new) = m + 1
      /\ \A i \in 1 .. m : new[i] = rest[i]
      /\ new[m + 1] = h
  BY AppendProperties
<1>5. DOMAIN new = 1 .. m + 1
  BY <1>4, LenProperties
<1>6. h \in Elements(s) =>
         \E p \in 1 .. n :
            /\ h = s[p] /\ size = n
            /\ \A j \in 1 .. n :
                  moved[j] = IF j < p THEN s[j] ELSE IF j < n THEN s[j + 1] ELSE s[p]
  <2> SUFFICES ASSUME h \in Elements(s)
               PROVE  \E p \in 1 .. n :
                         /\ h = s[p] /\ size = n
                         /\ \A j \in 1 .. n :
                               moved[j] = IF j < p THEN s[j]
                                          ELSE IF j < n THEN s[j + 1] ELSE s[p]
    OBVIOUS
  <2>1. PICK p \in 1 .. n : h = s[p]
    BY PlaceOf
  <2>2. moved = MovedToEnd(s, s[p])
    BY <2>1
  <2> HIDE DEF moved
  <2> QED
    BY <2>1, <2>2, MoveOld
<1>7. h \notin Elements(s) =>
         /\ size = n + 1
         /\ \A j \in 1 .. n : moved[j] = s[j]
         /\ moved[n + 1] = h
  BY MoveNew
<1>8. Elements(s) = {s[i] : i \in 1 .. n} /\ Elements(o) = {o[i] : i \in 1 .. k}
  BY <1>1 DEF Elements
<1>9. m = Len(rest) /\ k = Len(o)
  OBVIOUS
<1> HIDE DEF n, k, m, new, moved, size
<1>10. /\ k >= Capacity => m = k - 1 /\ \A i \in 1 .. m : rest[i] = o[i + 1]
       /\ k < Capacity => rest = o /\ m = k
  <2>1. CASE k >= Capacity
    <3>1. k # 0 /\ ~(k < Capacity)
      BY <1>1, <2>1
    <3>2. rest = Tail(o) /\ o # <<>>
      BY <1>3, <2>1, <3>1
    <3>3. m = k - 1
      BY <1>3, <1>9, <3>2
    <3> QED
      BY <1>3, <3>1, <3>2, <3>3
  <2>2. CASE k < Capacity
    <3>1. ~(k >= Capacity)
      BY <1>1, <2>2
    <3> QED
      BY <1>3, <1>9, <2>2, <3>1
  <2> QED
    BY <1>1, <2>1, <2>2
<1>11. \A i \in 1 .. m : rest[i] = s[n - m + i]
  <2> SUFFICES ASSUME NEW i \in 1 .. m PROVE rest[i] = s[n - m + i]
    OBVIOUS
  <2>1. CASE k >= Capacity
    <3>1. i + 1 \in 1 .. k /\ n - k + (i + 1) = n - m + i
      BY <1>1, <1>10, <2>1
    <3> QED
      BY <1>2, <1>10, <2>1, <3>1
  <2>2. CASE ~(k >= Capacity)
    BY <1>1, <1>2, <1>10, <2>2
  <2> QED
    BY <2>1, <2>2
<1>12. /\ size \in Nat
       /\ m + 1 <= size
       /\ m + 1 = IF size > Capacity THEN Capacity ELSE size
       /\ \A i \in 1 .. m : rest[i] = moved[size - (m + 1) + i]
       /\ moved[size] = h
  <2>1. CASE h \in Elements(s)
    <3>1. PICK p \in 1 .. n :
             /\ h = s[p] /\ size = n
             /\ \A j \in 1 .. n :
                   moved[j] = IF j < p THEN s[j] ELSE IF j < n THEN s[j + 1] ELSE s[p]
      BY <1>6, <2>1
    <3>2. p <= n - k
      <4> SUFFICES ASSUME p > n - k PROVE FALSE
        BY <1>1
      <4>1. p - (n - k) \in 1 .. k /\ n - k + (p - (n - k)) = p
        BY <1>1
      <4>2. o[p - (n - k)] = h
        BY <1>2, <3>1, <4>1
      <4> QED
        BY <1>8, <4>1, <4>2
    <3>3. n > Capacity /\ k = Capacity /\ m + 1 = Capacity
      BY <1>1, <1>2, <1>10, <3>2
    <3>4. ASSUME NEW i \in 1 .. m PROVE rest[i] = moved[size - (m + 1) + i]
      <4>1. PICK j \in 1 .. n : j = n - (m + 1) + i
        BY <1>1, <3>3
      <4>2. ~(j < p) /\ j < n /\ j + 1 = n - m + i
        BY <1>1, <3>2, <3>3, <4>1
      <4>3. moved[j] = s[j + 1]
        BY <3>1, <4>2
      <4> QED
        BY <1>11, <3>1, <4>1, <4>2, <4>3
    <3>5. moved[n] = h
      BY <1>1, <3>1
    <3>6. size \in Nat /\ m + 1 <= size /\ m + 1 = IF size > Capacity THEN Capacity ELSE size
      BY <1>1, <3>1, <3>3
    <3> QED
      BY <3>1, <3>4, <3>5, <3>6
  <2>2. CASE h \notin Elements(s)
    <3>1. /\ size = n + 1
          /\ \A j \in 1 .. n : moved[j] = s[j]
          /\ moved[n + 1] = h
      BY <1>7, <2>2
    <3>2. m + 1 = IF size > Capacity THEN Capacity ELSE size
      BY <1>1, <1>2, <1>10, <3>1
    <3>3. m + 1 <= size /\ size \in Nat
      BY <1>1, <3>1, <3>2
    <3>4. ASSUME NEW i \in 1 .. m PROVE rest[i] = moved[size - (m + 1) + i]
      <4>1. size - (m + 1) + i = n - m + i /\ n - m + i \in 1 .. n
        BY <1>1, <3>1, <3>3
      <4> QED
        BY <1>11, <3>1, <4>1
    <3> QED
      BY <3>1, <3>2, <3>3, <3>4
  <2> QED
    BY <2>1, <2>2
<1>13. ASSUME NEW i \in 1 .. m + 1 PROVE new[i] = moved[size - (m + 1) + i]
  <2>1. CASE i \in 1 .. m
    BY <1>4, <1>12, <2>1
  <2>2. CASE i = m + 1
    <3>1. size - (m + 1) + i = size
      BY <1>1, <1>12, <2>2
    <3> QED
      BY <1>4, <1>12, <2>2, <3>1
  <2> QED
    BY <1>1, <2>1, <2>2
<1>14. Suffix(new, moved)
  BY <1>4, <1>12, <1>13 DEF Suffix, size
<1>15. Elements(new) = Elements(rest) \cup {h}
  <2>1. Elements(rest) = {rest[i] : i \in 1 .. m} /\ Elements(new) = {new[i] : i \in 1 .. m + 1}
    BY <1>1, <1>5 DEF Elements
  <2>2. ASSUME NEW x \in Elements(new) PROVE x \in Elements(rest) \/ x = h
    <3>1. PICK i \in 1 .. m + 1 : x = new[i]
      BY <2>1
    <3>2. i \in 1 .. m \/ i = m + 1
      BY <1>1
    <3> QED
      BY <1>4, <2>1, <3>1, <3>2
  <2>3. ASSUME NEW x \in Elements(rest) PROVE x \in Elements(new)
    <3>1. PICK i \in 1 .. m : x = rest[i]
      BY <2>1
    <3>2. i \in 1 .. m + 1 /\ x = new[i]
      BY <1>1, <1>4, <3>1
    <3> QED
      BY <2>1, <3>2
  <2>4. h \in Elements(new)
    <3>1. m + 1 \in 1 .. m + 1
      BY <1>1
    <3> QED
      BY <1>4, <2>1, <3>1
  <2> QED
    BY <2>2, <2>3, <2>4
<1> QED
  BY <1>4, <1>12, <1>14, <1>15 DEF new, moved, size

\* A hash that is not kept comes last, and the one used longest ago goes if
\* there is no room.
LEMMA AppendOrder ==
    ASSUME OrderInv, NEW h \in Hashes, h \notin Elements(lru.order),
           NEW rest,
           rest = IF Len(lru.order) >= Capacity THEN Tail(lru.order) ELSE lru.order,
           lru'.order = Append(rest, h),
           DOMAIN lru'.items = Elements(rest) \cup {h},
           recent' = MovedToEnd(recent, h)
    PROVE  OrderInv'
<1>1. lru.order \in Seq(Hashes) /\ Len(lru.order) \in Nat
  BY LenProperties DEF OrderInv
<1>2. rest \in Seq(Hashes)
  <2>1. CASE Len(lru.order) >= Capacity
    <3>1. lru.order # <<>>
      BY <1>1, <2>1, EmptySeq, CapacityAssumption
    <3> QED
      BY <1>1, <2>1, <3>1, HeadTailProperties
  <2>2. CASE ~(Len(lru.order) >= Capacity)
    BY <1>1, <2>2
  <2> QED
    BY <2>1, <2>2
<1>3. recent' \in Seq(Hashes) /\ Distinct(recent')
  BY MoveDistinct DEF OrderInv
<1>4. /\ Append(rest, h) \in Seq(Hashes)
      /\ Len(Append(rest, h)) = IF Len(MovedToEnd(recent, h)) > Capacity THEN Capacity
                                ELSE Len(MovedToEnd(recent, h))
      /\ Suffix(Append(rest, h), MovedToEnd(recent, h))
      /\ Elements(Append(rest, h)) = Elements(rest) \cup {h}
  <2>1. /\ recent \in Seq(Hashes) /\ Distinct(recent) /\ Suffix(lru.order, recent)
        /\ Len(lru.order) = IF Len(recent) > Capacity THEN Capacity ELSE Len(recent)
    BY DEF OrderInv
  <2> DEFINE o == lru.order
  <2>2. o \in Seq(Hashes) /\ h \notin Elements(o) /\ Suffix(o, recent)
        /\ Len(o) = (IF Len(recent) > Capacity THEN Capacity ELSE Len(recent))
        /\ (Len(o) >= Capacity => rest = Tail(o))
        /\ (Len(o) < Capacity => rest = o)
    BY <1>1, <2>1, CapacityAssumption
  <2> HIDE DEF o
  <2> QED
    BY ONLY h \in Hashes, <1>2, <2>1, <2>2, AppendSuffix
<1> QED
  BY <1>3, <1>4 DEF OrderInv

\* Every use keeps the order the end of the reference.
LEMMA OrderStep == CallInv /\ KeptInv /\ OrderInv /\ [Next]_vars => OrderInv'
<1> SUFFICES ASSUME CallInv, KeptInv, OrderInv, [Next]_vars PROVE OrderInv'
  OBVIOUS
<1>1. lru = [items |-> lru.items, order |-> lru.order]
  BY DEF KeptInv
<1>2. DOMAIN lru.items = Elements(lru.order)
  BY DEF OrderInv
<1>3. CASE UNCHANGED <<lru, recent>>
  BY <1>3 DEF OrderInv
<1>4. CASE GetLRU
  <2> DEFINE h == Hash(call.image)
  <2>1. CASE h \in DOMAIN lru.items
    <3>1. h \in Elements(lru.order)
      BY <1>2, <2>1
    <3>2. lru' = Promote(lru, h) /\ recent' = MovedToEnd(recent, h)
      BY <1>4, <2>1 DEF GetLRU
    <3> HIDE DEF h
    <3>3. lru' = [items |-> lru.items, order |-> MovedToEnd(lru.order, h)]
      BY <1>1, <3>1, <3>2 DEF Promote
    <3>4. lru'.order = MovedToEnd(lru.order, h) /\ DOMAIN lru'.items = DOMAIN lru.items
      BY <3>3
    <3> QED
      BY <3>1, <3>2, <3>4, PromoteOrder
  <2>2. CASE h \notin DOMAIN lru.items
    BY <1>3, <1>4, <2>2 DEF GetLRU
  <2> QED
    BY <2>1, <2>2
<1>5. CASE PutLRU
  <2> DEFINE h == Hash(call.image)
             data == call.data
  <2>1. h \in Hashes
    BY <1>5, CallShape DEF PutLRU, NoCall, Hashes
  <2>2. lru' = Put(lru, h, data) /\ recent' = MovedToEnd(recent, h)
    BY <1>5 DEF PutLRU
  <2> HIDE DEF h, data
  <2>3. CASE h \in DOMAIN lru.items
    <3>1. h \in Elements(lru.order)
      BY <1>2, <2>3
    <3> DEFINE l == [items |-> [lru.items EXCEPT ![h] = data], order |-> lru.order]
    <3>2. lru' = Promote(l, h)
      BY <1>1, <2>2, <2>3 DEF Put
    <3>3. lru' = [items |-> [lru.items EXCEPT ![h] = data],
                  order |-> MovedToEnd(lru.order, h)]
      BY <3>1, <3>2 DEF Promote
    <3>4. lru'.order = MovedToEnd(lru.order, h) /\ DOMAIN lru'.items = DOMAIN lru.items
      BY <3>3
    <3> QED
      BY <2>2, <3>1, <3>4, PromoteOrder
  <2>4. CASE h \notin DOMAIN lru.items
    <3> DEFINE room == IF Cardinality(DOMAIN lru.items) >= Capacity THEN Evict(lru) ELSE lru
    <3>1. lru' = [items |-> [g \in DOMAIN room.items \cup {h} |->
                                IF g = h THEN data ELSE room.items[g]],
                  order |-> Append(room.order, h)]
      BY <2>2, <2>4 DEF Put
    <3>2. lru.order \in Seq(Hashes) /\ Len(lru.order) \in Nat /\ Distinct(lru.order)
      BY SuffixDistinct, LenProperties DEF OrderInv
    <3>3. Cardinality(DOMAIN lru.items) = Len(lru.order)
      BY <1>2, <3>2, DistinctCount
    <3>4. /\ room.order = IF Len(lru.order) >= Capacity THEN Tail(lru.order) ELSE lru.order
          /\ DOMAIN room.items = Elements(room.order)
      <4>1. CASE Len(lru.order) >= Capacity
        <5>1. lru.order # <<>>
          BY <3>2, <4>1, CapacityAssumption
        <5>2. room = [items |-> [g \in DOMAIN lru.items \ {Head(lru.order)} |-> lru.items[g]],
                      order |-> Tail(lru.order)]
          BY <3>3, <4>1, <5>1 DEF Evict
        <5>3. Elements(Tail(lru.order)) = Elements(lru.order) \ {Head(lru.order)}
          BY <3>2, <5>1, TailElements
        <5> HIDE DEF room
        <5> QED
          BY <1>2, <4>1, <5>2, <5>3
      <4>2. CASE ~(Len(lru.order) >= Capacity)
        <5>1. room = lru
          BY <3>3, <4>2
        <5> HIDE DEF room
        <5> QED
          BY <1>2, <4>2, <5>1
      <4> QED
        BY <4>1, <4>2
    <3> HIDE DEF room
    <3>5. lru'.order = Append(room.order, h)
      BY <3>1
    <3>6. DOMAIN lru'.items = Elements(room.order) \cup {h}
      BY <3>1, <3>4
    <3>7. h \notin Elements(lru.order)
      BY <1>2, <2>4
    <3> QED
      BY <2>1, <2>2, <3>4, <3>5, <3>6, <3>7, AppendOrder
  <2> QED
    BY <2>3, <2>4
<1>6. CASE Reset
  <2>1. lru' = [items |-> <<>>, order |-> <<>>] /\ recent' = <<>>
    BY <1>6 DEF Reset, EmptyLRU, Nothing
  <2>2. lru'.order = <<>> /\ DOMAIN lru'.items = {}
    BY <2>1
  <2> QED
    BY <2>1, <2>2, CapacityAssumption DEF OrderInv, Distinct, Suffix, Elements
<1>7. CASE GetByKey \/ Convert \/ PutByKey \/ ClearByKey \/ SkipDirect \/ Send \/ UNCHANGED vars
  BY <1>3, <1>7 DEF GetByKey, Convert, PutByKey, ClearByKey, SkipDirect, Send, vars
<1>8. ASSUME NEW k \in Keys, NEW image \in Images,
             SetKeyImage(k, image) \/ SetKeyDirect(k, image)
      PROVE  OrderInv'
  BY <1>3, <1>8 DEF SetKeyImage, SetKeyDirect, Begin
<1> QED
  BY <1>4, <1>5, <1>6, <1>7, <1>8 DEF Next

\* An order that is the end of the reference is that of the hashes used last.
LEMMA OrderIsReference == OrderInv => LastUsedKept
<1> SUFFICES ASSUME OrderInv PROVE LastUsedKept
  OBVIOUS
<1> DEFINE o == lru.order
           n == Len(recent)
           first == (IF n > Capacity THEN n - Capacity ELSE 0) + 1
           end == SubSeq(recent, first, n)
<1>1. /\ o \in Seq(Hashes) /\ recent \in Seq(Hashes) /\ n \in Nat /\ Capacity \in Nat \ {0}
      /\ \A i \in 1 .. n : recent[i] \in Hashes
      /\ Len(o) = IF n > Capacity THEN Capacity ELSE n
  BY LenProperties, ElementOfSeq, CapacityAssumption DEF OrderInv
<1>2. first \in 1 .. n + 1 /\ n - first + 1 = Len(o) /\ first = n - Len(o) + 1
  BY <1>1
<1> HIDE DEF first
<1>3. /\ end \in Seq(Hashes)
      /\ Len(end) = IF first <= n THEN n - first + 1 ELSE 0
      /\ \A i \in 1 .. n - first + 1 : end[i] = recent[first + i - 1]
  <2>1. \A i \in first .. n : recent[i] \in Hashes
    BY <1>1, <1>2
  <2>2. first \in Int /\ n \in Int
    BY <1>1, <1>2
  <2> HIDE DEF n
  <2> QED
    BY <2>1, <2>2, SubSeqProperties
<1>4. Len(end) = Len(o)
  BY <1>1, <1>2, <1>3
<1>5. ASSUME NEW i \in 1 .. Len(o) PROVE o[i] = end[i]
  <2>1. o[i] = recent[n - Len(o) + i]
    BY DEF OrderInv, Suffix
  <2>2. first + i - 1 = n - Len(o) + i
    BY <1>1, <1>2
  <2> QED
    BY <1>2, <1>3, <2>1, <2>2
<1>6. o = end
  <2> HIDE DEF o, end
  <2> QED
    BY <1>1, <1>3, <1>4, <1>5, SeqEqual
<1> QED
  BY <1>6 DEF LastUsedKept, OrderInv, first

\* The second level keeps the hashes used last, each once, in the order of use:
\* the textbook's least recently used cache, for every capacity.
THEOREM KeepsLastUsed == Spec => []LastUsedKept
<1>1. Init => OrderInv
  <2> SUFFICES ASSUME Init PROVE OrderInv
    OBVIOUS
  <2>1. lru = [items |-> <<>>, order |-> <<>>] /\ recent = <<>>
    BY DEF Init, EmptyLRU, Nothing
  <2>2. lru.order = <<>> /\ DOMAIN lru.items = {}
    BY <2>1
  <2> QED
    BY <2>1, <2>2, CapacityAssumption DEF OrderInv, Distinct, Suffix, Elements
<1>2. QED
  BY <1>1, SentAlways, OrderStep, OrderIsReference, PTL DEF Spec

-----------------------------------------------------------------------------
(* The invariants of the profile. *)

Directory == [named : BOOLEAN, pages : SUBSET Pages, first : Pages, hurt : BOOLEAN]

\* What the steps of Ensure rely on.
TypeInv ==
    /\ created \in Nat
    /\ disk \in [DOMAIN disk -> Directory]
    /\ DOMAIN disk \subseteq 1 .. created
    /\ page \in Nat \ {0}
    /\ step \in {"down", "remove", "create", "activate", "seed", "reading", "waiting"}

\* While old profiles are removed, those with a name are still to look at or
\* could not be removed.
RemovalInv == step = "remove" => Named \subseteq listed \cup stuck

\* While a profile is written it has no name, and all the pages it is through
\* with, unless a write failed.
WritingInv ==
    step = "create" =>
        /\ dir \in DOMAIN disk
        /\ ~disk[dir].named
        /\ \A n \in Pages : n < page => disk[dir].hurt \/ n \in disk[dir].pages

DiskInv == TypeInv /\ RemovalInv /\ WritingInv /\ OneProfile /\ NamedIsWhole

KeyInv ==
    /\ DOMAIN keyActions = ActionKeys /\ DOMAIN told = ActionKeys
    /\ ToldIsKept

-----------------------------------------------------------------------------
(* The ids of the keys. *)

\* The process's own map of ids and what it was told change together.
LEMMA KeyStep == KeyInv /\ [ProfileNext]_profileVars => KeyInv'
<1> SUFFICES ASSUME KeyInv, [ProfileNext]_profileVars PROVE KeyInv'
  OBVIOUS
<1> USE DEF KeyInv, ToldIsKept
<1>1. CASE UNCHANGED keyVars
  BY <1>1 DEF keyVars
<1>2. CASE keyActions' = Nobody /\ told' = Nobody
  BY <1>2 DEF Nobody
<1>3. CASE told' = Nobody /\ UNCHANGED keyActions
  BY <1>3 DEF Nobody
<1>4. CASE keyActions' = Seeded /\ UNCHANGED told
  BY <1>4 DEF Seeded
<1>5. ASSUME NEW k \in ActionKeys, HandleAdd(k) PROVE KeyInv'
  BY <1>5 DEF HandleAdd
<1>6. ASSUME NEW k \in ActionKeys, HandleClear(k) PROVE KeyInv'
  BY <1>6 DEF HandleClear
<1>7. CASE UNCHANGED profileVars
  BY <1>1, <1>7 DEF profileVars
<1>8. CASE Start \/ Reconnect \/ ReadFails \/ AppStart \/ LinkDrop
  BY <1>1, <1>8 DEF Start, Reconnect, ReadFails, AppStart, LinkDrop
<1>9. CASE Ensure
  <2>1. UNCHANGED keyVars \/ (keyActions' = Nobody /\ told' = Nobody)
    BY <1>9 DEF Ensure, RemoveOld, RemoveFails, CrashInRemove, MakeDir, WritePage,
                WriteManifest, ActivateProfile
  <2>2. QED
    BY <2>1, <1>1, <1>2
<1>10. CASE SeedKeyActions
  BY <1>4, <1>10 DEF SeedKeyActions
<1>11. CASE Crash
  BY <1>2, <1>11 DEF Crash
<1>12. CASE AppStop
  BY <1>3, <1>12 DEF AppStop
<1>13. QED
  BY <1>5, <1>6, <1>7, <1>8, <1>9, <1>10, <1>11, <1>12 DEF ProfileNext, Process

\* What the application said of a key is the id the client uses for it, through
\* any reconnects with their new profiles.
THEOREM ToldIsNeverLost == ProfileSpec => []ToldIsKept
<1>1. ProfileInit => KeyInv
  BY DEF ProfileInit, KeyInv, ToldIsKept, Nobody
<1>2. KeyInv => ToldIsKept
  BY DEF KeyInv
<1>3. QED
  BY <1>1, <1>2, KeyStep, PTL DEF ProfileSpec

-----------------------------------------------------------------------------
(* The profiles on the disk. *)

\* Steps that leave the disk and Ensure alone, or end the process or Ensure.
LEMMA DiskIdle ==
    ASSUME DiskInv, UNCHANGED <<disk, page, created>>,
           \/ step' \in {"down", "reading", "waiting"}
           \/ step \in {"activate", "seed"} /\ step' = "seed" /\ UNCHANGED <<dir, stuck>>
           \/ UNCHANGED <<step, listed, dir, stuck>>
    PROVE  DiskInv'
<1>1. TypeInv'
  BY DEF DiskInv, TypeInv
<1>2. Named' = Named
  BY DEF Named
<1>3. QED
  BY <1>1, <1>2 DEF DiskInv, TypeInv, RemovalInv, WritingInv, OneProfile, NamedIsWhole

\* The start of Ensure: all directories are to be looked at.
LEMMA DiskBegins ==
    ASSUME DiskInv, EnsureBegins, UNCHANGED <<disk, page, created>>
    PROVE  DiskInv'
<1>1. TypeInv'
  BY DEF DiskInv, TypeInv, EnsureBegins
<1>2. Named' = Named /\ Named \subseteq DOMAIN disk
  BY DEF Named
<1>3. QED
  BY <1>1, <1>2 DEF DiskInv, EnsureBegins, RemovalInv, WritingInv, OneProfile,
                    NamedIsWhole

\* A directory that was looked at is gone, or has no name.
LEMMA RemoveOldStep ==
    ASSUME DiskInv, NEW p \in DOMAIN disk, RemoveOld(p)
    PROVE  DiskInv'
<1>1. step = "remove" /\ step' = "remove" /\ listed' = listed \ {p}
      /\ UNCHANGED <<page, stuck, created>>
  BY DEF RemoveOld, LookedAt, counters
<1>2. CASE disk[p].named
  <2>1. disk' = [q \in DOMAIN disk \ {p} |-> disk[q]]
    BY <1>2 DEF RemoveOld, Removed
  <2>2. TypeInv'
    BY <1>1, <2>1 DEF DiskInv, TypeInv
  <2>3. Named' = Named \ {p}
    BY <2>1 DEF Named
  <2>4. QED
    BY <1>1, <2>1, <2>2, <2>3 DEF DiskInv, RemovalInv, WritingInv, OneProfile,
                                  NamedIsWhole, Named
<1>3. CASE ~disk[p].named
  <2>1. disk' = disk
    BY <1>3 DEF RemoveOld, Removed
  <2>2. p \notin Named /\ Named' = Named
    BY <1>3, <2>1 DEF Named
  <2>3. TypeInv'
    BY <1>1, <2>1 DEF DiskInv, TypeInv
  <2>4. QED
    BY <1>1, <2>1, <2>2, <2>3 DEF DiskInv, RemovalInv, WritingInv, OneProfile,
                                  NamedIsWhole
<1>4. QED
  BY <1>2, <1>3

\* A removal that fails, or is cut short, leaves a directory that is hurt.
LEMMA HurtStep ==
    ASSUME DiskInv, NEW p \in DOMAIN disk, NEW named \in BOOLEAN, NEW pages \in SUBSET Pages,
           named => disk[p].named,
           disk' = [disk EXCEPT ![p] = Half(disk[p], named, pages)],
           UNCHANGED <<page, created>>
    PROVE  /\ disk' \in [DOMAIN disk' -> Directory]
           /\ DOMAIN disk' = DOMAIN disk
           /\ Named' \subseteq Named
           /\ NamedIsWhole'
<1>1. disk \in [DOMAIN disk -> Directory]
  BY DEF DiskInv, TypeInv
<1>2. /\ DOMAIN disk' = DOMAIN disk
      /\ \A q \in DOMAIN disk : q # p => disk'[q] = disk[q]
  OBVIOUS
<1>3. disk'[p] = Half(disk[p], named, pages)
  OBVIOUS
<1>4. disk[p] \in Directory
  BY <1>1
<1>5. disk'[p] \in Directory /\ disk'[p].named = named /\ disk'[p].hurt
  BY <1>3, <1>4 DEF Directory, Half
<1>6. disk' \in [DOMAIN disk' -> Directory]
  BY <1>1, <1>2, <1>5
<1>7. Named' \subseteq Named
  BY <1>2, <1>5 DEF Named
<1>8. NamedIsWhole'
  BY <1>2, <1>5, <1>7 DEF NamedIsWhole, DiskInv, Named
<1>9. QED
  BY <1>2, <1>6, <1>7, <1>8

\* A removal that fails leaves a directory that is known to be stuck.
LEMMA RemoveFailsStep ==
    ASSUME DiskInv, NEW p \in DOMAIN disk, NEW pages \in SUBSET Pages, RemoveFails(p, pages)
    PROVE  DiskInv'
<1>1. /\ step = "remove" /\ step' = "remove" /\ listed' = listed \ {p}
      /\ stuck' = stuck \cup {p} /\ UNCHANGED <<page, created>>
  BY DEF RemoveFails, LookedAt
<1>2. disk[p] \in Directory /\ disk[p].named
  BY DEF RemoveFails, DiskInv, TypeInv
<1>3. disk' = [disk EXCEPT ![p] = Half(disk[p], TRUE, pages)]
  BY DEF RemoveFails
<1>4. /\ disk' \in [DOMAIN disk' -> Directory]
      /\ DOMAIN disk' = DOMAIN disk
      /\ Named' \subseteq Named
      /\ NamedIsWhole'
  BY <1>1, <1>2, <1>3, HurtStep
<1>5. TypeInv'
  BY <1>1, <1>4 DEF DiskInv, TypeInv
<1>6. QED
  BY <1>1, <1>4, <1>5 DEF DiskInv, RemovalInv, WritingInv, OneProfile

\* Nor does one that the end of the process cuts short lose track of it.
LEMMA CrashInRemoveStep ==
    ASSUME DiskInv, NEW p \in DOMAIN disk, NEW named \in BOOLEAN, NEW pages \in SUBSET Pages,
           CrashInRemove(p, named, pages)
    PROVE  DiskInv'
<1>1. step' = "down" /\ disk[p].named /\ UNCHANGED <<page, created>>
  BY DEF CrashInRemove
<1>2. /\ disk' \in [DOMAIN disk' -> Directory]
      /\ DOMAIN disk' = DOMAIN disk
      /\ NamedIsWhole'
  BY <1>1, HurtStep DEF CrashInRemove
<1>3. TypeInv'
  BY <1>1, <1>2 DEF DiskInv, TypeInv
<1>4. QED
  BY <1>1, <1>2, <1>3 DEF DiskInv, RemovalInv, WritingInv, OneProfile

\* The new directory is one that was not there.
LEMMA MakeDirStep == ASSUME DiskInv, MakeDir PROVE DiskInv'
<1>1. CASE step' = "reading" /\ UNCHANGED <<disk, page, created>>
  BY <1>1, DiskIdle
<1>2. ASSUME NEW first \in Pages,
             created' = created + 1, dir' = created', page' = 1, step' = "create",
             UNCHANGED stuck,
             disk' = [p \in DOMAIN disk \cup {dir'} |->
                        IF p = dir' THEN [named |-> FALSE, pages |-> {}, first |-> first,
                                          hurt |-> FALSE]
                        ELSE disk[p]]
      PROVE  DiskInv'
  <2>1. dir' \notin DOMAIN disk /\ created \in Nat
    BY <1>2 DEF DiskInv, TypeInv
  <2>2. DOMAIN disk' = DOMAIN disk \cup {dir'}
    BY <1>2
  <2>3. disk'[dir'] = [named |-> FALSE, pages |-> {}, first |-> first, hurt |-> FALSE]
    BY <1>2
  <2>4. \A p \in DOMAIN disk : disk'[p] = disk[p]
    BY <1>2, <2>1
  <2>5. Named' = Named
    BY <2>2, <2>3, <2>4 DEF Named
  <2>6. TypeInv'
    <3>1. disk'[dir'] \in Directory
      BY <2>3 DEF Directory
    <3>2. \A p \in DOMAIN disk' : disk'[p] \in Directory
      BY <2>2, <2>4, <3>1 DEF DiskInv, TypeInv
    <3>3. disk' \in [DOMAIN disk' -> Directory]
      BY <1>2, <3>2
    <3>4. DOMAIN disk' \subseteq 1 .. created' /\ created' \in Nat
      BY <1>2, <2>1, <2>2 DEF DiskInv, TypeInv
    <3>5. page' \in Nat \ {0} /\ step' = "create"
      BY <1>2
    <3>6. QED
      BY <3>3, <3>4, <3>5 DEF TypeInv
  <2>7. Named \subseteq stuck
    BY DEF MakeDir, DiskInv, RemovalInv
  <2>8. WritingInv'
    <3>1. \A n \in Pages : ~(n < 1)
      BY DEF Pages
    <3>2. QED
      BY <1>2, <2>2, <2>3, <3>1 DEF WritingInv
  <2>9. NamedIsWhole'
    BY <2>4, <2>5 DEF NamedIsWhole, DiskInv, Named
  <2>10. QED
    BY <1>2, <2>5, <2>6, <2>7, <2>8, <2>9 DEF DiskInv, RemovalInv, OneProfile
<1>3. QED
  BY <1>1, <1>2 DEF MakeDir

\* A page more, or a fault.
LEMMA WritePageStep == ASSUME DiskInv, WritePage PROVE DiskInv'
<1>1. /\ step = "create" /\ step' = "create" /\ page' = page + 1 /\ page <= NPages
      /\ UNCHANGED <<dir, stuck, created>>
  BY DEF WritePage
<1>2. /\ dir \in DOMAIN disk /\ ~disk[dir].named /\ disk[dir] \in Directory
      /\ page \in Pages
  BY <1>1, ProfileAssumption DEF DiskInv, TypeInv, WritingInv, Pages
<1>3. /\ disk'[dir] \in Directory /\ DOMAIN disk' = DOMAIN disk
      /\ ~disk'[dir].named
      /\ disk'[dir].hurt \/ disk'[dir].pages = disk[dir].pages \cup {page}
      /\ disk[dir].hurt => disk'[dir].hurt
      /\ \A p \in DOMAIN disk : p # dir => disk'[p] = disk[p]
      /\ disk' \in [DOMAIN disk -> Directory]
  <2>1. CASE disk' = [disk EXCEPT ![dir].pages = @ \cup {page}]
    <3>1. disk' = [disk EXCEPT ![dir] = [disk[dir] EXCEPT !.pages = @ \cup {page}]]
      BY <2>1
    <3>2. [disk[dir] EXCEPT !.pages = @ \cup {page}] \in Directory
      BY <1>2 DEF Directory
    <3>3. disk'[dir] = [disk[dir] EXCEPT !.pages = @ \cup {page}]
      BY <1>2, <3>1
    <3>4. QED
      BY <1>2, <3>1, <3>2, <3>3 DEF DiskInv, TypeInv, Directory
  <2>2. CASE disk' = [disk EXCEPT ![dir].hurt = TRUE]
    <3>1. disk' = [disk EXCEPT ![dir] = [disk[dir] EXCEPT !.hurt = TRUE]]
      BY <2>2
    <3>2. [disk[dir] EXCEPT !.hurt = TRUE] \in Directory
      BY <1>2 DEF Directory
    <3>3. disk'[dir] = [disk[dir] EXCEPT !.hurt = TRUE]
      BY <1>2, <3>1
    <3>4. QED
      BY <1>2, <3>1, <3>2, <3>3 DEF DiskInv, TypeInv, Directory
  <2>3. QED
    BY <2>1, <2>2 DEF WritePage
<1>4. Named' = Named
  BY <1>2, <1>3 DEF Named
<1>5. TypeInv'
  BY <1>1, <1>3 DEF DiskInv, TypeInv
<1>6. WritingInv'
  <2>1. ASSUME NEW n \in Pages, n < page'
        PROVE  disk'[dir].hurt \/ n \in disk'[dir].pages
    <3>1. CASE n < page
      <4>1. disk[dir].hurt \/ n \in disk[dir].pages
        BY <1>1, <3>1 DEF DiskInv, WritingInv
      <4>2. QED
        BY <1>1, <1>3, <4>1
    <3>2. CASE n = page
      BY <1>1, <1>3, <3>2
    <3>3. QED
      BY <1>1, <1>2, <2>1, <3>1, <3>2 DEF Pages
  <2>2. QED
    BY <1>1, <1>2, <1>3, <2>1 DEF WritingInv
<1>7. NamedIsWhole' /\ OneProfile' /\ RemovalInv'
  BY <1>1, <1>2, <1>3, <1>4 DEF DiskInv, NamedIsWhole, OneProfile, RemovalInv, Named
<1>8. QED
  BY <1>5, <1>6, <1>7 DEF DiskInv

\* The profile gets its name once all its pages are written, or had a fault.
LEMMA WriteManifestStep == ASSUME DiskInv, WriteManifest PROVE DiskInv'
<1>1. /\ step = "create" /\ step' \in {"activate", "seed"} /\ page > NPages
      /\ UNCHANGED <<dir, stuck, page, created>>
  BY DEF WriteManifest, PagesWritten, ensureVars
<1>2. dir \in DOMAIN disk /\ ~disk[dir].named /\ disk[dir] \in Directory
  BY <1>1 DEF DiskInv, TypeInv, WritingInv
<1>3. disk[dir].hurt \/ disk[dir].pages = Pages
  <2>1. \A n \in Pages : n < page
    BY <1>1, ProfileAssumption DEF DiskInv, TypeInv, Pages
  <2>2. QED
    BY <1>1, <1>2, <2>1 DEF DiskInv, WritingInv, Directory
<1>4. /\ disk'[dir] \in Directory /\ DOMAIN disk' = DOMAIN disk
      /\ disk'[dir].hurt \/ disk'[dir].pages = Pages
      /\ \A p \in DOMAIN disk : p # dir => disk'[p] = disk[p]
      /\ disk' \in [DOMAIN disk -> Directory]
  <2>1. CASE disk' = [disk EXCEPT ![dir].named = TRUE]
    <3>1. disk' = [disk EXCEPT ![dir] = [disk[dir] EXCEPT !.named = TRUE]]
      BY <2>1
    <3>2. [disk[dir] EXCEPT !.named = TRUE] \in Directory
      BY <1>2 DEF Directory
    <3>3. disk'[dir] = [disk[dir] EXCEPT !.named = TRUE]
      BY <1>2, <3>1
    <3>4. QED
      BY <1>2, <1>3, <3>1, <3>2, <3>3 DEF DiskInv, TypeInv, Directory
  <2>2. CASE disk' = [disk EXCEPT ![dir].hurt = TRUE]
    <3>1. disk' = [disk EXCEPT ![dir] = [disk[dir] EXCEPT !.hurt = TRUE]]
      BY <2>2
    <3>2. [disk[dir] EXCEPT !.hurt = TRUE] \in Directory
      BY <1>2 DEF Directory
    <3>3. disk'[dir] = [disk[dir] EXCEPT !.hurt = TRUE]
      BY <1>2, <3>1
    <3>4. QED
      BY <1>2, <1>3, <3>1, <3>2, <3>3 DEF DiskInv, TypeInv, Directory
  <2>3. QED
    BY <2>1, <2>2 DEF WriteManifest
<1>5. Named' \subseteq Named \cup {dir}
  BY <1>4 DEF Named
<1>6. TypeInv'
  BY <1>1, <1>4 DEF DiskInv, TypeInv
<1>7. NamedIsWhole'
  BY <1>4, <1>5 DEF DiskInv, NamedIsWhole, Named
<1>8. QED
  BY <1>1, <1>5, <1>6, <1>7 DEF DiskInv, OneProfile, RemovalInv, WritingInv

\* Every step.
LEMMA DiskStep == DiskInv /\ [ProfileNext]_profileVars => DiskInv'
<1> SUFFICES ASSUME DiskInv, [ProfileNext]_profileVars PROVE DiskInv'
  OBVIOUS
<1>1. CASE UNCHANGED profileVars
  BY <1>1, DiskIdle DEF profileVars, ensureVars, counters
<1>2. CASE Start \/ Reconnect
  BY <1>2, DiskBegins DEF Start, Reconnect, counters
<1>3. ASSUME NEW p \in DOMAIN disk, RemoveOld(p) PROVE DiskInv'
  BY <1>3, RemoveOldStep
<1>4. ASSUME NEW p \in DOMAIN disk, NEW pages \in SUBSET Pages, RemoveFails(p, pages)
      PROVE  DiskInv'
  BY <1>4, RemoveFailsStep
<1>5. ASSUME NEW p \in DOMAIN disk, NEW pages \in SUBSET Pages, NEW named \in BOOLEAN,
             CrashInRemove(p, named, pages)
      PROVE  DiskInv'
  BY <1>5, CrashInRemoveStep
<1>6. CASE MakeDir \/ WritePage \/ WriteManifest
  BY <1>6, MakeDirStep, WritePageStep, WriteManifestStep
<1>7. CASE ActivateProfile
  BY <1>7, DiskIdle DEF ActivateProfile, ensureVars
<1>8. CASE SeedKeyActions \/ ReadFails \/ Crash
  BY <1>8, DiskIdle DEF SeedKeyActions, ReadFails, Crash, ensureVars, counters
<1>9. ASSUME NEW k \in ActionKeys, HandleAdd(k) \/ HandleClear(k) PROVE DiskInv'
  BY <1>9, DiskIdle DEF HandleAdd, HandleClear, ensureVars, counters
<1>10. CASE AppStart \/ AppStop \/ LinkDrop
  BY <1>10, DiskIdle DEF AppStart, AppStop, LinkDrop, ensureVars, counters
<1>11. QED
  BY <1>1, <1>2, <1>3, <1>4, <1>5, <1>6, <1>7, <1>8, <1>9, <1>10
  DEF ProfileNext, Process, Ensure

\* The invariant in all behaviours.
LEMMA DiskAlways == ProfileSpec => []DiskInv
<1>1. ProfileInit => DiskInv
  BY DEF ProfileInit, DiskInv, TypeInv, RemovalInv, WritingInv, OneProfile, NamedIsWhole, Named
<1>2. QED
  BY <1>1, DiskStep, PTL DEF ProfileSpec

\* After the removal one profile has our name at most, besides those that just
\* could not be removed, whatever earlier processes left.
THEOREM OneProfileAtMost == ProfileSpec => []OneProfile
<1>1. DiskInv => OneProfile
  BY DEF DiskInv
<1>2. QED
  BY <1>1, DiskAlways, PTL

\* A profile with a name has all its pages, unless a write or a removal of it
\* went wrong, wherever the process ended.
THEOREM NamedHasItsPages == ProfileSpec => []NamedIsWhole
<1>1. DiskInv => NamedIsWhole
  BY DEF DiskInv
<1>2. QED
  BY <1>1, DiskAlways, PTL

=============================================================================
