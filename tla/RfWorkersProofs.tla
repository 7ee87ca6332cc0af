--------------------------- MODULE RfWorkersProofs ---------------------------
(***************************************************************************)
(* What the engine of a radio worker keeps from one link to the next does  *)
(* not show in its answers: for any links, data sets, tiles, buildings and *)
(* any size of the cache of open tiles.                                    *)
(***************************************************************************)
EXTENDS RfWorkers, SequenceTheorems, FiniteSetTheorems, WellFoundedInduction, TLAPS

Tiles == UNION {UNION {Range(TilesOf[ds][l]) : l \in Links} : ds \in DOMAIN Covers}

Parquets == UNION {Range(EndParquets[l]) : l \in Links}

\* What a dictionary and the buildings of a link are made from.
Readings == [link : Links, index : DOMAIN Covers, band : DOMAIN Covers \cup {None}]

Found == [link : Links, tiles : SUBSET Parquets]

Engines ==
  [link : Links \cup {None},
   selected : [Range(Kinds) -> DOMAIN Covers \cup {None}],
   band : DOMAIN Covers \cup {None},
   open : Seq(Tiles),
   terrain : [Range(Kinds) -> Readings \cup {None}],
   paged : SUBSET Parquets,
   buildings : Found \cup {None}]

\* A cache of open tiles, oldest first.
Cache(o) ==
  /\ o \in Seq(Tiles)
  /\ Len(o) <= MaxOpen
  /\ \A i, j \in 1..Len(o) : o[i] = o[j] => i = j

\* The second cache has seen what the first has, after more: it ends with it.
Tails(p, o) ==
  /\ Len(p) <= Len(o)
  /\ \A i \in 1..Len(p) : p[i] = o[(Len(o) - Len(p)) + i]

\* What a touch may do: append a new tile while there is room, ...
Appended(o, t, q) ==
  /\ t \notin Range(o) /\ Len(o) < MaxOpen
  /\ q \in Seq(Tiles) /\ Len(q) = Len(o) + 1
  /\ q[Len(o) + 1] = t
  /\ \A j \in 1..Len(o) : q[j] = o[j]

\* The cache without the tile at i, and with another at its end.
Rearranged(o, t, q, i) ==
  /\ q \in Seq(Tiles) /\ Len(q) = Len(o)
  /\ \A j \in 1..Len(o) : q[j] = IF j < i THEN o[j] ELSE IF j < Len(o) THEN o[j + 1] ELSE t

\* ... or take out the tile itself, or the oldest one, and append it then.
Moved(o, t, q, i) ==
  /\ i \in 1..Len(o)
  /\ \/ o[i] = t
     \/ i = 1 /\ t \notin Range(o) /\ Len(o) = MaxOpen
  /\ Rearranged(o, t, q, i)

-----------------------------------------------------------------------------
\* The cache of open tiles

\* A sequence without the element at i, with another at its end.
LEMMA RemoveAndAppend ==
  ASSUME NEW o \in Seq(Tiles), NEW t \in Tiles, NEW i \in 1..Len(o),
         NEW q, q = Append(RemoveAt(o, i), t)
  PROVE  Rearranged(o, t, q, i)
<1> DEFINE n == Len(o)
           a == SubSeq(o, 1, i - 1)
           b == SubSeq(o, i + 1, n)
           c == a \o b
<1>0. n \in Nat /\ i \in Nat /\ 1 <= i /\ i <= n
  BY LenProperties
<1>1. \A j \in 1..n : o[j] \in Tiles
  BY ElementOfSeq
<1>2. a \in Seq(Tiles) /\ Len(a) = i - 1 /\ \A j \in 1..(i - 1) : a[j] = o[j]
  <2>1. \A j \in 1..(i - 1) : o[j] \in Tiles
    BY <1>0, <1>1
  <2>2. /\ a \in Seq(Tiles) /\ Len(a) = IF 1 <= i - 1 THEN (i - 1) - 1 + 1 ELSE 0
        /\ \A j \in 1..((i - 1) - 1 + 1) : a[j] = o[1 + j - 1]
    BY <1>0, <2>1, SubSeqProperties
  <2> HIDE DEF a, n
  <2> QED
    BY <1>0, <2>2
<1>3. b \in Seq(Tiles) /\ Len(b) = n - i /\ \A j \in 1..(n - i) : b[j] = o[i + j]
  <2>1. \A j \in (i + 1)..n : o[j] \in Tiles
    BY <1>0, <1>1
  <2>2. /\ b \in Seq(Tiles) /\ Len(b) = IF i + 1 <= n THEN n - (i + 1) + 1 ELSE 0
        /\ \A j \in 1..(n - (i + 1) + 1) : b[j] = o[(i + 1) + j - 1]
    BY <1>0, <2>1, SubSeqProperties
  <2> HIDE DEF b, n
  <2>3. n - (i + 1) + 1 = n - i
    BY <1>0
  <2>4. Len(b) = n - i
    BY <1>0, <2>2
  <2>5. ASSUME NEW j \in 1..(n - i) PROVE b[j] = o[i + j]
    <3>1. (i + 1) + j - 1 = i + j
      BY <1>0
    <3> QED
      BY <2>2, <2>3, <3>1
  <2> QED
    BY <2>2, <2>4, <2>5
<1> HIDE DEF a, b
<1>4. c \in Seq(Tiles) /\ Len(c) = n - 1
  <2>1. c \in Seq(Tiles) /\ Len(c) = Len(a) + Len(b)
    BY <1>2, <1>3, ConcatProperties
  <2>2. (i - 1) + (n - i) = n - 1
    BY <1>0
  <2> QED
    BY <1>2, <1>3, <2>1, <2>2
<1>5. ASSUME NEW j \in 1..(n - 1) PROVE c[j] = IF j < i THEN o[j] ELSE o[j + 1]
  <2>1. \A k \in 1..(Len(a) + Len(b)) : c[k] = IF k <= Len(a) THEN a[k] ELSE b[k - Len(a)]
    BY <1>2, <1>3, ConcatProperties
  <2> HIDE DEF c, n
  <2>2. c[j] = IF j <= i - 1 THEN a[j] ELSE b[j - (i - 1)]
    <3>1. Len(a) + Len(b) = n - 1
      BY <1>0, <1>2, <1>3
    <3> QED
      BY <1>2, <2>1, <3>1
  <2>3. CASE j < i
    <3>1. j \in 1..(i - 1)
      BY <1>0, <2>3
    <3>2. j <= i - 1
      BY <1>0, <2>3
    <3> QED
      BY <1>2, <2>2, <2>3, <3>1, <3>2
  <2>4. CASE ~(j < i)
    <3>1. ~(j <= i - 1)
      BY <1>0, <2>4
    <3>2. j - (i - 1) \in 1..(n - i)
      BY <1>0, <2>4
    <3>3. i + (j - (i - 1)) = j + 1
      BY <1>0
    <3>4. b[j - (i - 1)] = o[j + 1]
      BY <1>3, <3>2, <3>3
    <3> QED
      BY <2>2, <2>4, <3>1, <3>4
  <2> QED
    BY <2>3, <2>4
<1> HIDE DEF c
<1>6. q = Append(c, t)
  BY DEF RemoveAt, a, b, c
<1>7. /\ q \in Seq(Tiles) /\ Len(q) = Len(c) + 1 /\ \A j \in 1..Len(c) : q[j] = c[j]
      /\ q[Len(c) + 1] = t
  BY <1>4, <1>6, AppendProperties
<1> HIDE DEF n
<1>8. (n - 1) + 1 = n
  BY <1>0
<1>9. Len(q) = n /\ q[n] = t /\ \A j \in 1..(n - 1) : q[j] = c[j]
  BY <1>4, <1>7, <1>8
<1>10. ASSUME NEW j \in 1..n
       PROVE  q[j] = IF j < i THEN o[j] ELSE IF j < n THEN o[j + 1] ELSE t
  <2>1. CASE j = n
    <3>1. ~(n < i) /\ ~(n < n)
      BY <1>0
    <3> QED
      BY <1>9, <2>1, <3>1
  <2>2. CASE j # n
    <3>1. j \in 1..(n - 1) /\ j < n
      BY <1>0, <2>2
    <3> QED
      BY <1>5, <1>9, <3>1
  <2> QED
    BY <2>1, <2>2
<1> QED
  BY <1>7, <1>9, <1>10 DEF n, Rearranged

\* What Cache says of the numbers.
LEMMA CacheSizes ==
  ASSUME NEW o, Cache(o)
  PROVE  /\ Len(o) \in Nat /\ MaxOpen \in Nat /\ 0 < MaxOpen /\ Len(o) <= MaxOpen
         /\ o \in Seq(Tiles) /\ DOMAIN o = 1..Len(o)
         /\ \A i, j \in 1..Len(o) : o[i] = o[j] => i = j
<1>1. MaxOpen \in Nat /\ 0 < MaxOpen
  BY EngineAssumption
<1> QED
  BY <1>1, LenProperties DEF Cache

\* A touch does one of the two.
LEMMA TouchIs ==
  ASSUME NEW o, Cache(o), NEW t \in Tiles, NEW q, q = Touch(o, t)
  PROVE  Appended(o, t, q) \/ \E i \in 1..Len(o) : Moved(o, t, q, i)
<1>1. Len(o) \in Nat /\ MaxOpen \in Nat /\ 0 < MaxOpen /\ Len(o) <= MaxOpen
  BY CacheSizes
<1>2. o \in Seq(Tiles) /\ DOMAIN o = 1..Len(o)
  BY CacheSizes
<1>2a. \A i \in 1..Len(o) : Rearranged(o, t, Append(RemoveAt(o, i), t), i)
  BY <1>2, RemoveAndAppend
<1>3. CASE t \in Range(o)
  <2>1. PICK i \in 1..Len(o) : o[i] = t /\ q = Append(RemoveAt(o, i), t)
    <3> DEFINE m == CHOOSE i \in DOMAIN o : o[i] = t
    <3>1. m \in 1..Len(o) /\ o[m] = t
      BY <1>2, <1>3 DEF Range
    <3>2. q = Append(RemoveAt(o, m), t)
      BY <1>3 DEF Touch
    <3> QED
      BY <3>1, <3>2
  <2>2. Rearranged(o, t, q, i)
    BY <2>1, <1>2a
  <2>4. Moved(o, t, q, i)
    BY <2>1, <2>2 DEF Moved
  <2> QED
    BY <2>1, <2>4
<1>4. CASE t \notin Range(o) /\ Len(o) < MaxOpen
  <2>1. ~(Len(o) >= MaxOpen)
    BY <1>1, <1>4
  <2>2. q = Append(o, t)
    BY <1>4, <2>1 DEF Touch
  <2> QED
    BY <1>2, <1>4, <2>2, AppendProperties DEF Appended
<1>5. CASE t \notin Range(o) /\ Len(o) = MaxOpen
  <2>1. Len(o) >= MaxOpen /\ 1 \in 1..Len(o)
    BY <1>1, <1>5
  <2>2. o # <<>>
    BY <1>2, <2>1
  <2>3. q = Append(Tail(o), t)
    BY <1>5, <2>1 DEF Touch
  <2>4. Tail(o) = RemoveAt(o, 1)
    <3>1. Tail(o) = SubSeq(o, 2, Len(o)) /\ Tail(o) \in Seq(Tiles)
      BY <1>2, <2>2, TailIsSubSeq, HeadTailProperties
    <3>2. SubSeq(o, 1, 1 - 1) = <<>>
      BY <1>2, SubSeqEmpty
    <3>3. RemoveAt(o, 1) = SubSeq(o, 1, 1 - 1) \o SubSeq(o, 1 + 1, Len(o))
      BY DEF RemoveAt
    <3>4. RemoveAt(o, 1) = <<>> \o Tail(o)
      BY <3>1, <3>2, <3>3
    <3> QED
      BY <3>1, <3>4, ConcatEmptySeq
  <2>5. q = Append(RemoveAt(o, 1), t)
    BY <2>3, <2>4
  <2>6. Rearranged(o, t, q, 1)
    BY <2>1, <2>5, <1>2a
  <2>7. Moved(o, t, q, 1)
    BY <1>5, <2>1, <2>6 DEF Moved
  <2> QED
    BY <2>1, <2>7
<1>6. Len(o) < MaxOpen \/ Len(o) = MaxOpen
  BY <1>1
<1> QED
  BY <1>3, <1>4, <1>5, <1>6

\* What it leaves is a cache again, with the tile in it.
LEMMA TouchKeepsCache ==
  ASSUME NEW o, Cache(o), NEW t \in Tiles
  PROVE  Cache(Touch(o, t)) /\ t \in Range(Touch(o, t))
<1> DEFINE q == Touch(o, t)
<1>1. Len(o) \in Nat /\ DOMAIN o = 1..Len(o) /\ MaxOpen \in Nat /\ Len(o) <= MaxOpen
      /\ \A i, j \in 1..Len(o) : o[i] = o[j] => i = j
  BY EngineAssumption, LenProperties DEF Cache
<1>2. q \in Seq(Tiles) => DOMAIN q = 1..Len(q)
  BY LenProperties
<1>3. Appended(o, t, q) \/ \E i \in 1..Len(o) : Moved(o, t, q, i)
  BY TouchIs
<1> HIDE DEF q
<1>4. CASE Appended(o, t, q)
  <2>1. \A i \in 1..Len(o) : q[i] = o[i] /\ o[i] # t
    BY <1>1, <1>4 DEF Appended, Range
  <2>2. q \in Seq(Tiles) /\ Len(q) = Len(o) + 1 /\ q[Len(o) + 1] = t /\ Len(o) < MaxOpen
    BY <1>4 DEF Appended
  <2>3. \A i, j \in 1..Len(q) : q[i] = q[j] => i = j
    BY <1>1, <2>1, <2>2
  <2>4. Cache(q)
    BY <1>1, <2>2, <2>3 DEF Cache
  <2>5. Len(o) + 1 \in DOMAIN q
    BY <1>1, <1>2, <2>2
  <2> QED
    BY <2>2, <2>4, <2>5 DEF Range, q
<1>5. ASSUME NEW i \in 1..Len(o), Moved(o, t, q, i) PROVE Cache(q) /\ t \in Range(q)
  <2>1. \A j \in 1..Len(o) : o[j] = t => j = i
    BY <1>1, <1>5 DEF Moved, Range
  <2>2. q \in Seq(Tiles) /\ Len(q) = Len(o)
        /\ \A j \in 1..Len(o) : q[j] = IF j < i THEN o[j] ELSE IF j < Len(o) THEN o[j + 1] ELSE t
    BY <1>5 DEF Moved, Rearranged
  <2>3. \A j, m \in 1..Len(o) : q[j] = q[m] => j = m
    BY <1>1, <2>1, <2>2
  <2>4. q[Len(o)] = t /\ Len(o) \in DOMAIN q
    BY <1>1, <1>2, <2>2
  <2> QED
    BY <1>1, <2>2, <2>3, <2>4 DEF Cache, Range
<1> QED
  BY <1>3, <1>4, <1>5 DEF q

\* Two caches of which one ends with the other stay so; a tile of both is afterwards
\* in both or in neither, or only in the one that ends with the other.
LEMMA TouchKeepsTails ==
  ASSUME NEW o, Cache(o), NEW p, Cache(p), Tails(p, o), NEW t \in Tiles
  PROVE  /\ Tails(Touch(p, t), Touch(o, t))
         /\ \A u \in Range(Touch(o, t)) : u = t \/ u \in Range(o)
         /\ \A u \in Range(p) : u \in Range(Touch(o, t)) => u \in Range(Touch(p, t))
<1> DEFINE q == Touch(o, t)
           r == Touch(p, t)
<1>1. /\ Len(o) \in Nat /\ DOMAIN o = 1..Len(o) /\ Len(o) <= MaxOpen
      /\ Len(p) \in Nat /\ DOMAIN p = 1..Len(p) /\ Len(p) <= MaxOpen
      /\ MaxOpen \in Nat \ {0}
      /\ \A i, j \in 1..Len(o) : o[i] = o[j] => i = j
      /\ Len(p) <= Len(o) /\ \A i \in 1..Len(p) : p[i] = o[(Len(o) - Len(p)) + i]
  BY EngineAssumption, LenProperties DEF Cache, Tails
<1>2. Appended(o, t, q) \/ \E i \in 1..Len(o) : Moved(o, t, q, i)
  BY TouchIs
<1>3. Appended(p, t, r) \/ \E i \in 1..Len(p) : Moved(p, t, r, i)
  BY TouchIs
<1>4. DOMAIN q = 1..Len(q) /\ DOMAIN r = 1..Len(r)
  BY TouchKeepsCache, LenProperties DEF Cache
<1> HIDE DEF q, r
<1>5. \A i \in 1..Len(p) : (Len(o) - Len(p)) + i \in 1..Len(o)
  BY <1>1
<1>6. t \notin Range(o) => t \notin Range(p)
  BY <1>1, <1>5 DEF Range
<1> DEFINE d == Len(o) - Len(p)
<1>7. d \in Nat /\ d + Len(p) = Len(o) /\ \A j \in 1..Len(p) : p[j] = o[d + j]
  BY <1>1
<1> HIDE DEF d
<1>8. ASSUME Appended(o, t, q)
      PROVE  Appended(p, t, r) /\ Tails(r, q)
  <2>1. \A j \in 1..Len(p) : p[j] # t
    BY <1>1, <1>6, <1>8 DEF Appended, Range
  <2>2. Appended(p, t, r)
    <3>1. Len(p) # MaxOpen
      <4>1. Len(o) < MaxOpen
        BY <1>8 DEF Appended
      <4>2. Len(o) \in Nat /\ Len(p) \in Nat /\ MaxOpen \in Nat /\ Len(p) <= Len(o)
        BY <1>1
      <4> QED
        BY <4>1, <4>2
    <3>2. \A i \in 1..Len(p) : ~Moved(p, t, r, i)
      BY <2>1, <3>1 DEF Moved
    <3> QED
      BY <1>3, <3>2
  <2>3. /\ Len(q) = Len(o) + 1 /\ q[Len(o) + 1] = t /\ \A j \in 1..Len(o) : q[j] = o[j]
        /\ Len(r) = Len(p) + 1 /\ r[Len(p) + 1] = t /\ \A j \in 1..Len(p) : r[j] = p[j]
    BY <1>8, <2>2 DEF Appended
  <2>4. Len(q) - Len(r) = d /\ Len(r) <= Len(q)
    BY <1>1, <1>7, <2>3
  <2>5. ASSUME NEW j \in 1..Len(r) PROVE r[j] = q[d + j]
    <3>1. CASE j = Len(p) + 1
      <4>1. d + j = Len(o) + 1
        BY <1>1, <1>7, <3>1
      <4> QED
        BY <2>3, <3>1, <4>1
    <3>2. CASE j # Len(p) + 1
      <4>1. j \in 1..Len(p) /\ d + j \in 1..Len(o)
        BY <1>1, <1>7, <2>3, <3>2
      <4> QED
        BY <1>7, <2>3, <4>1
    <3> QED
      BY <3>1, <3>2
  <2> QED
    BY <2>2, <2>4, <2>5 DEF Tails
<1>9. ASSUME NEW i \in 1..Len(o), Moved(o, t, q, i), Appended(p, t, r) PROVE Tails(r, q)
  <2>1. \A j \in 1..Len(p) : p[j] # t
    BY <1>1, <1>9 DEF Appended, Range
  <2>2. /\ o[i] = t \/ (i = 1 /\ Len(o) = MaxOpen)
        /\ Len(q) = Len(o)
        /\ \A j \in 1..Len(o) : q[j] = IF j < i THEN o[j] ELSE IF j < Len(o) THEN o[j + 1] ELSE t
    BY <1>9 DEF Moved, Rearranged
  <2>2a. /\ Len(p) < MaxOpen
         /\ Len(r) = Len(p) + 1 /\ r[Len(p) + 1] = t /\ \A j \in 1..Len(p) : r[j] = p[j]
    BY <1>9 DEF Appended
  <2>3. i <= d
    <3>1. CASE o[i] = t
      <4> SUFFICES ASSUME i > d PROVE FALSE
        BY <1>7
      <4>1. i - d \in 1..Len(p) /\ d + (i - d) = i
        BY <1>1, <1>7
      <4> QED
        BY <1>7, <2>1, <3>1, <4>1
    <3>2. CASE i = 1 /\ Len(o) = MaxOpen
      BY <1>1, <1>7, <2>2, <2>2a, <3>2
    <3> QED
      BY <2>2, <3>1, <3>2
  <2>4. Len(q) - Len(r) = d - 1 /\ Len(r) <= Len(q) /\ d - 1 \in Nat
    <3>1. Len(q) = Len(o) /\ Len(r) = Len(p) + 1
      BY <2>2, <2>2a
    <3>2. d \in Nat /\ Len(o) \in Nat /\ Len(p) \in Nat /\ d + Len(p) = Len(o)
      BY <1>1, <1>7
    <3>3. i \in Nat /\ 1 <= i
      BY <3>2
    <3>4. 1 <= d
      BY <2>3, <3>2, <3>3
    <3> QED
      BY <3>1, <3>2, <3>4
  <2>5. ASSUME NEW j \in 1..Len(r) PROVE r[j] = q[(d - 1) + j]
    <3>1. CASE j = Len(p) + 1
      <4>1. (d - 1) + j = Len(o) /\ Len(o) \in 1..Len(o) /\ ~(Len(o) < i) /\ ~(Len(o) < Len(o))
        BY <1>1, <1>7, <2>3, <3>1
      <4> QED
        BY <2>2, <2>2a, <3>1, <4>1
    <3>2. CASE j # Len(p) + 1
      <4>1. /\ j \in 1..Len(p)
            /\ (d - 1) + j \in 1..Len(o) /\ ~((d - 1) + j < i) /\ (d - 1) + j < Len(o)
            /\ ((d - 1) + j) + 1 = d + j
        BY <1>1, <1>7, <2>2a, <2>3, <3>2
      <4> QED
        BY <1>7, <2>2, <2>2a, <4>1
    <3> QED
      BY <3>1, <3>2
  <2> QED
    BY <2>4, <2>5 DEF Tails
<1>10. ASSUME NEW i \in 1..Len(o), Moved(o, t, q, i), NEW m \in 1..Len(p), Moved(p, t, r, m)
       PROVE  Tails(r, q) /\ (p[m] = t \/ Len(p) = Len(o))
  <2>1. /\ o[i] = t \/ (i = 1 /\ t \notin Range(o) /\ Len(o) = MaxOpen)
        /\ p[m] = t \/ (m = 1 /\ t \notin Range(p) /\ Len(p) = MaxOpen)
        /\ Len(q) = Len(o)
        /\ \A j \in 1..Len(o) : q[j] = IF j < i THEN o[j] ELSE IF j < Len(o) THEN o[j + 1] ELSE t
        /\ Len(r) = Len(p)
        /\ \A j \in 1..Len(p) : r[j] = IF j < m THEN p[j] ELSE IF j < Len(p) THEN p[j + 1] ELSE t
    BY <1>10 DEF Moved, Rearranged
  <2>2. d + m \in 1..Len(o) /\ o[d + m] = p[m]
    BY <1>1, <1>7
  <2>3. i = d + m /\ (p[m] = t \/ Len(p) = Len(o))
    <3>1. CASE p[m] = t
      <4>1. o[i] = t
        BY <1>1, <2>1, <2>2, <3>1 DEF Range
      <4> QED
        BY <1>1, <2>2, <3>1, <4>1
    <3>2. CASE m = 1 /\ t \notin Range(p) /\ Len(p) = MaxOpen
      <4>1. Len(p) = Len(o) /\ d = 0
        <5>1. /\ Len(o) \in Nat /\ Len(p) \in Nat /\ MaxOpen \in Nat
              /\ Len(p) <= Len(o) /\ Len(o) <= MaxOpen /\ Len(p) = MaxOpen
          BY <1>1, <3>2
        <5> QED
          BY <5>1 DEF d
      <4>2. o[i] # t
        <5>1. i \in 1..Len(p) /\ p[i] = o[d + i] /\ d + i = i
          BY <1>1, <1>7, <4>1
        <5> QED
          BY <1>1, <3>2, <5>1 DEF Range
      <4> QED
        BY <2>1, <3>2, <4>1, <4>2
    <3> QED
      BY <2>1, <3>1, <3>2
  <2>4. Len(q) - Len(r) = d /\ Len(r) <= Len(q)
    BY <1>1, <2>1 DEF d
  <2>5. ASSUME NEW j \in 1..Len(r) PROVE r[j] = q[d + j]
    <3>0. j \in 1..Len(p) /\ d \in Nat /\ d + Len(p) = Len(o) /\ Len(p) \in Nat /\ i = d + m
      BY <1>1, <1>7, <2>1, <2>3
    <3>1. /\ d + j \in 1..Len(o)
          /\ j < m <=> d + j < i
          /\ j < Len(p) <=> d + j < Len(o)
          /\ (d + j) + 1 = d + (j + 1)
      BY <3>0
    <3>2. j < Len(p) => j + 1 \in 1..Len(p)
      BY <3>0
    <3>3. q[d + j] = IF j < m THEN o[d + j] ELSE IF j < Len(p) THEN o[(d + j) + 1] ELSE t
      BY <2>1, <3>1
    <3>4. r[j] = IF j < m THEN p[j] ELSE IF j < Len(p) THEN p[j + 1] ELSE t
      BY <2>1, <3>0
    <3>5. p[j] = o[d + j]
      BY <1>7, <3>0
    <3>6. j < Len(p) => p[j + 1] = o[(d + j) + 1]
      BY <1>7, <3>1, <3>2
    <3> QED
      BY <3>3, <3>4, <3>5, <3>6
  <2> QED
    BY <2>3, <2>4, <2>5 DEF Tails
<1>11. Tails(r, q)
  BY <1>2, <1>3, <1>8, <1>9, <1>10
<1>12. ASSUME NEW u \in Range(q) PROVE u = t \/ u \in Range(o)
  <2>1. PICK x \in 1..Len(q) : q[x] = u
    BY <1>4 DEF Range
  <2>2. CASE Appended(o, t, q)
    BY <1>1, <2>1, <2>2 DEF Appended, Range
  <2>3. ASSUME NEW i \in 1..Len(o), Moved(o, t, q, i) PROVE u = t \/ u \in Range(o)
    <3>1. /\ x \in 1..Len(o)
          /\ u = IF x < i THEN o[x] ELSE IF x < Len(o) THEN o[x + 1] ELSE t
      BY <2>1, <2>3 DEF Moved, Rearranged
    <3>2. x < Len(o) => x + 1 \in 1..Len(o)
      BY <1>1, <3>1
    <3> QED
      BY <1>1, <3>1, <3>2 DEF Range
  <2> QED
    BY <1>2, <2>2, <2>3
<1>13. ASSUME NEW u \in Range(p), u \in Range(q) PROVE u \in Range(r)
  <2>1. PICK x \in 1..Len(p) : p[x] = u
    BY <1>1 DEF Range
  <2>2. CASE Appended(p, t, r)
    <3>1. x \in 1..Len(r) /\ r[x] = u
      BY <1>1, <2>1, <2>2 DEF Appended
    <3> QED
      BY <1>4, <3>1 DEF Range
  <2>3. ASSUME NEW m \in 1..Len(p), Moved(p, t, r, m) PROVE u \in Range(r)
    <3>1. /\ Len(r) = Len(p)
          /\ \A j \in 1..Len(p) : r[j] = IF j < m THEN p[j] ELSE IF j < Len(p) THEN p[j + 1] ELSE t
      BY <2>3 DEF Moved, Rearranged
    <3>2. CASE p[m] = t
      <4>1. CASE x < m
        BY <1>4, <2>1, <3>1, <4>1 DEF Range
      <4>2. CASE x = m
        <5>1. Len(p) \in 1..Len(p) /\ ~(Len(p) < m) /\ ~(Len(p) < Len(p))
          BY <1>1
        <5>2. r[Len(p)] = t
          BY <3>1, <5>1
        <5> QED
          BY <1>4, <2>1, <3>1, <3>2, <4>2, <5>1, <5>2 DEF Range
      <4>3. CASE x > m
        <5>1. x - 1 \in 1..Len(p) /\ ~(x - 1 < m) /\ x - 1 < Len(p) /\ (x - 1) + 1 = x
          BY <1>1, <4>3
        <5>2. r[x - 1] = p[x]
          BY <3>1, <5>1
        <5> QED
          BY <1>4, <2>1, <3>1, <5>1, <5>2 DEF Range
      <4> QED
        BY <1>1, <4>1, <4>2, <4>3
    <3>3. CASE p[m] # t
      <4>1. Len(p) = Len(o) /\ Len(r) = Len(q)
        <5>1. ~Appended(o, t, q)
          <6>1. ~Appended(p, t, r)
            <7>1. Len(r) = Len(p) + 1 /\ Len(r) = Len(p) => FALSE
              BY <1>1
            <7> QED
              BY <3>1, <7>1 DEF Appended
          <6> QED
            BY <1>8, <6>1
        <5>2. PICK i \in 1..Len(o) : Moved(o, t, q, i)
          BY <1>2, <5>1
        <5> QED
          BY <1>10, <2>3, <3>1, <3>3, <5>2 DEF Moved, Rearranged
      <4>2. \A j \in 1..Len(r) : r[j] = q[(Len(q) - Len(r)) + j]
        BY <1>11 DEF Tails
      <4>3. Len(r) \in Nat /\ Len(q) - Len(r) = 0 /\ \A j \in 1..Len(r) : 0 + j = j
        BY <1>1, <3>1, <4>1
      <4>4. \A j \in 1..Len(q) : r[j] = q[j]
        BY <4>1, <4>2, <4>3
      <4> QED
        BY <1>4, <1>13, <4>1, <4>4 DEF Range
    <3> QED
      BY <3>2, <3>3
  <2> QED
    BY <1>3, <2>2, <2>3
<1> QED
  BY <1>11, <1>12, <1>13 DEF q, r

-----------------------------------------------------------------------------
\* Lists of tiles

\* A non-empty set of naturals has a least element.
LEMMA LeastNat ==
  ASSUME NEW T \in SUBSET Nat, T # {}
  PROVE  \E x \in T : \A y \in T : x <= y
<1>1. \E x \in T : \A y \in T : ~(<<y, x>> \in OpToRel(<, Nat))
  BY NatLessThanWellFounded, WFMin
<1>2. PICK x \in T : \A y \in T : ~(<<y, x>> \in OpToRel(<, Nat))
  BY <1>1
<1>3. ASSUME NEW y \in T PROVE x <= y
  <2>1. x \in Nat /\ y \in Nat
    BY <1>2
  <2>2. ~(y < x)
    BY <1>2, <2>1 DEF OpToRel
  <2> QED
    BY <2>1, <2>2
<1> QED
  BY <1>3

\* So a set of naturals from 0 to N that goes on to the next number is all of them.
LEMMA UpTo ==
  ASSUME NEW N \in Nat, NEW T, 0 \in T, \A k \in 0..N : k \in T /\ k < N => k + 1 \in T
  PROVE  0..N \subseteq T
<1> SUFFICES ASSUME (0..N) \ T # {} PROVE FALSE
  OBVIOUS
<1>1. PICK x \in (0..N) \ T : \A y \in (0..N) \ T : x <= y
  <2>1. (0..N) \ T \in SUBSET Nat
    OBVIOUS
  <2> QED
    BY <2>1, LeastNat
<1>2. x # 0 /\ x - 1 \in 0..N /\ x - 1 < N
  BY <1>1
<1>3. x - 1 \in T
  BY <1>1, <1>2
<1>4. (x - 1) + 1 = x
  BY <1>1
<1> QED
  BY <1>1, <1>2, <1>3, <1>4

\* The caches after each tile of a list are those the recursion names: for every
\* prefix there is a function that satisfies it, one tile longer each time.
LEMMA TouchAllDef ==
  ASSUME NEW open, NEW tiles, Len(tiles) \in Nat
  PROVE  \E after :
           /\ after[0] = open
           /\ \A n \in 1..Len(tiles) : after[n] = Touch(after[n - 1], tiles[n])
           /\ TouchAll(open, tiles) = after[Len(tiles)]
<1> DEFINE N == Len(tiles)
           solves(f, n) == f = [k \in 0..n |-> IF k = 0 THEN open ELSE Touch(f[k - 1], tiles[k])]
           T == {n \in 0..N : \E f : solves(f, n)}
           after == CHOOSE f : f = [n \in 0..N |-> IF n = 0 THEN open ELSE Touch(f[n - 1], tiles[n])]
<1>1. 0 \in T
  <2> DEFINE f == [k \in 0..0 |-> open]
  <2>1. f = [k \in 0..0 |-> IF k = 0 THEN open ELSE Touch(f[k - 1], tiles[k])]
    <3> SUFFICES \A k \in 0..0 : k = 0
      OBVIOUS
    <3> QED
      OBVIOUS
  <2>2. solves(f, 0)
    BY <2>1
  <2> HIDE DEF f, solves
  <2> QED
    BY <2>2
<1>2. ASSUME NEW n \in 0..N, n \in T, n < N
      PROVE  n + 1 \in T
  <2> PICK f : solves(f, n)
    BY <1>2
  <2> DEFINE g == [k \in 0..(n + 1) |-> IF k = n + 1 THEN Touch(f[n], tiles[n + 1]) ELSE f[k]]
  <2>1. ASSUME NEW k \in 0..(n + 1)
        PROVE  g[k] = IF k = 0 THEN open ELSE Touch(g[k - 1], tiles[k])
    <3>1. CASE k = n + 1
      <4>1. k # 0 /\ k - 1 = n /\ n \in 0..(n + 1) /\ n # n + 1
        BY <3>1
      <4>2. g[k - 1] = f[n]
        BY <4>1
      <4> QED
        BY <3>1, <4>1, <4>2
    <3>2. CASE k # n + 1
      <4>1. k \in 0..n /\ g[k] = f[k]
        BY <3>2
      <4>2. CASE k = 0
        BY <4>1, <4>2
      <4>3. CASE k # 0
        <5>1. k - 1 \in 0..(n + 1) /\ k - 1 # n + 1
          BY <4>1, <4>3
        <5>2. g[k - 1] = f[k - 1]
          BY <5>1
        <5>3. f[k] = Touch(f[k - 1], tiles[k])
          BY <4>1, <4>3
        <5> QED
          BY <4>1, <4>3, <5>2, <5>3
      <4> QED
        BY <4>2, <4>3
    <3> QED
      BY <3>1, <3>2
  <2>2. solves(g, n + 1)
    <3>1. DOMAIN g = 0..(n + 1) /\ g = [k \in 0..(n + 1) |-> g[k]]
      OBVIOUS
    <3> HIDE DEF g
    <3> QED
      BY <2>1, <3>1
  <2>3. n + 1 \in 0..N
    BY <1>2
  <2> HIDE DEF g, solves
  <2> QED
    BY <2>2, <2>3
<1>3. N \in T
  <2> HIDE DEF T
  <2>1. 0..N \subseteq T
    BY <1>1, <1>2, UpTo
  <2> QED
    BY <2>1
<1>4. \E f : f = [k \in 0..N |-> IF k = 0 THEN open ELSE Touch(f[k - 1], tiles[k])]
  BY <1>3
<1>5. after = [k \in 0..N |-> IF k = 0 THEN open ELSE Touch(after[k - 1], tiles[k])]
  BY <1>4, Zenon
<1>6. TouchAll(open, tiles) = after[N]
  BY DEF TouchAll
<1> HIDE DEF after
<1>7. after[0] = open
  BY <1>5
<1>8. ASSUME NEW n \in 1..N PROVE after[n] = Touch(after[n - 1], tiles[n])
  <2>1. n \in 0..N /\ n # 0
    OBVIOUS
  <2> QED
    BY <1>5, <2>1
<1> QED
  BY <1>6, <1>7, <1>8

\* A list of tiles leaves a cache.
LEMMA TouchAllKeepsCache ==
  ASSUME NEW o, Cache(o), NEW tiles \in Seq(Tiles)
  PROVE  Cache(TouchAll(o, tiles))
<1> DEFINE N == Len(tiles)
<1>1. N \in Nat /\ \A n \in 1..N : tiles[n] \in Tiles
  BY LenProperties, ElementOfSeq
<1>2. PICK a : /\ a[0] = o
               /\ \A n \in 1..N : a[n] = Touch(a[n - 1], tiles[n])
               /\ TouchAll(o, tiles) = a[N]
  BY <1>1, TouchAllDef
<1> HIDE DEF N
<1> DEFINE T == {n \in 0..N : Cache(a[n])}
<1>3. 0 \in T
  BY <1>1, <1>2
<1>4. ASSUME NEW n \in 0..N, n \in T, n < N
      PROVE  n + 1 \in T
  <2>1. n + 1 \in 1..N /\ n + 1 \in 0..N /\ (n + 1) - 1 = n
    BY <1>1, <1>4
  <2>2. a[n + 1] = Touch(a[n], tiles[n + 1]) /\ tiles[n + 1] \in Tiles
    BY <1>1, <1>2, <2>1
  <2>3. Cache(a[n + 1])
    BY <1>4, <2>2, TouchKeepsCache
  <2> QED
    BY <2>1, <2>3
<1> HIDE DEF T
<1>5. 0..N \subseteq T
  BY <1>1, <1>3, <1>4, UpTo
<1>6. N \in T
  BY <1>1, <1>5
<1> QED
  BY <1>2, <1>6 DEF T

\* The tiles of a list that are open at its end in the fuller cache are open in the
\* other one too.
LEMMA TouchAllsAlike ==
  ASSUME NEW o, Cache(o), NEW p, Cache(p), Tails(p, o), NEW tiles \in Seq(Tiles)
  PROVE  /\ Tails(TouchAll(p, tiles), TouchAll(o, tiles))
         /\ Range(tiles) \subseteq Range(TouchAll(o, tiles))
              <=> Range(tiles) \subseteq Range(TouchAll(p, tiles))
<1> DEFINE N == Len(tiles)
<1>1. N \in Nat /\ DOMAIN tiles = 1..N /\ \A n \in 1..N : tiles[n] \in Tiles
  BY LenProperties, ElementOfSeq
<1>2. PICK a : /\ a[0] = o
               /\ \A n \in 1..N : a[n] = Touch(a[n - 1], tiles[n])
               /\ TouchAll(o, tiles) = a[N]
  BY <1>1, TouchAllDef
<1>3. PICK b : /\ b[0] = p
               /\ \A n \in 1..N : b[n] = Touch(b[n - 1], tiles[n])
               /\ TouchAll(p, tiles) = b[N]
  BY <1>1, TouchAllDef
<1> HIDE DEF N
<1> DEFINE shared(n) == \A m \in 1..n : tiles[m] \in Range(a[n]) => tiles[m] \in Range(b[n])
           T == {n \in 0..N : Cache(a[n]) /\ Cache(b[n]) /\ Tails(b[n], a[n]) /\ shared(n)}
<1>4. 0 \in T
  BY <1>1, <1>2, <1>3
<1>5. ASSUME NEW n \in 0..N, n \in T, n < N
      PROVE  n + 1 \in T
  <2>1. n + 1 \in 1..N /\ n + 1 \in 0..N /\ (n + 1) - 1 = n
    BY <1>1, <1>5
  <2> DEFINE t == tiles[n + 1]
  <2>2. a[n + 1] = Touch(a[n], t) /\ b[n + 1] = Touch(b[n], t) /\ t \in Tiles
    BY <1>1, <1>2, <1>3, <2>1
  <2> HIDE DEF t
  <2>3. Cache(a[n + 1]) /\ Cache(b[n + 1]) /\ t \in Range(b[n + 1])
    BY <1>5, <2>2, TouchKeepsCache
  <2>4. /\ Tails(b[n + 1], a[n + 1])
        /\ \A u \in Range(a[n + 1]) : u = t \/ u \in Range(a[n])
        /\ \A u \in Range(b[n]) : u \in Range(a[n + 1]) => u \in Range(b[n + 1])
    BY <1>5, <2>2, TouchKeepsTails
  <2>5. ASSUME NEW m \in 1..(n + 1), tiles[m] \in Range(a[n + 1])
        PROVE  tiles[m] \in Range(b[n + 1])
    <3>1. CASE tiles[m] = t
      BY <2>3, <3>1
    <3>2. CASE tiles[m] # t
      <4>1. m # n + 1
        BY <3>2 DEF t
      <4>2. m \in 1..n
        BY <4>1
      <4>3. tiles[m] \in Range(a[n])
        BY <2>4, <2>5, <3>2
      <4>4. tiles[m] \in Range(b[n])
        BY <1>5, <4>2, <4>3
      <4> QED
        BY <2>4, <2>5, <4>4
    <3> QED
      BY <3>1, <3>2
  <2> QED
    BY <2>1, <2>3, <2>4, <2>5
<1>6. 0..N \subseteq T
  <2> HIDE DEF T
  <2> QED
    BY <1>1, <1>4, <1>5, UpTo
<1>7. N \in T
  BY <1>1, <1>6
<1>8. Cache(a[N]) /\ Cache(b[N]) /\ Tails(b[N], a[N]) /\ shared(N)
  BY <1>7
<1>9. Range(b[N]) \subseteq Range(a[N])
  <2>0. \A x, y \in Nat : y <= x => \A i \in 1..y : (x - y) + i \in 1..x
    OBVIOUS
  <2>1. ASSUME NEW i \in 1..Len(b[N]) PROVE b[N][i] \in Range(a[N])
    <3>1. /\ Len(a[N]) \in Nat /\ DOMAIN a[N] = 1..Len(a[N])
          /\ Len(b[N]) \in Nat
      BY <1>8, CacheSizes
    <3>2. /\ Len(b[N]) <= Len(a[N])
          /\ b[N][i] = a[N][(Len(a[N]) - Len(b[N])) + i]
      BY <1>8 DEF Tails
    <3>3. (Len(a[N]) - Len(b[N])) + i \in 1..Len(a[N])
      BY <2>0, <3>1, <3>2
    <3> QED
      BY <3>1, <3>2, <3>3 DEF Range
  <2>2. DOMAIN b[N] = 1..Len(b[N])
    BY <1>8, CacheSizes
  <2> QED
    BY <2>1, <2>2 DEF Range
<1>10. Range(tiles) \subseteq Range(a[N]) => Range(tiles) \subseteq Range(b[N])
  BY <1>1, <1>8 DEF Range
<1> QED
  BY <1>2, <1>3, <1>8, <1>9, <1>10

-----------------------------------------------------------------------------
\* Reading a raster

\* The kinds of raster that are read are kinds.
LEMMA ThreeKinds ==
  /\ Kinds[1] \in Range(Kinds) /\ Kinds[2] \in Range(Kinds) /\ Kinds[3] \in Range(Kinds)
<1>1. DOMAIN Kinds = 1..3
  BY DEF Kinds
<1> QED
  BY <1>1 DEF Range

\* The tiles of a link in a data set, of which there are some if it covers the link.
LEMMA TilesOfLink ==
  ASSUME NEW ds \in DOMAIN Covers, NEW l \in Links
  PROVE  TilesOf[ds][l] \in Seq(Tiles) /\ (l \in Covers[ds] => TilesOf[ds][l] # <<>>)
<1> DEFINE tiles == TilesOf[ds][l]
<1>1. tiles \in Seq(Range(tiles)) /\ (l \in Covers[ds] => tiles # <<>>)
  BY EngineAssumption
<1>2. Range(tiles) \subseteq Tiles
  BY DEF Tiles
<1> HIDE DEF tiles
<1>3. Len(tiles) \in Nat /\ DOMAIN tiles = 1..Len(tiles) /\ tiles \in [1..Len(tiles) -> Range(tiles)]
  BY <1>1, LenProperties
<1>4. tiles \in [1..Len(tiles) -> Tiles]
  BY <1>2, <1>3
<1>5. tiles \in Seq(Tiles)
  BY <1>3, <1>4, SeqDef
<1> QED
  BY <1>1, <1>5 DEF tiles

\* The data set chosen for a covered link is the same in every engine.
LEMMA ChoiceFits ==
  ASSUME NEW kind \in Range(Kinds), NEW l \in Links,
         \E i \in DOMAIN Datasets[kind] : l \in Covers[Datasets[kind][i]]
  PROVE  \E ds \in DOMAIN Covers :
           /\ l \in Covers[ds]
           /\ \A e : SelectDataset(e, kind, l) = [e EXCEPT !.band = ds, !.selected[kind] = ds]
<1> DEFINE list == Datasets[kind]
           fits == {i \in DOMAIN list : l \in Covers[list[i]]}
           first == CHOOSE i \in fits : \A j \in fits : i <= j
<1>1. list \in Seq(DOMAIN Covers)
  BY EngineAssumption
<1>2. Len(list) \in Nat /\ DOMAIN list = 1..Len(list) /\ \A i \in 1..Len(list) : list[i] \in DOMAIN Covers
  BY <1>1, LenProperties, ElementOfSeq
<1>3. fits \in SUBSET Nat /\ fits # {}
  BY <1>2
<1>4. \E i \in fits : \A j \in fits : i <= j
  <2> HIDE DEF fits
  <2> QED
    BY <1>3, LeastNat
<1>5. first \in fits
  BY <1>4
<1> HIDE DEF first
<1>6. list[first] \in DOMAIN Covers /\ l \in Covers[list[first]]
  BY <1>2, <1>5
<1>7. list # <<>>
  BY <1>2, <1>5
<1>8. ASSUME NEW e
      PROVE  SelectDataset(e, kind, l) = [e EXCEPT !.band = list[first], !.selected[kind] = list[first]]
  <2> HIDE DEF fits
  <2>1. ~(list = <<>>) /\ ~(list # <<>> /\ fits = {})
    BY <1>3, <1>7
  <2> QED
    BY <2>1 DEF SelectDataset, fits, first
<1> QED
  BY <1>6, <1>8

\* Choosing a data set touches the choice only.
LEMMA ChoiceTyped ==
  ASSUME NEW e \in Engines, NEW kind \in Range(Kinds), NEW l \in Links, NEW s,
         s = SelectDataset(e, kind, l)
  PROVE  /\ s \in Engines
         /\ s.open = e.open /\ s.link = e.link /\ s.terrain = e.terrain
         /\ s.paged = e.paged /\ s.buildings = e.buildings
<1> DEFINE list == Datasets[kind]
           fits == {i \in DOMAIN list : l \in Covers[list[i]]}
<1>1. list \in Seq(DOMAIN Covers)
  BY EngineAssumption
<1>2. CASE fits # {}
  <2>1. \E i \in DOMAIN Datasets[kind] : l \in Covers[Datasets[kind][i]]
    BY <1>2
  <2>2. PICK ds \in DOMAIN Covers :
             /\ l \in Covers[ds]
             /\ \A x : SelectDataset(x, kind, l) = [x EXCEPT !.band = ds, !.selected[kind] = ds]
    BY <2>1, ChoiceFits, Zenon
  <2>3. s = [e EXCEPT !.band = ds, !.selected[kind] = ds]
    BY <2>2
  <2>4. e.selected \in [Range(Kinds) -> DOMAIN Covers \cup {None}]
    BY DEF Engines
  <2>5. [e.selected EXCEPT ![kind] = ds] \in [Range(Kinds) -> DOMAIN Covers \cup {None}]
    BY <2>4
  <2>6. s = [e EXCEPT !.band = ds, !.selected = [e.selected EXCEPT ![kind] = ds]]
    BY <2>3 DEF Engines
  <2> HIDE DEF fits
  <2> QED
    BY <2>5, <2>6 DEF Engines
<1>3. CASE list = <<>>
  <2>1. s = e
    BY <1>3 DEF SelectDataset
  <2> QED
    BY <2>1
<1>4. CASE list # <<>> /\ fits = {}
  <2>1. s = [e EXCEPT !.band = Last(list)]
    BY <1>4 DEF SelectDataset
  <2>2. Last(list) \in DOMAIN Covers
    <3>1. Len(list) \in 1..Len(list)
      BY <1>1, <1>4, EmptySeq, LenProperties
    <3> QED
      BY <1>1, <3>1, ElementOfSeq DEF Last
  <2> QED
    BY <2>1, <2>2 DEF Engines
<1> QED
  BY <1>2, <1>3, <1>4

\* The tiles an engine reads, the tiles open then and the dictionary made.
TilesRead(e, kind, l) == TilesFor(SelectDataset(e, kind, l), kind, l)

OpenAfter(e, kind, l) == TouchAll(e.open, TilesRead(e, kind, l))

Made(e, kind, l) ==
  [link |-> l, index |-> SelectDataset(e, kind, l).selected[kind],
   band |-> SelectDataset(e, kind, l).band]

ReadAfter(e, kind, l) ==
  [SelectDataset(e, kind, l) EXCEPT
     !.open = OpenAfter(e, kind, l),
     !.terrain = [e.terrain EXCEPT ![kind] = Made(e, kind, l)]]

\* When a raster can be read, and what the engine is then.
LEMMA ReadIs ==
  ASSUME NEW e \in Engines, NEW kind \in Range(Kinds), NEW l \in Links, NEW fail
  PROVE  /\ ReadRaster(e, kind, l, fail).ok
              <=> /\ TilesRead(e, kind, l) # <<>>
                  /\ fail \notin DOMAIN TilesRead(e, kind, l)
                  /\ Range(TilesRead(e, kind, l)) \subseteq Range(OpenAfter(e, kind, l))
         /\ ReadRaster(e, kind, l, fail).ok
              => ReadRaster(e, kind, l, fail).engine = ReadAfter(e, kind, l)
<1> DEFINE d == SelectDataset(e, kind, l)
           tiles == TilesRead(e, kind, l)
           open == TouchAll(d.open, Before(tiles, fail))
           good == [d EXCEPT !.open = open,
                             !.terrain[kind] = [link |-> l, index |-> d.selected[kind], band |-> d.band]]
<1>1. d \in Engines /\ d.open = e.open /\ d.terrain = e.terrain
  BY ChoiceTyped
<1>2. ReadRaster(e, kind, l, fail)
        = IF tiles = <<>> \/ fail \in DOMAIN tiles \/ ~(Range(tiles) \subseteq Range(open))
          THEN Failed([d EXCEPT !.open = open]) ELSE Done(good)
  BY DEF ReadRaster, ReadSelected, TilesRead
<1>3. ASSUME fail \notin DOMAIN tiles
      PROVE  open = OpenAfter(e, kind, l) /\ good = ReadAfter(e, kind, l)
  <2>1. open = OpenAfter(e, kind, l)
    BY <1>1, <1>3 DEF Before, OpenAfter
  <2> HIDE DEF open
  <2>2. good = [d EXCEPT !.open = open, !.terrain = [e.terrain EXCEPT ![kind] = Made(e, kind, l)]]
    BY <1>1 DEF Made, Engines
  <2> QED
    BY <2>1, <2>2 DEF ReadAfter
<1> HIDE DEF tiles, open, good
<1>4. Failed([d EXCEPT !.open = open]).ok = FALSE /\ Done(good).ok = TRUE /\ Done(good).engine = good
  BY DEF Failed, Done
<1>5. CASE tiles = <<>> \/ fail \in DOMAIN tiles
  BY <1>2, <1>4, <1>5 DEF tiles
<1>6. CASE ~(tiles = <<>> \/ fail \in DOMAIN tiles)
  BY <1>2, <1>3, <1>4, <1>6 DEF tiles
<1> QED
  BY <1>5, <1>6

\* The tiles read are a sequence of tiles.
LEMMA TilesReadTyped ==
  ASSUME NEW e \in Engines, NEW kind \in Range(Kinds), NEW l \in Links
  PROVE  /\ TilesRead(e, kind, l) \in Seq(Tiles)
         /\ TilesRead(e, kind, l) # <<>> => Made(e, kind, l) \in Readings
<1> DEFINE d == SelectDataset(e, kind, l)
           ds == d.selected[kind]
<1>1. d \in Engines
  BY ChoiceTyped
<1>2. ds \in DOMAIN Covers \cup {None} /\ d.band \in DOMAIN Covers \cup {None}
  BY <1>1 DEF Engines
<1>3. CASE ds = None
  <2>1. TilesRead(e, kind, l) = <<>>
    BY <1>3 DEF TilesRead, TilesFor
  <2> QED
    BY <2>1, EmptySeq
<1>4. CASE ds \in DOMAIN Covers
  <2>1. ds # None
    BY <1>4, EngineAssumption
  <2>2. TilesRead(e, kind, l) = TilesOf[ds][l]
    BY <2>1 DEF TilesRead, TilesFor
  <2>3. TilesOf[ds][l] \in Seq(Tiles)
    BY <1>4, TilesOfLink
  <2>4. Made(e, kind, l) = [link |-> l, index |-> ds, band |-> d.band]
    BY DEF Made
  <2>5. Made(e, kind, l) \in Readings
    BY <1>2, <1>4, <2>4 DEF Readings
  <2> QED
    BY <2>2, <2>3, <2>5
<1> QED
  BY <1>2, <1>3, <1>4

\* What a raster that is read leaves of an engine.
Reads(s, e) ==
  /\ s.ok \in BOOLEAN
  /\ s.ok => /\ s.engine \in Engines /\ Cache(s.engine.open)
             /\ s.engine.link = e.link /\ s.engine.paged = e.paged

\* Whether a raster can be read is true or false.
LEMMA ReadIsBoolean ==
  ASSUME NEW e, NEW kind, NEW l, NEW fail
  PROVE  ReadRaster(e, kind, l, fail).ok \in BOOLEAN
BY DEF ReadRaster, ReadSelected, Failed, Done

\* A raster that is read leaves an engine with a cache, and its link and
\* buildings as they were.
LEMMA ReadTyped ==
  ASSUME NEW e \in Engines, Cache(e.open), NEW kind \in Range(Kinds), NEW l \in Links, NEW fail,
         ReadRaster(e, kind, l, fail).ok,
         NEW s, s = ReadRaster(e, kind, l, fail).engine
  PROVE  /\ s \in Engines /\ Cache(s.open)
         /\ Reads(ReadRaster(e, kind, l, fail), e)
         /\ s.open = OpenAfter(e, kind, l)
         /\ s.terrain = [e.terrain EXCEPT ![kind] = Made(e, kind, l)]
<1> DEFINE d == SelectDataset(e, kind, l)
           open == OpenAfter(e, kind, l)
           terrain == [e.terrain EXCEPT ![kind] = Made(e, kind, l)]
<1>1. /\ d \in Engines
      /\ d.link = e.link /\ d.paged = e.paged /\ d.buildings = e.buildings
  BY ChoiceTyped
<1>2. s = [d EXCEPT !.open = open, !.terrain = terrain] /\ TilesRead(e, kind, l) # <<>>
  <2>1. s = ReadAfter(e, kind, l) /\ TilesRead(e, kind, l) # <<>>
    BY ReadIs
  <2>2. ReadAfter(e, kind, l) = [d EXCEPT !.open = open, !.terrain = terrain]
    BY DEF ReadAfter
  <2> QED
    BY <2>1, <2>2
<1>3. Cache(open)
  BY TilesReadTyped, TouchAllKeepsCache DEF OpenAfter
<1>4. open \in Seq(Tiles)
  BY <1>3 DEF Cache
<1>5. Made(e, kind, l) \in Readings
  BY <1>2, TilesReadTyped
<1>6. e.terrain \in [Range(Kinds) -> Readings \cup {None}]
  BY DEF Engines
<1>7. terrain \in [Range(Kinds) -> Readings \cup {None}]
  BY <1>5, <1>6
<1> HIDE DEF d, open, terrain
<1>8. s \in Engines /\ s.open = open /\ s.terrain = terrain
      /\ s.link = d.link /\ s.paged = d.paged /\ s.buildings = d.buildings
  BY <1>1, <1>2, <1>4, <1>7 DEF Engines
<1>9. s \in Engines /\ Cache(s.open) /\ s.link = e.link /\ s.paged = e.paged
  BY <1>1, <1>3, <1>8
<1>10. Reads(ReadRaster(e, kind, l, fail), e)
  BY <1>9, ReadIsBoolean DEF Reads
<1> QED
  BY <1>8, <1>9, <1>10 DEF open, terrain

\* Whether or not a raster is read, the link and the buildings paged in stay.
LEMMA ReadKeeps ==
  ASSUME NEW e \in Engines, Cache(e.open), NEW kind \in Range(Kinds), NEW l \in Links, NEW fail
  PROVE  Reads(ReadRaster(e, kind, l, fail), e)
<1>1. CASE ReadRaster(e, kind, l, fail).ok
  BY <1>1, ReadTyped
<1>2. CASE ~ReadRaster(e, kind, l, fail).ok
  BY <1>2, ReadIsBoolean DEF Reads
<1> QED
  BY <1>1, <1>2

-----------------------------------------------------------------------------
\* A new engine and a worn one

\* They have read the same rasters, and the worn one has seen more before.
Alike(r, s) ==
  /\ r \in Engines /\ s \in Engines
  /\ Cache(r.open) /\ Cache(s.open) /\ Tails(r.open, s.open)
  /\ r.terrain = s.terrain

\* What the worn engine reads the new one reads too, and the same; and if
\* nothing fails for the worn one, also the other way round.
Follows(q, s, quiet) ==
  /\ q.ok \in BOOLEAN /\ s.ok \in BOOLEAN
  /\ s.ok => q.ok /\ Alike(q.engine, s.engine)
  /\ quiet /\ q.ok => s.ok

\* Both read the same tiles into the same dictionary when the link is covered.
LEMMA SameTiles ==
  ASSUME NEW r \in Engines, NEW e \in Engines, NEW kind \in Range(Kinds), NEW l \in Links, Covered(l)
  PROVE  TilesRead(r, kind, l) = TilesRead(e, kind, l) /\ Made(r, kind, l) = Made(e, kind, l)
<1>1. \E i \in DOMAIN Datasets[kind] : l \in Covers[Datasets[kind][i]]
  BY DEF Covered
<1>2. PICK ds \in DOMAIN Covers :
           /\ l \in Covers[ds]
           /\ \A x : SelectDataset(x, kind, l) = [x EXCEPT !.band = ds, !.selected[kind] = ds]
  BY <1>1, ChoiceFits, Zenon
<1>3. ASSUME NEW x \in Engines
      PROVE  SelectDataset(x, kind, l).band = ds /\ SelectDataset(x, kind, l).selected[kind] = ds
  <2>1. SelectDataset(x, kind, l) = [x EXCEPT !.band = ds, !.selected[kind] = ds]
    BY <1>2
  <2> QED
    BY <2>1 DEF Engines
<1> QED
  BY <1>3 DEF TilesRead, TilesFor, Made

\* A worn engine reads a raster of a covered link as a new one does.
LEMMA ReadFollows ==
  ASSUME NEW r, NEW e, Alike(r, e), NEW kind \in Range(Kinds), NEW l \in Links, Covered(l),
         NEW fail
  PROVE  Follows(ReadRaster(r, kind, l, 0), ReadRaster(e, kind, l, fail), fail = 0)
<1> DEFINE q == ReadRaster(r, kind, l, 0)
           s == ReadRaster(e, kind, l, fail)
           tiles == TilesRead(e, kind, l)
<1>1. r \in Engines /\ e \in Engines /\ Cache(r.open) /\ Cache(e.open)
      /\ Tails(r.open, e.open) /\ r.terrain = e.terrain
  BY DEF Alike
<1>2. TilesRead(r, kind, l) = tiles /\ Made(r, kind, l) = Made(e, kind, l)
  BY <1>1, SameTiles
<1>3. tiles \in Seq(Tiles)
  BY <1>1, TilesReadTyped
<1>4. 0 \notin DOMAIN tiles
  BY <1>3, LenProperties
<1>5. /\ Tails(OpenAfter(r, kind, l), OpenAfter(e, kind, l))
      /\ Range(tiles) \subseteq Range(OpenAfter(e, kind, l))
           <=> Range(tiles) \subseteq Range(OpenAfter(r, kind, l))
  <2> HIDE DEF tiles
  <2>1. OpenAfter(r, kind, l) = TouchAll(r.open, tiles)
    BY <1>2 DEF OpenAfter
  <2>2. OpenAfter(e, kind, l) = TouchAll(e.open, tiles)
    BY DEF OpenAfter, tiles
  <2> QED
    BY <1>1, <1>3, <2>1, <2>2, TouchAllsAlike
<1>6. q.ok <=> /\ tiles # <<>> /\ 0 \notin DOMAIN tiles
               /\ Range(tiles) \subseteq Range(OpenAfter(r, kind, l))
  <2>1. q.ok <=> /\ TilesRead(r, kind, l) # <<>> /\ 0 \notin DOMAIN TilesRead(r, kind, l)
                 /\ Range(TilesRead(r, kind, l)) \subseteq Range(OpenAfter(r, kind, l))
    BY <1>1, ReadIs, Zenon
  <2> HIDE DEF tiles, q
  <2> QED
    BY <1>2, <2>1
<1>7. s.ok <=> /\ tiles # <<>> /\ fail \notin DOMAIN tiles
               /\ Range(tiles) \subseteq Range(OpenAfter(e, kind, l))
  BY <1>1, ReadIs, Zenon
<1>8. ASSUME q.ok, s.ok PROVE Alike(q.engine, s.engine)
  <2>1. /\ q.engine \in Engines /\ Cache(q.engine.open) /\ q.engine.open = OpenAfter(r, kind, l)
        /\ q.engine.terrain = [r.terrain EXCEPT ![kind] = Made(r, kind, l)]
    BY <1>1, <1>8, ReadTyped
  <2>2. /\ s.engine \in Engines /\ Cache(s.engine.open) /\ s.engine.open = OpenAfter(e, kind, l)
        /\ s.engine.terrain = [e.terrain EXCEPT ![kind] = Made(e, kind, l)]
    BY <1>1, <1>8, ReadTyped
  <2>3. q.engine.terrain = s.engine.terrain
    BY <1>1, <1>2, <2>1, <2>2
  <2>4. Tails(q.engine.open, s.engine.open)
    BY <1>5, <2>1, <2>2
  <2> HIDE DEF q, s
  <2> QED
    BY <2>1, <2>2, <2>3, <2>4 DEF Alike
<1>9. q.ok \in BOOLEAN /\ s.ok \in BOOLEAN
  BY ReadIsBoolean
<1> HIDE DEF q, s, tiles
<1>10. s.ok => q.ok
  BY <1>4, <1>5, <1>6, <1>7
<1>11. fail = 0 /\ q.ok => s.ok
  BY <1>5, <1>6, <1>7
<1>12. Follows(q, s, fail = 0)
  BY <1>8, <1>9, <1>10, <1>11 DEF Follows
<1> QED
  BY <1>12 DEF q, s

\* So it is with one raster after another.
LEMMA ThenFollows ==
  ASSUME NEW q, NEW s, NEW fail, Follows(q, s, fail = NoFailure),
         NEW kind \in Range(Kinds), NEW l \in Links, Covered(l)
  PROVE  Follows(ThenRaster(q, kind, l, NoFailure), ThenRaster(s, kind, l, fail), fail = NoFailure)
<1> DEFINE q1 == ThenRaster(q, kind, l, NoFailure)
           s1 == ThenRaster(s, kind, l, fail)
           place == PlaceIn(kind, fail)
<1>1. PlaceIn(kind, NoFailure) = 0 /\ (fail = NoFailure => place = 0)
  BY DEF PlaceIn, NoFailure
<1>2. q.ok \in BOOLEAN /\ s.ok \in BOOLEAN /\ (fail = NoFailure /\ q.ok => s.ok)
  BY DEF Follows
<1>3. CASE s.ok
  <2>1. q.ok /\ Alike(q.engine, s.engine)
    BY <1>3 DEF Follows
  <2>2. q1 = ReadRaster(q.engine, kind, l, 0)
    BY <1>1, <2>1 DEF ThenRaster
  <2>3. s1 = ReadRaster(s.engine, kind, l, place)
    BY <1>3 DEF ThenRaster
  <2>4. Follows(q1, s1, place = 0)
    BY <2>1, <2>2, <2>3, ReadFollows
  <2> HIDE DEF q1, s1, place
  <2> QED
    BY <1>1, <2>4 DEF Follows, q1, s1
<1>4. CASE ~s.ok
  <2>1. s1 = s
    BY <1>4 DEF ThenRaster
  <2>2. q1.ok \in BOOLEAN
    BY <1>2, ReadIsBoolean DEF ThenRaster
  <2>3. fail = NoFailure => q1 = q /\ ~q.ok
    BY <1>2, <1>4 DEF ThenRaster
  <2> HIDE DEF q1, s1
  <2>5. Follows(q1, s1, fail = NoFailure)
    BY <1>2, <1>4, <2>1, <2>2, <2>3 DEF Follows
  <2> QED
    BY <2>5 DEF q1, s1
<1> QED
  BY <1>2, <1>3, <1>4

\* So do rasters read one after another, ...
LEMMA ThenReads ==
  ASSUME NEW s, NEW e, Reads(s, e), NEW kind \in Range(Kinds), NEW l \in Links, NEW fail
  PROVE  Reads(ThenRaster(s, kind, l, fail), e)
<1> DEFINE s1 == ThenRaster(s, kind, l, fail)
           place == PlaceIn(kind, fail)
<1>1. CASE s.ok
  <2>1. s1 = ReadRaster(s.engine, kind, l, place)
    BY <1>1 DEF ThenRaster
  <2>2. /\ s.engine \in Engines /\ Cache(s.engine.open)
        /\ s.engine.link = e.link /\ s.engine.paged = e.paged
    BY <1>1 DEF Reads
  <2>3. s1.ok \in BOOLEAN
    BY <2>1, ReadIsBoolean
  <2>4. Reads(s1, s.engine)
    BY <2>1, <2>2, ReadKeeps
  <2> HIDE DEF s1
  <2>5. Reads(s1, e)
    BY <2>2, <2>3, <2>4 DEF Reads
  <2> QED
    BY <2>5 DEF s1
<1>2. CASE ~s.ok
  BY <1>2 DEF ThenRaster
<1>3. s.ok \in BOOLEAN
  BY DEF Reads
<1> QED
  BY <1>1, <1>2, <1>3

\* ... and all rasters of a link.
LEMMA RastersRead ==
  ASSUME NEW e \in Engines, Cache(e.open), NEW l \in Links, NEW fail
  PROVE  Reads(ReadRasters(e, l, fail), e)
<1> DEFINE start == Done([e EXCEPT !.terrain = NewEngine.terrain])
           s1 == ThenRaster(start, Kinds[1], l, fail)
           s2 == ThenRaster(s1, Kinds[2], l, fail)
<1>1. NewEngine.terrain \in [Range(Kinds) -> Readings \cup {None}]
  BY DEF NewEngine
<1>2. [e EXCEPT !.terrain = NewEngine.terrain] \in Engines
  BY <1>1 DEF Engines
<1>3. Reads(start, e)
  <2>1. /\ start.ok = TRUE /\ start.engine = [e EXCEPT !.terrain = NewEngine.terrain]
    BY DEF Done
  <2>2. start.engine.open = e.open /\ start.engine.link = e.link /\ start.engine.paged = e.paged
    BY <2>1 DEF Engines
  <2> HIDE DEF start
  <2> QED
    BY <1>2, <2>1, <2>2 DEF Reads
<1> HIDE DEF start
<1>4. Reads(s1, e)
  BY <1>3, ThreeKinds, ThenReads
<1> HIDE DEF s1
<1>5. Reads(s2, e)
  BY <1>4, ThreeKinds, ThenReads
<1> HIDE DEF s2
<1>6. Reads(ThenRaster(s2, Kinds[3], l, fail), e)
  BY <1>5, ThreeKinds, ThenReads
<1> QED
  BY <1>6 DEF ReadRasters, start, s1, s2

\* A new engine is an engine.
LEMMA NewIsEngine == NewEngine \in Engines /\ Cache(NewEngine.open) /\ NewEngine.link = None
<1>1. <<>> \in Seq(Tiles) /\ Len(<<>>) = 0
  BY EmptySeq
<1>2. NewEngine.open = <<>>
  BY DEF NewEngine
<1>3. Cache(<<>>)
  BY <1>1, EngineAssumption DEF Cache
<1>4. NewEngine \in Engines
  BY <1>1 DEF NewEngine, Engines
<1> QED
  BY <1>2, <1>3, <1>4 DEF NewEngine

\* All rasters of a covered link are read as a new engine reads them: their
\* dictionaries are reset, and the caches start with nothing in common but the end.
LEMMA RastersFollow ==
  ASSUME NEW e \in Engines, Cache(e.open), NEW l \in Links, Covered(l), NEW fail
  PROVE  Follows(ReadRasters(NewEngine, l, NoFailure), ReadRasters(e, l, fail), fail = NoFailure)
<1> DEFINE blank(x) == [x EXCEPT !.terrain = NewEngine.terrain]
           q0 == Done(blank(NewEngine))
           s0 == Done(blank(e))
           q1 == ThenRaster(q0, Kinds[1], l, NoFailure)
           s1 == ThenRaster(s0, Kinds[1], l, fail)
           q2 == ThenRaster(q1, Kinds[2], l, NoFailure)
           s2 == ThenRaster(s1, Kinds[2], l, fail)
<1>1. NewEngine.terrain \in [Range(Kinds) -> Readings \cup {None}]
  BY DEF NewEngine
<1>2. ASSUME NEW x \in Engines
      PROVE  /\ blank(x) \in Engines
             /\ blank(x).open = x.open /\ blank(x).terrain = NewEngine.terrain
  BY <1>1 DEF Engines
<1>3. Alike(blank(NewEngine), blank(e))
  <2>1. Tails(NewEngine.open, e.open)
    <3>1. NewEngine.open = <<>> /\ Len(<<>>) = 0
      BY DEF NewEngine
    <3>2. Len(e.open) \in Nat
      BY LenProperties DEF Cache
    <3> QED
      BY <3>1, <3>2 DEF Tails
  <2>2. /\ blank(e) \in Engines /\ blank(e).open = e.open
        /\ blank(e).terrain = NewEngine.terrain
    BY <1>2
  <2>3. /\ blank(NewEngine) \in Engines /\ blank(NewEngine).open = NewEngine.open
        /\ blank(NewEngine).terrain = NewEngine.terrain
    BY <1>2, NewIsEngine
  <2> HIDE DEF blank
  <2> QED
    BY <2>1, <2>2, <2>3, NewIsEngine DEF Alike
<1>4. Follows(q0, s0, fail = NoFailure)
  <2> HIDE DEF blank
  <2>1. q0.ok = TRUE /\ q0.engine = blank(NewEngine) /\ s0.ok = TRUE /\ s0.engine = blank(e)
    BY DEF Done
  <2> HIDE DEF q0, s0
  <2> QED
    BY <1>3, <2>1 DEF Follows
<1> HIDE DEF q0, s0
<1>5. Follows(q1, s1, fail = NoFailure)
  BY <1>4, ThreeKinds, ThenFollows
<1> HIDE DEF q1, s1
<1>6. Follows(q2, s2, fail = NoFailure)
  BY <1>5, ThreeKinds, ThenFollows
<1> HIDE DEF q2, s2
<1>7. Follows(ThenRaster(q2, Kinds[3], l, NoFailure), ThenRaster(s2, Kinds[3], l, fail), fail = NoFailure)
  BY <1>6, ThreeKinds, ThenFollows
<1> QED
  BY <1>7 DEF ReadRasters, q0, s0, q1, s1, q2, s2

-----------------------------------------------------------------------------
\* Buildings

\* The buildings in the way of a link that all lie at its ends.
NearBuildings(l) ==
  IF EndParquets[l] = <<>> \/ CorridorParquets[l] = {} THEN None
  ELSE [link |-> l, tiles |-> CorridorParquets[l]]

\* What the buildings of a link are found in, for every engine the same if they
\* lie at its ends.
LEMMA BuildingsRead ==
  ASSUME NEW e \in Engines, NEW l \in Links, NEW fail, NEW b, b = ReadBuildings(e, l, fail)
  PROVE  /\ b.ok \in BOOLEAN
         /\ b.ok <=> fail \notin DOMAIN EndParquets[l]
         /\ b.ok => /\ b.engine \in Engines
                    /\ b.engine.open = e.open /\ b.engine.terrain = e.terrain
                    /\ EndsSuffice(l) => b.engine.buildings = NearBuildings(l)
<1> DEFINE ends == EndParquets[l]
           paged == e.paged \cup Range(Before(ends, fail))
           found == paged \cap CorridorParquets[l]
           near == IF found = {} THEN None ELSE [link |-> l, tiles |-> found]
<1>1. ends \in Seq(Range(ends)) /\ Range(ends) \subseteq Parquets
  BY EngineAssumption DEF Parquets
<1>2. CASE ends = <<>>
  <2>1. b = Done([e EXCEPT !.buildings = None])
    BY <1>2 DEF ReadBuildings
  <2>2. b.ok = TRUE /\ b.engine = [e EXCEPT !.buildings = None]
    BY <2>1 DEF Done
  <2>3. DOMAIN ends = {}
    BY <1>2
  <2>4. NearBuildings(l) = None
    BY <1>2 DEF NearBuildings
  <2>5. /\ b.engine \in Engines /\ b.engine.open = e.open /\ b.engine.terrain = e.terrain
        /\ b.engine.buildings = None
    BY <2>2 DEF Engines
  <2> QED
    BY <2>2, <2>3, <2>4, <2>5
<1>3. CASE ends # <<>> /\ fail \in DOMAIN ends
  <2>1. b = Failed([e EXCEPT !.paged = paged])
    BY <1>3 DEF ReadBuildings
  <2>2. b.ok = FALSE
    BY <2>1 DEF Failed
  <2> QED
    BY <1>3, <2>2
<1>4. CASE ends # <<>> /\ fail \notin DOMAIN ends
  <2>1. b = Done([e EXCEPT !.paged = paged, !.buildings = near])
    BY <1>4 DEF ReadBuildings
  <2>2. b.ok = TRUE /\ b.engine = [e EXCEPT !.paged = paged, !.buildings = near]
    BY <2>1 DEF Done
  <2>3. Before(ends, fail) = ends
    BY <1>4 DEF Before
  <2>4. paged \in SUBSET Parquets
    BY <1>1, <2>3 DEF Engines
  <2>5. found \in SUBSET Parquets
    BY <2>4
  <2>6. near \in Found \cup {None}
    <3> HIDE DEF found
    <3> QED
      BY <2>5 DEF Found
  <2>7. ASSUME EndsSuffice(l) PROVE near = NearBuildings(l)
    <3>1. found = CorridorParquets[l]
      BY <2>3, <2>7 DEF EndsSuffice
    <3> HIDE DEF found
    <3> QED
      BY <1>4, <3>1 DEF NearBuildings
  <2> HIDE DEF paged, near
  <2>8. /\ b.engine \in Engines /\ b.engine.open = e.open /\ b.engine.terrain = e.terrain
        /\ b.engine.buildings = near
    BY <2>2, <2>4, <2>6 DEF Engines
  <2> QED
    BY <1>4, <2>2, <2>7, <2>8
<1> QED
  BY <1>2, <1>3, <1>4

-----------------------------------------------------------------------------
\* Loads

\* A load that ends well has read the rasters, and the buildings found then.
Loads(load, rasters, place, l) ==
  /\ load.ok \in BOOLEAN
  /\ load.ok <=> rasters.ok /\ place \notin DOMAIN EndParquets[l]
  /\ load.ok => /\ load.engine \in Engines /\ Cache(load.engine.open)
                /\ load.engine.link = l
                /\ load.engine.terrain = rasters.engine.terrain
                /\ EndsSuffice(l) => load.engine.buildings = NearBuildings(l)

\* Buildings after rasters, then the link, make a load.
LEMMA LinkedLoads ==
  ASSUME NEW r, NEW e, Reads(r, e), NEW l \in Links, NEW place
  PROVE  Loads(Linked(IF r.ok THEN ReadBuildings(r.engine, l, place) ELSE r, l), r, place, l)
<1> DEFINE b == ReadBuildings(r.engine, l, place)
           load == Linked(IF r.ok THEN b ELSE r, l)
<1>1. r.ok \in BOOLEAN
  BY DEF Reads
<1>2. CASE r.ok
  <2>1. r.engine \in Engines /\ Cache(r.engine.open)
    BY <1>2 DEF Reads
  <2>2. /\ b.ok \in BOOLEAN
        /\ b.ok <=> place \notin DOMAIN EndParquets[l]
        /\ b.ok => /\ b.engine \in Engines
                   /\ b.engine.open = r.engine.open /\ b.engine.terrain = r.engine.terrain
                   /\ EndsSuffice(l) => b.engine.buildings = NearBuildings(l)
    BY <2>1, BuildingsRead
  <2> HIDE DEF b
  <2>3. load = IF b.ok THEN Done([b.engine EXCEPT !.link = l]) ELSE b
    BY <1>2 DEF Linked
  <2>4. CASE b.ok
    <3>1. load.ok = TRUE /\ load.engine = [b.engine EXCEPT !.link = l]
      BY <2>3, <2>4 DEF Done
    <3>2. b.engine \in Engines
      BY <2>2, <2>4
    <3> HIDE DEF load
    <3>3. /\ load.engine \in Engines /\ load.engine.link = l
          /\ load.engine.open = b.engine.open /\ load.engine.terrain = b.engine.terrain
          /\ load.engine.buildings = b.engine.buildings
      BY <3>1, <3>2 DEF Engines
    <3>4. Loads(load, r, place, l)
      BY <1>2, <2>1, <2>2, <2>4, <3>1, <3>3 DEF Loads
    <3> QED
      BY <3>4 DEF load, b
  <2>5. CASE ~b.ok
    <3>1. load = b
      BY <2>3, <2>5
    <3> HIDE DEF load
    <3>2. Loads(load, r, place, l)
      BY <1>2, <2>2, <2>5, <3>1 DEF Loads
    <3> QED
      BY <3>2 DEF load, b
  <2> QED
    BY <2>2, <2>4, <2>5
<1>3. CASE ~r.ok
  <2>1. load = r
    BY <1>3 DEF Linked
  <2> HIDE DEF load
  <2>2. Loads(load, r, place, l)
    BY <1>1, <1>3, <2>1 DEF Loads
  <2> QED
    BY <2>2 DEF load
<1> QED
  BY <1>1, <1>2, <1>3

\* So load_profile does.
LEMMA LoadLoads ==
  ASSUME NEW e \in Engines, Cache(e.open), NEW l \in Links, NEW fail
  PROVE  Loads(LoadProfile(e, l, fail), ReadRasters(e, l, fail), PlaceIn("BLDG", fail), l)
<1>1. Reads(ReadRasters(e, l, fail), e)
  BY RastersRead
<1> DEFINE r == ReadRasters(e, l, fail)
           place == PlaceIn("BLDG", fail)
<1>2. LoadProfile(e, l, fail) = Linked(IF r.ok THEN ReadBuildings(r.engine, l, place) ELSE r, l)
  BY DEF LoadProfile
<1> HIDE DEF r, place
<1>3. Loads(Linked(IF r.ok THEN ReadBuildings(r.engine, l, place) ELSE r, l), r, place, l)
  BY <1>1, LinkedLoads DEF r
<1> QED
  BY <1>2, <1>3 DEF r, place

\* What a new engine that nothing fails for has loaded.
FreshLoad(l) == LoadProfile(NewEngine, l, NoFailure)

\* The load of a new engine can be told from this one, and this one is like it.
AsFresh(e, l) ==
  /\ FreshLoad(l).ok
  /\ e.terrain = FreshLoad(l).engine.terrain
  /\ e.buildings = FreshLoad(l).engine.buildings

\* A covered link with its buildings at its ends.
Plain(l) == Covered(l) /\ EndsSuffice(l)

\* A load of a worn engine is that of a new one.
LoadAlike(load, l, quiet) ==
  /\ load.ok => AsFresh(load.engine, l)
  /\ quiet /\ FreshLoad(l).ok => load.ok

\* Whatever an engine has loaded before does not show in a load.
LEMMA LoadIsAsFresh ==
  ASSUME NEW e \in Engines, Cache(e.open), NEW l \in Links, Plain(l), NEW fail
  PROVE  LoadAlike(LoadProfile(e, l, fail), l, fail = NoFailure)
<1> DEFINE q == ReadRasters(NewEngine, l, NoFailure)
           s == ReadRasters(e, l, fail)
           place == PlaceIn("BLDG", fail)
           load == LoadProfile(e, l, fail)
           fresh == FreshLoad(l)
<1>1. PlaceIn("BLDG", NoFailure) = 0 /\ (fail = NoFailure => place = 0)
  BY DEF PlaceIn, NoFailure
<1>2. 0 \notin DOMAIN EndParquets[l]
  BY EngineAssumption, LenProperties
<1>3. Covered(l) /\ EndsSuffice(l)
  BY DEF Plain
<1>4. Follows(q, s, fail = NoFailure)
  BY <1>3, RastersFollow
<1>5. Loads(load, s, place, l)
  BY LoadLoads
<1>6. Loads(fresh, q, 0, l)
  <2>1. Loads(LoadProfile(NewEngine, l, NoFailure), q, PlaceIn("BLDG", NoFailure), l)
    BY NewIsEngine, LoadLoads
  <2> HIDE DEF q
  <2> QED
    BY <1>1, <2>1 DEF FreshLoad
<1> HIDE DEF q, s, place, load, fresh
<1>7. s.ok => q.ok /\ q.engine.terrain = s.engine.terrain
  BY <1>4 DEF Follows, Alike
<1>8. fail = NoFailure /\ q.ok => s.ok
  BY <1>4 DEF Follows
<1>9. ASSUME load.ok
      PROVE  fresh.ok /\ load.engine.terrain = fresh.engine.terrain
             /\ load.engine.buildings = fresh.engine.buildings
  <2>1. s.ok /\ load.engine.terrain = s.engine.terrain /\ load.engine.buildings = NearBuildings(l)
    BY <1>3, <1>5, <1>9 DEF Loads
  <2>2. q.ok /\ fresh.ok
    BY <1>2, <1>6, <1>7, <2>1 DEF Loads
  <2>3. fresh.engine.terrain = q.engine.terrain /\ fresh.engine.buildings = NearBuildings(l)
    BY <1>3, <1>6, <2>2 DEF Loads
  <2> QED
    BY <1>7, <2>1, <2>2, <2>3
<1>10. ASSUME fail = NoFailure, fresh.ok
       PROVE  load.ok
  <2>1. q.ok
    BY <1>6, <1>10 DEF Loads
  <2>2. s.ok
    BY <1>8, <1>10, <2>1
  <2> QED
    BY <1>1, <1>2, <1>5, <1>10, <2>2 DEF Loads
<1>11. load.ok => AsFresh(load.engine, l)
  BY <1>9 DEF AsFresh, fresh
<1> QED
  BY <1>10, <1>11 DEF LoadAlike, load, fresh

-----------------------------------------------------------------------------
\* Evaluations

\* An engine that has failed no load: what it holds is what a new engine would
\* hold for the link that is loaded.
Kept(e) ==
  /\ e \in Engines /\ Cache(e.open)
  /\ e.link \in Links /\ Plain(e.link) => AsFresh(e, e.link)

\* A new engine has failed nothing.
LEMMA NewIsKept == Kept(NewEngine)
BY NewIsEngine, EngineAssumption DEF Kept

\* A load that ends well leaves such an engine.
LEMMA LoadKeeps ==
  ASSUME NEW e, Kept(e), NEW l \in Links, NEW fail, NEW load, load = LoadProfile(e, l, fail)
  PROVE  /\ load.ok \in BOOLEAN
         /\ load.ok => Kept(load.engine)
<1>1. e \in Engines /\ Cache(e.open)
  BY DEF Kept
<1>2. Loads(load, ReadRasters(e, l, fail), PlaceIn("BLDG", fail), l)
  BY <1>1, LoadLoads
<1>3. Plain(l) => LoadAlike(load, l, fail = NoFailure)
  BY <1>1, LoadIsAsFresh
<1>4. load.ok \in BOOLEAN
  BY <1>2 DEF Loads
<1>5. ASSUME load.ok PROVE Kept(load.engine)
  <2>1. load.engine \in Engines /\ Cache(load.engine.open) /\ load.engine.link = l
    BY <1>2, <1>5 DEF Loads
  <2>2. Plain(l) => AsFresh(load.engine, l)
    BY <1>3, <1>5 DEF LoadAlike
  <2> QED
    BY <2>1, <2>2 DEF Kept
<1> QED
  BY <1>4, <1>5

\* So does an evaluation.
LEMMA EvaluateKeeps ==
  ASSUME NEW e, Kept(e), NEW l \in Links, NEW fail, NEW done, done = Evaluate(e, l, fail)
  PROVE  done.loaded => Kept(done.engine)
<1> DEFINE load == LoadProfile(e, l, fail)
<1>1. CASE e.link = l
  <2>1. done = Evaluated(Done(e))
    BY <1>1 DEF Evaluate
  <2>2. done.engine = e
    BY <2>1 DEF Evaluated, Done
  <2> QED
    BY <2>2
<1>2. CASE e.link # l
  <2>1. done = Evaluated(load)
    BY <1>2 DEF Evaluate
  <2>2. done.engine = load.engine /\ done.loaded = load.ok
    BY <2>1 DEF Evaluated
  <2>3. load.ok => Kept(load.engine)
    BY LoadKeeps
  <2> HIDE DEF load
  <2> QED
    BY <2>2, <2>3
<1> QED
  BY <1>1, <1>2

\* Two loads that end alike have the same answer.
LEMMA SameAnswer ==
  ASSUME NEW q, NEW s, q.ok \in BOOLEAN, s.ok \in BOOLEAN, q.ok = s.ok,
         s.ok => s.engine.terrain = q.engine.terrain /\ s.engine.buildings = q.engine.buildings
  PROVE  Evaluated(s).answer = Evaluated(q).answer
<1>1. CASE s.ok
  BY <1>1 DEF Evaluated
<1>2. CASE ~s.ok
  BY <1>2 DEF Evaluated
<1> QED
  BY <1>1, <1>2

\* An evaluation by such an engine answers as a new one does, also when the
\* link is loaded already.
LEMMA EvaluateAnswers ==
  ASSUME NEW e, Kept(e), NEW l \in Links, Plain(l)
  PROVE  Evaluate(e, l, NoFailure).answer = FreshAnswer(l)
<1> DEFINE fresh == FreshLoad(l)
           load == IF e.link = l THEN Done(e) ELSE LoadProfile(e, l, NoFailure)
<1>1. FreshAnswer(l) = Evaluated(fresh).answer
  <2>1. NewEngine.link # l
    BY NewIsEngine, EngineAssumption
  <2> QED
    BY <2>1 DEF FreshAnswer, Evaluate, FreshLoad
<1>2. Evaluate(e, l, NoFailure) = Evaluated(load)
  BY DEF Evaluate
<1>3. fresh.ok \in BOOLEAN
  BY NewIsKept, LoadKeeps DEF FreshLoad
<1>4. /\ load.ok \in BOOLEAN /\ load.ok = fresh.ok
      /\ load.ok => load.engine.terrain = fresh.engine.terrain
                    /\ load.engine.buildings = fresh.engine.buildings
  <2>1. CASE e.link = l
    <3>1. load.ok = TRUE /\ load.engine = e
      BY <2>1 DEF Done
    <3>2. AsFresh(e, l)
      BY <2>1 DEF Kept
    <3> HIDE DEF load
    <3> QED
      BY <1>3, <3>1, <3>2 DEF AsFresh
  <2>2. CASE e.link # l
    <3>1. load = LoadProfile(e, l, NoFailure)
      BY <2>2
    <3> HIDE DEF load
    <3>2. load.ok \in BOOLEAN
      BY <3>1, LoadKeeps
    <3>3. LoadAlike(load, l, NoFailure = NoFailure)
      BY <3>1, LoadIsAsFresh DEF Kept
    <3> QED
      BY <1>3, <3>2, <3>3 DEF LoadAlike, AsFresh
  <2> QED
    BY <2>1, <2>2
<1> HIDE DEF fresh, load
<1>5. Evaluated(load).answer = Evaluated(fresh).answer
  BY <1>3, <1>4, SameAnswer
<1> QED
  BY <1>1, <1>2, <1>5

-----------------------------------------------------------------------------
\* The workers

\* A process that has failed no load has an engine that does not show its past.
Process(p) ==
  /\ p = [pc |-> p.pc, left |-> p.left, task |-> p.task, engine |-> p.engine, clean |-> p.clean]
  /\ p.pc = "busy" => p.task \in Requests
  /\ p.clean \in BOOLEAN
  /\ p.clean => Kept(p.engine)

Processes ==
  /\ proc = [w \in WorkerIds |-> proc[w]]
  /\ \A w \in WorkerIds : Process(proc[w])

Queues ==
  /\ tasks \in Seq(Requests \cup {None})
  /\ results \in Seq(Range(results))

Numbers == IsFiniteSet(workers) /\ seq \in Nat

IInv == Processes /\ Queues /\ Numbers /\ AnswersAsFresh

\* An answer that is as good as that of a new engine, if it has to be.
GoodResult(x) ==
  x.clean /\ Plain(LinkOf[x.id]) => x.answer = FreshAnswer(LinkOf[x.id])

\* The property, one answer at a time.
LEMMA AnswersAreGood == AnswersAsFresh <=> \A i \in DOMAIN results : GoodResult(results[i])
BY DEF AnswersAsFresh, GoodResult, Plain

\* A process that starts, and one that is gone, have failed nothing.
LEMMA StartedIsProcess == Process(Started) /\ Process(Gone)
<1>1. ASSUME NEW p, NEW state, state # "busy",
             p = [pc |-> state, left |-> MaxLinks, task |-> None, engine |-> NewEngine, clean |-> TRUE]
      PROVE  Process(p)
  BY <1>1, NewIsKept DEF Process
<1>2. Started = [pc |-> "ready", left |-> MaxLinks, task |-> None, engine |-> NewEngine, clean |-> TRUE]
  BY DEF Started
<1>3. Gone = [pc |-> "gone", left |-> MaxLinks, task |-> None, engine |-> NewEngine, clean |-> TRUE]
  <2>1. Gone = [Started EXCEPT !.pc = "gone"]
    BY DEF Gone
  <2> QED
    BY <1>2, <2>1
<1> QED
  BY <1>1, <1>2, <1>3

\* A function on 1..n is a sequence.
LEMMA SeqOverItsRange ==
  ASSUME NEW q, NEW R, Len(q) \in Nat, q \in [1..Len(q) -> R]
  PROVE  q \in Seq(R)
BY SeqDef

\* What is appended to a sequence is its last element, ...
LEMMA AppendToResults ==
  ASSUME NEW s, s \in Seq(Range(s)), NEW x, NEW q, q = Append(s, x)
  PROVE  /\ q \in Seq(Range(q))
         /\ \A i \in DOMAIN q : (i \in DOMAIN s /\ q[i] = s[i]) \/ q[i] = x
<1> DEFINE S == Range(s) \cup {x}
<1>0. Len(s) \in Nat /\ DOMAIN s = 1..Len(s) /\ \A i \in 1..Len(s) : s[i] \in Range(s)
  BY LenProperties, ElementOfSeq
<1>1. s \in Seq(S)
  BY <1>0, LenProperties, SeqDef
<1>2. /\ q \in Seq(S) /\ Len(q) = Len(s) + 1 /\ q[Len(s) + 1] = x
      /\ \A i \in 1..Len(s) : q[i] = s[i]
  BY <1>1, AppendProperties
<1>3. Len(q) \in Nat /\ DOMAIN q = 1..Len(q) /\ q \in [1..Len(q) -> S]
  BY <1>2, LenProperties
<1>4. q \in [1..Len(q) -> Range(q)]
  BY <1>3 DEF Range
<1>5. q \in Seq(Range(q))
  BY <1>3, <1>4, SeqOverItsRange
<1>6. \A i \in 1..Len(q) : i \in 1..Len(s) \/ i = Len(s) + 1
  BY <1>0, <1>2
<1> QED
  BY <1>0, <1>2, <1>3, <1>5, <1>6

\* ... and what is left without the first element was there before.
LEMMA TailOfResults ==
  ASSUME NEW s, s \in Seq(Range(s)), s # <<>>, NEW q, q = Tail(s)
  PROVE  /\ q \in Seq(Range(q))
         /\ \A i \in DOMAIN q : \E j \in DOMAIN s : q[i] = s[j]
<1>1. Len(s) \in Nat /\ DOMAIN s = 1..Len(s)
  BY LenProperties
<1>2. q \in Seq(Range(s)) /\ Len(q) = Len(s) - 1 /\ \A i \in 1..Len(q) : q[i] = s[i + 1]
  BY HeadTailProperties
<1>3. Len(q) \in Nat /\ DOMAIN q = 1..Len(q) /\ q \in [1..Len(q) -> Range(s)]
  BY <1>2, LenProperties
<1>4. q \in [1..Len(q) -> Range(q)]
  BY <1>3 DEF Range
<1>5. q \in Seq(Range(q))
  BY <1>3, <1>4, SeqOverItsRange
<1>6. \A i \in 1..Len(q) : i + 1 \in 1..Len(s)
  BY <1>1, <1>2, <1>3
<1> QED
  BY <1>1, <1>2, <1>3, <1>5, <1>6

\* The initial state satisfies the inductive invariant.
LEMMA InitInv == Init => IInv
<1> SUFFICES ASSUME Init PROVE IInv
  OBVIOUS
<1>1. Processes
  BY StartedIsProcess DEF Init, Processes
<1>2. Queues
  BY EmptySeq DEF Init, Queues
<1>3. Numbers
  <2>1. NumWorkers \in Nat /\ NumWorkers - 1 \in Int /\ 0 \in Int
    BY WorkersAssumption
  <2>2. IsFiniteSet(0..(NumWorkers - 1))
    BY <2>1, FS_Interval
  <2> QED
    BY <2>1, <2>2 DEF Init, Numbers
<1>4. AnswersAsFresh
  <2>1. DOMAIN <<>> = {}
    OBVIOUS
  <2> QED
    BY <2>1 DEF Init, AnswersAsFresh
<1> QED
  BY <1>1, <1>2, <1>3, <1>4 DEF IInv

\* A task that is taken is a request.
LEMMA TakeInv == ASSUME NEW w \in WorkerIds, IInv, Take(w) PROVE IInv'
<1>1. tasks \in Seq(Requests \cup {None}) /\ tasks # <<>>
  BY DEF IInv, Queues, Take
<1>2. Head(tasks) \in Requests \cup {None} /\ Tail(tasks) \in Seq(Requests \cup {None})
  BY <1>1, HeadTailProperties
<1>3. Process(proc'[w])
  <2>1. proc'[w] = IF Head(tasks) = None THEN Gone
                   ELSE [proc[w] EXCEPT !.pc = "busy", !.task = Head(tasks)]
    BY DEF IInv, Processes, Take
  <2>2. CASE Head(tasks) = None
    BY <2>1, <2>2, StartedIsProcess
  <2>3. CASE Head(tasks) # None
    <3>1. Process(proc[w])
      BY DEF IInv, Processes
    <3>2. proc'[w] = [proc[w] EXCEPT !.pc = "busy", !.task = Head(tasks)]
      BY <2>1, <2>3
    <3>3. Head(tasks) \in Requests
      BY <1>2, <2>3
    <3>4. PICK p : p = proc[w]
      OBVIOUS
    <3>5. PICK q : q = proc'[w]
      OBVIOUS
    <3>6. q = [p EXCEPT !.pc = "busy", !.task = Head(tasks)]
      BY <3>2, <3>4, <3>5
    <3>7. p = [pc |-> p.pc, left |-> p.left, task |-> p.task, engine |-> p.engine, clean |-> p.clean]
      BY <3>1, <3>4 DEF Process
    <3>8. q = [pc |-> "busy", left |-> p.left, task |-> Head(tasks), engine |-> p.engine, clean |-> p.clean]
      BY <3>6, <3>7
    <3>9. Process(q)
      BY <3>1, <3>3, <3>4, <3>8 DEF Process
    <3> QED
      BY <3>5, <3>9
  <2> QED
    BY <2>2, <2>3
<1>4. Processes'
  <2>1. \A v \in WorkerIds : v # w => proc'[v] = proc[v]
    BY DEF IInv, Processes, Take
  <2>2. proc' = [v \in WorkerIds |-> proc'[v]]
    BY DEF IInv, Processes, Take
  <2> QED
    BY <1>3, <2>1, <2>2 DEF IInv, Processes
<1>5. results' = results /\ workers' = workers /\ seq' = seq /\ tasks' = Tail(tasks)
  BY DEF Take, pool
<1>6. Queues' /\ Numbers' /\ AnswersAsFresh'
  BY <1>2, <1>5 DEF IInv, Queues, Numbers, AnswersAsFresh
<1> QED
  BY <1>4, <1>6 DEF IInv

\* An evaluation that is served well by a process without a failure.
LEMMA ServeInv == ASSUME NEW w \in WorkerIds, IInv, Serve(w) PROVE IInv'
<1> DEFINE p == proc[w]
           l == LinkOf[p.task]
<1>1. Process(p) /\ p.pc = "busy" /\ p.task \in Requests /\ l \in Links
  BY WorkersAssumption DEF IInv, Processes, Process, Serve
<1>2. PICK fail : \E done \in {Evaluate(p.engine, l, fail)} :
             /\ results' = Append(results, [id |-> p.task, answer |-> done.answer,
                                            clean |-> p.clean /\ fail = NoFailure])
             /\ proc' = [proc EXCEPT ![w] =
                           IF p.left = 1 THEN Gone
                           ELSE [pc |-> "ready", left |-> p.left - 1, task |-> None,
                                 engine |-> done.engine, clean |-> p.clean /\ done.loaded]]
  BY DEF Serve
<1> DEFINE done == Evaluate(p.engine, l, fail)
           x == [id |-> p.task, answer |-> done.answer, clean |-> p.clean /\ fail = NoFailure]
           next == [pc |-> "ready", left |-> p.left - 1, task |-> None,
                    engine |-> done.engine, clean |-> p.clean /\ done.loaded]
<1>3. results' = Append(results, x) /\ proc' = [proc EXCEPT ![w] = IF p.left = 1 THEN Gone ELSE next]
  BY <1>2
<1>4. Process(next)
  <2>1. p.clean => Kept(p.engine)
    BY <1>1 DEF Process
  <2>2. p.clean /\ done.loaded => Kept(done.engine)
    BY <1>1, <2>1, EvaluateKeeps
  <2> HIDE DEF done
  <2>3. next.pc = "ready" /\ next.engine = done.engine /\ next.clean = (p.clean /\ done.loaded)
    OBVIOUS
  <2>4. next = [pc |-> next.pc, left |-> next.left, task |-> next.task,
                engine |-> next.engine, clean |-> next.clean]
    OBVIOUS
  <2> HIDE DEF next
  <2> QED
    BY <2>2, <2>3, <2>4 DEF Process
<1>5. GoodResult(x)
  <2>1. ASSUME p.clean, fail = NoFailure, Plain(l)
        PROVE  done.answer = FreshAnswer(l)
    <3>1. Kept(p.engine)
      BY <1>1, <2>1 DEF Process
    <3> QED
      BY <1>1, <2>1, <3>1, EvaluateAnswers
  <2> HIDE DEF done, p
  <2>2. x.id = p.task /\ x.answer = done.answer /\ x.clean = (p.clean /\ fail = NoFailure)
    OBVIOUS
  <2> HIDE DEF x
  <2> QED
    BY <2>1, <2>2 DEF GoodResult
<1> HIDE DEF x, next, done
<1>6. Processes'
  <2>1. proc'[w] = IF p.left = 1 THEN Gone ELSE next
    BY <1>3 DEF IInv, Processes
  <2>2. Process(proc'[w])
    BY <1>4, <2>1, StartedIsProcess
  <2>3. \A v \in WorkerIds : v # w => proc'[v] = proc[v]
    BY <1>3 DEF IInv, Processes
  <2>4. proc' = [v \in WorkerIds |-> proc'[v]]
    BY <1>3 DEF IInv, Processes
  <2> QED
    BY <2>2, <2>3, <2>4 DEF IInv, Processes
<1>7. results \in Seq(Range(results))
  BY DEF IInv, Queues
<1>8. PICK q : q = results'
  OBVIOUS
<1>9. /\ q \in Seq(Range(q))
      /\ \A i \in DOMAIN q : (i \in DOMAIN results /\ q[i] = results[i]) \/ q[i] = x
  <2>1. PICK s : s = results
    OBVIOUS
  <2>2. PICK y : y = x
    OBVIOUS
  <2>3. s \in Seq(Range(s)) /\ q = Append(s, y)
    BY <1>3, <1>7, <1>8, <2>1, <2>2
  <2>4. q \in Seq(Range(q))
    BY <2>3, AppendToResults
  <2>5. \A i \in DOMAIN q : (i \in DOMAIN s /\ q[i] = s[i]) \/ q[i] = y
    BY <2>3, AppendToResults
  <2> QED
    BY <2>1, <2>2, <2>4, <2>5
<1>10. \A i \in DOMAIN results : GoodResult(results[i])
  BY AnswersAreGood DEF IInv
<1>11. \A i \in DOMAIN q : GoodResult(q[i])
  BY <1>5, <1>9, <1>10
<1>12. AnswersAsFresh'
  BY <1>8, <1>11 DEF AnswersAsFresh, GoodResult, Plain
<1>13. tasks' = tasks /\ workers' = workers /\ seq' = seq
  BY DEF Serve, pool
<1>14. Queues' /\ Numbers'
  BY <1>8, <1>9, <1>13 DEF IInv, Queues, Numbers
<1> QED
  BY <1>6, <1>12, <1>14 DEF IInv

\* A crash leaves a place for a new process.
LEMMA CrashInv == ASSUME NEW w \in WorkerIds, IInv, Crash(w) PROVE IInv'
<1>1. proc' = [proc EXCEPT ![w] = Gone] /\ UNCHANGED <<tasks, results, workers, seq>>
  BY DEF Crash, queues, pool
<1>2. proc = [v \in WorkerIds |-> proc[v]] /\ \A v \in WorkerIds : Process(proc[v])
  BY DEF IInv, Processes
<1>3. proc' = [v \in WorkerIds |-> proc'[v]] /\ proc'[w] = Gone
      /\ \A v \in WorkerIds : v # w => proc'[v] = proc[v]
  BY <1>1, <1>2
<1>4. Processes'
  BY <1>2, <1>3, StartedIsProcess DEF Processes
<1> QED
  BY <1>1, <1>4 DEF IInv, Queues, Numbers, AnswersAsFresh

\* Processes that are started anew are as good as those they replace.
LEMMA ReapInv ==
  ASSUME IInv, ReapAndRespawn
  PROVE  Processes' /\ Numbers'
<1> DEFINE dead == {w \in workers : proc[w].pc = "gone"}
           new  == seq..(seq + Cardinality(dead) - 1)
<1>1. /\ workers' = (workers \ dead) \cup new
      /\ seq' = seq + Cardinality(dead)
      /\ proc' = [w \in WorkerIds |-> IF w \in new THEN Started ELSE proc[w]]
  BY DEF ReapAndRespawn
<1>2. IsFiniteSet(workers) /\ seq \in Nat
  BY DEF IInv, Numbers
<1>3. IsFiniteSet(dead) /\ Cardinality(dead) \in Nat
  BY <1>2, FS_Subset, FS_CardinalityType
<1>4. IsFiniteSet(new)
  BY <1>2, <1>3, FS_Interval
<1>5. IsFiniteSet(workers \ dead)
  BY <1>2, FS_Difference
<1> HIDE DEF dead, new
<1>6. IsFiniteSet(workers')
  BY <1>1, <1>4, <1>5, FS_Union
<1>7. Numbers'
  BY <1>1, <1>2, <1>3, <1>6 DEF Numbers
<1>8. \A w \in WorkerIds : Process(proc[w])
  BY DEF IInv, Processes
<1>9. \A w \in WorkerIds : Process(proc'[w])
  BY <1>1, <1>8, StartedIsProcess
<1>10. proc' = [w \in WorkerIds |-> proc'[w]]
  BY <1>1
<1> QED
  BY <1>7, <1>9, <1>10 DEF Processes

\* The caller's steps: the queues stay queues and no answer is made up.
LEMMA CallerInv ==
  ASSUME IInv,
         (\E r \in Requests : Submit(r)) \/ (\E blocking \in BOOLEAN : Collect(blocking))
           \/ CollectResult \/ CollectTimeout \/ Shutdown \/ ShutdownEnd
  PROVE  IInv'
<1>0. tasks \in Seq(Requests \cup {None}) /\ results \in Seq(Range(results))
  BY DEF IInv, Queues
<1>1. ASSUME NEW r \in Requests, Submit(r) PROVE IInv'
  <2>1. ReapAndRespawn /\ tasks' = Append(tasks, r) /\ results' = results
    BY <1>1 DEF Submit
  <2>2. Append(tasks, r) \in Seq(Requests \cup {None})
    BY <1>0, AppendProperties
  <2>3. Queues' /\ AnswersAsFresh'
    BY <1>0, <2>1, <2>2 DEF Queues, AnswersAsFresh, IInv
  <2> QED
    BY <2>1, <2>3, ReapInv DEF IInv
<1>2. ASSUME NEW blocking \in BOOLEAN, Collect(blocking) PROVE IInv'
  <2>1. ReapAndRespawn /\ tasks' = tasks /\ results' = results
    BY <1>2 DEF Collect, queues
  <2>2. Queues' /\ AnswersAsFresh'
    BY <1>0, <2>1 DEF Queues, AnswersAsFresh, IInv
  <2> QED
    BY <2>1, <2>2, ReapInv DEF IInv
<1>3. CASE CollectResult
  <2>1. results # <<>> /\ results' = Tail(results) /\ UNCHANGED <<tasks, workers, seq, proc>>
    BY <1>3 DEF CollectResult, pool
  <2>2. PICK q : q = results'
    OBVIOUS
  <2>3. q \in Seq(Range(q)) /\ \A i \in DOMAIN q : \E j \in DOMAIN results : q[i] = results[j]
    <3>1. PICK s : s = results
      OBVIOUS
    <3>2. s \in Seq(Range(s)) /\ s # <<>> /\ q = Tail(s)
      BY <1>0, <2>1, <2>2, <3>1
    <3>3. q \in Seq(Range(q))
      BY <3>2, TailOfResults
    <3>4. \A i \in DOMAIN q : \E j \in DOMAIN s : q[i] = s[j]
      BY <3>2, TailOfResults
    <3> QED
      BY <3>1, <3>3, <3>4
  <2>4. \A i \in DOMAIN results : GoodResult(results[i])
    BY AnswersAreGood DEF IInv
  <2>5. \A i \in DOMAIN q : GoodResult(q[i])
    BY <2>3, <2>4
  <2>6. AnswersAsFresh'
    BY <2>2, <2>5 DEF AnswersAsFresh, GoodResult, Plain
  <2>7. Queues'
    BY <1>0, <2>1, <2>2, <2>3 DEF Queues
  <2> QED
    BY <2>1, <2>6, <2>7 DEF IInv, Processes, Numbers
<1>4. CASE CollectTimeout
  BY <1>4 DEF CollectTimeout, queues, pool, IInv, Processes, Queues, Numbers, AnswersAsFresh
<1>5. CASE Shutdown
  <2>1. /\ tasks' = tasks \o [i \in 1..Cardinality(workers) |-> None]
        /\ UNCHANGED <<results, workers, seq, proc>>
    BY <1>5 DEF Shutdown, pool
  <2>2. Cardinality(workers) \in Nat
    BY FS_CardinalityType DEF IInv, Numbers
  <2>3. [i \in 1..Cardinality(workers) |-> None] \in Seq(Requests \cup {None})
    BY <2>2, SeqDef
  <2>4. tasks' \in Seq(Requests \cup {None})
    BY <1>0, <2>1, <2>3, ConcatProperties
  <2> QED
    BY <2>1, <2>4 DEF IInv, Processes, Queues, Numbers, AnswersAsFresh
<1>6. CASE ShutdownEnd
  <2>1. /\ proc' = [w \in WorkerIds |-> IF w \in workers THEN Gone ELSE proc[w]]
        /\ workers' = {} /\ UNCHANGED <<tasks, results, seq>>
    BY <1>6 DEF ShutdownEnd, queues
  <2>2. \A w \in WorkerIds : Process(proc[w])
    BY DEF IInv, Processes
  <2>3. \A w \in WorkerIds : Process(proc'[w])
    BY <2>1, <2>2, StartedIsProcess
  <2>4. Processes'
    BY <2>1, <2>3 DEF Processes
  <2>5. Numbers'
    BY <2>1, FS_EmptySet DEF IInv, Numbers
  <2> QED
    BY <2>1, <2>4, <2>5 DEF IInv, Queues, AnswersAsFresh
<1> QED
  BY <1>1, <1>2, <1>3, <1>4, <1>5, <1>6

\* Every step preserves the inductive invariant.
LEMMA NextInv == IInv /\ [Next]_vars => IInv'
<1> SUFFICES ASSUME IInv, [Next]_vars PROVE IInv'
  OBVIOUS
<1>1. CASE \E w \in WorkerIds : Take(w) \/ Serve(w) \/ Crash(w)
  BY <1>1, TakeInv, ServeInv, CrashInv
<1>2. CASE UNCHANGED vars
  BY <1>2 DEF vars, queues, pool, IInv, Processes, Queues, Numbers, AnswersAsFresh
<1> QED
  BY <1>1, <1>2, CallerInv DEF Next

\* A process that has failed no load answers as a new one would, whatever it
\* has evaluated before, with any number of processes, links, data sets and
\* tiles, and whichever processes crash and are replaced.
THEOREM AnswersStayFresh == Spec => []AnswersAsFresh
<1>1. IInv => AnswersAsFresh
  BY DEF IInv
<1> QED
  BY <1>1, InitInv, NextInv, PTL DEF Spec

=============================================================================
