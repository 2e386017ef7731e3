-------------------------- MODULE RegionFilesProofs --------------------------
(***************************************************************************)
(* Proofs about RegionFiles: the cache holds the files that were got last, *)
(* for any threads, processes, files and capacity; and, as long as one     *)
(* process uses the directory (OneProcess; FilesTwoProcs shows that it     *)
(* fails without), no entry is lost and every mapped file is whole.        *)
(***************************************************************************)
EXTENDS RegionFiles, NumberLemmas, SequenceTheorems, TLAPS

(* All threads belong to one process, and so share one lock and one cache. *)
OneProcess == \A t, u \in Threads : ProcOf[t] = ProcOf[u]

-----------------------------------------------------------------------------
(* The sequences of the cache.                                             *)

NoRepeats(s) == \A i, j \in 1..Len(s) : s[i] = s[j] => i = j

\* l holds the last Capacity elements of r.
LastOf(l, r) ==
    /\ Len(l) = IF Len(r) > Capacity THEN Capacity ELSE Len(r)
    /\ \A i \in 1..Len(l) : l[i] = r[Len(r) - Len(l) + i]

(* What RemoveAt leaves: the elements behind the position move up by one.  *)
LEMMA RemoveAtFacts ==
    ASSUME NEW K, NEW s \in Seq(K), NEW i \in 1..Len(s)
    PROVE  /\ RemoveAt(s, i) \in Seq(K)
           /\ Len(RemoveAt(s, i)) = Len(s) - 1
           /\ \A x \in 1..(Len(s) - 1) : RemoveAt(s, i)[x] = IF x < i THEN s[x] ELSE s[x + 1]
<1>len. Len(s) \in Nat
  BY LenProperties
<1>in. \A x \in 1..Len(s) : s[x] \in K
  BY ElementOfSeq
<1> DEFINE a == SubSeq(s, 1, i - 1)
           b == SubSeq(s, i + 1, Len(s))
<1>1. a \in Seq(K) /\ Len(a) = i - 1 /\ \A x \in 1..(i - 1) : a[x] = s[x]
  <2>1. \A x \in 1..(i - 1) : s[x] \in K
    BY <1>in, <1>len
  <2>2. /\ a \in Seq(K)
        /\ Len(a) = IF 1 <= i - 1 THEN (i - 1) - 1 + 1 ELSE 0
        /\ \A x \in 1..((i - 1) - 1 + 1) : a[x] = s[1 + x - 1]
    BY <2>1, <1>len, SubSeqProperties
  <2>3. \A x \in 1..(i - 1) : 1 + x - 1 = x
    OBVIOUS
  <2> HIDE DEF a
  <2> QED
    BY <2>2, <2>3, <1>len
<1>2. b \in Seq(K) /\ Len(b) = Len(s) - i /\ \A x \in 1..(Len(s) - i) : b[x] = s[i + x]
  <2>1. \A x \in (i + 1)..Len(s) : s[x] \in K
    BY <1>in, <1>len
  <2>2. /\ b \in Seq(K)
        /\ Len(b) = IF i + 1 <= Len(s) THEN Len(s) - (i + 1) + 1 ELSE 0
        /\ \A x \in 1..(Len(s) - (i + 1) + 1) : b[x] = s[(i + 1) + x - 1]
    BY <2>1, <1>len, SubSeqProperties
  <2>3. \A x \in 1..(Len(s) - i) : (i + 1) + x - 1 = i + x
    BY <1>len
  <2> HIDE DEF b
  <2> QED
    BY <2>2, <2>3, <1>len
<1> HIDE DEF a, b
<1>3. /\ a \o b \in Seq(K)
      /\ Len(a \o b) = Len(a) + Len(b)
      /\ \A x \in 1..(Len(a) + Len(b)) : (a \o b)[x] = IF x <= Len(a) THEN a[x] ELSE b[x - Len(a)]
  BY <1>1, <1>2, ConcatProperties
<1>4. RemoveAt(s, i) = a \o b
  BY DEF RemoveAt, a, b
<1>5. ASSUME NEW x \in 1..(Len(s) - 1)
      PROVE  (a \o b)[x] = IF x < i THEN s[x] ELSE s[x + 1]
  <2>1. x < i => x \in 1..(i - 1) /\ x <= Len(a)
    BY <1>1, <1>len
  <2>2. ~ x < i => x - Len(a) \in 1..(Len(s) - i) /\ i + (x - Len(a)) = x + 1 /\ ~ x <= Len(a)
    BY <1>1, <1>len
  <2>3. x \in 1..(Len(a) + Len(b))
    BY <1>1, <1>2, <1>len
  <2> QED
    BY <1>1, <1>2, <1>3, <2>1, <2>2, <2>3
<1>6. Len(a \o b) = Len(s) - 1
  BY <1>1, <1>2, <1>3, <1>len
<1> QED
  BY <1>3, <1>4, <1>5, <1>6

(* A key that occurs once is removed from where it is.                     *)
LEMMA WithoutOne ==
    ASSUME NEW K, NEW s \in Seq(K), NoRepeats(s), NEW i \in 1..Len(s)
    PROVE  Without(s, s[i]) = RemoveAt(s, i)
<1>1. Contains(s, s[i])
  BY DEF Contains
<1>2. \A j \in 1..Len(s) : s[j] = s[i] => j = i
  BY DEF NoRepeats
<1>3. (CHOOSE j \in 1..Len(s) : s[j] = s[i]) = i
  BY <1>2
<1> QED
  BY <1>1, <1>3 DEF Without

(* Removing a key yields a sequence that is not longer, and shorter if the *)
(* key is in it.                                                           *)
LEMMA WithoutType ==
    ASSUME NEW K, NEW s \in Seq(K), NEW k
    PROVE  /\ Without(s, k) \in Seq(K)
           /\ Len(Without(s, k)) \in Nat
           /\ Len(Without(s, k)) <= Len(s)
           /\ Contains(s, k) => Len(Without(s, k)) = Len(s) - 1
<1>len. Len(s) \in Nat
  BY LenProperties
<1>1. CASE Contains(s, k)
  <2>1. PICK i \in 1..Len(s) : i = CHOOSE j \in 1..Len(s) : s[j] = k
    BY <1>1 DEF Contains
  <2>2. Without(s, k) = RemoveAt(s, i)
    BY <1>1, <2>1 DEF Without
  <2> QED
    BY <2>2, RemoveAtFacts, <1>len
<1>2. CASE ~ Contains(s, k)
  BY <1>2, <1>len DEF Without
<1> QED
  BY <1>1, <1>2

(* Getting a key again, or for the first time, repeats none.               *)
LEMMA GotNoRepeats ==
    ASSUME NEW K, NEW s \in Seq(K), NoRepeats(s), NEW k \in K
    PROVE  /\ NoRepeats(Append(Without(s, k), k))
           /\ Append(Without(s, k), k) \in Seq(K)
<1>len. Len(s) \in Nat
  BY LenProperties
<1>1. PICK w : w = Without(s, k)
  OBVIOUS
<1>2. w \in Seq(K) /\ Len(w) \in Nat
  BY <1>1, WithoutType
<1>3. NoRepeats(w) /\ \A x \in 1..Len(w) : w[x] # k
  <2>1. CASE Contains(s, k)
    <3>1. PICK i \in 1..Len(s) : s[i] = k
      BY <2>1 DEF Contains
    <3>2. w = RemoveAt(s, i)
      BY <3>1, <1>1, WithoutOne
    <3>3. Len(w) = Len(s) - 1 /\ \A x \in 1..(Len(s) - 1) : w[x] = IF x < i THEN s[x] ELSE s[x + 1]
      BY <3>2, RemoveAtFacts
    <3>4. \A x \in 1..Len(w) : x \in 1..Len(s) /\ x + 1 \in 1..Len(s)
      BY <3>3, <1>len
    <3>5. \A x \in 1..Len(w) : w[x] # k
      BY <3>1, <3>3, <3>4, <1>len DEF NoRepeats
    <3>6. NoRepeats(w)
      BY <3>1, <3>3, <3>4, <1>len DEF NoRepeats
    <3> QED
      BY <3>5, <3>6
  <2>2. CASE ~ Contains(s, k)
    <3>1. w = s
      BY <2>2, <1>1 DEF Without
    <3> QED
      BY <3>1, <2>2 DEF Contains
  <2> QED
    BY <2>1, <2>2
<1>4. PICK z : z = Append(w, k)
  OBVIOUS
<1>5. /\ z \in Seq(K) /\ Len(z) = Len(w) + 1
      /\ \A x \in 1..Len(w) : z[x] = w[x]
      /\ z[Len(w) + 1] = k
  BY <1>2, <1>4, AppendProperties
<1>6. \A x \in 1..Len(z) : x \in 1..Len(w) \/ x = Len(w) + 1
  BY <1>2, <1>5
<1>7. NoRepeats(z)
  BY <1>3, <1>5, <1>6 DEF NoRepeats
<1> QED
  BY <1>1, <1>4, <1>5, <1>7

(* The lengths, and the place of an element, when l is the end of r.       *)
LEMMA LastOfFacts ==
    ASSUME NEW K, NEW l \in Seq(K), NEW r \in Seq(K), LastOf(l, r)
    PROVE  /\ Len(l) \in Nat /\ Len(r) \in Nat
           /\ Len(l) <= Len(r) /\ Len(l) <= Capacity
           /\ Len(l) < Capacity => Len(l) = Len(r)
           /\ Len(r) - Len(l) \in Nat
           /\ \A x \in 1..Len(l) : /\ (Len(r) - Len(l)) + x \in 1..Len(r)
                                   /\ l[x] = r[(Len(r) - Len(l)) + x]
<1>len. Len(l) \in Nat /\ Len(r) \in Nat
  BY LenProperties
<1>cap. Capacity \in Nat
  BY RegionFilesAssumption
<1>1. PICK m \in Nat, n \in Nat, c \in Nat : m = Len(l) /\ n = Len(r) /\ c = Capacity
  BY <1>len, <1>cap
<1>2. m = IF n > c THEN c ELSE n
  BY <1>1 DEF LastOf
<1>3. m <= n /\ m <= c /\ (m < c => m = n) /\ n - m \in Nat
  BY <1>2
<1>4. \A x \in 1..m : (n - m) + x \in 1..n
  BY <1>3
<1>5. \A x \in 1..m : l[x] = r[(n - m) + x]
  BY <1>1 DEF LastOf
<1> QED
  BY <1>1, <1>3, <1>4, <1>5

(* A hit keeps the cache the end of the keys got.                          *)
LEMMA HitKeepsLast ==
    ASSUME NEW K, NEW l \in Seq(K), NEW r \in Seq(K), LastOf(l, r), NoRepeats(r),
           NEW k \in K, Contains(l, k)
    PROVE  /\ LastOf(Relocate(l, k), Append(Without(r, k), k))
           /\ Relocate(l, k) \in Seq(K)
<1>len. Len(l) \in Nat /\ Len(r) \in Nat /\ Capacity \in Nat \ {0}
  BY LenProperties, RegionFilesAssumption
<1>1. PICK i \in 1..Len(l) : l[i] = k
  BY DEF Contains
<1>2. PICK d \in Nat : d = Len(r) - Len(l)
  BY LastOfFacts
<1>3. d + i \in 1..Len(r) /\ r[d + i] = k
  BY <1>1, <1>2, LastOfFacts
<1>at. \A x \in 1..Len(l) : d + x \in 1..Len(r) /\ l[x] = r[d + x]
  BY <1>2, LastOfFacts
<1>4. NoRepeats(l)
  <2> SUFFICES ASSUME NEW x \in 1..Len(l), NEW y \in 1..Len(l), l[x] = l[y]
               PROVE  x = y
    BY DEF NoRepeats
  <2>1. d + x = d + y
    BY <1>at DEF NoRepeats
  <2> QED
    BY <2>1
<1>5. PICK wl, wr : wl = Without(l, k) /\ wr = Without(r, k)
  OBVIOUS
<1>6. wl = RemoveAt(l, i) /\ wr = RemoveAt(r, d + i)
  BY <1>1, <1>3, <1>4, <1>5, WithoutOne
<1>7. /\ wl \in Seq(K) /\ Len(wl) = Len(l) - 1
      /\ \A x \in 1..(Len(l) - 1) : wl[x] = IF x < i THEN l[x] ELSE l[x + 1]
  BY <1>6, RemoveAtFacts
<1>8. /\ wr \in Seq(K) /\ Len(wr) = Len(r) - 1
      /\ \A x \in 1..(Len(r) - 1) : wr[x] = IF x < d + i THEN r[x] ELSE r[x + 1]
  BY <1>3, <1>6, RemoveAtFacts
<1>9. PICK zl, zr : zl = Append(wl, k) /\ zr = Append(wr, k)
  OBVIOUS
<1>10. /\ zl \in Seq(K) /\ Len(zl) = Len(l) /\ zl[Len(l)] = k
       /\ \A x \in 1..(Len(l) - 1) : zl[x] = wl[x]
  BY <1>7, <1>9, <1>len, AppendProperties
<1>11. /\ Len(zr) = Len(r) /\ zr[Len(r)] = k
       /\ \A x \in 1..(Len(r) - 1) : zr[x] = wr[x]
  BY <1>8, <1>9, <1>len, AppendProperties
<1>12. ASSUME NEW x \in 1..Len(l)
       PROVE  zl[x] = zr[d + x]
  <2>1. CASE x = Len(l)
    BY <2>1, <1>2, <1>10, <1>11, <1>len
  <2>2. CASE x # Len(l)
    <3>1. x \in 1..(Len(l) - 1) /\ d + x \in 1..(Len(r) - 1) /\ x + 1 \in 1..Len(l)
      BY <2>2, <1>2, <1>len
    <3>2. PICK y \in 1..Len(l) : y = x + 1
      BY <3>1
    <3>4. l[x] = r[d + x] /\ l[y] = r[d + y]
      BY <1>at
    <3>5. d + y = (d + x) + 1
      BY <3>2, <1>2
    <3>3. x < i <=> d + x < d + i
      OBVIOUS
    <3> QED
      BY <3>1, <3>2, <3>3, <3>4, <3>5, <1>7, <1>8, <1>10, <1>11
  <2> QED
    BY <2>1, <2>2
<1>13. LastOf(zl, zr)
  <2>1. \A x \in 1..Len(zl) : zl[x] = zr[Len(zr) - Len(zl) + x]
    BY <1>2, <1>10, <1>11, <1>12
  <2>2. Len(zl) = IF Len(zr) > Capacity THEN Capacity ELSE Len(zr)
    BY <1>10, <1>11 DEF LastOf
  <2> QED
    BY <2>1, <2>2 DEF LastOf
<1> QED
  BY <1>5, <1>9, <1>10, <1>13 DEF Relocate

(* A miss keeps the cache the end of the keys got, too: the key it drops   *)
(* is the one that leaves the last Capacity.                               *)
LEMMA MissKeepsLast ==
    ASSUME NEW K, NEW l \in Seq(K), NEW r \in Seq(K), LastOf(l, r), NoRepeats(r),
           NEW k \in K, ~ Contains(l, k)
    PROVE  /\ LastOf(Insert(l, k), Append(Without(r, k), k))
           /\ Insert(l, k) \in Seq(K)
<1>len. Len(l) \in Nat /\ Len(r) \in Nat /\ Capacity \in Nat \ {0}
  BY LenProperties, RegionFilesAssumption
<1>1. PICK c \in Nat : c = Capacity /\ c > 0
  BY <1>len
<1>2. PICK d \in Nat : d = Len(r) - Len(l)
  BY LastOfFacts
<1>at. \A x \in 1..Len(l) : d + x \in 1..Len(r) /\ l[x] = r[d + x]
  BY <1>2, LastOfFacts
<1>3. PICK h : h = IF Len(l) >= c THEN Tail(l) ELSE l
  OBVIOUS
<1>4. PICK o \in {0, 1} : o = IF Len(l) >= c THEN 1 ELSE 0
  OBVIOUS
<1>5. h \in Seq(K) /\ Len(h) = Len(l) - o /\ \A x \in 1..Len(h) : h[x] = l[o + x]
  <2>1. CASE Len(l) >= c
    <3>1. l # <<>>
      BY <2>1, <1>1, EmptySeq
    <3>2. Tail(l) \in Seq(K) /\ Len(Tail(l)) = Len(l) - 1 /\ \A x \in 1..Len(Tail(l)) : Tail(l)[x] = l[x + 1]
      BY <3>1, HeadTailProperties
    <3>3. \A x \in 1..Len(Tail(l)) : x + 1 = 1 + x
      BY <3>2, <1>len
    <3> QED
      BY <2>1, <3>2, <3>3, <1>3, <1>4
  <2>2. CASE ~ Len(l) >= c
    BY <2>2, <1>3, <1>4, <1>len
  <2> QED
    BY <2>1, <2>2
<1>6. PICK w : w = Without(r, k)
  OBVIOUS
<1>7. PICK q \in {0, 1} : q = IF Contains(r, k) THEN 1 ELSE 0
  OBVIOUS
<1>8. w \in Seq(K) /\ Len(w) = Len(r) - q
  BY <1>6, <1>7, <1>len, WithoutType DEF Without
\* Where the removed key was is in front of what the cache holds.
<1>9. \A x \in 1..Len(l) : d + x - q \in 1..Len(w) /\ w[d + x - q] = l[x]
  <2>1. CASE Contains(r, k)
    <3>1. PICK j \in 1..Len(r) : r[j] = k
      BY <2>1 DEF Contains
    <3>2. j <= d
      <4> SUFFICES ASSUME ~ j <= d
                   PROVE  FALSE
        OBVIOUS
      <4>1. j - d \in 1..Len(l) /\ d + (j - d) = j
        BY <1>2, <1>len
      <4>2. l[j - d] = k
        BY <4>1, <3>1, <1>at
      <4> QED
        BY <4>1, <4>2 DEF Contains
    <3>3. w = RemoveAt(r, j)
      BY <3>1, <1>6, WithoutOne
    <3>4. Len(w) = Len(r) - 1 /\ \A x \in 1..(Len(r) - 1) : w[x] = IF x < j THEN r[x] ELSE r[x + 1]
      BY <3>3, RemoveAtFacts
    <3>5. ASSUME NEW x \in 1..Len(l)
          PROVE  d + x - 1 \in 1..Len(w) /\ w[d + x - 1] = l[x]
      <4>1. d + x - 1 \in 1..(Len(r) - 1) /\ ~ d + x - 1 < j /\ (d + x - 1) + 1 = d + x
        BY <3>2, <1>2, <1>len
      <4> QED
        BY <4>1, <3>4, <1>at
    <3> QED
      BY <2>1, <3>5, <1>7
  <2>2. CASE ~ Contains(r, k)
    <3>1. w = r /\ q = 0
      BY <2>2, <1>6, <1>7 DEF Without
    <3>2. \A x \in 1..Len(l) : d + x - 0 = d + x
      BY <1>2
    <3> QED
      BY <3>1, <3>2, <1>at
  <2> QED
    BY <2>1, <2>2
<1>10. PICK zl, zr : zl = Append(h, k) /\ zr = Append(w, k)
  OBVIOUS
<1>11. /\ zl \in Seq(K) /\ Len(zl) = Len(h) + 1 /\ zl[Len(h) + 1] = k
       /\ \A x \in 1..Len(h) : zl[x] = h[x]
  BY <1>5, <1>10, AppendProperties
<1>12. /\ Len(zr) = Len(w) + 1 /\ zr[Len(w) + 1] = k
       /\ \A x \in 1..Len(w) : zr[x] = w[x]
  BY <1>8, <1>10, AppendProperties
<1>13. Len(l) <= c /\ (Len(l) < c => d = 0) /\ Len(l) + d = Len(r)
  BY <1>1, <1>2, <1>len, LastOfFacts
\* A key that is not in a cache with room has never been got.
<1>14. Len(l) < c => q = 0
  <2> SUFFICES ASSUME Len(l) < c, Contains(r, k)
               PROVE  FALSE
    BY <1>7
  <2>1. PICK j \in 1..Len(r) : r[j] = k
    BY DEF Contains
  <2>2. j \in 1..Len(l) /\ d + j = j
    BY <1>13, <1>len
  <2> QED
    BY <2>1, <2>2, <1>at DEF Contains
<1>15. Len(zl) = IF Len(zr) > c THEN c ELSE Len(zr)
  <2>1. Len(zl) = (Len(l) - o) + 1 /\ Len(zr) = ((Len(l) + d) - q) + 1
    BY <1>5, <1>8, <1>11, <1>12, <1>13
  <2>2. CASE Len(l) < c
    <3>1. o = 0 /\ q = 0 /\ d = 0
      BY <2>2, <1>4, <1>13, <1>14, <1>len
    <3>2. Len(zl) = Len(l) + 1 /\ Len(zr) = Len(l) + 1 /\ ~ Len(l) + 1 > c
      BY <3>1, <2>1, <2>2, <1>len
    <3> QED
      BY <3>2
  <2>3. CASE ~ Len(l) < c
    <3>1. Len(l) = c /\ o = 1
      BY <2>3, <1>4, <1>13, <1>len
    <3>2. q <= d
      <4>1. CASE q = 1
        <5>1. PICK j \in 1..Len(r) : r[j] = k
          BY <4>1, <1>7 DEF Contains
        <5>2. CASE d = 0
          <6>1. j \in 1..Len(l) /\ d + j = j
            BY <5>2, <1>13, <1>len
          <6> QED
            BY <6>1, <5>1, <1>at DEF Contains
        <5> QED
          BY <5>2
      <4> QED
        BY <4>1
    <3> QED
      BY <2>1, <3>1, <3>2, <1>len
  <2> QED
    BY <2>2, <2>3
<1>16. ASSUME NEW x \in 1..Len(zl)
       PROVE  zl[x] = zr[Len(zr) - Len(zl) + x]
  <2>1. Len(zr) - Len(zl) = d + o - q
    <3>1. Len(zl) = (Len(l) - o) + 1 /\ Len(zr) = ((Len(l) + d) - q) + 1
      BY <1>5, <1>8, <1>11, <1>12, <1>13
    <3> QED
      BY <3>1, <1>len
  <2>2. CASE x = Len(h) + 1
    <3>1. Len(zr) - Len(zl) + x = Len(w) + 1
      BY <2>2, <1>11, <1>12, <1>5, <1>8, <1>len
    <3> QED
      BY <3>1, <2>2, <1>11, <1>12
  <2>3. CASE x # Len(h) + 1
    <3>1. x \in 1..Len(h) /\ o + x \in 1..Len(l)
      BY <2>3, <1>11, <1>5, <1>4, <1>len
    <3>2. zl[x] = l[o + x]
      BY <3>1, <1>11, <1>5
    <3>3. d + (o + x) - q \in 1..Len(w) /\ w[d + (o + x) - q] = l[o + x]
      BY <3>1, <1>9
    <3>4. Len(zr) - Len(zl) + x = d + (o + x) - q
      BY <2>1, <3>1, <1>2, <1>len
    <3> QED
      BY <3>2, <3>3, <3>4, <1>12
  <2> QED
    BY <2>2, <2>3
<1>17. LastOf(zl, zr)
  BY <1>1, <1>15, <1>16 DEF LastOf
<1> QED
  BY <1>1, <1>3, <1>6, <1>10, <1>11, <1>17 DEF Insert

(* The cache is the subsequence that the property names.                   *)
LEMMA LastIsSubSeq ==
    ASSUME NEW K, NEW l \in Seq(K), NEW r \in Seq(K), LastOf(l, r)
    PROVE  l = SubSeq(r, IF Len(r) > Capacity THEN Len(r) - Capacity + 1 ELSE 1, Len(r))
<1>len. Len(l) \in Nat /\ Len(r) \in Nat /\ Capacity \in Nat \ {0}
  BY LenProperties, RegionFilesAssumption
<1>2. PICK n \in Nat, c \in Nat : n = Len(r) /\ c = Capacity /\ c > 0
  BY <1>len
<1>1. PICK m \in 1..(n + 1) : m = IF n > c THEN n - c + 1 ELSE 1
  <2>1. CASE n > c
    BY <2>1
  <2>2. CASE ~ n > c
    BY <2>2
  <2> QED
    BY <2>1, <2>2
<1>3. \A x \in m..n : r[x] \in K
  BY <1>1, <1>2, <1>len, ElementOfSeq
<1>4. PICK z : z = SubSeq(r, m, n)
  OBVIOUS
<1>5. /\ z \in Seq(K) /\ Len(z) = IF m <= n THEN n - m + 1 ELSE 0
      /\ \A x \in 1..(n - m + 1) : z[x] = r[m + x - 1]
  <2>1. m \in Int /\ n \in Int
    BY <1>1, <1>2
  <2> QED
    BY <2>1, <1>3, <1>4, SubSeqProperties
<1>6. Len(l) = Len(z) /\ Len(l) = n - m + 1
  <2>1. Len(l) = IF n > c THEN c ELSE n
    BY <1>2 DEF LastOf
  <2>2. CASE n > c
    BY <2>1, <2>2, <1>1, <1>5
  <2>3. CASE ~ n > c
    BY <2>1, <2>3, <1>1, <1>5
  <2> QED
    BY <2>2, <2>3
<1>7. ASSUME NEW x \in 1..Len(l)
      PROVE  l[x] = z[x]
  <2>1. x \in 1..(n - m + 1) /\ m + x - 1 = Len(r) - Len(l) + x
    BY <1>1, <1>2, <1>6, <1>len
  <2> QED
    BY <2>1, <1>5 DEF LastOf
<1>8. l = z
  BY <1>5, <1>6, <1>7, SeqEqual
<1> QED
  BY <1>1, <1>2, <1>4, <1>8

-----------------------------------------------------------------------------
(* The invariant of the lock and the cache.                                *)

Holding == {"lookup", "make_file", "exists", "touch", "file_size", "resize", "map"}
Making  == {"make_file", "exists", "touch", "file_size", "resize", "map"}

\* The flag is set while a thread is behind it, and only one of a process is.
MutexInv ==
    \A t \in Threads : at[t] \in Holding =>
        /\ lock[ProcOf[t]]
        /\ \A u \in Threads : ProcOf[u] = ProcOf[t] /\ at[u] \in Holding => u = t

\* A thread that makes a region makes one that is not cached, and the cache
\* is the end of the keys got.
CacheInv ==
    /\ \A t \in Threads : at[t] # "idle" => key[t] \in Keys /\ gets[t] # 0
    /\ \A t \in Threads : at[t] \in Making => ~ Contains(lru[ProcOf[t]], key[t])
    /\ \A p \in Procs : NoRepeats(recent[p]) /\ LastOf(lru[p], recent[p])

\* Files do not disappear: what is being made, mapped or cached is there.
PresentInv ==
    /\ \A t \in Threads : at[t] \in {"file_size", "resize", "map", "mapped"} => key[t] \in DOMAIN file
    /\ \A p \in Procs : \A k \in Keys : Contains(lru[p], k) => k \in DOMAIN file

RegionInv == RegionFilesTypeOK /\ MutexInv /\ CacheInv /\ PresentInv

LEMMA InitRegionInv == Init => RegionInv
<1> SUFFICES ASSUME Init
             PROVE  RegionInv
  OBVIOUS
<1> USE RegionFilesAssumption
<1>e. <<>> \in Seq(Keys) /\ Len(<<>>) = 0
  BY EmptySeq
<1>1. RegionFilesTypeOK
  <2>1. DOMAIN file \subseteq Keys /\ \A k \in DOMAIN file : file[k] \in Files
    BY DEF Init
  <2>2. lru \in [Procs -> Seq(Keys)] /\ \A p \in Procs : Len(lru[p]) <= Capacity
    BY <1>e DEF Init
  <2>3. /\ lock \in [Procs -> BOOLEAN] /\ at \in [Threads -> Places]
        /\ key \in [Threads -> Keys \cup {NoKey}] /\ append \in [Threads -> BOOLEAN]
        /\ gets \in [Threads -> 0..MaxGets]
    BY DEF Init, Places
  <2>4. stored \subseteq Keys \X Entries /\ recent \in [Procs -> Seq(Keys)]
    BY <1>e DEF Init
  <2> QED
    BY <2>1, <2>2, <2>3, <2>4 DEF RegionFilesTypeOK
<1>2. MutexInv
  BY DEF Init, MutexInv, Holding
<1>3. CacheInv
  <2>1. \A p \in Procs : NoRepeats(recent[p]) /\ LastOf(lru[p], recent[p])
    BY <1>e DEF Init, NoRepeats, LastOf
  <2> QED
    BY <2>1 DEF Init, CacheInv, Making
<1>4. PresentInv
  BY <1>e DEF Init, PresentInv, Contains
<1> QED
  BY <1>1, <1>2, <1>3, <1>4 DEF RegionInv

(* What a file is after the steps that write it.                           *)
LEMMA ResizedFile ==
    ASSUME NEW f \in Files
    PROVE  /\ [i \in 1..FileSize |-> IF i <= Len(f) THEN f[i] ELSE Zero] \in Files
           /\ Len([i \in 1..FileSize |-> IF i <= Len(f) THEN f[i] ELSE Zero]) = FileSize
<1>1. FileSize \in Nat
  BY RegionFilesAssumption
<1>2. PICK n \in {0, FileSize} : f \in [1..n -> Entries \cup {Zero}]
  BY DEF Files
<1>3. Len(f) = n
  BY <1>1, <1>2
<1>4. [i \in 1..FileSize |-> IF i <= Len(f) THEN f[i] ELSE Zero] \in [1..FileSize -> Entries \cup {Zero}]
  <2> SUFFICES ASSUME NEW i \in 1..FileSize
               PROVE  (IF i <= Len(f) THEN f[i] ELSE Zero) \in Entries \cup {Zero}
    OBVIOUS
  <2>1. CASE i <= Len(f)
    <3>1. i \in 1..n
      BY <2>1, <1>1, <1>3
    <3> QED
      BY <3>1, <2>1, <1>2
  <2>2. CASE ~ i <= Len(f)
    BY <2>2
  <2> QED
    BY <2>1, <2>2
<1> QED
  BY <1>1, <1>4 DEF Files

(* The length of a file, and its cells.                                    *)
LEMMA FileFacts ==
    ASSUME NEW f \in Files
    PROVE  /\ Len(f) \in {0, FileSize} /\ Len(f) \in Nat
           /\ f \in [1..Len(f) -> Entries \cup {Zero}] /\ DOMAIN f = 1..Len(f)
<1>1. FileSize \in Nat
  BY RegionFilesAssumption
<1>2. PICK n \in {0, FileSize} : f \in [1..n -> Entries \cup {Zero}]
  BY DEF Files
<1>3. Len(f) = n
  BY <1>1, <1>2
<1> QED
  BY <1>1, <1>2, <1>3

(* The mutual exclusion of the lock is kept: a step of t changes where t is *)
(* and, when it enters or leaves, the flag of its process.                 *)
LEMMA MutexStep ==
    ASSUME RegionInv, [Next]_vars
    PROVE  MutexInv'
<1> USE RegionFilesAssumption
<1>t. /\ at \in [Threads -> Places] /\ lock \in [Procs -> BOOLEAN]
      /\ MutexInv /\ \A t \in Threads : ProcOf[t] \in Procs
  BY DEF RegionInv, RegionFilesTypeOK
\* A thread that stays where the lock has it.
<1>stay. ASSUME NEW t \in Threads, NEW place, at[t] \in Holding \/ place \notin Holding,
                Goto(t, place), UNCHANGED lock
         PROVE  MutexInv'
  <2>1. \A u \in Threads : at'[u] = IF u = t THEN place ELSE at[u]
    BY <1>t, <1>stay DEF Goto
  <2>2. \A u \in Threads : at'[u] \in Holding => at[u] \in Holding
    BY <2>1, <1>stay
  <2> QED
    BY <2>2, <1>t, <1>stay DEF MutexInv
\* A thread that had the lock unlocks it and is outside.
<1>leave. ASSUME NEW t \in Threads, NEW place, at[t] \in Holding, place \notin Holding,
                 Goto(t, place), lock' = [lock EXCEPT ![ProcOf[t]] = FALSE]
          PROVE  MutexInv'
  <2>1. \A u \in Threads : at'[u] = IF u = t THEN place ELSE at[u]
    BY <1>t, <1>leave DEF Goto
  <2>2. \A u \in Threads : at'[u] \in Holding => at[u] \in Holding /\ u # t
    BY <2>1, <1>leave
  <2>3. \A u \in Threads : at'[u] \in Holding => ProcOf[u] # ProcOf[t]
    BY <2>2, <1>t, <1>leave DEF MutexInv
  <2>4. \A u \in Threads : at'[u] \in Holding => lock'[ProcOf[u]] = lock[ProcOf[u]]
    BY <2>3, <1>t, <1>leave
  <2> QED
    BY <2>2, <2>4, <1>t DEF MutexInv
<1>1. ASSUME NEW t \in Threads, NEW k \in Keys, NEW w \in BOOLEAN, Get(t, k, w)
      PROVE  MutexInv'
  <2>1. Goto(t, "lock") /\ UNCHANGED lock /\ "lock" \notin Holding
    BY <1>1 DEF Get, Holding
  <2> QED
    BY <2>1, <1>stay
<1>2. ASSUME NEW t \in Threads, Lock(t)
      PROVE  MutexInv'
  <2>1. \A u \in Threads : at'[u] = IF u = t THEN "lookup" ELSE at[u]
    BY <1>2, <1>t DEF Lock, Goto
  <2>2. \A p \in Procs : lock'[p] = IF p = ProcOf[t] THEN TRUE ELSE lock[p]
    BY <1>2, <1>t DEF Lock
  <2>3. \A u \in Threads : ProcOf[u] = ProcOf[t] => at[u] \notin Holding
    BY <1>2, <1>t DEF Lock, MutexInv
  <2> QED
    BY <2>1, <2>2, <2>3, <1>t DEF MutexInv
<1>3. ASSUME NEW t \in Threads, Hit(t) \/ Map(t)
      PROVE  MutexInv'
  <2>1. /\ at[t] \in Holding /\ "mapped" \notin Holding /\ Goto(t, "mapped")
        /\ lock' = [lock EXCEPT ![ProcOf[t]] = FALSE]
    BY <1>3 DEF Hit, Map, Yields, Holding
  <2> QED
    BY <2>1, <1>leave
<1>4. ASSUME NEW t \in Threads, NoSuchFile(t) \/ TouchThrows(t)
      PROVE  MutexInv'
  <2>1. /\ at[t] \in Holding /\ "idle" \notin Holding /\ Goto(t, "idle")
        /\ lock' = [lock EXCEPT ![ProcOf[t]] = FALSE]
    BY <1>4 DEF NoSuchFile, TouchThrows, Fails, Holding
  <2> QED
    BY <2>1, <1>leave
<1>5. ASSUME NEW t \in Threads,
             Miss(t) \/ MakeFile(t) \/ Exists(t) \/ Touch(t) \/ CheckSize(t) \/ Resize(t)
      PROVE  MutexInv'
  <2>1. at[t] \in Holding /\ UNCHANGED lock
    BY <1>5 DEF Miss, MakeFile, Exists, Touch, CheckSize, Resize, Holding
  <2>2. \E place \in Places : Goto(t, place)
    BY <1>5 DEF Miss, MakeFile, Exists, Touch, CheckSize, Resize, Places
  <2> QED
    BY <2>1, <2>2, <1>stay
<1>6. ASSUME NEW t \in Threads, Use(t)
      PROVE  MutexInv'
  <2>1. Goto(t, "idle") /\ UNCHANGED lock /\ "idle" \notin Holding
    BY <1>6 DEF Use, Holding
  <2> QED
    BY <2>1, <1>stay
<1>7. ASSUME NEW p \in Procs, Crash(p)
      PROVE  MutexInv'
  <2>1. \A u \in Threads : at'[u] = IF ProcOf[u] = p THEN "idle" ELSE at[u]
    BY <1>7 DEF Crash
  <2>2. \A q \in Procs : q # p => lock'[q] = lock[q]
    BY <1>7, <1>t DEF Crash
  <2>3. \A u \in Threads : at'[u] \in Holding => at[u] \in Holding /\ ProcOf[u] # p
    BY <2>1 DEF Holding
  <2> QED
    BY <2>2, <2>3, <1>t DEF MutexInv
<1>8. CASE UNCHANGED vars
  BY <1>8, <1>t DEF vars, MutexInv
<1> QED
  BY <1>1, <1>2, <1>3, <1>4, <1>5, <1>6, <1>7, <1>8 DEF Next, ThreadStep

(* The cache gains no other key than the one that was got.                 *)
LEMMA CachedAfter ==
    ASSUME NEW K, NEW l \in Seq(K), NEW k \in K, NEW x
    PROVE  /\ Contains(Relocate(l, k), x) => x = k \/ Contains(l, x)
           /\ Contains(Insert(l, k), x) => x = k \/ Contains(l, x)
<1>len. Len(l) \in Nat /\ Capacity \in Nat \ {0}
  BY LenProperties, RegionFilesAssumption
<1>end. ASSUME NEW h \in Seq(K), \A i \in 1..Len(h) : \E j \in 1..Len(l) : h[i] = l[j],
               Contains(Append(h, k), x)
        PROVE  x = k \/ Contains(l, x)
  <2>1. Len(h) \in Nat
    BY LenProperties
  <2>2. /\ Len(Append(h, k)) = Len(h) + 1 /\ Append(h, k)[Len(h) + 1] = k
        /\ \A i \in 1..Len(h) : Append(h, k)[i] = h[i]
    BY AppendProperties
  <2>3. PICK i \in 1..(Len(h) + 1) : Append(h, k)[i] = x
    BY <1>end, <2>2 DEF Contains
  <2>4. i \in 1..Len(h) \/ i = Len(h) + 1
    BY <2>1
  <2> QED
    BY <1>end, <2>2, <2>3, <2>4 DEF Contains
<1>1. Contains(Relocate(l, k), x) => x = k \/ Contains(l, x)
  <2>1. PICK w : w = Without(l, k)
    OBVIOUS
  <2>2. w \in Seq(K) /\ \A i \in 1..Len(w) : \E j \in 1..Len(l) : w[i] = l[j]
    <3>1. CASE Contains(l, k)
      <4>1. PICK a \in 1..Len(l) : a = CHOOSE j \in 1..Len(l) : l[j] = k
        BY <3>1 DEF Contains
      <4>2. w = RemoveAt(l, a)
        BY <2>1, <3>1, <4>1 DEF Without
      <4>3. /\ w \in Seq(K) /\ Len(w) = Len(l) - 1
            /\ \A i \in 1..(Len(l) - 1) : w[i] = IF i < a THEN l[i] ELSE l[i + 1]
        BY <4>2, RemoveAtFacts
      <4>4. \A i \in 1..Len(w) : i \in 1..Len(l) /\ i + 1 \in 1..Len(l)
        BY <4>3, <1>len
      <4>5. ASSUME NEW i \in 1..Len(w)
            PROVE  \E j \in 1..Len(l) : w[i] = l[j]
        <5>1. w[i] = l[i] \/ w[i] = l[i + 1]
          BY <4>3
        <5> QED
          BY <5>1, <4>4
      <4> QED
        BY <4>3, <4>5
    <3>2. CASE ~ Contains(l, k)
      BY <3>2, <2>1 DEF Without
    <3> QED
      BY <3>1, <3>2
  <2>3. Relocate(l, k) = Append(w, k)
    BY <2>1 DEF Relocate
  <2> QED
    BY <2>2, <2>3, <1>end
<1>2. Contains(Insert(l, k), x) => x = k \/ Contains(l, x)
  <2>1. PICK h : h = IF Len(l) >= Capacity THEN Tail(l) ELSE l
    OBVIOUS
  <2>2. h \in Seq(K) /\ \A i \in 1..Len(h) : \E j \in 1..Len(l) : h[i] = l[j]
    <3>1. CASE Len(l) >= Capacity
      <4>1. l # <<>>
        BY <3>1, <1>len, EmptySeq
      <4>2. h \in Seq(K) /\ Len(h) = Len(l) - 1 /\ \A i \in 1..Len(h) : h[i] = l[i + 1]
        BY <2>1, <3>1, <4>1, HeadTailProperties
      <4>3. \A i \in 1..Len(h) : i + 1 \in 1..Len(l)
        BY <4>2, <1>len
      <4> QED
        BY <4>2, <4>3
    <3>2. CASE ~ Len(l) >= Capacity
      BY <3>2, <2>1
    <3> QED
      BY <3>1, <3>2
  <2>3. Insert(l, k) = Append(h, k)
    BY <2>1 DEF Insert
  <2> QED
    BY <2>2, <2>3, <1>end
<1> QED
  BY <1>1, <1>2

(* The end of a get that yields a region, for the thread, its cache and    *)
(* the keys got.                                                           *)
LEMMA YieldsKeepsLast ==
    ASSUME RegionInv, NEW t \in Threads, Hit(t) \/ Map(t)
    PROVE  /\ lru' \in [Procs -> Seq(Keys)] /\ recent' \in [Procs -> Seq(Keys)]
           /\ \A p \in Procs : NoRepeats(recent'[p]) /\ LastOf(lru'[p], recent'[p])
           /\ \A p \in Procs : p # ProcOf[t] => lru'[p] = lru[p]
           /\ \A p \in Procs : \A k \in Keys :
                Contains(lru'[p], k) => (k = key[t] /\ p = ProcOf[t]) \/ Contains(lru[p], k)
<1>1. PICK p \in Procs, k \in Keys : p = ProcOf[t] /\ k = key[t]
  <2>1. at[t] # "idle"
    BY DEF Hit, Map
  <2> QED
    BY <2>1, RegionFilesAssumption DEF RegionInv, CacheInv
<1>2. /\ lru \in [Procs -> Seq(Keys)] /\ recent \in [Procs -> Seq(Keys)]
      /\ \A q \in Procs : NoRepeats(recent[q]) /\ LastOf(lru[q], recent[q])
  BY DEF RegionInv, RegionFilesTypeOK, CacheInv
<1>3. PICK l, r, s : l = lru[p] /\ r = recent[p] /\ s = Append(Without(r, k), k)
  OBVIOUS
<1>4. l \in Seq(Keys) /\ r \in Seq(Keys) /\ LastOf(l, r) /\ NoRepeats(r)
  BY <1>2, <1>3
<1>5. s \in Seq(Keys) /\ NoRepeats(s)
  BY <1>3, <1>4, GotNoRepeats
<1>6. recent' = [recent EXCEPT ![p] = s]
  BY <1>1, <1>3 DEF Hit, Map, Yields
<1>7. ASSUME NEW m \in Seq(Keys), LastOf(m, s), lru' = [lru EXCEPT ![p] = m],
             \A x \in Keys : Contains(m, x) => x = k \/ Contains(l, x)
      PROVE  /\ lru' \in [Procs -> Seq(Keys)] /\ recent' \in [Procs -> Seq(Keys)]
             /\ \A q \in Procs : NoRepeats(recent'[q]) /\ LastOf(lru'[q], recent'[q])
             /\ \A q \in Procs : q # p => lru'[q] = lru[q]
             /\ \A q \in Procs : \A x \in Keys :
                  Contains(lru'[q], x) => (x = k /\ q = p) \/ Contains(lru[q], x)
  <2>1. \A q \in Procs : lru'[q] = IF q = p THEN m ELSE lru[q]
    BY <1>2, <1>7
  <2>2. \A q \in Procs : recent'[q] = IF q = p THEN s ELSE recent[q]
    BY <1>2, <1>6
  <2>3. lru' \in [Procs -> Seq(Keys)] /\ recent' \in [Procs -> Seq(Keys)]
    BY <1>2, <1>5, <1>6, <1>7
  <2>4. \A q \in Procs : NoRepeats(recent'[q]) /\ LastOf(lru'[q], recent'[q])
    BY <2>1, <2>2, <1>2, <1>5, <1>7
  <2>5. \A q \in Procs : \A x \in Keys :
          Contains(lru'[q], x) => (x = k /\ q = p) \/ Contains(lru[q], x)
    BY <2>1, <1>3, <1>7
  <2> QED
    BY <2>1, <2>3, <2>4, <2>5
<1>8. CASE Hit(t)
  <2>1. Contains(l, k) /\ lru' = [lru EXCEPT ![p] = Relocate(l, k)]
    BY <1>8, <1>1, <1>3 DEF Hit
  <2>2. LastOf(Relocate(l, k), s) /\ Relocate(l, k) \in Seq(Keys)
    BY <2>1, <1>3, <1>4, HitKeepsLast
  <2> QED
    BY <2>1, <2>2, <1>1, <1>4, <1>7, CachedAfter
<1>9. CASE Map(t)
  <2>1. ~ Contains(l, k) /\ lru' = [lru EXCEPT ![p] = Insert(l, k)]
    BY <1>9, <1>1, <1>3 DEF Map, Making, RegionInv, CacheInv
  <2>2. LastOf(Insert(l, k), s) /\ Insert(l, k) \in Seq(Keys)
    BY <2>1, <1>3, <1>4, MissKeepsLast
  <2> QED
    BY <2>1, <2>2, <1>1, <1>4, <1>7, CachedAfter
<1> QED
  BY <1>8, <1>9

(* Without a get that ends, the cache and the keys got stay, or are both   *)
(* emptied by a crash.                                                     *)
LEMMA CacheElsewhere ==
    ASSUME RegionInv, [Next]_vars, \A t \in Threads : ~ (Hit(t) \/ Map(t))
    PROVE  /\ lru' \in [Procs -> Seq(Keys)] /\ recent' \in [Procs -> Seq(Keys)]
           /\ \A p \in Procs : \/ lru'[p] = lru[p] /\ recent'[p] = recent[p]
                               \/ lru'[p] = <<>> /\ recent'[p] = <<>>
<1>1. lru \in [Procs -> Seq(Keys)] /\ recent \in [Procs -> Seq(Keys)]
  BY DEF RegionInv, RegionFilesTypeOK
<1>2. ASSUME NEW p \in Procs, Crash(p)
      PROVE  /\ lru' \in [Procs -> Seq(Keys)] /\ recent' \in [Procs -> Seq(Keys)]
             /\ \A q \in Procs : \/ lru'[q] = lru[q] /\ recent'[q] = recent[q]
                                 \/ lru'[q] = <<>> /\ recent'[q] = <<>>
  <2>1. lru' = [lru EXCEPT ![p] = <<>>] /\ recent' = [recent EXCEPT ![p] = <<>>]
    BY <1>2 DEF Crash
  <2> QED
    BY <2>1, <1>1, EmptySeq
<1>3. CASE UNCHANGED <<lru, recent>>
  BY <1>1, <1>3
<1>4. ASSUME NEW t \in Threads, ThreadStep(t)
      PROVE  UNCHANGED <<lru, recent>>
  BY <1>4 DEF ThreadStep, Lock, Miss, MakeFile, NoSuchFile, Exists, Touch, TouchThrows, Fails,
              CheckSize, Resize, Use
<1>5. ASSUME NEW t \in Threads, NEW k \in Keys, NEW w \in BOOLEAN, Get(t, k, w)
      PROVE  UNCHANGED <<lru, recent>>
  BY <1>5 DEF Get
<1> QED
  BY <1>2, <1>3, <1>4, <1>5 DEF Next, vars

-----------------------------------------------------------------------------
(* The files.                                                              *)

\* What resize_file makes of a file.
Resized(f) == [i \in 1..FileSize |-> IF i <= Len(f) THEN f[i] ELSE Zero]

\* A step makes the file k, empty.
Makes(k) == file' = [x \in DOMAIN file \cup {k} |-> IF x = k THEN <<>> ELSE file[x]]

(* What the user of a region does to its file: nothing, or an entry of its *)
(* own goes to a slot that was free.                                       *)
LEMMA UseFacts ==
    ASSUME RegionInv, NEW t \in Threads, Use(t)
    PROVE  \/ UNCHANGED <<file, stored>>
           \/ \E slot \in DOMAIN file[key[t]] :
                /\ file[key[t]][slot] = Zero
                /\ file' = [file EXCEPT ![key[t]] = [file[key[t]] EXCEPT ![slot] = <<t, gets[t]>>]]
                /\ stored' = stored \cup {<<key[t], <<t, gets[t]>>>>}
                /\ <<t, gets[t]>> \in Entries /\ key[t] \in Keys /\ key[t] \in DOMAIN file
<1>1. /\ at[t] = "mapped" /\ key[t] \in Keys /\ key[t] \in DOMAIN file
      /\ file[key[t]] \in Files /\ gets[t] \in 0..MaxGets /\ gets[t] # 0
  BY DEF Use, RegionInv, RegionFilesTypeOK, CacheInv, PresentInv
<1>2. PICK f : f = file[key[t]]
  OBVIOUS
<1>3. PICK free : free = {i \in DOMAIN f : f[i] = Zero}
  OBVIOUS
<1>4. free \subseteq Nat /\ free \subseteq DOMAIN f /\ \A i \in free : f[i] = Zero
  BY <1>1, <1>2, <1>3, FileFacts
<1>5. PICK slot : slot = CHOOSE i \in free : \A j \in free : i <= j
  OBVIOUS
<1>6. free # {} => slot \in free
  BY <1>4, <1>5, LeastNat
<1>7. \/ UNCHANGED <<file, stored>>
      \/ /\ free # {} /\ file' = [file EXCEPT ![key[t]][slot] = <<t, gets[t]>>]
         /\ stored' = stored \cup {<<key[t], <<t, gets[t]>>>>}
  BY <1>2, <1>3, <1>5 DEF Use
<1>8. <<t, gets[t]>> \in Entries
  BY <1>1, RegionFilesAssumption DEF Entries
<1> QED
  BY <1>1, <1>2, <1>4, <1>6, <1>7, <1>8

(* The files are kept, except that an absent or a present one is made,     *)
(* empty, one is given its full size, or one gets an entry.                *)
LEMMA FileSteps ==
    ASSUME RegionInv, [Next]_vars
    PROVE  \/ UNCHANGED <<file, stored>>
           \/ \E t \in Threads : Touch(t) /\ Makes(key[t]) /\ UNCHANGED stored
           \/ \E t \in Threads : /\ Resize(t) /\ UNCHANGED stored
                                  /\ file' = [file EXCEPT ![key[t]] = Resized(@)]
           \/ \E t \in Threads : Use(t) /\ ~ UNCHANGED <<file, stored>>
<1>1. ASSUME NEW t \in Threads, NEW k \in Keys, NEW w \in BOOLEAN, Get(t, k, w)
      PROVE  UNCHANGED <<file, stored>>
  BY <1>1 DEF Get
<1>2. ASSUME NEW t \in Threads,
             \/ Lock(t) \/ Hit(t) \/ Miss(t) \/ MakeFile(t) \/ NoSuchFile(t) \/ Exists(t)
             \/ TouchThrows(t) \/ CheckSize(t) \/ Map(t)
      PROVE  UNCHANGED <<file, stored>>
  BY <1>2 DEF Lock, Hit, Miss, MakeFile, NoSuchFile, Exists, TouchThrows, CheckSize, Map
<1>3. ASSUME NEW t \in Threads, Touch(t)
      PROVE  Makes(key[t]) /\ UNCHANGED stored
  BY <1>3 DEF Touch, Makes
<1>4. ASSUME NEW t \in Threads, Resize(t)
      PROVE  /\ UNCHANGED stored
             /\ file' = [file EXCEPT ![key[t]] = Resized(@)]
  BY <1>4 DEF Resize, Resized
<1>5. ASSUME NEW p \in Procs, Crash(p)
      PROVE  UNCHANGED <<file, stored>>
  BY <1>5 DEF Crash
<1>6. CASE UNCHANGED vars
  BY <1>6 DEF vars
<1> QED
  BY <1>1, <1>2, <1>3, <1>4, <1>5, <1>6 DEF Next, ThreadStep

(* A file stays, and is a sequence of slots.                               *)
LEMMA FilesTypeStep ==
    ASSUME RegionInv, [Next]_vars
    PROVE  /\ DOMAIN file \subseteq DOMAIN file' /\ DOMAIN file' \subseteq Keys
           /\ \A k \in DOMAIN file' : file'[k] \in Files
           /\ stored' \subseteq Keys \X Entries
           /\ \A t \in Threads : Touch(t) => key[t] \in DOMAIN file'
<1>0. /\ DOMAIN file \subseteq Keys /\ \A k \in DOMAIN file : file[k] \in Files
      /\ stored \subseteq Keys \X Entries
  BY DEF RegionInv, RegionFilesTypeOK
<1>none. \A t \in Threads : Touch(t) => Makes(key[t])
  BY DEF Touch, Makes
<1>empty. <<>> \in Files
  <2>1. <<>> \in [1..0 -> Entries \cup {Zero}]
    OBVIOUS
  <2> QED
    BY <2>1 DEF Files
<1>t. \A t \in Threads : Touch(t) => key[t] \in DOMAIN file'
  BY <1>none DEF Makes
<1>1. CASE UNCHANGED <<file, stored>>
  BY <1>0, <1>1, <1>t
<1>2. ASSUME NEW t \in Threads, Touch(t), Makes(key[t]), UNCHANGED stored
      PROVE  /\ DOMAIN file \subseteq DOMAIN file' /\ DOMAIN file' \subseteq Keys
             /\ \A k \in DOMAIN file' : file'[k] \in Files
             /\ stored' \subseteq Keys \X Entries
  <2>1. key[t] \in Keys
    BY <1>2 DEF Touch, RegionInv, CacheInv
  <2> QED
    BY <2>1, <1>0, <1>2, <1>empty DEF Makes
<1>3. ASSUME NEW t \in Threads, Resize(t), UNCHANGED stored,
             file' = [file EXCEPT ![key[t]] = Resized(@)]
      PROVE  /\ DOMAIN file \subseteq DOMAIN file' /\ DOMAIN file' \subseteq Keys
             /\ \A k \in DOMAIN file' : file'[k] \in Files
             /\ stored' \subseteq Keys \X Entries
  <2>1. \A k \in DOMAIN file : Resized(file[k]) \in Files
    BY <1>0, ResizedFile DEF Resized
  <2> QED
    BY <2>1, <1>0, <1>3
<1>4. ASSUME NEW t \in Threads, Use(t), ~ UNCHANGED <<file, stored>>
      PROVE  /\ DOMAIN file \subseteq DOMAIN file' /\ DOMAIN file' \subseteq Keys
             /\ \A k \in DOMAIN file' : file'[k] \in Files
             /\ stored' \subseteq Keys \X Entries
  <2>1. PICK slot \in DOMAIN file[key[t]] :
          /\ file' = [file EXCEPT ![key[t]] = [file[key[t]] EXCEPT ![slot] = <<t, gets[t]>>]]
          /\ stored' = stored \cup {<<key[t], <<t, gets[t]>>>>}
          /\ <<t, gets[t]>> \in Entries /\ key[t] \in Keys /\ key[t] \in DOMAIN file
    BY <1>4, UseFacts
  <2>2. PICK n \in {0, FileSize} : file[key[t]] \in [1..n -> Entries \cup {Zero}]
    BY <2>1, <1>0 DEF Files
  <2>3. [file[key[t]] EXCEPT ![slot] = <<t, gets[t]>>] \in [1..n -> Entries \cup {Zero}]
    BY <2>1, <2>2
  <2>4. [file[key[t]] EXCEPT ![slot] = <<t, gets[t]>>] \in Files
    BY <2>3 DEF Files
  <2> QED
    BY <2>1, <2>4, <1>0
<1> QED
  BY <1>1, <1>2, <1>3, <1>4, <1>t, FileSteps

-----------------------------------------------------------------------------
(* Where the threads are, and what they were called with.                  *)

(* A step of t leaves the other threads where they are, and says what they *)
(* were called with; a crash takes threads out of their calls.             *)
LEMMA ThreadsStep ==
    ASSUME RegionInv, [Next]_vars
    PROVE  /\ at' \in [Threads -> Places] /\ key' \in [Threads -> Keys \cup {NoKey}]
           /\ append' \in [Threads -> BOOLEAN] /\ gets' \in [Threads -> 0..MaxGets]
           /\ \A u \in Threads : at'[u] # "idle" => key'[u] \in Keys /\ gets'[u] # 0
           /\ \A u \in Threads : at'[u] \in Making \cup {"mapped"} => key'[u] = key[u]
<1> USE RegionFilesAssumption
<1>0. /\ at \in [Threads -> Places] /\ key \in [Threads -> Keys \cup {NoKey}]
      /\ append \in [Threads -> BOOLEAN] /\ gets \in [Threads -> 0..MaxGets]
      /\ \A u \in Threads : at[u] # "idle" => key[u] \in Keys /\ gets[u] # 0
  BY DEF RegionInv, RegionFilesTypeOK, CacheInv
<1>1. ASSUME NEW t \in Threads, NEW k \in Keys, NEW w \in BOOLEAN, Get(t, k, w)
      PROVE  /\ at' \in [Threads -> Places] /\ key' \in [Threads -> Keys \cup {NoKey}]
             /\ append' \in [Threads -> BOOLEAN] /\ gets' \in [Threads -> 0..MaxGets]
             /\ \A u \in Threads : at'[u] # "idle" => key'[u] \in Keys /\ gets'[u] # 0
             /\ \A u \in Threads : at'[u] \in Making \cup {"mapped"} => key'[u] = key[u]
  <2>1. /\ at' = [at EXCEPT ![t] = "lock"] /\ key' = [key EXCEPT ![t] = k]
        /\ append' = [append EXCEPT ![t] = w] /\ gets' = [gets EXCEPT ![t] = @ + 1]
        /\ gets[t] < MaxGets
    BY <1>1 DEF Get, Goto
  <2>2. gets[t] + 1 \in 0..MaxGets /\ gets[t] + 1 # 0
    BY <2>1, <1>0
  <2>3. "lock" \in Places /\ "lock" \notin Making \cup {"mapped"}
    BY DEF Places, Making
  <2> QED
    BY <2>1, <2>2, <2>3, <1>0
<1>2. ASSUME NEW t \in Threads, NEW place \in Places, at[t] # "idle", Goto(t, place),
             UNCHANGED <<key, append, gets>>
      PROVE  /\ at' \in [Threads -> Places] /\ key' \in [Threads -> Keys \cup {NoKey}]
             /\ append' \in [Threads -> BOOLEAN] /\ gets' \in [Threads -> 0..MaxGets]
             /\ \A u \in Threads : at'[u] # "idle" => key'[u] \in Keys /\ gets'[u] # 0
             /\ \A u \in Threads : at'[u] \in Making \cup {"mapped"} => key'[u] = key[u]
  <2>1. \A u \in Threads : at'[u] # "idle" => at[u] # "idle"
    BY <1>0, <1>2 DEF Goto
  <2> QED
    BY <2>1, <1>0, <1>2 DEF Goto
<1>3. ASSUME NEW t \in Threads, Goto(t, "idle"), key' = [key EXCEPT ![t] = NoKey],
             UNCHANGED <<append, gets>>
      PROVE  /\ at' \in [Threads -> Places] /\ key' \in [Threads -> Keys \cup {NoKey}]
             /\ append' \in [Threads -> BOOLEAN] /\ gets' \in [Threads -> 0..MaxGets]
             /\ \A u \in Threads : at'[u] # "idle" => key'[u] \in Keys /\ gets'[u] # 0
             /\ \A u \in Threads : at'[u] \in Making \cup {"mapped"} => key'[u] = key[u]
  <2>1. \A u \in Threads : at'[u] = (IF u = t THEN "idle" ELSE at[u])
                           /\ key'[u] = (IF u = t THEN NoKey ELSE key[u])
    BY <1>0, <1>3 DEF Goto
  <2>2. at' \in [Threads -> Places] /\ key' \in [Threads -> Keys \cup {NoKey}]
    BY <1>0, <1>3 DEF Goto, Places
  <2>3. "idle" \notin Making \cup {"mapped"}
    BY DEF Making
  <2> QED
    BY <2>1, <2>2, <2>3, <1>0, <1>3
<1>4. ASSUME NEW t \in Threads,
             \/ Lock(t) \/ Hit(t) \/ Miss(t) \/ MakeFile(t) \/ Exists(t)
             \/ Touch(t) \/ CheckSize(t) \/ Resize(t) \/ Map(t)
      PROVE  /\ at[t] # "idle" /\ UNCHANGED <<key, append, gets>>
             /\ \E place \in Places : Goto(t, place)
  BY <1>4 DEF Lock, Hit, Miss, MakeFile, Exists, Touch, CheckSize, Resize, Map, Yields, Places
<1>5. ASSUME NEW t \in Threads, NoSuchFile(t) \/ TouchThrows(t) \/ Use(t)
      PROVE  Goto(t, "idle") /\ key' = [key EXCEPT ![t] = NoKey] /\ UNCHANGED <<append, gets>>
  BY <1>5 DEF NoSuchFile, TouchThrows, Fails, Use
<1>6. ASSUME NEW p \in Procs, Crash(p)
      PROVE  /\ at' \in [Threads -> Places] /\ key' \in [Threads -> Keys \cup {NoKey}]
             /\ append' \in [Threads -> BOOLEAN] /\ gets' \in [Threads -> 0..MaxGets]
             /\ \A u \in Threads : at'[u] # "idle" => key'[u] \in Keys /\ gets'[u] # 0
             /\ \A u \in Threads : at'[u] \in Making \cup {"mapped"} => key'[u] = key[u]
  <2>1. /\ at' = [u \in Threads |-> IF ProcOf[u] = p THEN "idle" ELSE at[u]]
        /\ key' = [u \in Threads |-> IF ProcOf[u] = p THEN NoKey ELSE key[u]]
        /\ UNCHANGED <<append, gets>>
    BY <1>6 DEF Crash
  <2>2. at' \in [Threads -> Places] /\ key' \in [Threads -> Keys \cup {NoKey}]
    BY <2>1, <1>0 DEF Places
  <2>3. "idle" \notin Making \cup {"mapped"}
    BY DEF Making
  <2> QED
    BY <2>1, <2>2, <2>3, <1>0
<1>7. CASE UNCHANGED vars
  BY <1>0, <1>7 DEF vars
<1> QED
  BY <1>1, <1>2, <1>3, <1>4, <1>5, <1>6, <1>7 DEF Next, ThreadStep

(* The flags stay flags.                                                   *)
LEMMA LockType ==
    ASSUME RegionInv, [Next]_vars
    PROVE  lock' \in [Procs -> BOOLEAN]
<1>0. lock \in [Procs -> BOOLEAN]
  BY DEF RegionInv, RegionFilesTypeOK
<1>1. ASSUME NEW t \in Threads, ThreadStep(t)
      PROVE  \/ UNCHANGED lock
             \/ \E b \in BOOLEAN : lock' = [lock EXCEPT ![ProcOf[t]] = b]
  BY <1>1 DEF ThreadStep, Lock, Hit, Miss, MakeFile, NoSuchFile, Exists, Touch, TouchThrows,
              CheckSize, Resize, Map, Use, Yields, Fails
<1>2. ASSUME NEW t \in Threads, NEW k \in Keys, NEW w \in BOOLEAN, Get(t, k, w)
      PROVE  UNCHANGED lock
  BY <1>2 DEF Get
<1>3. ASSUME NEW p \in Procs, Crash(p)
      PROVE  lock' = [lock EXCEPT ![p] = FALSE]
  BY <1>3 DEF Crash
<1> QED
  BY <1>0, <1>1, <1>2, <1>3 DEF Next, vars

(* The caches stay the ends of the keys got.                               *)
LEMMA CachesStep ==
    ASSUME RegionInv, [Next]_vars
    PROVE  /\ lru' \in [Procs -> Seq(Keys)] /\ recent' \in [Procs -> Seq(Keys)]
           /\ \A p \in Procs : NoRepeats(recent'[p]) /\ LastOf(lru'[p], recent'[p])
           /\ \A p \in Procs : Len(lru'[p]) <= Capacity
<1>1. /\ lru' \in [Procs -> Seq(Keys)] /\ recent' \in [Procs -> Seq(Keys)]
      /\ \A p \in Procs : NoRepeats(recent'[p]) /\ LastOf(lru'[p], recent'[p])
  <2>1. CASE \E t \in Threads : Hit(t) \/ Map(t)
    BY <2>1, YieldsKeepsLast
  <2>2. CASE ~ \E t \in Threads : Hit(t) \/ Map(t)
    <3>1. /\ lru' \in [Procs -> Seq(Keys)] /\ recent' \in [Procs -> Seq(Keys)]
          /\ \A p \in Procs : \/ lru'[p] = lru[p] /\ recent'[p] = recent[p]
                              \/ lru'[p] = <<>> /\ recent'[p] = <<>>
      BY <2>2, CacheElsewhere
    <3>2. \A p \in Procs : NoRepeats(recent[p]) /\ LastOf(lru[p], recent[p])
      BY DEF RegionInv, CacheInv
    <3>3. NoRepeats(<<>>) /\ LastOf(<<>>, <<>>)
      BY RegionFilesAssumption DEF NoRepeats, LastOf
    <3> QED
      BY <3>1, <3>2, <3>3
  <2> QED
    BY <2>1, <2>2
<1>2. ASSUME NEW p \in Procs
      PROVE  Len(lru'[p]) <= Capacity
  <2>1. lru'[p] \in Seq(Keys) /\ recent'[p] \in Seq(Keys) /\ LastOf(lru'[p], recent'[p])
    BY <1>1
  <2> QED
    BY <2>1, LastOfFacts
<1> QED
  BY <1>1, <1>2

(* What a thread makes stays out of the cache: only the holder of the lock *)
(* touches the cache of its process.                                       *)
LEMMA UncachedStep ==
    ASSUME RegionInv, [Next]_vars
    PROVE  \A u \in Threads : at'[u] \in Making => ~ Contains(lru'[ProcOf[u]], key'[u])
<1> USE RegionFilesAssumption
<1> SUFFICES ASSUME NEW u \in Threads, at'[u] \in Making
             PROVE  ~ Contains(lru'[ProcOf[u]], key'[u])
  OBVIOUS
<1>0. /\ at \in [Threads -> Places] /\ lru \in [Procs -> Seq(Keys)] /\ ProcOf[u] \in Procs
      /\ at[u] \in Making => ~ Contains(lru[ProcOf[u]], key[u])
      /\ MutexInv
      /\ at[u] # "idle" => key[u] \in Keys
  BY DEF RegionInv, RegionFilesTypeOK, CacheInv
<1>1. key'[u] = key[u]
  BY ThreadsStep
\* The thread was behind the lock before the step, too.
<1>2. at[u] \in Making \/ Miss(u)
  <2>1. ASSUME NEW t \in Threads, NEW place, Goto(t, place), t # u
        PROVE  at'[u] = at[u]
    BY <2>1, <1>0 DEF Goto
  <2>2. ASSUME NEW t \in Threads, NEW place, Goto(t, place), place \notin Making
        PROVE  at[u] \in Making
    BY <2>2, <1>0 DEF Goto
  <2>3. ASSUME NEW t \in Threads, NEW k \in Keys, NEW w \in BOOLEAN, Get(t, k, w)
        PROVE  at[u] \in Making
    <3>1. Goto(t, "lock") /\ "lock" \notin Making
      BY <2>3 DEF Get, Making
    <3> QED
      BY <3>1, <2>2
  <2>4. ASSUME NEW t \in Threads,
               Lock(t) \/ Hit(t) \/ NoSuchFile(t) \/ TouchThrows(t) \/ Map(t) \/ Use(t)
        PROVE  at[u] \in Making
    <3>1. \E place : Goto(t, place) /\ place \notin Making
      BY <2>4 DEF Lock, Hit, NoSuchFile, TouchThrows, Map, Use, Yields, Fails, Making
    <3> QED
      BY <3>1, <2>2
  <2>5. ASSUME NEW t \in Threads, Miss(t)
        PROVE  at[u] \in Making \/ Miss(u)
    <3>1. Goto(t, "make_file")
      BY <2>5 DEF Miss
    <3> QED
      BY <3>1, <2>1, <2>5
  <2>6. ASSUME NEW t \in Threads,
               MakeFile(t) \/ Exists(t) \/ Touch(t) \/ CheckSize(t) \/ Resize(t)
        PROVE  at[u] \in Making
    <3>1. at[t] \in Making
      BY <2>6 DEF MakeFile, Exists, Touch, CheckSize, Resize, Making
    <3>2. \E place : Goto(t, place)
      BY <2>6 DEF MakeFile, Exists, Touch, CheckSize, Resize
    <3> QED
      BY <3>1, <3>2, <2>1
  <2>7. ASSUME NEW p \in Procs, Crash(p)
        PROVE  at[u] \in Making
    BY <2>7 DEF Crash, Making
  <2>8. CASE UNCHANGED vars
    BY <2>8 DEF vars
  <2> QED
    BY <2>3, <2>4, <2>5, <2>6, <2>7, <2>8 DEF Next, ThreadStep
<1>3. ~ Contains(lru[ProcOf[u]], key[u]) /\ at[u] \in Holding
  BY <1>0, <1>2 DEF Miss, Making, Holding
<1>4. key[u] \in Keys
  BY <1>0, <1>3 DEF Holding
<1>5. CASE \E t \in Threads : Hit(t) \/ Map(t)
  <2>1. PICK t \in Threads : Hit(t) \/ Map(t)
    BY <1>5
  <2>2. at[t] \in Holding /\ at'[t] = "mapped"
    BY <2>1, <1>0 DEF Hit, Map, Yields, Goto, Holding
  <2>3. t # u
    BY <2>2 DEF Making
  <2>4. ProcOf[u] # ProcOf[t]
    BY <2>2, <2>3, <1>0, <1>3 DEF MutexInv
  <2>5. lru'[ProcOf[u]] = lru[ProcOf[u]]
    BY <2>1, <2>4, YieldsKeepsLast
  <2> QED
    BY <2>5, <1>1, <1>3
<1>6. CASE ~ \E t \in Threads : Hit(t) \/ Map(t)
  <2>1. lru'[ProcOf[u]] = lru[ProcOf[u]] \/ lru'[ProcOf[u]] = <<>>
    BY <1>6, CacheElsewhere
  <2>2. ~ Contains(<<>>, key[u])
    BY DEF Contains
  <2> QED
    BY <2>1, <2>2, <1>1, <1>3
<1> QED
  BY <1>5, <1>6

(* What is made, mapped or cached stays there.                             *)
LEMMA PresentStep ==
    ASSUME RegionInv, [Next]_vars
    PROVE  PresentInv'
<1> USE RegionFilesAssumption
<1>0. /\ at \in [Threads -> Places] /\ key \in [Threads -> Keys \cup {NoKey}]
      /\ PresentInv /\ \A t \in Threads : ProcOf[t] \in Procs
  BY DEF RegionInv, RegionFilesTypeOK
<1>1. DOMAIN file \subseteq DOMAIN file'
  BY FilesTypeStep
<1>2. ASSUME NEW u \in Threads, at'[u] \in {"file_size", "resize", "map", "mapped"}
      PROVE  key'[u] \in DOMAIN file'
  <2>1. key'[u] = key[u]
    BY <1>2, ThreadsStep DEF Making
  <2> SUFFICES key[u] \in DOMAIN file \/ key[u] \in DOMAIN file'
    BY <2>1, <1>1
  <2>2. ASSUME NEW t \in Threads, NEW place, Goto(t, place),
               place \notin {"file_size", "resize", "map", "mapped"}
        PROVE  key[u] \in DOMAIN file
    BY <2>2, <1>0, <1>2 DEF Goto, PresentInv
  <2>3. ASSUME NEW t \in Threads, NEW place, Goto(t, place), key[t] \in DOMAIN file'
        PROVE  key[u] \in DOMAIN file'
    BY <2>3, <1>0, <1>1, <1>2 DEF Goto, PresentInv
  <2>4. ASSUME NEW t \in Threads, NEW k \in Keys, NEW w \in BOOLEAN, Get(t, k, w)
        PROVE  key[u] \in DOMAIN file
    BY <2>4, <2>2 DEF Get
  <2>5. ASSUME NEW t \in Threads,
               \/ Lock(t) \/ Miss(t) \/ MakeFile(t) \/ NoSuchFile(t) \/ TouchThrows(t) \/ Use(t)
        PROVE  key[u] \in DOMAIN file
    BY <2>5, <2>2 DEF Lock, Miss, MakeFile, NoSuchFile, TouchThrows, Fails, Use
  <2>6. ASSUME NEW t \in Threads, Exists(t)
        PROVE  key[u] \in DOMAIN file'
    <3>1. CASE key[t] \in DOMAIN file
      BY <3>1, <2>6, <2>3, <1>1 DEF Exists
    <3>2. CASE key[t] \notin DOMAIN file
      BY <3>2, <2>6, <2>2, <1>1 DEF Exists
    <3> QED
      BY <3>1, <3>2
  <2>7. ASSUME NEW t \in Threads, Touch(t)
        PROVE  key[u] \in DOMAIN file'
    BY <2>7, <2>3, FilesTypeStep DEF Touch
  <2>8. ASSUME NEW t \in Threads, CheckSize(t) \/ Resize(t) \/ Map(t)
        PROVE  key[u] \in DOMAIN file'
    <3>1. key[t] \in DOMAIN file
      BY <2>8, <1>0 DEF CheckSize, Resize, Map, PresentInv
    <3>2. \E place : Goto(t, place)
      BY <2>8 DEF CheckSize, Resize, Map, Yields
    <3> QED
      BY <3>1, <3>2, <2>3, <1>1
  <2>9. ASSUME NEW t \in Threads, Hit(t)
        PROVE  key[u] \in DOMAIN file'
    <3>1. Contains(lru[ProcOf[t]], key[t]) /\ Goto(t, "mapped") /\ at[t] # "idle"
      BY <2>9 DEF Hit, Yields
    <3>2. key[t] \in Keys
      BY <3>1 DEF RegionInv, CacheInv
    <3>3. key[t] \in DOMAIN file
      BY <3>1, <3>2, <1>0 DEF PresentInv
    <3> QED
      BY <3>1, <3>3, <2>3, <1>1
  <2>10. ASSUME NEW p \in Procs, Crash(p)
         PROVE  key[u] \in DOMAIN file
    BY <2>10, <1>0, <1>2 DEF Crash, PresentInv
  <2>11. CASE UNCHANGED vars
    BY <2>11, <1>0, <1>2 DEF vars, PresentInv
  <2> QED
    BY <2>4, <2>5, <2>6, <2>7, <2>8, <2>9, <2>10, <2>11 DEF Next, ThreadStep
<1>3. ASSUME NEW p \in Procs, NEW k \in Keys, Contains(lru'[p], k)
      PROVE  k \in DOMAIN file
  <2>1. CASE \E t \in Threads : Hit(t) \/ Map(t)
    <3>1. PICK t \in Threads : Hit(t) \/ Map(t)
      BY <2>1
    <3>2. k = key[t] \/ Contains(lru[p], k)
      BY <3>1, <1>3, YieldsKeepsLast
    <3>3. Hit(t) => Contains(lru[ProcOf[t]], key[t])
      BY DEF Hit
    <3>4. Map(t) => key[t] \in DOMAIN file
      BY <1>0 DEF Map, PresentInv
    <3> QED
      BY <3>1, <3>2, <3>3, <3>4, <1>0 DEF PresentInv
  <2>2. CASE ~ \E t \in Threads : Hit(t) \/ Map(t)
    <3>1. lru'[p] = lru[p] \/ lru'[p] = <<>>
      BY <2>2, CacheElsewhere
    <3>2. ~ Contains(<<>>, k)
      BY DEF Contains
    <3> QED
      BY <3>1, <3>2, <1>0, <1>3 DEF PresentInv
  <2> QED
    BY <2>1, <2>2
<1> QED
  BY <1>1, <1>2, <1>3 DEF PresentInv

LEMMA NextRegionInv == RegionInv /\ [Next]_vars => RegionInv'
<1> SUFFICES ASSUME RegionInv, [Next]_vars
             PROVE  RegionInv'
  OBVIOUS
<1>1. RegionFilesTypeOK'
  BY FilesTypeStep, LockType, CachesStep, ThreadsStep DEF RegionFilesTypeOK
<1>2. CacheInv'
  BY ThreadsStep, UncachedStep, CachesStep DEF CacheInv
<1> QED
  BY <1>1, <1>2, MutexStep, PresentStep DEF RegionInv

(* The invariant of the lock and the cache, for any threads and processes. *)
THEOREM RegionInvariant == Spec => []RegionInv
<1> QED
  BY InitRegionInv, NextRegionInv, PTL DEF Spec

(* Every variable keeps its type: the cache never holds more than Capacity *)
(* files, and a file has no size but 0 and the full one.                   *)
THEOREM RegionFilesTypeCorrect == Spec => []RegionFilesTypeOK
<1>1. RegionInv => RegionFilesTypeOK
  BY DEF RegionInv
<1> QED
  BY <1>1, RegionInvariant, PTL

(* The cache of each process holds the Capacity files it got last, in the  *)
(* order of the gets, whatever threads and crashes there are: index_for    *)
(* drops the least recently used one and no other.                         *)
THEOREM CacheKeepsMostRecent == Spec => []KeepsMostRecent
<1>1. RegionInv => KeepsMostRecent
  <2> SUFFICES ASSUME RegionInv, NEW p \in Procs
               PROVE  lru[p] = SubSeq(recent[p], IF Len(recent[p]) > Capacity
                                                 THEN Len(recent[p]) - Capacity + 1 ELSE 1,
                                      Len(recent[p]))
    BY DEF KeepsMostRecent
  <2>1. lru[p] \in Seq(Keys) /\ recent[p] \in Seq(Keys) /\ LastOf(lru[p], recent[p])
    BY DEF RegionInv, RegionFilesTypeOK, CacheInv
  <2> QED
    BY <2>1, LastIsSubSeq
<1> QED
  BY <1>1, RegionInvariant, PTL

-----------------------------------------------------------------------------
(* One process: the lock guards the making of files, too.                  *)

\* The file a thread is about to create is missing still; what is mapped or
\* cached has its full size; what has been stored is in its file.
WholeInv ==
    /\ \A t \in Threads : at[t] = "touch" => key[t] \notin DOMAIN file
    /\ \A t \in Threads : at[t] \in {"map", "mapped"} => Len(file[key[t]]) = FileSize
    /\ \A p \in Procs : \A k \in Keys : Contains(lru[p], k) => Len(file[k]) = FileSize
    /\ \A s \in stored : /\ s[1] \in DOMAIN file
                         /\ \E i \in DOMAIN file[s[1]] : file[s[1]][i] = s[2]

LEMMA InitWholeInv == Init => WholeInv
<1>1. ASSUME NEW k
      PROVE  ~ Contains(<<>>, k)
  BY DEF Contains
<1> QED
  BY <1>1 DEF Init, WholeInv

(* No step shortens a file that is there, or takes an entry from it; and   *)
(* a file appears only when its thread touches it.                         *)
LEMMA FilesGrow ==
    ASSUME OneProcess, RegionInv, WholeInv, [Next]_vars
    PROVE  /\ \A k \in DOMAIN file :
                /\ Len(file[k]) = FileSize => Len(file'[k]) = FileSize
                /\ \A i \in DOMAIN file[k] : file[k][i] \in Entries =>
                     i \in DOMAIN file'[k] /\ file'[k][i] = file[k][i]
           /\ \/ DOMAIN file' = DOMAIN file
              \/ \E t \in Threads : at[t] = "touch" /\ Goto(t, "file_size")
<1>0. \A k \in DOMAIN file : file[k] \in Files
  BY DEF RegionInv, RegionFilesTypeOK
<1>1. CASE UNCHANGED <<file, stored>>
  BY <1>1
<1>2. ASSUME NEW t \in Threads, Touch(t), Makes(key[t])
      PROVE  /\ \A k \in DOMAIN file : file'[k] = file[k]
             /\ at[t] = "touch" /\ Goto(t, "file_size")
  <2>1. at[t] = "touch" /\ Goto(t, "file_size")
    BY <1>2 DEF Touch
  <2>2. key[t] \notin DOMAIN file
    BY <2>1 DEF WholeInv
  <2> QED
    BY <2>1, <2>2, <1>2 DEF Makes
<1>3. ASSUME NEW t \in Threads, Resize(t), file' = [file EXCEPT ![key[t]] = Resized(@)]
      PROVE  /\ \A k \in DOMAIN file :
                  /\ Len(file[k]) = FileSize => Len(file'[k]) = FileSize
                  /\ \A i \in DOMAIN file[k] : file[k][i] \in Entries =>
                       i \in DOMAIN file'[k] /\ file'[k][i] = file[k][i]
             /\ DOMAIN file' = DOMAIN file
  <2>1. DOMAIN file' = DOMAIN file /\ \A k \in DOMAIN file :
          file'[k] = IF k = key[t] THEN Resized(file[k]) ELSE file[k]
    BY <1>3
  <2>2. ASSUME NEW k \in DOMAIN file
        PROVE  /\ Len(Resized(file[k])) = FileSize
               /\ \A i \in DOMAIN file[k] : i \in DOMAIN Resized(file[k])
                                            /\ Resized(file[k])[i] = file[k][i]
    <3>1. PICK f \in Files : f = file[k]
      BY <1>0
    <3>2. Len(f) \in {0, FileSize} /\ Len(f) \in Nat /\ DOMAIN f = 1..Len(f)
      BY FileFacts
    <3>3. FileSize \in Nat
      BY RegionFilesAssumption
    <3>4. DOMAIN Resized(f) = 1..FileSize /\ \A i \in 1..FileSize : i <= Len(f) => Resized(f)[i] = f[i]
      BY DEF Resized
    <3>5. \A i \in DOMAIN f : i \in 1..FileSize /\ i <= Len(f)
      <4>1. PICK n \in Nat, m \in Nat : n = Len(f) /\ m = FileSize
        BY <3>2, <3>3
      <4>2. n = 0 \/ n = m
        BY <4>1, <3>2
      <4>3. \A i \in 1..n : i \in 1..m /\ i <= n
        BY <4>2
      <4> QED
        BY <4>1, <4>3, <3>2
    <3>6. Len(Resized(f)) = FileSize
      BY ResizedFile DEF Resized
    <3> QED
      BY <3>1, <3>4, <3>5, <3>6
  <2> QED
    BY <2>1, <2>2
<1>4. ASSUME NEW t \in Threads, Use(t), ~ UNCHANGED <<file, stored>>
      PROVE  /\ \A k \in DOMAIN file :
                  /\ Len(file[k]) = FileSize => Len(file'[k]) = FileSize
                  /\ \A i \in DOMAIN file[k] : file[k][i] \in Entries =>
                       i \in DOMAIN file'[k] /\ file'[k][i] = file[k][i]
             /\ DOMAIN file' = DOMAIN file
  <2>1. PICK slot \in DOMAIN file[key[t]] :
          /\ file[key[t]][slot] = Zero
          /\ file' = [file EXCEPT ![key[t]] = [file[key[t]] EXCEPT ![slot] = <<t, gets[t]>>]]
    BY <1>4, UseFacts
  <2>2. DOMAIN file' = DOMAIN file /\ \A k \in DOMAIN file : file'[k] =
          IF k = key[t] THEN [file[key[t]] EXCEPT ![slot] = <<t, gets[t]>>] ELSE file[k]
    BY <2>1
  <2>3. ASSUME NEW k \in DOMAIN file, k = key[t]
        PROVE  /\ Len(file'[k]) = Len(file[k])
               /\ \A i \in DOMAIN file[k] : file[k][i] \in Entries =>
                    i \in DOMAIN file'[k] /\ file'[k][i] = file[k][i]
    <3>0. PICK f \in Files : f = file[k]
      BY <1>0
    <3>1. PICK g : g = file'[k] /\ f = file[k] /\ g = [f EXCEPT ![slot] = <<t, gets[t]>>]
      BY <3>0, <2>2, <2>3
    <3>2. Len(f) \in Nat /\ DOMAIN f = 1..Len(f)
      BY FileFacts
    <3>3. DOMAIN g = 1..Len(f) /\ \A i \in DOMAIN f : i # slot => g[i] = f[i]
      BY <3>1, <3>2
    <3>4. Len(g) = Len(f)
      BY <3>2, <3>3
    <3>5. f[slot] \notin Entries
      <4>1. f[slot] = <<>>
        BY <2>1, <2>3, <3>1 DEF Zero
      <4>2. <<>> \notin Entries
        BY DEF Entries
      <4> QED
        BY <4>1, <4>2
    <3> QED
      BY <3>1, <3>2, <3>3, <3>4, <3>5
  <2> QED
    BY <2>2, <2>3
<1> QED
  BY <1>1, <1>2, <1>3, <1>4, FileSteps DEF Makes

LEMMA NextWholeInv ==
    ASSUME OneProcess, RegionInv, WholeInv, [Next]_vars
    PROVE  WholeInv'
<1> USE RegionFilesAssumption
<1>0. /\ at \in [Threads -> Places] /\ key \in [Threads -> Keys \cup {NoKey}]
      /\ stored \subseteq Keys \X Entries /\ \A k \in DOMAIN file : file[k] \in Files
      /\ \A t \in Threads : ProcOf[t] \in Procs
      /\ MutexInv
      /\ PresentInv
  BY DEF RegionInv, RegionFilesTypeOK
<1>grow. \A k \in DOMAIN file : Len(file[k]) = FileSize => Len(file'[k]) = FileSize
  BY FilesGrow
\* The holder of the lock is the only thread behind it.
<1>one. ASSUME NEW t \in Threads, NEW u \in Threads, at[t] \in Holding, at[u] \in Holding
        PROVE  t = u
  BY <1>one, <1>0 DEF MutexInv, OneProcess
\* Which step takes a thread to a place.
<1>to. ASSUME NEW u \in Threads, at'[u] \in {"touch", "map", "mapped"}
       PROVE  /\ key'[u] = key[u]
              /\ \/ at'[u] = at[u]
                 \/ Exists(u) /\ at'[u] = "touch" /\ key[u] \notin DOMAIN file
                 \/ CheckSize(u) /\ at'[u] = "map" /\ ~ TooShort(file[key[u]])
                 \/ Resize(u) /\ at'[u] = "map"
                 \/ Hit(u) /\ at'[u] = "mapped"
                 \/ Map(u) /\ at'[u] = "mapped"
  <2>1. key'[u] = key[u]
    BY <1>to, ThreadsStep DEF Making
  <2>2. ASSUME NEW t \in Threads, NEW place, Goto(t, place)
        PROVE  at'[u] = IF t = u THEN place ELSE at[u]
    BY <2>2, <1>0 DEF Goto
  <2>3. ASSUME NEW t \in Threads,
               \/ Lock(t) \/ Miss(t) \/ MakeFile(t) \/ NoSuchFile(t) \/ TouchThrows(t)
               \/ Touch(t) \/ Use(t) \/ \E k \in Keys, w \in BOOLEAN : Get(t, k, w)
        PROVE  at'[u] = at[u]
    <3>1. \E place : Goto(t, place) /\ place \notin {"touch", "map", "mapped"}
      BY <2>3 DEF Lock, Miss, MakeFile, NoSuchFile, TouchThrows, Fails, Touch, Use, Get
    <3> QED
      BY <3>1, <2>2, <1>to
  <2>4. ASSUME NEW t \in Threads, Exists(t)
        PROVE  at'[u] = at[u] \/ (Exists(u) /\ at'[u] = "touch" /\ key[u] \notin DOMAIN file)
    <3>1. Goto(t, IF key[t] \in DOMAIN file THEN "file_size" ELSE "touch")
      BY <2>4 DEF Exists
    <3> QED
      BY <3>1, <2>2, <2>4, <1>to
  <2>5. ASSUME NEW t \in Threads, CheckSize(t)
        PROVE  at'[u] = at[u] \/ (CheckSize(u) /\ at'[u] = "map" /\ ~ TooShort(file[key[u]]))
    <3>1. Goto(t, IF TooShort(file[key[t]]) THEN "resize" ELSE "map")
      BY <2>5 DEF CheckSize
    <3> QED
      BY <3>1, <2>2, <2>5, <1>to
  <2>6. ASSUME NEW t \in Threads, Resize(t)
        PROVE  at'[u] = at[u] \/ (Resize(u) /\ at'[u] = "map")
    <3>1. Goto(t, "map")
      BY <2>6 DEF Resize
    <3> QED
      BY <3>1, <2>6, <2>2
  <2>7. ASSUME NEW t \in Threads, Hit(t)
        PROVE  at'[u] = at[u] \/ (Hit(u) /\ at'[u] = "mapped")
    <3>1. Goto(t, "mapped")
      BY <2>7 DEF Hit, Yields
    <3> QED
      BY <3>1, <2>7, <2>2
  <2>8. ASSUME NEW t \in Threads, Map(t)
        PROVE  at'[u] = at[u] \/ (Map(u) /\ at'[u] = "mapped")
    <3>1. Goto(t, "mapped")
      BY <2>8 DEF Map, Yields
    <3> QED
      BY <3>1, <2>8, <2>2
  <2>9. ASSUME NEW p \in Procs, Crash(p)
        PROVE  at'[u] = at[u]
    BY <2>9, <1>to DEF Crash
  <2>10. CASE UNCHANGED vars
    BY <2>10 DEF vars
  <2> QED
    BY <2>1, <2>3, <2>4, <2>5, <2>6, <2>7, <2>8, <2>9, <2>10 DEF Next, ThreadStep
<1>1. ASSUME NEW u \in Threads, at'[u] = "touch"
      PROVE  key'[u] \notin DOMAIN file'
  <2>1. key'[u] = key[u] /\ at[u] \in Holding /\ key[u] \notin DOMAIN file
    BY <1>1, <1>to DEF WholeInv, Exists, Holding
  <2>2. CASE DOMAIN file' = DOMAIN file
    BY <2>1, <2>2
  <2>3. CASE \E t \in Threads : at[t] = "touch" /\ Goto(t, "file_size")
    <3>1. at[u] = "touch" /\ Goto(u, "file_size")
      BY <2>1, <2>3, <1>one DEF Holding
    <3> QED
      BY <3>1, <1>0, <1>1 DEF Goto
  <2> QED
    BY <2>2, <2>3, FilesGrow
<1>2. ASSUME NEW u \in Threads, at'[u] \in {"map", "mapped"}
      PROVE  Len(file'[key'[u]]) = FileSize
  <2>1. key'[u] = key[u]
    BY <1>2, <1>to
  <2>2. CASE at'[u] = at[u] \/ Map(u)
    <3>1. Len(file[key[u]]) = FileSize /\ key[u] \in DOMAIN file
      BY <2>2, <1>0, <1>2 DEF WholeInv, PresentInv, Map
    <3> QED
      BY <3>1, <2>1, <1>grow
  <2>3. CASE CheckSize(u) /\ ~ TooShort(file[key[u]])
    <3>1. key[u] \in DOMAIN file
      BY <2>3, <1>0 DEF CheckSize, PresentInv
    <3>2. Len(file[key[u]]) \in {0, FileSize} /\ Len(file[key[u]]) \in Nat /\ FileSize \in Nat
      BY <3>1, <1>0, FileFacts
    <3>3. Len(file[key[u]]) = FileSize
      BY <2>3, <3>2 DEF TooShort
    <3> QED
      BY <3>1, <3>3, <2>1, <1>grow
  <2>4. CASE Resize(u)
    <3>1. key[u] \in DOMAIN file /\ file' = [file EXCEPT ![key[u]] = Resized(@)]
      BY <2>4, <1>0 DEF Resize, Resized, PresentInv
    <3>2. Len(Resized(file[key[u]])) = FileSize
      BY <3>1, <1>0, ResizedFile DEF Resized
    <3> QED
      BY <3>1, <3>2, <2>1
  <2>5. CASE Hit(u)
    <3>1. Contains(lru[ProcOf[u]], key[u]) /\ key[u] \in Keys
      BY <2>5 DEF Hit, RegionInv, CacheInv
    <3>2. Len(file[key[u]]) = FileSize /\ key[u] \in DOMAIN file
      BY <3>1, <1>0 DEF WholeInv, PresentInv
    <3> QED
      BY <3>2, <2>1, <1>grow
  <2> QED
    BY <1>2, <1>to, <2>2, <2>3, <2>4, <2>5
<1>3. ASSUME NEW p \in Procs, NEW k \in Keys, Contains(lru'[p], k)
      PROVE  Len(file'[k]) = FileSize
  <2>1. Len(file[k]) = FileSize /\ k \in DOMAIN file
    <3>1. CASE Contains(lru[p], k)
      BY <3>1, <1>0 DEF WholeInv, PresentInv
    <3>2. CASE ~ Contains(lru[p], k)
      <4>1. CASE \E t \in Threads : Hit(t) \/ Map(t)
        <5>1. PICK t \in Threads : Hit(t) \/ Map(t)
          BY <4>1
        <5>2. k = key[t] /\ p = ProcOf[t]
          BY <5>1, <3>2, <1>3, YieldsKeepsLast
        <5>3. Map(t)
          BY <5>1, <5>2, <3>2 DEF Hit
        <5> QED
          BY <5>2, <5>3, <1>0 DEF Map, WholeInv, PresentInv
      <4>2. CASE ~ \E t \in Threads : Hit(t) \/ Map(t)
        <5>1. lru'[p] = lru[p] \/ lru'[p] = <<>>
          BY <4>2, CacheElsewhere
        <5>2. ~ Contains(<<>>, k)
          BY DEF Contains
        <5> QED
          BY <5>1, <5>2, <3>2, <1>3
      <4> QED
        BY <4>1, <4>2
    <3> QED
      BY <3>1, <3>2
  <2> QED
    BY <2>1, <1>grow
<1>4. ASSUME NEW s \in stored'
      PROVE  s[1] \in DOMAIN file' /\ \E i \in DOMAIN file'[s[1]] : file'[s[1]][i] = s[2]
  <2>1. CASE s \in stored
    <3>1. s[1] \in DOMAIN file /\ s[2] \in Entries
      BY <2>1, <1>0 DEF WholeInv
    <3>2. PICK i \in DOMAIN file[s[1]] : file[s[1]][i] = s[2]
      BY <2>1 DEF WholeInv
    <3>3. i \in DOMAIN file'[s[1]] /\ file'[s[1]][i] = s[2]
      BY <3>1, <3>2, FilesGrow
    <3>4. s[1] \in DOMAIN file'
      BY <3>1, FilesTypeStep
    <3> QED
      BY <3>3, <3>4
  <2>2. CASE s \notin stored
    <3>1. PICK t \in Threads : Use(t) /\ ~ UNCHANGED <<file, stored>>
      BY <2>2, <1>4, FileSteps
    <3>2. PICK slot \in DOMAIN file[key[t]] :
            /\ file' = [file EXCEPT ![key[t]] = [file[key[t]] EXCEPT ![slot] = <<t, gets[t]>>]]
            /\ stored' = stored \cup {<<key[t], <<t, gets[t]>>>>} /\ key[t] \in DOMAIN file
      BY <3>1, UseFacts
    <3>3. s = <<key[t], <<t, gets[t]>>>>
      BY <3>2, <2>2, <1>4
    <3>4. file'[key[t]] = [file[key[t]] EXCEPT ![slot] = <<t, gets[t]>>]
      BY <3>2
    <3>5. slot \in DOMAIN file'[key[t]] /\ file'[key[t]][slot] = <<t, gets[t]>>
      BY <3>2, <3>4
    <3> QED
      BY <3>2, <3>3, <3>5
  <2> QED
    BY <2>1, <2>2
<1> QED
  BY <1>1, <1>2, <1>3, <1>4 DEF WholeInv

(* With one process, create_mapping is as good as one step: files only     *)
(* grow, mapped and cached ones have their full size, entries stay.        *)
THEOREM WholeInvariant == OneProcess => (Spec => [](RegionInv /\ WholeInv))
<1> SUFFICES ASSUME OneProcess
             PROVE  Spec => [](RegionInv /\ WholeInv)
  OBVIOUS
<1>1. Init => RegionInv /\ WholeInv
  BY InitRegionInv, InitWholeInv
<1>2. (RegionInv /\ WholeInv) /\ [Next]_vars => (RegionInv /\ WholeInv)'
  BY NextRegionInv, NextWholeInv
<1> QED
  BY <1>1, <1>2, PTL DEF Spec

(* With one process, an entry that was stored in a file is never lost by   *)
(* getting the file again: under the lock, create_mapping touches a file   *)
(* only while nobody else can have made it.                                *)
THEOREM EntriesStay == OneProcess => (Spec => []EntriesKept)
<1> SUFFICES ASSUME OneProcess
             PROVE  Spec => []EntriesKept
  OBVIOUS
<1>1. RegionInv /\ WholeInv => EntriesKept
  BY DEF WholeInv, EntriesKept
<1> QED
  BY <1>1, WholeInvariant, PTL

(* With one process, a thread never has a region over a file shorter than  *)
(* the region: whoever maps a file has seen its full size, or made it.     *)
THEOREM MappedWhole == OneProcess => (Spec => []MappedFilesWhole)
<1> SUFFICES ASSUME OneProcess
             PROVE  Spec => []MappedFilesWhole
  OBVIOUS
<1>1. RegionInv /\ WholeInv => MappedFilesWhole
  BY DEF WholeInv, MappedFilesWhole
<1> QED
  BY <1>1, WholeInvariant, PTL
=============================================================================
