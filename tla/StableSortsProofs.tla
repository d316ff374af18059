--------------------------- MODULE StableSortsProofs ---------------------------
(***************************************************************************)
(* insert_sort0, mergesort1 and timsort sort every array stably, whatever  *)
(* its length, and the runs on TimSort's stack become shorter upwards.     *)
(***************************************************************************)
EXTENDS StableSorts, SequenceTheorems, WellFoundedInduction, TLAPS

LEMMA LeastOf ==
  ASSUME NEW T \in SUBSET Nat, T # {}
  PROVE  \E x \in T : \A y \in T : x <= y
<1>1. PICK x \in T : \A y \in T : ~ (<<y, x>> \in OpToRel(<, Nat))
  BY NatLessThanWellFounded, WFMin, Zenon
<1>2. \A y \in T : ~ (y < x)
  BY <1>1 DEF OpToRel
<1>3. QED
  BY <1>2

LEMMA MaxOf ==
  ASSUME NEW n \in Nat, NEW S \in SUBSET (0 .. n), S # {}
  PROVE  Max(S) \in S /\ \A y \in S : y <= Max(S)
<1> DEFINE T == {k \in Nat : \E y \in S : k = n - y}
<1>1. PICK y \in S : TRUE
  OBVIOUS
<1>2. n - y \in T
  OBVIOUS
<1>3. PICK k \in T : \A l \in T : k <= l
  BY <1>2, LeastOf
<1>4. PICK x \in S : k = n - x
  OBVIOUS
<1>5. \A z \in S : x >= z
  <2> SUFFICES ASSUME NEW z \in S PROVE x >= z
    OBVIOUS
  <2>1. n - z \in T
    OBVIOUS
  <2>2. QED
    BY <1>3, <1>4, <2>1
<1>6. Max(S) \in S /\ \A z \in S : Max(S) >= z
  BY <1>5 DEF Max
<1>7. QED
  BY <1>6

\* What holds between neighbours holds between all.
LEMMA AscendsAll ==
  ASSUME NEW f, NEW n \in Nat, NEW lo \in 1 .. n, NEW hi \in 1 .. n,
         \A k \in 1 .. n : f[k] \in Nat,
         \A k \in lo + 1 .. hi : f[k - 1] <= f[k],
         NEW i \in lo .. hi, NEW j \in i .. hi
  PROVE  f[i] <= f[j]
<1> DEFINE T == {k \in Nat : k \in i .. hi /\ f[i] > f[k]}
<1> SUFFICES ASSUME T # {} PROVE FALSE
  OBVIOUS
<1>1. PICK k \in T : \A l \in T : k <= l
  BY LeastOf
<1>2. k > i
  OBVIOUS
<1>3. k - 1 \notin T
  BY <1>1
<1>4. f[i] <= f[k - 1]
  BY <1>2, <1>3
<1>5. f[k - 1] <= f[k]
  BY <1>2
<1>6. f[i] \in Nat /\ f[k - 1] \in Nat /\ f[k] \in Nat
  BY <1>2
<1>7. QED
  BY <1>4, <1>5, <1>6

LEMMA DescendsAll ==
  ASSUME NEW f, NEW n \in Nat, NEW lo \in 1 .. n, NEW hi \in 1 .. n,
         \A k \in 1 .. n : f[k] \in Nat,
         \A k \in lo + 1 .. hi : f[k] < f[k - 1],
         NEW i \in lo .. hi, NEW j \in i + 1 .. hi
  PROVE  f[j] < f[i]
<1> DEFINE T == {k \in Nat : k \in i + 1 .. hi /\ ~(f[k] < f[i])}
<1> SUFFICES ASSUME T # {} PROVE FALSE
  OBVIOUS
<1>1. PICK k \in T : \A l \in T : k <= l
  BY LeastOf
<1>2. k - 1 \notin T
  BY <1>1
<1>3. f[k] < f[k - 1]
  OBVIOUS
<1>4. f[i] \in Nat /\ f[k - 1] \in Nat /\ f[k] \in Nat
  OBVIOUS
<1>5. k - 1 = i \/ f[k - 1] < f[i]
  BY <1>2
<1>6. QED
  BY <1>3, <1>4, <1>5
-----------------------------------------------------------------------------
(***************************************************************************)
(* Items in order                                                          *)
(***************************************************************************)
Items == [x : Nat, o : Nat]
Arrays(n) == [1 .. n -> Items]

\* StablySorted, of any keys.
InOrder(keys, s, from, to) ==
  /\ {s[i].o : i \in from + 1 .. to} = from + 1 .. to
  /\ \A i \in from + 1 .. to : s[i].x = keys[s[i].o]
  /\ \A i, k \in from + 1 .. to : i < k => Before(s[i], s[k])

LEMMA StablySortedIs ==
  ASSUME NEW s, NEW from, NEW to
  PROVE  StablySorted(s, from, to) <=> InOrder(data, s, from, to)
BY DEF StablySorted, InOrder

\* Whether a block is sorted depends on what is in it.
LEMMA SameBlock ==
  ASSUME NEW s, NEW r, NEW from \in Nat, NEW to \in Nat,
         \A i \in from + 1 .. to : r[i] = s[i],
         InOrder(data, s, from, to)
  PROVE  InOrder(data, r, from, to)
<1>1. {r[i].o : i \in from + 1 .. to} = {s[i].o : i \in from + 1 .. to}
  OBVIOUS
<1>2. \A i \in from + 1 .. to : r[i].x = data[r[i].o]
  BY DEF InOrder
<1>3. \A i, k \in from + 1 .. to : i < k => Before(r[i], r[k])
  BY DEF InOrder
<1>4. QED
  BY <1>1, <1>2, <1>3 DEF InOrder

LEMMA BeforeIsTransitive ==
  ASSUME NEW p \in Items, NEW q \in Items, NEW r \in Items, Before(p, q), Before(q, r),
         N \in Nat
  PROVE  Before(p, r)
BY DEF Before, Items

\* One item, as it was in the input.
LEMMA OneItem ==
  ASSUME NEW s, NEW p \in Nat, s[p + 1] = Original(p + 1)
  PROVE  InOrder(data, s, p, p + 1)
<1>1. p + 1 .. p + 1 = {p + 1}
  OBVIOUS
<1>2. QED
  BY <1>1 DEF InOrder, Original

\* Insertion puts one more item in order, and changes nothing else.
LEMMA InsertSorts ==
  ASSUME N \in Nat, NEW s \in Arrays(N), NEW from \in Nat, NEW i \in Nat, from < i, i < N,
         InOrder(data, s, from, i), s[i + 1] = Original(i + 1), data[i + 1] \in Nat
  PROVE  /\ Insert(s, from, i + 1) \in Arrays(N)
         /\ InOrder(data, Insert(s, from, i + 1), from, i + 1)
         /\ \A p \in 1 .. N : p \notin from + 1 .. i + 1 => Insert(s, from, i + 1)[p] = s[p]
<1> DEFINE k == StopsAt(s, from, i + 1)
           S == {from} \cup {l \in from + 1 .. i : s[l].x <= s[i + 1].x}
           r == Insert(s, from, i + 1)
<1>1. k = Max(S)
  BY (i + 1) - 1 = i DEF StopsAt
<1>2. S \in SUBSET (0 .. i) /\ S # {}
  OBVIOUS
<1>3. k \in S /\ \A l \in S : l <= k
  BY <1>1, <1>2, MaxOf
<1>4. k \in from .. i
  BY <1>3
<1>5. \A l \in k + 1 .. i : ~(s[l].x <= s[i + 1].x)
  BY <1>3, <1>4
<1>6. k > from => s[k].x <= s[i + 1].x
  BY <1>3
<1> HIDE DEF k, S
<1>7. DOMAIN s = 1 .. N
  BY DEF Arrays
<1>8. r = [p \in 1 .. N |-> IF p = k + 1 THEN s[i + 1]
                            ELSE IF p \in k + 2 .. i + 1 THEN s[p - 1] ELSE s[p]]
  BY <1>7 DEF Insert, k
<1> HIDE DEF r
<1>9. r \in Arrays(N)
  <2>1. \A p \in 1 .. N : s[p] \in Items
    BY DEF Arrays
  <2>2. \A p \in 1 .. N : r[p] \in Items
    BY <1>4, <1>8, <2>1
  <2>3. QED
    BY <1>8, <2>2 DEF Arrays
<1>10. /\ r[k + 1] = s[i + 1]
       /\ \A p \in from + 1 .. k : r[p] = s[p]
       /\ \A p \in k + 2 .. i + 1 : r[p] = s[p - 1]
       /\ \A p \in 1 .. N : p \notin from + 1 .. i + 1 => r[p] = s[p]
  BY <1>4, <1>8
<1>11. {r[p].o : p \in from + 1 .. i + 1} = from + 1 .. i + 1
  <2>1. {s[p].o : p \in from + 1 .. i} = from + 1 .. i
    BY DEF InOrder
  <2>2. ASSUME NEW q \in from + 1 .. i + 1 PROVE \E p \in from + 1 .. i + 1 : r[p].o = q
    <3>1. CASE q = i + 1
      BY <1>4, <1>10, <3>1 DEF Original
    <3>2. CASE q \in from + 1 .. i
      <4>1. PICK p \in from + 1 .. i : s[p].o = q
        BY <2>1, <3>2
      <4>2. CASE p <= k
        BY <1>4, <1>10, <4>1, <4>2
      <4>3. CASE p > k
        <5>1. p + 1 \in k + 2 .. i + 1 /\ p + 1 \in from + 1 .. i + 1 /\ (p + 1) - 1 = p
          BY <1>4, <4>3
        <5>2. QED
          BY <1>10, <4>1, <5>1
      <4>4. QED
        BY <1>4, <4>2, <4>3
    <3>3. QED
      BY <3>1, <3>2
  <2>3. ASSUME NEW p \in from + 1 .. i + 1 PROVE r[p].o \in from + 1 .. i + 1
    <3>1. \A l \in from + 1 .. i : s[l].o \in from + 1 .. i
      BY <2>1
    <3>2. CASE p = k + 1
      BY <1>10, <3>2 DEF Original
    <3>3. CASE p \in from + 1 .. k
      BY <1>4, <1>10, <3>1, <3>3
    <3>4. CASE p \in k + 2 .. i + 1
      <4>1. p - 1 \in from + 1 .. i
        BY <1>4, <3>4
      <4>2. s[p - 1].o \in from + 1 .. i /\ r[p] = s[p - 1]
        BY <1>10, <3>1, <3>4, <4>1
      <4>3. QED
        BY <4>2
    <3>5. QED
      BY <1>4, <3>2, <3>3, <3>4
  <2>4. QED
    BY <2>2, <2>3
<1>12. \A p \in from + 1 .. i + 1 : r[p].x = data[r[p].o]
  <2>1. \A p \in from + 1 .. i : s[p].x = data[s[p].o]
    BY DEF InOrder
  <2>2. \A p \in k + 2 .. i + 1 : r[p] = s[p - 1] /\ p - 1 \in from + 1 .. i
    BY <1>4, <1>10
  <2>3. r[k + 1].x = data[r[k + 1].o]
    BY <1>10 DEF Original
  <2>4. \A p \in from + 1 .. k : r[p] = s[p] /\ p \in from + 1 .. i
    BY <1>4, <1>10
  <2>5. \A p \in from + 1 .. i + 1 : p = k + 1 \/ p \in from + 1 .. k \/ p \in k + 2 .. i + 1
    BY <1>4
  <2>6. QED
    BY <2>1, <2>2, <2>3, <2>4, <2>5
<1>13. \A p, q \in from + 1 .. i + 1 : p < q => Before(r[p], r[q])
  <2> SUFFICES ASSUME NEW p \in from + 1 .. i + 1, NEW q \in from + 1 .. i + 1, p < q
               PROVE  Before(r[p], r[q])
    OBVIOUS
  <2>1. \A l, h \in from + 1 .. i : l < h => Before(s[l], s[h])
    BY DEF InOrder
  <2>2. \A l \in from + 1 .. i : s[l] \in Items /\ s[l].o \in from + 1 .. i
    BY DEF Arrays, InOrder
  <2>3. s[i + 1] \in Items /\ s[i + 1].o = i + 1
    BY DEF Arrays, Original
  <2>4. CASE q = k + 1
    <3>1. p \in from + 1 .. i /\ r[p] = s[p] /\ r[q] = s[i + 1] /\ p <= k /\ k \in from + 1 .. i
      BY <1>4, <1>10, <2>4
    <3>2. s[p].x <= s[k].x
      <4>1. CASE p = k
        BY <2>2, <3>1, <4>1 DEF Items
      <4>2. CASE p < k
        BY <2>1, <2>2, <3>1, <4>2 DEF Before, Items
      <4>3. QED
        BY <3>1, <4>1, <4>2, <1>4
    <3>3. s[p].x <= s[i + 1].x
      BY <1>6, <2>2, <2>3, <3>1, <3>2 DEF Items
    <3>4. s[p].o < s[i + 1].o
      BY <2>2, <2>3, <3>1
    <3>5. s[p].x \in Nat /\ s[i + 1].x \in Nat
      BY <2>2, <2>3, <3>1 DEF Items
    <3>6. Before(s[p], s[i + 1])
      BY <3>3, <3>4, <3>5 DEF Before
    <3>7. QED
      BY <3>1, <3>6
  <2>5. CASE p = k + 1
    <3>1. q \in k + 2 .. i + 1 /\ q - 1 \in k + 1 .. i /\ q - 1 \in from + 1 .. i
      BY <1>4, <2>5
    <3>2. r[q] = s[q - 1] /\ r[p] = s[i + 1] /\ ~(s[q - 1].x <= s[i + 1].x)
      BY <1>5, <1>10, <2>5, <3>1
    <3>3. QED
      BY <2>2, <2>3, <3>1, <3>2 DEF Before, Items
  <2>6. CASE p # k + 1 /\ q # k + 1
    <3>1. PICK l \in from + 1 .. i : r[p] = s[l] /\ l = IF p <= k THEN p ELSE p - 1
      <4>1. CASE p <= k
        BY <1>4, <1>10, <4>1
      <4>2. CASE p > k
        <5>1. p \in k + 2 .. i + 1 /\ p - 1 \in from + 1 .. i
          BY <1>4, <2>6, <4>2
        <5>2. QED
          BY <1>4, <1>10, <4>2, <5>1
      <4>3. QED
        BY <1>4, <4>1, <4>2
    <3>2. PICK h \in from + 1 .. i : r[q] = s[h] /\ h = IF q <= k THEN q ELSE q - 1
      <4>1. CASE q <= k
        BY <1>4, <1>10, <4>1
      <4>2. CASE q > k
        <5>1. q \in k + 2 .. i + 1 /\ q - 1 \in from + 1 .. i
          BY <1>4, <2>6, <4>2
        <5>2. QED
          BY <1>4, <1>10, <4>2, <5>1
      <4>3. QED
        BY <1>4, <4>1, <4>2
    <3>3. l < h
      BY <1>4, <2>6, <3>1, <3>2
    <3>4. QED
      BY <2>1, <3>1, <3>2, <3>3
  <2>7. QED
    BY <2>4, <2>5, <2>6
<1>14. InOrder(data, r, from, i + 1)
  BY <1>11, <1>12, <1>13 DEF InOrder
<1>15. QED
  BY <1>9, <1>10, <1>14 DEF r
-----------------------------------------------------------------------------
(***************************************************************************)
(* Merging: d is where the result goes; left and right are the parts, of   *)
(* which i and j items are in d already, behind lo.                        *)
(***************************************************************************)
Taken(keys, d, left, right, lo, mid, hi, i, j) ==
  /\ i \in 0 .. mid - lo /\ j \in 0 .. hi - mid
  /\ \A p \in lo + 1 .. lo + i + j : d[p] \in Items
  /\ \A p \in i + 1 .. mid - lo : left[p] \in Items /\ left[p].o \in lo + 1 .. mid
  /\ \A q \in j + 1 .. hi - mid : right[q] \in Items /\ right[q].o \in mid + 1 .. hi
  /\ \A o \in lo + 1 .. hi :
       \/ \E p \in lo + 1 .. lo + i + j : d[p].o = o
       \/ \E p \in i + 1 .. mid - lo : left[p].o = o
       \/ \E q \in j + 1 .. hi - mid : right[q].o = o
  /\ \A p \in lo + 1 .. lo + i + j : d[p].x = keys[d[p].o] /\ d[p].o \in lo + 1 .. hi
  /\ \A p \in i + 1 .. mid - lo : left[p].x = keys[left[p].o]
  /\ \A q \in j + 1 .. hi - mid : right[q].x = keys[right[q].o]
  /\ \A p, r \in lo + 1 .. lo + i + j : p < r => Before(d[p], d[r])
  /\ \A p, r \in i + 1 .. mid - lo : p < r => Before(left[p], left[r])
  /\ \A p, r \in j + 1 .. hi - mid : p < r => Before(right[p], right[r])
  /\ \A p \in lo + 1 .. lo + i + j :
       /\ \A r \in i + 1 .. mid - lo : Before(d[p], left[r])
       /\ \A r \in j + 1 .. hi - mid : Before(d[p], right[r])

\* Two sorted blocks, of which nothing is taken yet.
LEMMA TakenStarts ==
  ASSUME NEW d, NEW left, NEW right, NEW s, NEW lo \in Nat, NEW mid \in Nat, NEW hi \in Nat,
         lo <= mid, mid <= hi, hi <= N, N \in Nat, s \in Arrays(N),
         InOrder(data, s, lo, mid), InOrder(data, s, mid, hi),
         \A p \in 1 .. mid - lo : left[p] = s[lo + p],
         \A q \in 1 .. hi - mid : right[q] = s[mid + q]
  PROVE  Taken(data, d, left, right, lo, mid, hi, 0, 0)
<1>1. \A p \in lo + 1 .. mid : s[p] \in Items /\ s[p].o \in lo + 1 .. mid
  BY DEF InOrder, Arrays
<1>2. \A p \in mid + 1 .. hi : s[p] \in Items /\ s[p].o \in mid + 1 .. hi
  BY DEF InOrder, Arrays
<1>3. \A p \in 1 .. mid - lo : lo + p \in lo + 1 .. mid /\ left[p] = s[lo + p]
  OBVIOUS
<1>4. \A q \in 1 .. hi - mid : mid + q \in mid + 1 .. hi /\ right[q] = s[mid + q]
  OBVIOUS
<1>5. \A p \in 1 .. mid - lo : left[p] \in Items /\ left[p].o \in lo + 1 .. mid
                               /\ left[p].x = data[left[p].o]
  BY <1>1, <1>3 DEF InOrder
<1>6. \A q \in 1 .. hi - mid : right[q] \in Items /\ right[q].o \in mid + 1 .. hi
                               /\ right[q].x = data[right[q].o]
  BY <1>2, <1>4 DEF InOrder
<1>7. \A p, r \in 1 .. mid - lo : p < r => Before(left[p], left[r])
  <2>1. \A p, r \in lo + 1 .. mid : p < r => Before(s[p], s[r])
    BY DEF InOrder
  <2> SUFFICES ASSUME NEW p \in 1 .. mid - lo, NEW r \in 1 .. mid - lo, p < r
               PROVE  Before(left[p], left[r])
    OBVIOUS
  <2>2. lo + p < lo + r
    OBVIOUS
  <2>3. QED
    BY <1>3, <2>1, <2>2
<1>8. \A p, r \in 1 .. hi - mid : p < r => Before(right[p], right[r])
  <2>1. \A p, r \in mid + 1 .. hi : p < r => Before(s[p], s[r])
    BY DEF InOrder
  <2> SUFFICES ASSUME NEW p \in 1 .. hi - mid, NEW r \in 1 .. hi - mid, p < r
               PROVE  Before(right[p], right[r])
    OBVIOUS
  <2>2. mid + p < mid + r
    OBVIOUS
  <2>3. QED
    BY <1>4, <2>1, <2>2
<1>9. ASSUME NEW o \in lo + 1 .. hi
      PROVE  (\E p \in 1 .. mid - lo : left[p].o = o) \/ (\E q \in 1 .. hi - mid : right[q].o = o)
  <2>1. CASE o \in lo + 1 .. mid
    <3> DEFINE Os == {s[p].o : p \in lo + 1 .. mid}
    <3>0. o \in Os
      BY <2>1 DEF InOrder
    <3>1. PICK p \in lo + 1 .. mid : s[p].o = o
      BY <3>0
    <3>2. p - lo \in 1 .. mid - lo /\ lo + (p - lo) = p
      OBVIOUS
    <3>3. left[p - lo].o = o
      BY <1>3, <3>1, <3>2
    <3>4. QED
      BY <3>2, <3>3
  <2>2. CASE o \in mid + 1 .. hi
    <3> DEFINE Os == {s[p].o : p \in mid + 1 .. hi}
    <3>0. o \in Os
      BY <2>2 DEF InOrder
    <3>1. PICK p \in mid + 1 .. hi : s[p].o = o
      BY <3>0
    <3>2. p - mid \in 1 .. hi - mid /\ mid + (p - mid) = p
      OBVIOUS
    <3>3. right[p - mid].o = o
      BY <1>4, <3>1, <3>2
    <3>4. QED
      BY <3>2, <3>3
  <2>3. QED
    BY <2>1, <2>2
<1>10. lo + 1 .. lo + 0 + 0 = {} /\ 0 + 1 = 1
  OBVIOUS
<1>11. 0 \in 0 .. mid - lo /\ 0 \in 0 .. hi - mid
  OBVIOUS
<1>12. QED
  BY <1>5, <1>6, <1>7, <1>8, <1>9, <1>10, <1>11 DEF Taken

\* Nothing about the parts but what is not taken yet, and about d what is.
LEMMA TakenAgrees ==
  ASSUME NEW d, NEW left, NEW right, NEW e, NEW l, NEW r,
         NEW lo \in Nat, NEW mid \in Nat, NEW hi \in Nat, NEW i, NEW j,
         Taken(data, d, left, right, lo, mid, hi, i, j),
         \A p \in lo + 1 .. lo + i + j : e[p] = d[p],
         \A p \in i + 1 .. mid - lo : l[p] = left[p],
         \A q \in j + 1 .. hi - mid : r[q] = right[q]
  PROVE  Taken(data, e, l, r, lo, mid, hi, i, j)
<1> SUFFICES ASSUME NEW o \in lo + 1 .. hi
             PROVE  \/ \E p \in lo + 1 .. lo + i + j : e[p].o = o
                    \/ \E p \in i + 1 .. mid - lo : l[p].o = o
                    \/ \E q \in j + 1 .. hi - mid : r[q].o = o
  BY DEF Taken
<1>1. QED
  BY DEF Taken
-----------------------------------------------------------------------------
\* The first of what the left part has left goes to d.
LEMMA TakenFromLeft ==
  ASSUME NEW d, NEW left, NEW right, NEW e, NEW lo \in Nat, NEW mid \in Nat, NEW hi \in Nat,
         NEW i \in Nat, NEW j \in Nat, i < mid - lo, j < hi - mid, hi <= N, N \in Nat,
         Taken(data, d, left, right, lo, mid, hi, i, j),
         TakesLeft(left[i + 1], right[j + 1]),
         e[lo + i + j + 1] = left[i + 1],
         \A p \in lo + 1 .. lo + i + j : e[p] = d[p]
  PROVE  Taken(data, e, left, right, lo, mid, hi, i + 1, j)
<1> DEFINE k == lo + i + j + 1
<1>1. lo + (i + 1) + j = k /\ k \in Nat
  OBVIOUS
<1>2. \A p \in lo + 1 .. k : p = k \/ p \in lo + 1 .. lo + i + j
  OBVIOUS
<1>3. \A p \in i + 1 + 1 .. mid - lo : p \in i + 1 .. mid - lo /\ i + 1 < p
  OBVIOUS
<1>4. i + 1 \in i + 1 .. mid - lo /\ j + 1 \in j + 1 .. hi - mid
  OBVIOUS
<1>5. left[i + 1] \in Items /\ left[i + 1].o \in lo + 1 .. mid
      /\ left[i + 1].x = data[left[i + 1].o]
  BY <1>4 DEF Taken
<1>6. \A r \in i + 1 + 1 .. mid - lo : Before(left[i + 1], left[r])
  BY <1>3, <1>4 DEF Taken
<1>7. ASSUME NEW r \in j + 1 .. hi - mid PROVE Before(left[i + 1], right[r])
  <2>1. right[j + 1] \in Items /\ right[r] \in Items /\ right[r].o \in mid + 1 .. hi
    BY <1>4 DEF Taken
  <2>2. r = j + 1 \/ Before(right[j + 1], right[r])
    BY <1>4 DEF Taken
  <2>3. left[i + 1].x \in Nat /\ right[j + 1].x \in Nat /\ right[r].x \in Nat
    BY <1>5, <2>1 DEF Items
  <2>4. left[i + 1].x <= right[r].x
    BY <2>2, <2>3 DEF Before, TakesLeft
  <2>5. left[i + 1].o < right[r].o
    BY <1>5, <2>1
  <2>6. QED
    BY <2>3, <2>4, <2>5 DEF Before
<1>8. \A p \in lo + 1 .. k - 1 : Before(e[p], e[k])
  <2>1. \A p \in lo + 1 .. lo + i + j : Before(d[p], left[i + 1])
    BY <1>4 DEF Taken
  <2>2. QED
    BY <2>1
<1>9. ASSUME NEW o \in lo + 1 .. hi
      PROVE  \/ \E p \in lo + 1 .. k : e[p].o = o
             \/ \E p \in i + 1 + 1 .. mid - lo : left[p].o = o
             \/ \E q \in j + 1 .. hi - mid : right[q].o = o
  <2>1. CASE \E p \in lo + 1 .. lo + i + j : d[p].o = o
    <3>1. PICK p \in lo + 1 .. lo + i + j : d[p].o = o
      BY <2>1
    <3>2. p \in lo + 1 .. k /\ e[p].o = o
      BY <3>1
    <3>3. QED
      BY <3>2
  <2>2. CASE \E p \in i + 1 .. mid - lo : left[p].o = o
    <3>1. PICK p \in i + 1 .. mid - lo : left[p].o = o
      BY <2>2
    <3>2. p = i + 1 \/ p \in i + 1 + 1 .. mid - lo
      OBVIOUS
    <3>3. k \in lo + 1 .. k
      OBVIOUS
    <3>4. QED
      BY <3>1, <3>2, <3>3
  <2>3. QED
    BY <2>1, <2>2 DEF Taken
<1> DEFINE Out == lo + 1 .. k
           Left == i + 1 + 1 .. mid - lo
           Right == j + 1 .. hi - mid
<1>10. \A p \in Out : e[p] \in Items /\ e[p].x = data[e[p].o] /\ e[p].o \in lo + 1 .. hi
  <2>1. \A p \in lo + 1 .. lo + i + j :
          d[p] \in Items /\ d[p].x = data[d[p].o] /\ d[p].o \in lo + 1 .. hi
    BY DEF Taken
  <2>2. QED
    BY <1>2, <1>5, <2>1
<1>11. \A p \in Left : left[p] \in Items /\ left[p].o \in lo + 1 .. mid
       /\ left[p].x = data[left[p].o]
  BY <1>3 DEF Taken
<1>12. \A p, r \in Left : p < r => Before(left[p], left[r])
  BY <1>3 DEF Taken
<1>13. \A p, r \in Out : p < r => Before(e[p], e[r])
  <2>1. \A p, r \in lo + 1 .. lo + i + j : p < r => Before(d[p], d[r])
    BY DEF Taken
  <2> SUFFICES ASSUME NEW p \in Out, NEW r \in Out, p < r PROVE Before(e[p], e[r])
    OBVIOUS
  <2>2. p \in lo + 1 .. lo + i + j
    OBVIOUS
  <2>3. CASE r = k
    BY <1>8, <2>2, <2>3
  <2>4. CASE r \in lo + 1 .. lo + i + j
    BY <2>1, <2>2, <2>4
  <2>5. QED
    BY <1>2, <2>3, <2>4
<1>14. ASSUME NEW p \in Out
       PROVE  /\ \A r \in Left : Before(e[p], left[r])
              /\ \A r \in Right : Before(e[p], right[r])
  <2>1. CASE p = k
    BY <1>6, <1>7, <2>1
  <2>2. CASE p \in lo + 1 .. lo + i + j
    <3>1. \A r \in i + 1 .. mid - lo : Before(d[p], left[r])
      BY <2>2 DEF Taken
    <3>2. \A r \in Right : Before(d[p], right[r])
      BY <2>2 DEF Taken
    <3>3. QED
      BY <1>3, <2>2, <3>1, <3>2
  <2>3. QED
    BY <1>2, <2>1, <2>2
<1>15. i + 1 \in 0 .. mid - lo /\ j \in 0 .. hi - mid
  OBVIOUS
<1>16. /\ \A q \in Right : right[q] \in Items /\ right[q].o \in mid + 1 .. hi
       /\ \A q \in Right : right[q].x = data[right[q].o]
       /\ \A p, r \in Right : p < r => Before(right[p], right[r])
  BY DEF Taken
<1> HIDE DEF k, Left, Right
<1>17. QED
  BY <1>1, <1>9, <1>10, <1>11, <1>12, <1>13, <1>14, <1>15, <1>16 DEF Taken, Left, Right

\* The first of what the right part has left goes to d.
LEMMA TakenFromRight ==
  ASSUME NEW d, NEW left, NEW right, NEW e, NEW lo \in Nat, NEW mid \in Nat, NEW hi \in Nat,
         NEW i \in Nat, NEW j \in Nat, i < mid - lo, j < hi - mid, hi <= N, N \in Nat,
         Taken(data, d, left, right, lo, mid, hi, i, j),
         ~TakesLeft(left[i + 1], right[j + 1]),
         e[lo + i + j + 1] = right[j + 1],
         \A p \in lo + 1 .. lo + i + j : e[p] = d[p]
  PROVE  Taken(data, e, left, right, lo, mid, hi, i, j + 1)
<1> DEFINE k == lo + i + j + 1
<1>1. lo + i + (j + 1) = k /\ k \in Nat
  OBVIOUS
<1>2. \A p \in lo + 1 .. k : p = k \/ p \in lo + 1 .. lo + i + j
  OBVIOUS
<1>3. \A p \in j + 1 + 1 .. hi - mid : p \in j + 1 .. hi - mid /\ j + 1 < p
  OBVIOUS
<1>4. i + 1 \in i + 1 .. mid - lo /\ j + 1 \in j + 1 .. hi - mid
  OBVIOUS
<1>5. right[j + 1] \in Items /\ right[j + 1].o \in mid + 1 .. hi
      /\ right[j + 1].x = data[right[j + 1].o]
  BY <1>4 DEF Taken
<1>6. \A r \in j + 1 + 1 .. hi - mid : Before(right[j + 1], right[r])
  BY <1>3, <1>4 DEF Taken
<1>7. ASSUME NEW r \in i + 1 .. mid - lo PROVE Before(right[j + 1], left[r])
  <2>1. left[i + 1] \in Items /\ left[r] \in Items
    BY <1>4 DEF Taken
  <2>2. r = i + 1 \/ Before(left[i + 1], left[r])
    BY <1>4 DEF Taken
  <2>3. right[j + 1].x \in Nat /\ left[i + 1].x \in Nat /\ left[r].x \in Nat
    BY <1>5, <2>1 DEF Items
  <2>4. right[j + 1].x < left[r].x
    BY <2>2, <2>3 DEF Before, TakesLeft
  <2>5. QED
    BY <2>3, <2>4 DEF Before
<1>8. \A p \in lo + 1 .. k - 1 : Before(e[p], e[k])
  <2>1. \A p \in lo + 1 .. lo + i + j : Before(d[p], right[j + 1])
    BY <1>4 DEF Taken
  <2>2. QED
    BY <2>1
<1>9. ASSUME NEW o \in lo + 1 .. hi
      PROVE  \/ \E p \in lo + 1 .. k : e[p].o = o
             \/ \E p \in i + 1 .. mid - lo : left[p].o = o
             \/ \E q \in j + 1 + 1 .. hi - mid : right[q].o = o
  <2>1. CASE \E p \in lo + 1 .. lo + i + j : d[p].o = o
    <3>1. PICK p \in lo + 1 .. lo + i + j : d[p].o = o
      BY <2>1
    <3>2. p \in lo + 1 .. k /\ e[p].o = o
      BY <3>1
    <3>3. QED
      BY <3>2
  <2>2. CASE \E q \in j + 1 .. hi - mid : right[q].o = o
    <3>1. PICK q \in j + 1 .. hi - mid : right[q].o = o
      BY <2>2
    <3>2. q = j + 1 \/ q \in j + 1 + 1 .. hi - mid
      OBVIOUS
    <3>3. k \in lo + 1 .. k
      OBVIOUS
    <3>4. QED
      BY <3>1, <3>2, <3>3
  <2>3. QED
    BY <2>1, <2>2 DEF Taken
<1> DEFINE Out == lo + 1 .. k
           Left == i + 1 .. mid - lo
           Right == j + 1 + 1 .. hi - mid
<1>10. \A p \in Out : e[p] \in Items /\ e[p].x = data[e[p].o] /\ e[p].o \in lo + 1 .. hi
  <2>1. \A p \in lo + 1 .. lo + i + j :
          d[p] \in Items /\ d[p].x = data[d[p].o] /\ d[p].o \in lo + 1 .. hi
    BY DEF Taken
  <2>2. QED
    BY <1>2, <1>5, <2>1
<1>11. \A q \in Right : right[q] \in Items /\ right[q].o \in mid + 1 .. hi
       /\ right[q].x = data[right[q].o]
  BY <1>3 DEF Taken
<1>12. \A p, r \in Right : p < r => Before(right[p], right[r])
  BY <1>3 DEF Taken
<1>13. \A p, r \in Out : p < r => Before(e[p], e[r])
  <2>1. \A p, r \in lo + 1 .. lo + i + j : p < r => Before(d[p], d[r])
    BY DEF Taken
  <2> SUFFICES ASSUME NEW p \in Out, NEW r \in Out, p < r PROVE Before(e[p], e[r])
    OBVIOUS
  <2>2. p \in lo + 1 .. lo + i + j
    OBVIOUS
  <2>3. CASE r = k
    BY <1>8, <2>2, <2>3
  <2>4. CASE r \in lo + 1 .. lo + i + j
    BY <2>1, <2>2, <2>4
  <2>5. QED
    BY <1>2, <2>3, <2>4
<1>14. ASSUME NEW p \in Out
       PROVE  /\ \A r \in Left : Before(e[p], left[r])
              /\ \A r \in Right : Before(e[p], right[r])
  <2>1. CASE p = k
    BY <1>6, <1>7, <2>1
  <2>2. CASE p \in lo + 1 .. lo + i + j
    <3>1. \A r \in Left : Before(d[p], left[r])
      BY <2>2 DEF Taken
    <3>2. \A r \in j + 1 .. hi - mid : Before(d[p], right[r])
      BY <2>2 DEF Taken
    <3>3. QED
      BY <1>3, <2>2, <3>1, <3>2
  <2>3. QED
    BY <1>2, <2>1, <2>2
<1>15. i \in 0 .. mid - lo /\ j + 1 \in 0 .. hi - mid
  OBVIOUS
<1>16. /\ \A p \in Left : left[p] \in Items /\ left[p].o \in lo + 1 .. mid
       /\ \A p \in Left : left[p].x = data[left[p].o]
       /\ \A p, r \in Left : p < r => Before(left[p], left[r])
  BY DEF Taken
<1> HIDE DEF k, Left, Right
<1>17. QED
  BY <1>1, <1>9, <1>10, <1>11, <1>12, <1>13, <1>14, <1>15, <1>16 DEF Taken, Left, Right

\* One part is used up, and what the other has left follows in d.
LEMMA TakenEnds ==
  ASSUME NEW d, NEW left, NEW right, NEW e, NEW lo \in Nat, NEW mid \in Nat, NEW hi \in Nat,
         NEW i \in Nat, NEW j \in Nat, i = mid - lo \/ j = hi - mid,
         Taken(data, d, left, right, lo, mid, hi, i, j),
         \A p \in lo + 1 .. lo + i + j : e[p] = d[p],
         \A p \in lo + i + j + 1 .. hi :
           e[p] = IF i = mid - lo THEN right[p - mid] ELSE left[p - lo - j]
  PROVE  InOrder(data, e, lo, hi)
<1> DEFINE Out == lo + 1 .. lo + i + j
           More == lo + i + j + 1 .. hi
           Left == i + 1 .. mid - lo
           Right == j + 1 .. hi - mid
<1>0. i \in 0 .. mid - lo /\ j \in 0 .. hi - mid
  BY DEF Taken
<1>1. CASE i = mid - lo
  <2>1. Left = {}
    BY <1>1
  <2>2. \A p \in More : p - mid \in Right /\ e[p] = right[p - mid]
    BY <1>0, <1>1
  <2>3. \A q \in Right : mid + q \in More /\ e[mid + q] = right[q]
    <3> SUFFICES ASSUME NEW q \in Right PROVE mid + q \in More /\ e[mid + q] = right[q]
      OBVIOUS
    <3>1. mid + q \in More /\ (mid + q) - mid = q
      BY <1>0, <1>1
    <3>2. QED
      BY <2>2, <3>1
  <2>4. \A p \in lo + 1 .. hi : p \in Out \/ p \in More
    BY <1>0
  <2>5. {e[p].o : p \in lo + 1 .. hi} = lo + 1 .. hi
    <3>1. ASSUME NEW p \in lo + 1 .. hi PROVE e[p].o \in lo + 1 .. hi
      <4>1. CASE p \in Out
        BY <4>1 DEF Taken
      <4>2. CASE p \in More
        <5>1. right[p - mid].o \in mid + 1 .. hi
          BY <2>2, <4>2 DEF Taken
        <5>2. QED
          BY <1>0, <1>1, <2>2, <4>2, <5>1
      <4>3. QED
        BY <2>4, <4>1, <4>2
    <3>2. ASSUME NEW o \in lo + 1 .. hi PROVE \E p \in lo + 1 .. hi : e[p].o = o
      <4>1. CASE \E p \in Out : d[p].o = o
        <5>1. PICK p \in Out : d[p].o = o
          BY <4>1
        <5>2. p \in lo + 1 .. hi /\ e[p].o = o
          BY <1>0, <5>1
        <5>3. QED
          BY <5>2
      <4>2. CASE \E q \in Right : right[q].o = o
        <5>1. PICK q \in Right : right[q].o = o
          BY <4>2
        <5>2. mid + q \in lo + 1 .. hi /\ e[mid + q].o = o
          BY <1>0, <1>1, <2>3, <5>1
        <5>3. QED
          BY <5>2
      <4>3. QED
        BY <2>1, <4>1, <4>2 DEF Taken
    <3>3. QED
      BY <3>1, <3>2
  <2>6. \A p \in lo + 1 .. hi : e[p].x = data[e[p].o]
    <3>1. \A p \in Out : d[p].x = data[d[p].o]
      BY DEF Taken
    <3>2. \A q \in Right : right[q].x = data[right[q].o]
      BY DEF Taken
    <3>3. QED
      BY <2>2, <2>4, <3>1, <3>2
  <2>7. ASSUME NEW p \in lo + 1 .. hi, NEW r \in lo + 1 .. hi, p < r PROVE Before(e[p], e[r])
    <3>1. CASE p \in Out /\ r \in Out
      BY <2>7, <3>1 DEF Taken
    <3>2. CASE p \in Out /\ r \in More
      <4>1. \A q \in Right : Before(d[p], right[q])
        BY <3>2 DEF Taken
      <4>2. QED
        BY <2>2, <3>2, <4>1
    <3>3. CASE p \in More /\ r \in More
      <4>1. \A q, s \in Right : q < s => Before(right[q], right[s])
        BY DEF Taken
      <4>2. p - mid < r - mid
        BY <2>7
      <4>3. QED
        BY <2>2, <3>3, <4>1, <4>2
    <3>4. ~(p \in More /\ r \in Out)
      BY <1>0, <2>7
    <3>5. QED
      BY <2>4, <3>1, <3>2, <3>3, <3>4
  <2>8. QED
    BY <2>5, <2>6, <2>7 DEF InOrder
<1>2. CASE i # mid - lo
  <2>1. Right = {}
    BY <1>2
  <2>2. \A p \in More : p - lo - j \in Left /\ e[p] = left[p - lo - j]
    BY <1>0, <1>2
  <2>3. \A q \in Left : lo + j + q \in More /\ e[lo + j + q] = left[q]
    <3> SUFFICES ASSUME NEW q \in Left PROVE lo + j + q \in More /\ e[lo + j + q] = left[q]
      OBVIOUS
    <3>1. lo + j + q \in More /\ (lo + j + q) - lo - j = q
      BY <1>0, <1>2
    <3>2. QED
      BY <2>2, <3>1
  <2>4. \A p \in lo + 1 .. hi : p \in Out \/ p \in More
    BY <1>0
  <2>5. {e[p].o : p \in lo + 1 .. hi} = lo + 1 .. hi
    <3>1. ASSUME NEW p \in lo + 1 .. hi PROVE e[p].o \in lo + 1 .. hi
      <4>1. CASE p \in Out
        BY <4>1 DEF Taken
      <4>2. CASE p \in More
        <5>1. left[p - lo - j].o \in lo + 1 .. mid
          BY <2>2, <4>2 DEF Taken
        <5>2. QED
          BY <1>0, <1>2, <2>2, <4>2, <5>1
      <4>3. QED
        BY <2>4, <4>1, <4>2
    <3>2. ASSUME NEW o \in lo + 1 .. hi PROVE \E p \in lo + 1 .. hi : e[p].o = o
      <4>1. CASE \E p \in Out : d[p].o = o
        <5>1. PICK p \in Out : d[p].o = o
          BY <4>1
        <5>2. p \in lo + 1 .. hi /\ e[p].o = o
          BY <1>0, <5>1
        <5>3. QED
          BY <5>2
      <4>2. CASE \E q \in Left : left[q].o = o
        <5>1. PICK q \in Left : left[q].o = o
          BY <4>2
        <5>2. lo + j + q \in lo + 1 .. hi /\ e[lo + j + q].o = o
          BY <1>0, <1>2, <2>3, <5>1
        <5>3. QED
          BY <5>2
      <4>3. QED
        BY <2>1, <4>1, <4>2 DEF Taken
    <3>3. QED
      BY <3>1, <3>2
  <2>6. \A p \in lo + 1 .. hi : e[p].x = data[e[p].o]
    <3>1. \A p \in Out : d[p].x = data[d[p].o]
      BY DEF Taken
    <3>2. \A q \in Left : left[q].x = data[left[q].o]
      BY DEF Taken
    <3>3. QED
      BY <2>2, <2>4, <3>1, <3>2
  <2>7. ASSUME NEW p \in lo + 1 .. hi, NEW r \in lo + 1 .. hi, p < r PROVE Before(e[p], e[r])
    <3>1. CASE p \in Out /\ r \in Out
      BY <2>7, <3>1 DEF Taken
    <3>2. CASE p \in Out /\ r \in More
      <4>1. \A q \in Left : Before(d[p], left[q])
        BY <3>2 DEF Taken
      <4>2. QED
        BY <2>2, <3>2, <4>1
    <3>3. CASE p \in More /\ r \in More
      <4>1. \A q, s \in Left : q < s => Before(left[q], left[s])
        BY DEF Taken
      <4>2. p - lo - j < r - lo - j
        BY <2>7
      <4>3. QED
        BY <2>2, <3>3, <4>1, <4>2
    <3>4. ~(p \in More /\ r \in Out)
      BY <1>0, <2>7
    <3>5. QED
      BY <2>4, <3>1, <3>2, <3>3, <3>4
  <2>8. QED
    BY <2>5, <2>6, <2>7 DEF InOrder
<1>3. QED
  BY <1>1, <1>2
-----------------------------------------------------------------------------
(***************************************************************************)
(* The next run                                                            *)
(***************************************************************************)
LEMMA RunEnds ==
  ASSUME N \in Nat, NEW from \in Nat, from < N
  PROVE  /\ RunEnd(from) \in from + 1 .. N
         /\ Ascends(from) => \A k \in from + 2 .. RunEnd(from) : a[k - 1].x <= a[k].x
         /\ ~Ascends(from) => \A k \in from + 2 .. RunEnd(from) : a[k].x < a[k - 1].x
<1> DEFINE goesOn(k) == IF Ascends(from) THEN a[k - 1].x <= a[k].x ELSE a[k].x < a[k - 1].x
           S == {e \in from + 1 .. N : \A k \in from + 2 .. e : goesOn(k)}
<1>1. RunEnd(from) = Max(S)
  BY DEF RunEnd
<1>2. from + 1 \in S
  OBVIOUS
<1>3. S \in SUBSET (0 .. N)
  OBVIOUS
<1> HIDE DEF S
<1>4. Max(S) \in S
  BY <1>2, <1>3, MaxOf
<1>5. QED
  BY <1>1, <1>4 DEF S

LEMMA RunSorts ==
  ASSUME N \in Nat, a \in Arrays(N), NEW from \in Nat, from < N,
         \A p \in from + 1 .. N : a[p] = Original(p),
         NEW r, r = IF Ascends(from) THEN a ELSE Reversed(from, RunEnd(from))
  PROVE  /\ r \in Arrays(N)
         /\ InOrder(data, r, from, RunEnd(from))
         /\ \A p \in 1 .. N : p \notin from + 1 .. RunEnd(from) => r[p] = a[p]
<1> DEFINE e == RunEnd(from)
<1>1. e \in from + 1 .. N
  BY RunEnds
<1>2. \A p \in from + 1 .. e : a[p].o = p /\ a[p].x = data[p] /\ a[p].x \in Nat
  <2>1. \A p \in from + 1 .. e : p \in from + 1 .. N /\ p \in 1 .. N
    BY <1>1
  <2>2. \A p \in 1 .. N : a[p].x \in Nat
    BY DEF Arrays, Items
  <2> SUFFICES ASSUME NEW p \in from + 1 .. e
               PROVE  a[p].o = p /\ a[p].x = data[p] /\ a[p].x \in Nat
    OBVIOUS
  <2>3. a[p] = [x |-> data[p], o |-> p]
    BY <2>1 DEF Original
  <2>4. QED
    BY <2>1, <2>2, <2>3
<1> DEFINE f == [p \in 1 .. N |-> a[p].x]
<1>3. \A p \in 1 .. N : f[p] \in Nat
  BY DEF Arrays, Items
<1>4. from + 1 \in 1 .. N /\ e \in 1 .. N
  BY <1>1
<1>5. CASE Ascends(from)
  <2>1. \A k \in (from + 1) + 1 .. e : f[k - 1] <= f[k]
    BY <1>1, <1>5, RunEnds
  <2> HIDE DEF f
  <2>2. ASSUME NEW p \in from + 1 .. e, NEW q \in from + 1 .. e, p < q PROVE Before(a[p], a[q])
    <3>1. p \in from + 1 .. e /\ q \in p .. e
      BY <2>2, <1>1
    <3>2. f[p] <= f[q]
      BY <1>3, <1>4, <2>1, <3>1, AscendsAll
    <3>3. f[p] = a[p].x /\ f[q] = a[q].x
      BY <1>1 DEF f
    <3>4. QED
      BY <1>2, <2>2, <3>2, <3>3 DEF Before
  <2>3. {a[p].o : p \in from + 1 .. e} = from + 1 .. e
    BY <1>2
  <2>4. InOrder(data, a, from, e)
    BY <1>2, <2>2, <2>3 DEF InOrder
  <2>5. QED
    BY <1>5, <2>4
<1>6. CASE ~Ascends(from)
  <2>1. \A k \in (from + 1) + 1 .. e : f[k] < f[k - 1]
    BY <1>1, <1>6, RunEnds
  <2> HIDE DEF f
  <2>2. \A p \in from + 1 .. e : from + e + 1 - p \in from + 1 .. e /\ from + e + 1 - p \in 1 .. N
    BY <1>1
  <2>3. r = [p \in 1 .. N |-> IF p \in from + 1 .. e THEN a[from + e + 1 - p] ELSE a[p]]
    BY <1>6 DEF Reversed
  <2>4. \A p \in from + 1 .. e : r[p] = a[from + e + 1 - p]
    <3>1. \A p \in from + 1 .. e : p \in 1 .. N
      BY <1>1
    <3>2. QED
      BY <2>3, <3>1
  <2>5. \A p \in 1 .. N : a[p] \in Items
    BY DEF Arrays
  <2>6. r \in Arrays(N)
    <3>1. \A p \in 1 .. N : (IF p \in from + 1 .. e THEN a[from + e + 1 - p] ELSE a[p]) \in Items
      BY <2>2, <2>5
    <3>2. QED
      BY <2>3, <3>1 DEF Arrays
  <2>7. ASSUME NEW p \in from + 1 .. e, NEW q \in from + 1 .. e, p < q PROVE Before(r[p], r[q])
    <3> DEFINE p1 == from + e + 1 - p
               q1 == from + e + 1 - q
    <3>1. q1 \in from + 1 .. e /\ p1 \in q1 + 1 .. e
      BY <1>1, <2>7
    <3>2. f[p1] < f[q1]
      BY <1>3, <1>4, <2>1, <3>1, DescendsAll
    <3>3. f[p1] = a[p1].x /\ f[q1] = a[q1].x
      BY <2>2 DEF f
    <3>4. a[p1].x < a[q1].x
      BY <3>2, <3>3
    <3>5. QED
      BY <2>4, <3>4 DEF Before
  <2>8. {r[p].o : p \in from + 1 .. e} = from + 1 .. e
    <3>1. ASSUME NEW o \in from + 1 .. e PROVE \E p \in from + 1 .. e : r[p].o = o
      <4>1. from + e + 1 - o \in from + 1 .. e /\ from + e + 1 - (from + e + 1 - o) = o
        BY <1>1
      <4>2. r[from + e + 1 - o].o = o
        BY <1>2, <2>4, <4>1
      <4>3. QED
        BY <4>1, <4>2
    <3>2. \A p \in from + 1 .. e : r[p].o \in from + 1 .. e
      BY <1>2, <2>2, <2>4
    <3>3. QED
      BY <3>1, <3>2
  <2>9. \A p \in from + 1 .. e : r[p].x = data[r[p].o]
    BY <1>2, <2>2, <2>4
  <2>10. InOrder(data, r, from, e)
    BY <2>7, <2>8, <2>9 DEF InOrder
  <2>11. QED
    BY <2>3, <2>6, <2>10
<1>7. QED
  BY <1>5, <1>6
-----------------------------------------------------------------------------
(***************************************************************************)
(* The inductive invariant                                                 *)
(***************************************************************************)
TypeOK ==
  /\ data \in Seq(Nat) \ {<<>>}
  /\ A \in {1, 5, 6}
  /\ a \in Arrays(N)
  /\ t \in Arrays(N)
  /\ flip \in BOOLEAN
  /\ width \in Nat \ {0}
  /\ lost \in BOOLEAN
  /\ block \in [from : 0 .. N, to : 0 .. N, i : 1 .. N + 1]
  /\ m \in [from : 0 .. N, mid : 0 .. N, to : 0 .. N, i : Nat, j : Nat,
            next : {"call", "pair", "stack", "final"}]
  /\ stack \in Seq(0 .. N)
  /\ pc \in {"call", "minrun", "insert", "passes", "pair", "merge", "runs", "stack", "final",
             "done"}

\* The items behind from are where they were.
Unread(keys, s, from) == \A p \in from + 1 .. Len(keys) : s[p] = [x |-> keys[p], o |-> p]

\* The blocks of length w that start before to are sorted.
SortedBlocks(keys, s, w, to) ==
  \A q \in Nat : q * w < to => InOrder(keys, s, q * w, Least(q * w + w, Len(keys)))

\* ShrinkUpTo, of any stack.
Shrinking(st, top) ==
  \A k \in 2 .. top - 2 : st[k + 1] - st[k] > st[k + 2] - st[k + 1]

StartInv ==
  /\ pc = "call" => block = [from |-> 0, to |-> N, i |-> 1]
  /\ pc \in {"call", "minrun"} => flip = FALSE /\ Unread(data, a, 0)
  /\ pc = "minrun" => A \in {5, 6}

InsertInv ==
  pc = "insert" =>
    /\ flip = FALSE
    /\ block.from < block.i /\ block.i <= block.to
    /\ InOrder(data, a, block.from, block.i)
    /\ Unread(data, a, block.i)
    /\ A = 1 => block.from = 0 /\ block.to = N
    /\ A = 5 =>
         /\ \E q \in Nat : block.from = q * width
         /\ block.to = Least(block.from + width, N)
         /\ SortedBlocks(data, a, width, block.from)
    /\ A = 6 => block.from = Top

\* The two parts of the merge under way, as far as they are not taken.
LeftPart == [p \in 1 .. m.mid - m.from |-> LeftItem(p)]
RightPart == [q \in 1 .. m.to - m.mid |-> RightItem(q)]

MergeInv ==
  pc = "merge" =>
    /\ A \in {5, 6}
    /\ m.from < m.mid /\ m.mid < m.to
    /\ Taken(data, Dest, LeftPart, RightPart, m.from, m.mid, m.to, m.i, m.j)

\* mergesort1 between its passes and in one, where all pairs before the one that is merged
\* are done in the array that the pass writes to.
PassInv ==
  /\ pc = "passes" => A = 5 /\ SortedBlocks(data, Dest, width, N)
  /\ pc = "pair" =>
       /\ A = 5
       /\ m.to = N \/ \E q \in Nat : m.to = q * (2 * width)
       /\ SortedBlocks(data, Dest, 2 * width, m.to)
       /\ SortedBlocks(data, Source, width, N)
  /\ pc = "merge" /\ A = 5 =>
       /\ \E q \in Nat : m.from = q * (2 * width)
       /\ m.mid = m.from + width
       /\ m.to = Least(m.from + 2 * width, N)
       /\ m.next = "pair"
       /\ SortedBlocks(data, Dest, 2 * width, m.from)
       /\ SortedBlocks(data, Source, width, N)

StackInv ==
  /\ 2 <= Len(stack) /\ stack[1] = 0 /\ stack[2] = 0
  /\ \A k, l \in 2 .. Len(stack) : k < l => stack[k] < stack[l]
  /\ Unread(data, a, IF pc = "insert" THEN block.i ELSE Top)
  /\ \A k \in 2 .. Len(stack) - 1 :
       (pc = "merge" => stack[k] # m.from) => InOrder(data, a, stack[k], stack[k + 1])

\* How much of the stack is in order, when merge_stack() is at work and when
\* final_merge_stack() is.
Shrinks(at) ==
  /\ 3 <= Len(stack)
  /\ at \in {"stack", "final"}
  /\ at = "stack" => Shrinking(stack, Len(stack) - 2)
  /\ at = "final" => Shrinking(stack, Len(stack) - 1) /\ Top = N

TimSortInv ==
  /\ A # 5 => flip = FALSE
  /\ pc \in {"runs", "stack", "final"} => A = 6
  /\ pc \in {"insert", "merge", "runs", "stack", "final"} /\ A = 6 => StackInv
  /\ pc \in {"insert", "runs"} /\ A = 6 => Shrinking(stack, Len(stack)) /\ Top < N
  /\ pc \in {"stack", "final"} => Shrinks(pc)
  /\ pc = "merge" /\ A = 6 =>
       /\ Shrinks(m.next)
       /\ \E k \in 2 .. Len(stack) - 1 : m.from = stack[k] /\ m.to = stack[k + 1]

DoneInv ==
  pc = "done" => InOrder(data, a, 0, N) /\ (A = 6 => stack = <<0, 0, N>>)

IInv ==
  /\ TypeOK
  /\ StartInv
  /\ InsertInv
  /\ MergeInv
  /\ PassInv
  /\ TimSortInv
  /\ DoneInv
-----------------------------------------------------------------------------
LEMMA Basics ==
  ASSUME TypeOK
  PROVE  /\ N \in Nat \ {0} /\ N = Len(data) /\ data \in [1 .. N -> Nat]
         /\ Dest \in Arrays(N) /\ Source \in Arrays(N)
         /\ Len(stack) \in Nat /\ stack \in [1 .. Len(stack) -> 0 .. N]
         /\ DOMAIN stack = 1 .. Len(stack)
<1>1. data \in Seq(Nat) /\ data # <<>>
  BY DEF TypeOK
<1>2. Len(data) \in Nat \ {0} /\ data \in [1 .. Len(data) -> Nat]
  BY <1>1, EmptySeq, LenProperties
<1>3. Dest \in Arrays(N) /\ Source \in Arrays(N)
  BY DEF TypeOK, Dest, Source
<1>4. Len(stack) \in Nat /\ stack \in [1 .. Len(stack) -> 0 .. N] /\ DOMAIN stack = 1 .. Len(stack)
  BY LenProperties DEF TypeOK
<1>5. QED
  BY <1>2, <1>3, <1>4 DEF N

LEMMA InitInv == StableInit => IInv
<1> SUFFICES ASSUME StableInit PROVE IInv
  OBVIOUS
<1> USE DEF StableInit, StartSort
<1>1. N \in Nat \ {0} /\ data \in [1 .. N -> Nat]
  <2>1. Len(data) \in Nat \ {0} /\ data \in [1 .. Len(data) -> Nat]
    BY EmptySeq, LenProperties
  <2>2. QED
    BY <2>1 DEF N
<1>2. a \in Arrays(N) /\ t \in Arrays(N)
  <2>1. \A p \in 1 .. N : Original(p) \in Items
    BY <1>1 DEF Original, Items
  <2>2. QED
    BY <2>1 DEF Arrays
<1>3. block \in [from : 0 .. N, to : 0 .. N, i : 1 .. N + 1]
  BY <1>1
<1>4. m \in [from : 0 .. N, mid : 0 .. N, to : 0 .. N, i : Nat, j : Nat,
             next : {"call", "pair", "stack", "final"}]
  BY <1>1
<1>5. stack \in Seq(0 .. N)
  BY EmptySeq
<1>6. TypeOK
  BY <1>1, <1>2, <1>3, <1>4, <1>5 DEF TypeOK
<1>7. Unread(data, a, 0)
  <2>1. \A p \in 0 + 1 .. Len(data) : p \in 1 .. N
    BY DEF N
  <2>2. QED
    BY <2>1 DEF Unread, Original
<1>8. QED
  BY <1>6, <1>7 DEF IInv, StartInv, InsertInv, MergeInv, PassInv, TimSortInv, DoneInv

\* An array that is as it was: the first item of a block is a sorted block.
LEMMA FirstItem ==
  ASSUME NEW from \in Nat, NEW p0 \in Nat, p0 <= from, from < N, N \in Nat, Unread(data, a, p0)
  PROVE  InOrder(data, a, from, from + 1)
<1>1. a[from + 1] = Original(from + 1)
  BY DEF Unread, Original, N
<1>2. QED
  BY <1>1, OneItem

LEMMA InsertSort0CallInv == IInv /\ InsertSort0Call => IInv'
<1> SUFFICES ASSUME IInv, InsertSort0Call PROVE IInv'
  OBVIOUS
<1> USE DEF InsertSort0Call, arrays
<1>1. TypeOK' /\ data' = data /\ N' = N
  BY DEF IInv, TypeOK, N
<1>2. N \in Nat \ {0} /\ N = Len(data)
  BY Basics DEF IInv
<1>3. block = [from |-> 0, to |-> N, i |-> 1] /\ flip = FALSE /\ Unread(data, a, 0)
  BY DEF IInv, StartInv
<1>4. InOrder(data, a, 0, 1)
  BY <1>2, <1>3, FirstItem
<1>5. Unread(data, a, 1)
  BY <1>3 DEF Unread
<1>6. InsertInv'
  BY <1>1, <1>2, <1>3, <1>4, <1>5 DEF InsertInv
<1>7. StartInv' /\ MergeInv' /\ PassInv' /\ TimSortInv' /\ DoneInv'
  BY <1>3 DEF StartInv, MergeInv, PassInv, TimSortInv, DoneInv
<1>8. QED
  BY <1>1, <1>6, <1>7 DEF IInv

LEMMA MergeSortCallInv == IInv /\ MergeSortCall => IInv'
<1> SUFFICES ASSUME IInv, MergeSortCall PROVE IInv'
  OBVIOUS
<1> USE DEF MergeSortCall, arrays
<1>1. TypeOK' /\ data' = data
  BY DEF IInv, TypeOK, N
<1>2. flip = FALSE /\ Unread(data, a, 0)
  BY DEF IInv, StartInv
<1>3. StartInv' /\ InsertInv' /\ MergeInv' /\ PassInv' /\ TimSortInv' /\ DoneInv'
  BY <1>2 DEF StartInv, InsertInv, MergeInv, PassInv, TimSortInv, DoneInv
<1>4. QED
  BY <1>1, <1>3 DEF IInv

LEMMA HalveInv == IInv /\ Halve => IInv'
<1> SUFFICES ASSUME IInv, Halve PROVE IInv'
  OBVIOUS
<1> USE DEF Halve, arrays
<1>1. width' \in Nat \ {0}
  BY RunLimitAssumption DEF IInv, TypeOK
<1>2. TypeOK' /\ data' = data
  BY <1>1 DEF IInv, TypeOK, N
<1>3. flip = FALSE /\ Unread(data, a, 0) /\ A \in {5, 6}
  BY DEF IInv, StartInv
<1>4. StartInv' /\ InsertInv' /\ MergeInv' /\ PassInv' /\ TimSortInv' /\ DoneInv'
  BY <1>3 DEF StartInv, InsertInv, MergeInv, PassInv, TimSortInv, DoneInv
<1>5. QED
  BY <1>2, <1>4 DEF IInv

\* A block that begins at a multiple of the width.
LEMMA MinrunBlock ==
  ASSUME N \in Nat, NEW from \in 0 .. N, NEW w \in Nat \ {0}
  PROVE  /\ Minrun(from, w) \in [from : 0 .. N, to : 0 .. N, i : 1 .. N + 1]
         /\ Minrun(from, w).from = from /\ Minrun(from, w).i = from + 1
         /\ Minrun(from, w).to = Least(from + w, N)
         /\ from < N => from + 1 <= Least(from + w, N)
BY DEF Minrun, Least

LEMMA SortMinrunsInv == IInv /\ SortMinruns => IInv'
<1> SUFFICES ASSUME IInv, SortMinruns PROVE IInv'
  OBVIOUS
<1> USE DEF SortMinruns, HasMinrun, arrays
<1>1. width' \in Nat \ {0}
  BY DEF IInv, TypeOK
<1>2. N \in Nat \ {0} /\ N = Len(data)
  BY Basics DEF IInv
<1>3. 0 \in 0 .. N
  BY <1>2
<1>4. block' = Minrun(0, width')
  OBVIOUS
<1>5. /\ block' \in [from : 0 .. N, to : 0 .. N, i : 1 .. N + 1]
      /\ block'.from = 0 /\ block'.i = 1 /\ 1 <= block'.to
      /\ block'.to = Least(width', N)
  <2>1. 0 + width' = width' /\ 0 + 1 = 1
    BY <1>1
  <2>2. 1 <= Least(0 + width', N)
    BY <1>1, <1>2, <2>1 DEF Least
  <2>3. /\ Minrun(0, width') \in [from : 0 .. N, to : 0 .. N, i : 1 .. N + 1]
        /\ Minrun(0, width').from = 0 /\ Minrun(0, width').i = 0 + 1
        /\ Minrun(0, width').to = Least(0 + width', N)
    BY ONLY <1>1, <1>2, <1>3, MinrunBlock
  <2>4. QED
    BY <1>4, <2>1, <2>2, <2>3
<1>6. TypeOK' /\ data' = data /\ N' = N
  BY <1>1, <1>5 DEF IInv, TypeOK, N
<1>7. flip = FALSE /\ Unread(data, a, 0)
  BY DEF IInv, StartInv
<1>8. InOrder(data, a, 0, 1) /\ Unread(data, a, 1)
  <2>1. InOrder(data, a, 0, 0 + 1)
    BY <1>2, <1>7, FirstItem
  <2>2. QED
    BY <1>7, <2>1 DEF Unread
<1>9. SortedBlocks(data, a, width', 0)
  BY <1>1 DEF SortedBlocks
<1>10. 0 = 0 * width' /\ 0 \in Nat /\ 0 + width' = width'
  BY <1>1
<1>11. InsertInv'
  <2>1. (\E q \in Nat : block.from = q * width)'
    BY <1>5, <1>10
  <2>2. SortedBlocks(data, a, width, block.from)'
    BY <1>5, <1>6, <1>9
  <2>3. (block.from < block.i /\ block.i <= block.to)'
    BY <1>5
  <2>4. InOrder(data, a, block.from, block.i)' /\ Unread(data, a, block.i)'
    BY <1>5, <1>6, <1>8
  <2>5. (block.to = Least(block.from + width, N))'
    BY <1>5, <1>6, <1>10
  <2>6. flip' = FALSE /\ A' = 5
    BY <1>7
  <2>7. QED
    BY <2>1, <2>2, <2>3, <2>4, <2>5, <2>6 DEF InsertInv
<1>12. StartInv' /\ MergeInv' /\ PassInv' /\ TimSortInv' /\ DoneInv'
  BY <1>7 DEF StartInv, MergeInv, PassInv, TimSortInv, DoneInv
<1>13. QED
  BY <1>6, <1>11, <1>12 DEF IInv

LEMMA StartTimSortInv == IInv /\ StartTimSort => IInv'
<1> SUFFICES ASSUME IInv, StartTimSort PROVE IInv'
  OBVIOUS
<1> USE DEF StartTimSort, HasMinrun, arrays
<1>1. width' \in Nat \ {0}
  BY DEF IInv, TypeOK
<1>2. N \in Nat \ {0} /\ N = Len(data)
  BY Basics DEF IInv
<1>3. stack' = <<0, 0>> /\ stack' \in Seq(0 .. N) /\ Len(stack') = 2
      /\ stack'[1] = 0 /\ stack'[2] = 0
  BY <1>2
<1>4. TypeOK' /\ data' = data /\ N' = N
  BY <1>1, <1>3 DEF IInv, TypeOK, N
<1>5. flip = FALSE /\ Unread(data, a, 0)
  BY DEF IInv, StartInv
<1>6. Top' = 0
  BY <1>3 DEF Top
<1>7. StackInv'
  <2>1. \A k \in 2 .. Len(stack') - 1 : FALSE
    BY <1>3
  <2>2. \A k, l \in 2 .. Len(stack') : ~(k < l)
    BY <1>3
  <2>3. Unread(data', a', Top')
    BY <1>4, <1>5, <1>6
  <2>4. QED
    BY <1>3, <2>1, <2>2, <2>3 DEF StackInv
<1>8. Shrinking(stack', Len(stack'))
  BY <1>3 DEF Shrinking
<1>9. TimSortInv'
  BY <1>2, <1>4, <1>5, <1>6, <1>7, <1>8 DEF TimSortInv
<1>10. StartInv' /\ InsertInv' /\ MergeInv' /\ PassInv' /\ DoneInv'
  BY DEF StartInv, InsertInv, MergeInv, PassInv, DoneInv
<1>11. QED
  BY <1>4, <1>9, <1>10 DEF IInv
-----------------------------------------------------------------------------
(***************************************************************************)
(* What stays sorted when something else changes                           *)
(***************************************************************************)
LEMMA BlockEnds ==
  ASSUME NEW w \in Nat, NEW q \in Nat, NEW r \in Nat, q * w < r * w
  PROVE  q * w + w <= r * w
<1>1. q < r
  <2>1. SUFFICES ASSUME r <= q PROVE r * w <= q * w
    OBVIOUS
  <2>2. PICK k \in Nat : q = r + k
    <3>1. q - r \in Nat /\ q = r + (q - r)
      BY <2>1
    <3>2. QED
      BY <3>1
  <2>3. q * w = r * w + k * w /\ k * w \in Nat /\ r * w \in Nat
    BY <2>2
  <2>4. QED
    BY <2>3
<1>2. PICK k \in Nat : r = q + 1 + k
  <2>1. r - q - 1 \in Nat /\ r = q + 1 + (r - q - 1)
    BY <1>1
  <2>2. QED
    BY <2>1
<1>3. r * w = q * w + w + k * w /\ k * w \in Nat /\ q * w \in Nat
  BY <1>2
<1>4. QED
  BY <1>3

LEMMA SameBlocks ==
  ASSUME N \in Nat, NEW s, NEW r, NEW w \in Nat \ {0}, NEW q0 \in Nat, NEW to, to = q0 * w,
         SortedBlocks(data, s, w, to),
         \A p \in 1 .. N : p <= to => r[p] = s[p]
  PROVE  SortedBlocks(data, r, w, to)
<1> SUFFICES ASSUME NEW q \in Nat, q * w < to
             PROVE  InOrder(data, r, q * w, Least(q * w + w, Len(data)))
  BY DEF SortedBlocks
<1>1. q * w \in Nat /\ q * w + w <= to /\ to \in Nat
  BY BlockEnds
<1>2. Least(q * w + w, Len(data)) \in Nat /\ Least(q * w + w, Len(data)) <= N
      /\ Least(q * w + w, Len(data)) <= to
  BY <1>1 DEF Least, N
<1>3. InOrder(data, s, q * w, Least(q * w + w, Len(data)))
  BY DEF SortedBlocks
<1>4. \A p \in q * w + 1 .. Least(q * w + w, Len(data)) : r[p] = s[p]
  <2> HIDE DEF Least
  <2>1. \A p \in q * w + 1 .. Least(q * w + w, Len(data)) : p \in 1 .. N /\ p <= to
    BY <1>1, <1>2
  <2>2. QED
    BY <2>1
<1>5. QED
  BY <1>1, <1>2, <1>3, <1>4, SameBlock

\* The runs are below the top of the stack.
LEMMA RunsBelow ==
  ASSUME TypeOK, StackInv, NEW k \in 2 .. Len(stack) - 1
  PROVE  /\ stack[k] \in Nat /\ stack[k + 1] \in Nat /\ stack[k] < stack[k + 1]
         /\ stack[k + 1] <= Top /\ Top <= N /\ Top \in Nat /\ N \in Nat
<1>1. stack \in [1 .. Len(stack) -> 0 .. N] /\ Len(stack) \in Nat /\ N \in Nat
  BY Basics
<1>2. k \in 1 .. Len(stack) /\ k + 1 \in 1 .. Len(stack) /\ Len(stack) \in 1 .. Len(stack)
  BY <1>1
<1>3. stack[k] \in 0 .. N /\ stack[k + 1] \in 0 .. N /\ stack[Len(stack)] \in 0 .. N
  BY <1>1, <1>2
<1>4. stack[k] < stack[k + 1]
  BY <1>1 DEF StackInv
<1>5. stack[k + 1] <= stack[Len(stack)]
  <2>1. k + 1 \in 2 .. Len(stack) /\ Len(stack) \in 2 .. Len(stack)
    BY <1>1
  <2>2. \A j, l \in 2 .. Len(stack) : j < l => stack[j] < stack[l]
    BY DEF StackInv
  <2>3. CASE k + 1 = Len(stack)
    <3>1. stack[k + 1] = stack[Len(stack)]
      BY <2>3
    <3>2. QED
      BY <1>3, <3>1
  <2>4. CASE k + 1 < Len(stack)
    <3>1. stack[k + 1] < stack[Len(stack)]
      BY <2>1, <2>2, <2>4
    <3>2. QED
      BY <1>3, <3>1
  <2>5. Len(stack) \in Nat
    BY <1>1
  <2>6. k + 1 = Len(stack) \/ k + 1 < Len(stack)
    BY <2>5
  <2>7. QED
    BY <2>3, <2>4, <2>6
<1>6. Top = stack[Len(stack)]
  BY DEF Top
<1>7. QED
  BY <1>1, <1>3, <1>4, <1>5, <1>6

LEMMA TopIs ==
  ASSUME TypeOK, StackInv
  PROVE  Top \in 0 .. N
<1>1. stack \in [1 .. Len(stack) -> 0 .. N] /\ Len(stack) \in Nat
  BY Basics
<1>2. Len(stack) \in 1 .. Len(stack)
  BY <1>1 DEF StackInv
<1>3. QED
  BY <1>1, <1>2 DEF Top

LEMMA SameRun ==
  ASSUME TypeOK, StackInv, NEW r, \A p \in 1 .. Top : r[p] = a[p],
         NEW k \in 2 .. Len(stack) - 1, InOrder(data, a, stack[k], stack[k + 1])
  PROVE  InOrder(data, r, stack[k], stack[k + 1])
<1>1. stack[k] \in Nat /\ stack[k + 1] \in Nat /\ stack[k + 1] <= Top /\ Top \in Nat
  BY RunsBelow
<1>2. \A p \in stack[k] + 1 .. stack[k + 1] : p \in 1 .. Top
  BY <1>1
<1>3. QED
  BY <1>1, <1>2, SameBlock
-----------------------------------------------------------------------------
LEMMA InsertNextInv == IInv /\ InsertNext => IInv'
<1> SUFFICES ASSUME IInv, InsertNext PROVE IInv'
  OBVIOUS
<1> USE DEF InsertNext
<1>1. N \in Nat \ {0} /\ N = Len(data) /\ data \in [1 .. N -> Nat] /\ TypeOK
  BY Basics DEF IInv
<1> DEFINE from == block.from
           i == block.i
<1>2. /\ flip = FALSE /\ from \in Nat /\ i \in Nat /\ from < i /\ i < block.to
      /\ block.to <= N /\ i < N /\ i + 1 \in 1 .. N
  <2>1. block.from \in 0 .. N /\ block.to \in 0 .. N /\ block.i \in 1 .. N + 1
    BY <1>1 DEF TypeOK
  <2>2. block.from < block.i /\ block.i < block.to /\ flip = FALSE
    BY DEF IInv, InsertInv
  <2>3. QED
    BY <1>1, <2>1, <2>2
<1>3. InOrder(data, a, from, i) /\ Unread(data, a, i)
  BY DEF IInv, InsertInv
<1>4. a[i + 1] = Original(i + 1) /\ data[i + 1] \in Nat
  BY <1>1, <1>2, <1>3 DEF Unread, Original
<1>5. a \in Arrays(N)
  BY <1>1 DEF TypeOK
<1>6. /\ a' \in Arrays(N)
      /\ InOrder(data, a', from, i + 1)
      /\ \A p \in 1 .. N : p \notin from + 1 .. i + 1 => a'[p] = a[p]
  BY <1>1, <1>2, <1>3, <1>4, <1>5, InsertSorts
<1>7. block'.from = from /\ block'.i = i + 1 /\ block'.to = block.to
      /\ block' \in [from : 0 .. N, to : 0 .. N, i : 1 .. N + 1]
  <2>1. block \in [from : 0 .. N, to : 0 .. N, i : 1 .. N + 1]
    BY <1>1 DEF TypeOK
  <2>2. block' = [block EXCEPT !.i = block.i + 1]
    OBVIOUS
  <2>3. i + 1 \in 1 .. N + 1
    BY <1>1, <1>2
  <2>4. QED
    BY <2>1, <2>2, <2>3
<1>8. TypeOK' /\ data' = data /\ N' = N
  BY <1>1, <1>6, <1>7 DEF TypeOK, N
<1>9. Unread(data, a', i + 1)
  BY <1>1, <1>2, <1>3, <1>6 DEF Unread
<1>10. A = 5 => SortedBlocks(data, a', width, from)
  <2> SUFFICES ASSUME A = 5 PROVE SortedBlocks(data, a', width, from)
    OBVIOUS
  <2>1. PICK q \in Nat : from = q * width
    BY DEF IInv, InsertInv
  <2>2. SortedBlocks(data, a, width, from)
    BY DEF IInv, InsertInv
  <2>3. \A p \in 1 .. N : p <= from => a'[p] = a[p]
    BY <1>2, <1>6
  <2>4. width \in Nat \ {0}
    BY <1>1 DEF TypeOK
  <2> HIDE DEF from
  <2>5. QED
    BY <1>1, <2>1, <2>2, <2>3, <2>4, SameBlocks
<1>11. InsertInv'
  <2>1. InOrder(data', a', block'.from, block'.i) /\ Unread(data', a', block'.i)
    BY <1>6, <1>7, <1>8, <1>9
  <2>2. block'.from < block'.i /\ block'.i <= block'.to
    BY <1>2, <1>7
  <2>3. A' = 5 => SortedBlocks(data', a', width', block'.from)
    BY <1>7, <1>8, <1>10
  <2>4. Top' = Top
    BY DEF Top
  <2>5. /\ A = 1 => block'.from = 0 /\ block'.to = N'
        /\ A = 5 => /\ \E q \in Nat : block'.from = q * width
                    /\ block'.to = Least(block'.from + width, N')
        /\ A = 6 => block'.from = Top
    BY <1>7, <1>8 DEF IInv, InsertInv
  <2>6. A' = A /\ width' = width /\ flip' = FALSE
    BY <1>2
  <2>7. QED
    BY <2>1, <2>2, <2>3, <2>4, <2>5, <2>6 DEF InsertInv
<1>12. A = 6 => StackInv'
  <2> SUFFICES ASSUME A = 6 PROVE StackInv'
    OBVIOUS
  <2>1. StackInv /\ from = Top
    BY DEF IInv, TimSortInv, InsertInv
  <2>2. \A p \in 1 .. Top : a'[p] = a[p]
    BY <1>1, <1>2, <1>6, <2>1
  <2>3. \A k \in 2 .. Len(stack) - 1 : InOrder(data, a', stack[k], stack[k + 1])
    <3> SUFFICES ASSUME NEW k \in 2 .. Len(stack) - 1
                 PROVE  InOrder(data, a', stack[k], stack[k + 1])
      OBVIOUS
    <3>1. InOrder(data, a, stack[k], stack[k + 1])
      BY <2>1 DEF StackInv
    <3>2. QED
      BY <1>1, <2>1, <2>2, <3>1, SameRun
  <2>4. Unread(data', a', block'.i)
    BY <1>7, <1>8, <1>9
  <2>5. stack' = stack /\ pc' = "insert" /\ m' = m
    OBVIOUS
  <2>6. QED
    BY <1>8, <2>1, <2>3, <2>4, <2>5 DEF StackInv
<1>13. TimSortInv'
  <2>1. Top' = Top
    BY DEF Top
  <2>2. A = 6 => Shrinking(stack, Len(stack)) /\ Top < N
    BY DEF IInv, TimSortInv
  <2>3. flip' = FALSE /\ pc' = "insert" /\ A' = A /\ stack' = stack
    BY <1>2
  <2>4. QED
    BY <1>8, <1>12, <2>1, <2>2, <2>3 DEF TimSortInv
<1>14. StartInv' /\ MergeInv' /\ PassInv' /\ DoneInv'
  BY DEF StartInv, MergeInv, PassInv, DoneInv
<1>15. QED
  BY <1>8, <1>11, <1>13, <1>14 DEF IInv

LEMMA InsertSort0DoneInv == IInv /\ InsertSort0Done => IInv'
<1> SUFFICES ASSUME IInv, InsertSort0Done PROVE IInv'
  OBVIOUS
<1> USE DEF InsertSort0Done, Inserted, arrays
<1>1. TypeOK' /\ data' = data /\ N' = N
  BY DEF IInv, TypeOK, N
<1>2. InOrder(data, a, 0, N)
  BY DEF IInv, InsertInv
<1>3. DoneInv'
  BY <1>1, <1>2 DEF DoneInv
<1>4. flip = FALSE
  BY DEF IInv, InsertInv
<1>5. StartInv' /\ InsertInv' /\ MergeInv' /\ PassInv' /\ TimSortInv'
  BY <1>4 DEF StartInv, InsertInv, MergeInv, PassInv, TimSortInv
<1>6. QED
  BY <1>1, <1>3, <1>5 DEF IInv

\* One more block is sorted.
LEMMA BlocksGrow ==
  ASSUME N \in Nat, NEW s, NEW w \in Nat \ {0}, NEW q0 \in Nat, NEW from, from = q0 * w,
         SortedBlocks(data, s, w, from), InOrder(data, s, from, Least(from + w, N)),
         NEW to \in Nat, to <= from + w
  PROVE  SortedBlocks(data, s, w, to)
<1> SUFFICES ASSUME NEW q \in Nat, q * w < to
             PROVE  InOrder(data, s, q * w, Least(q * w + w, Len(data)))
  BY DEF SortedBlocks
<1>1. q * w \in Nat /\ from \in Nat /\ (q0 + 1) * w = from + w /\ q0 + 1 \in Nat
  OBVIOUS
<1>2. q * w < (q0 + 1) * w
  BY <1>1
<1>3. q * w + w <= (q0 + 1) * w
  BY <1>2, BlockEnds
<1>4. q * w <= from
  BY <1>1, <1>3
<1>5. CASE q * w < from
  BY <1>5 DEF SortedBlocks
<1>6. CASE q * w = from
  BY <1>6 DEF N
<1>7. QED
  BY <1>1, <1>4, <1>5, <1>6

LEMMA NextMinrunInv == IInv /\ NextMinrun => IInv'
<1> SUFFICES ASSUME IInv, NextMinrun PROVE IInv'
  OBVIOUS
<1> USE DEF NextMinrun, Inserted, arrays
<1>1. N \in Nat \ {0} /\ N = Len(data) /\ data \in [1 .. N -> Nat] /\ TypeOK
  BY Basics DEF IInv
<1>2. width \in Nat \ {0} /\ block.from \in 0 .. N /\ block.to \in 0 .. N /\ A = 5
  BY <1>1 DEF TypeOK
<1>3. /\ flip = FALSE /\ Unread(data, a, block.to)
      /\ block.to = Least(block.from + width, N)
      /\ InOrder(data, a, block.from, block.to)
      /\ SortedBlocks(data, a, width, block.from)
  BY DEF IInv, InsertInv
<1>4. PICK q0 \in Nat : block.from = q0 * width
  BY DEF IInv, InsertInv
<1>5. block.to <= block.from + width
  BY <1>1, <1>2, <1>3 DEF Least
<1>6. SortedBlocks(data, a, width, block.to)
  <2>1. InOrder(data, a, block.from, Least(block.from + width, N))
    BY <1>3
  <2>2. block.to \in Nat /\ N \in Nat /\ SortedBlocks(data, a, width, block.from)
    BY <1>1, <1>2, <1>3
  <2> DEFINE from == block.from
             to == block.to
  <2>3. to \in Nat /\ to <= from + width /\ from = q0 * width
    BY <1>4, <1>5, <2>2
  <2> HIDE DEF from, to
  <2>4. SortedBlocks(data, a, width, to)
    BY <1>2, <2>1, <2>2, <2>3, BlocksGrow DEF from
  <2>5. QED
    BY <2>4 DEF to
<1>7. /\ block' \in [from : 0 .. N, to : 0 .. N, i : 1 .. N + 1]
      /\ block'.from = block.to /\ block'.i = block.to + 1
      /\ block'.to = Least(block.to + width, N)
      /\ block.to < N => block.to + 1 <= Least(block.to + width, N)
  BY <1>1, <1>2, MinrunBlock
<1>8. TypeOK' /\ data' = data /\ N' = N
  BY <1>1, <1>7 DEF TypeOK, N
<1>9. CASE block.to < N
  <2>1. pc' = "insert"
    BY <1>9
  <2>2. block.to = (q0 + 1) * width /\ q0 + 1 \in Nat
    <3>1. block.to = block.from + width
      BY <1>1, <1>2, <1>3, <1>9 DEF Least
    <3>2. QED
      BY <1>2, <1>4, <3>1
  <2>3. InOrder(data, a, block.to, block.to + 1)
    <3>1. block.to \in Nat /\ block.to <= block.to
      BY <1>1, <1>2
    <3>2. QED
      BY <1>1, <1>3, <1>9, <3>1, FirstItem
  <2>4. Unread(data, a, block.to + 1)
    BY <1>1, <1>2, <1>3 DEF Unread
  <2>5. InsertInv'
    <3>1. InOrder(data', a', block'.from, block'.i) /\ Unread(data', a', block'.i)
      BY <1>7, <1>8, <2>3, <2>4
    <3>2. block'.from < block'.i /\ block'.i <= block'.to
      BY <1>2, <1>7, <1>9
    <3>3. \E q \in Nat : block'.from = q * width'
      BY <1>7, <2>2
    <3>4. block'.to = Least(block'.from + width', N') /\ SortedBlocks(data', a', width', block'.from)
      BY <1>6, <1>7, <1>8
    <3>5. flip' = FALSE /\ A' = 5
      BY <1>2, <1>3
    <3>6. QED
      BY <3>1, <3>2, <3>3, <3>4, <3>5 DEF InsertInv
  <2>6. StartInv' /\ MergeInv' /\ PassInv' /\ TimSortInv' /\ DoneInv'
    BY <1>2, <1>3, <2>1 DEF StartInv, MergeInv, PassInv, TimSortInv, DoneInv
  <2>7. QED
    BY <1>8, <2>5, <2>6 DEF IInv
<1>10. CASE ~(block.to < N)
  <2>1. pc' = "passes" /\ block.to = N
    BY <1>1, <1>2, <1>10
  <2>2. SortedBlocks(data', Dest', width', N')
    BY <1>3, <1>6, <1>8, <2>1 DEF Dest
  <2>3. PassInv'
    BY <1>2, <2>1, <2>2 DEF PassInv
  <2>4. StartInv' /\ InsertInv' /\ MergeInv' /\ TimSortInv' /\ DoneInv'
    BY <1>2, <1>3, <2>1 DEF StartInv, InsertInv, MergeInv, TimSortInv, DoneInv
  <2>5. QED
    BY <1>8, <2>3, <2>4 DEF IInv
<1>11. QED
  BY <1>9, <1>10
-----------------------------------------------------------------------------
(***************************************************************************)
(* TimSort                                                                 *)
(***************************************************************************)
\* A new run on the stack, in the array r.
LEMMA PushedRun ==
  ASSUME TypeOK, StackInv, pc # "merge", Shrinking(stack, Len(stack)),
         NEW e \in Top + 1 .. N, NEW st, st = Append(stack, e),
         NEW r, \A p \in 1 .. Top : r[p] = a[p], InOrder(data, r, Top, e)
  PROVE  /\ st \in Seq(0 .. N) /\ 3 <= Len(st)
         /\ st[1] = 0 /\ st[2] = 0 /\ st[Len(st)] = e
         /\ \A k, l \in 2 .. Len(st) : k < l => st[k] < st[l]
         /\ \A k \in 2 .. Len(st) - 1 : InOrder(data, r, st[k], st[k + 1])
         /\ Shrinking(st, Len(st) - 2)
<1> DEFINE n == Len(stack)
<1>1. n \in Nat /\ 2 <= n /\ N \in Nat /\ stack \in [1 .. n -> 0 .. N] /\ stack \in Seq(0 .. N)
  BY Basics DEF StackInv, TypeOK
<1>2. Top \in 0 .. N /\ e \in 0 .. N /\ e > Top
  BY TopIs, <1>1
<1>3. /\ st \in Seq(0 .. N) /\ Len(st) = n + 1
      /\ \A k \in 1 .. n : st[k] = stack[k]
      /\ st[n + 1] = e
  BY <1>1, <1>2, AppendProperties
<1> HIDE DEF n
<1>4. st[1] = 0 /\ st[2] = 0
  BY <1>1, <1>3 DEF StackInv, n
<1>5. \A k \in 2 .. n : stack[k] <= Top
  <2> SUFFICES ASSUME NEW k \in 2 .. n PROVE stack[k] <= Top
    OBVIOUS
  <2>1. CASE k = n
    BY <1>2, <2>1 DEF Top, n
  <2>2. CASE k < n
    <3>1. \A j, l \in 2 .. n : j < l => stack[j] < stack[l]
      BY DEF StackInv, n
    <3>2. n \in 2 .. n
      BY <1>1
    <3>3. stack[k] < stack[n]
      BY <2>2, <3>1, <3>2
    <3>4. stack[k] \in 0 .. N
      BY <1>1
    <3>5. QED
      BY <1>2, <3>3, <3>4 DEF Top, n
  <2>3. QED
    BY <1>1, <2>1, <2>2
<1>6. ASSUME NEW k \in 2 .. n + 1, NEW l \in 2 .. n + 1, k < l PROVE st[k] < st[l]
  <2>1. k \in 2 .. n /\ k \in 1 .. n /\ stack[k] \in 0 .. N
    BY <1>1, <1>6
  <2>2. CASE l = n + 1
    BY <1>2, <1>3, <1>5, <2>1, <2>2
  <2>3. CASE l \in 2 .. n
    <3>1. \A j, h \in 2 .. n : j < h => stack[j] < stack[h]
      BY DEF StackInv, n
    <3>2. l \in 1 .. n
      BY <1>1, <2>3
    <3>3. stack[k] < stack[l]
      BY <1>6, <2>1, <2>3, <3>1
    <3>4. QED
      BY <1>3, <2>1, <3>2, <3>3
  <2>4. l = n + 1 \/ l \in 2 .. n
    BY <1>1
  <2>5. QED
    BY <2>2, <2>3, <2>4
<1>7. ASSUME NEW k \in 2 .. n PROVE InOrder(data, r, st[k], st[k + 1])
  <2>1. CASE k = n
    <3>1. st[k] = Top /\ st[k + 1] = e
      <4>1. n \in 1 .. n
        BY <1>1
      <4>2. st[n] = stack[n]
        BY <1>3, <4>1
      <4>3. QED
        BY <1>3, <2>1, <4>2 DEF Top, n
    <3>2. QED
      BY <3>1
  <2>2. CASE k < n
    <3>1. k \in 2 .. n - 1 /\ k \in 1 .. n /\ k + 1 \in 1 .. n
      BY <1>1, <2>2
    <3>2. InOrder(data, a, stack[k], stack[k + 1])
      BY <3>1 DEF StackInv, n
    <3>3. k \in 2 .. Len(stack) - 1
      BY <3>1 DEF n
    <3>4. InOrder(data, r, stack[k], stack[k + 1])
      BY <3>2, <3>3, SameRun
    <3>5. st[k] = stack[k] /\ st[k + 1] = stack[k + 1]
      BY <1>3, <3>1
    <3>6. QED
      BY <3>4, <3>5
  <2>3. QED
    BY <1>1, <2>1, <2>2
<1>8. Shrinking(st, n - 1)
  <2> SUFFICES ASSUME NEW k \in 2 .. (n - 1) - 2
               PROVE  st[k + 1] - st[k] > st[k + 2] - st[k + 1]
    BY DEF Shrinking
  <2>1. k \in 2 .. n - 2 /\ k \in 1 .. n /\ k + 1 \in 1 .. n /\ k + 2 \in 1 .. n
    BY <1>1
  <2>2. stack[k + 1] - stack[k] > stack[k + 2] - stack[k + 1]
    BY <2>1 DEF Shrinking, n
  <2>3. st[k] = stack[k] /\ st[k + 1] = stack[k + 1] /\ st[k + 2] = stack[k + 2]
    BY <1>3, <2>1
  <2>4. QED
    BY <2>2, <2>3
<1>9. Len(st) - 1 = n /\ Len(st) - 2 = n - 1 /\ 3 <= Len(st)
  BY <1>1, <1>3
<1>10. QED
  BY <1>3, <1>4, <1>6, <1>7, <1>8, <1>9

LEMMA PushRunInv == IInv /\ PushRun => IInv'
<1> SUFFICES ASSUME IInv, PushRun PROVE IInv'
  OBVIOUS
<1> USE DEF PushRun, Inserted, arrays
<1>1. N \in Nat \ {0} /\ N = Len(data) /\ TypeOK
  BY Basics DEF IInv
<1>2. block.from \in 0 .. N /\ block.to \in 0 .. N /\ A = 6
  BY <1>1 DEF TypeOK
<1>3. /\ flip = FALSE /\ Unread(data, a, block.to) /\ block.from < block.to
      /\ InOrder(data, a, Top, block.to) /\ block.from = Top
  BY <1>2 DEF IInv, InsertInv
<1>4. StackInv /\ Shrinking(stack, Len(stack))
  BY <1>2 DEF IInv, TimSortInv
<1>5. block.to \in Top + 1 .. N
  BY <1>1, <1>2, <1>3
<1>6. stack' = Append(stack, block.to) /\ pc # "merge"
  OBVIOUS
<1>7. /\ stack' \in Seq(0 .. N) /\ 3 <= Len(stack')
      /\ stack'[1] = 0 /\ stack'[2] = 0 /\ stack'[Len(stack')] = block.to
      /\ \A k, l \in 2 .. Len(stack') : k < l => stack'[k] < stack'[l]
      /\ \A k \in 2 .. Len(stack') - 1 : InOrder(data, a, stack'[k], stack'[k + 1])
      /\ Shrinking(stack', Len(stack') - 2)
  BY <1>1, <1>3, <1>4, <1>5, <1>6, PushedRun
<1>8. TypeOK' /\ data' = data /\ N' = N
  BY <1>1, <1>7 DEF TypeOK, N
<1>9. Top' = block.to
  BY <1>7 DEF Top
<1>10. StackInv'
  <2>1. 2 <= Len(stack')
    <3>1. Len(stack') \in Nat
      BY <1>7, LenProperties
    <3>2. QED
      BY <1>7, <3>1
  <2>2. Unread(data', a', Top')
    BY <1>3, <1>8, <1>9
  <2>3. pc' = "stack" /\ a' = a
    OBVIOUS
  <2>4. QED
    BY <1>7, <1>8, <2>1, <2>2, <2>3 DEF StackInv
<1>11. Shrinks("stack")'
  BY <1>7 DEF Shrinks
<1>12. TimSortInv'
  BY <1>2, <1>3, <1>10, <1>11 DEF TimSortInv
<1>13. StartInv' /\ InsertInv' /\ MergeInv' /\ PassInv' /\ DoneInv'
  BY DEF StartInv, InsertInv, MergeInv, PassInv, DoneInv
<1>14. QED
  BY <1>8, <1>12, <1>13 DEF IInv
-----------------------------------------------------------------------------
(***************************************************************************)
(* mergesort1                                                              *)
(***************************************************************************)
\* Two neighbouring blocks of the array that a pass reads.
LEMMA PairStarts ==
  ASSUME N \in Nat, NEW s \in Arrays(N), NEW w \in Nat \ {0}, SortedBlocks(data, s, w, N),
         NEW from \in Nat, NEW q \in Nat, from = q * (2 * w), from + w < N,
         NEW mid, NEW to, mid = from + w, to = Least(from + 2 * w, N),
         NEW left, left = [p \in 1 .. mid - from |-> s[from + p]],
         NEW right, right = [p \in 1 .. to - mid |-> s[mid + p]], NEW d
  PROVE  /\ mid \in Nat /\ to \in Nat /\ from < mid /\ mid < to /\ to <= N
         /\ Taken(data, d, left, right, from, mid, to, 0, 0)
<1>1. mid \in Nat /\ to \in Nat /\ from < mid /\ mid < to /\ to <= N
  BY DEF Least
<1>2. from = (2 * q) * w /\ 2 * q \in Nat /\ mid = (2 * q + 1) * w /\ 2 * q + 1 \in Nat
  OBVIOUS
<1>3. from < N /\ mid < N /\ Len(data) = N
  BY <1>1 DEF N
<1>4. InOrder(data, s, from, Least(from + w, N))
  BY <1>2, <1>3 DEF SortedBlocks
<1>5. InOrder(data, s, mid, Least(mid + w, N))
  BY <1>2, <1>3 DEF SortedBlocks
<1>6. Least(from + w, N) = mid /\ Least(mid + w, N) = to
  <2>1. mid + w = from + 2 * w
    OBVIOUS
  <2>2. Least(from + w, N) = mid
    BY DEF Least
  <2>3. QED
    BY <2>1, <2>2
<1>7. InOrder(data, s, from, mid) /\ InOrder(data, s, mid, to)
  BY <1>4, <1>5, <1>6
<1>8. \A p \in 1 .. mid - from : left[p] = s[from + p]
  OBVIOUS
<1>9. \A p \in 1 .. to - mid : right[p] = s[mid + p]
  OBVIOUS
<1>10. Taken(data, d, left, right, from, mid, to, 0, 0)
  <2>1. from \in Nat /\ mid \in Nat /\ to \in Nat /\ N \in Nat /\ s \in Arrays(N)
    BY <1>1
  <2>2. from <= mid /\ mid <= to /\ to <= N
    BY <1>1, <2>1
  <2>3. QED
    BY ONLY <2>1, <2>2, <1>7, <1>8, <1>9, TakenStarts
<1>11. QED
  BY <1>1, <1>10

\* The merge of the pair that starts at a multiple of twice the width.
LEMMA PairInv ==
  ASSUME TypeOK, NEW from \in Nat, NEW q \in Nat, from = q * (2 * width), from + width < N,
         m' = Pair(from), pc' = "merge", A = 5,
         A' = A, data' = data, a' = a, t' = t, width' = width, lost' = lost, block' = block,
         stack' = stack, flip' \in BOOLEAN,
         SortedBlocks(data, Source', width, N), SortedBlocks(data, Dest', 2 * width, from)
  PROVE  IInv'
<1>1. N \in Nat \ {0} /\ N = Len(data) /\ width \in Nat \ {0}
  BY Basics DEF TypeOK
<1>2. N' = N
  BY DEF N
<1>3. Source' \in Arrays(N) /\ Dest' \in Arrays(N)
  BY DEF TypeOK, Source, Dest
<1>4. /\ m'.from = from /\ m'.mid = from + width /\ m'.to = Least(from + 2 * width, N)
      /\ m'.i = 0 /\ m'.j = 0 /\ m'.next = "pair"
  <2>1. Least(from + width, N) = from + width
    BY <1>1 DEF Least
  <2>2. QED
    BY <2>1 DEF Pair
<1>5. LeftPart' = [p \in 1 .. m'.mid - m'.from |-> Source'[m'.from + p]]
  BY DEF LeftPart, LeftItem, InPlace
<1>6. RightPart' = [p \in 1 .. m'.to - m'.mid |-> Source'[m'.mid + p]]
  BY DEF RightPart, RightItem, InPlace
<1> DEFINE lo == m'.from
           mid == m'.mid
           hi == m'.to
<1>7. /\ mid \in Nat /\ hi \in Nat /\ lo < mid /\ mid < hi /\ hi <= N
      /\ Taken(data, Dest', LeftPart', RightPart', lo, mid, hi, 0, 0)
  <2>1. lo = from /\ mid = from + width /\ hi = Least(from + 2 * width, N)
    BY <1>4
  <2>2. lo \in Nat /\ lo = q * (2 * width) /\ lo + width < N
    BY <2>1
  <2> HIDE DEF lo, mid, hi
  <2>3. LeftPart' = [p \in 1 .. mid - lo |-> Source'[lo + p]]
    BY <1>5 DEF lo, mid
  <2>4. RightPart' = [p \in 1 .. hi - mid |-> Source'[mid + p]]
    BY <1>6 DEF mid, hi
  <2>5. mid = lo + width /\ hi = Least(lo + 2 * width, N)
    BY <2>1
  <2>6. N \in Nat /\ Source' \in Arrays(N) /\ width \in Nat \ {0} /\ q \in Nat
    BY <1>1, <1>3
  <2>7. SortedBlocks(data, Source', width, N)
    OBVIOUS
  <2>8. QED
    BY ONLY <2>2, <2>3, <2>4, <2>5, <2>6, <2>7, PairStarts
<1>8. m' \in [from : 0 .. N, mid : 0 .. N, to : 0 .. N, i : Nat, j : Nat,
              next : {"call", "pair", "stack", "final"}]
  <2>1. from \in 0 .. N /\ m'.mid \in 0 .. N /\ m'.to \in 0 .. N
    BY <1>1, <1>4, <1>7
  <2>2. m' = [from |-> from, mid |-> m'.mid, to |-> m'.to, i |-> 0, j |-> 0, next |-> "pair"]
    BY <1>4 DEF Pair
  <2>3. QED
    BY <2>1, <2>2
<1>9. TypeOK'
  BY <1>2, <1>8 DEF TypeOK
<1>10. MergeInv'
  BY <1>4, <1>7 DEF MergeInv
<1>11. PassInv'
  <2>1. \E r \in Nat : m'.from = r * (2 * width')
    BY <1>4
  <2>2. m'.mid = m'.from + width' /\ m'.to = Least(m'.from + 2 * width', N') /\ m'.next = "pair"
    BY <1>2, <1>4
  <2>3. SortedBlocks(data', Source', width', N') /\ SortedBlocks(data', Dest', 2 * width', m'.from)
    BY <1>2, <1>4
  <2>4. QED
    BY <2>1, <2>2, <2>3 DEF PassInv
<1>12. StartInv' /\ InsertInv' /\ TimSortInv' /\ DoneInv'
  BY DEF StartInv, InsertInv, TimSortInv, DoneInv
<1>13. QED
  BY <1>9, <1>10, <1>11, <1>12 DEF IInv

LEMMA PassInvariant == IInv /\ Pass => IInv'
<1> SUFFICES ASSUME IInv, Pass PROVE IInv'
  OBVIOUS
<1> USE DEF Pass
<1>1. TypeOK /\ N \in Nat \ {0} /\ N = Len(data) /\ width \in Nat \ {0}
  BY Basics DEF IInv, TypeOK
<1>2. A = 5 /\ SortedBlocks(data, Dest, width, N)
  BY DEF IInv, PassInv
<1>3. flip \in BOOLEAN /\ flip' = ~flip /\ a' = a /\ t' = t
  BY <1>1 DEF TypeOK
<1>4. Source' = Dest
  BY <1>3 DEF Source, Dest
<1>5. SortedBlocks(data, Dest', 2 * width, 0)
  BY <1>1 DEF SortedBlocks
<1>6. 0 \in Nat /\ 0 = 0 * (2 * width) /\ 0 + width < N
  BY <1>1
<1>7. SortedBlocks(data, Source', width, N)
  BY <1>2, <1>4
<1>8. QED
  BY <1>1, <1>2, <1>3, <1>5, <1>6, <1>7, PairInv

LEMMA NextPairInv == IInv /\ NextPair => IInv'
<1> SUFFICES ASSUME IInv, NextPair PROVE IInv'
  OBVIOUS
<1> USE DEF NextPair, arrays
<1>1. TypeOK /\ N \in Nat \ {0} /\ N = Len(data) /\ width \in Nat \ {0} /\ m.to \in Nat
  BY Basics DEF IInv, TypeOK
<1>2. /\ A = 5
      /\ m.to = N \/ \E q \in Nat : m.to = q * (2 * width)
      /\ SortedBlocks(data, Dest, 2 * width, m.to)
      /\ SortedBlocks(data, Source, width, N)
  BY DEF IInv, PassInv
<1>3. PICK q \in Nat : m.to = q * (2 * width)
  BY <1>1, <1>2
<1>4. flip' = flip /\ a' = a /\ t' = t /\ flip' \in BOOLEAN
  BY <1>1 DEF TypeOK
<1>5. Source' = Source /\ Dest' = Dest
  BY <1>4 DEF Source, Dest
<1> DEFINE from == m.to
<1>6. /\ from \in Nat /\ from = q * (2 * width) /\ from + width < N /\ m' = Pair(from)
      /\ SortedBlocks(data, Source', width, N)
      /\ SortedBlocks(data, Dest', 2 * width, from)
  BY <1>1, <1>2, <1>3, <1>5
<1> HIDE DEF from
<1>7. QED
  BY <1>1, <1>2, <1>4, <1>6, PairInv

LEMMA EndPassInv == IInv /\ EndPass => IInv'
<1> SUFFICES ASSUME IInv, EndPass PROVE IInv'
  OBVIOUS
<1> USE DEF EndPass
<1>1. /\ TypeOK /\ N \in Nat \ {0} /\ N = Len(data) /\ width \in Nat \ {0} /\ m.to \in Nat
      /\ m.to <= N /\ Dest \in Arrays(N) /\ Source \in Arrays(N)
  BY Basics DEF IInv, TypeOK
<1>2. /\ A = 5
      /\ m.to = N \/ \E q \in Nat : m.to = q * (2 * width)
      /\ SortedBlocks(data, Dest, 2 * width, m.to)
      /\ SortedBlocks(data, Source, width, N)
  BY DEF IInv, PassInv
<1> DEFINE r == Copied(Dest, Source, m.to, N)
<1>3. r = [p \in 1 .. N |-> IF p \in m.to + 1 .. N THEN Source[p] ELSE Dest[p]]
  BY <1>1 DEF Copied, Arrays
<1> HIDE DEF r
<1>4. r \in Arrays(N)
  BY <1>1, <1>3 DEF Arrays
<1>5. /\ a' = IF flip THEN a ELSE r
      /\ t' = IF flip THEN r ELSE t
  BY DEF Write, r
<1>6. Dest' = r /\ flip' = flip /\ A' = A /\ width' = 2 * width
  BY <1>5 DEF Dest
<1>7. TypeOK' /\ data' = data /\ N' = N
  BY <1>1, <1>4, <1>5 DEF TypeOK, N
<1>8. SortedBlocks(data, r, 2 * width, N)
  <2>1. CASE m.to = N
    <3>1. r = Dest
      BY <1>1, <1>3, <2>1 DEF Arrays
    <3>2. QED
      BY <1>2, <2>1, <3>1
  <2>2. CASE m.to < N
    <3>1. PICK q \in Nat : m.to = q * (2 * width)
      BY <1>1, <1>2, <2>2
    <3> DEFINE w == 2 * width
               to == m.to
    <3>2. w \in Nat \ {0} /\ to = q * w /\ to \in Nat /\ to <= N /\ N <= to + width
      BY <1>1, <3>1
    <3>3. SortedBlocks(data, Dest, w, to)
      BY <1>2
    <3>4. \A p \in 1 .. N : p <= to => r[p] = Dest[p]
      BY <1>1, <1>3
    <3>5. \A p \in to + 1 .. N : r[p] = Source[p]
      BY <1>1, <1>3
    <3>6. InOrder(data, Source, to, N)
      <4>1. to = (2 * q) * width /\ 2 * q \in Nat /\ (2 * q) * width < N
        BY <1>1, <2>2, <3>1
      <4>2. InOrder(data, Source, (2 * q) * width, Least((2 * q) * width + width, N))
        BY <1>1, <1>2, <4>1 DEF SortedBlocks
      <4>3. Least((2 * q) * width + width, N) = N
        BY <1>1, <3>2, <4>1 DEF Least
      <4>4. QED
        BY <4>1, <4>2, <4>3
    <3> HIDE DEF w, to
    <3>7. SortedBlocks(data, r, w, to)
      BY <1>1, <3>2, <3>3, <3>4, SameBlocks
    <3>8. InOrder(data, r, to, N)
      BY <1>1, <3>2, <3>5, <3>6, SameBlock
    <3>9. Least(to + w, N) = N /\ N <= to + w /\ N \in Nat
      BY <1>1, <3>2 DEF Least, w
    <3>10. InOrder(data, r, to, Least(to + w, N))
      BY <3>8, <3>9
    <3>11. SortedBlocks(data, r, w, N)
      BY <3>2, <3>7, <3>9, <3>10, BlocksGrow
    <3>12. QED
      BY <3>11 DEF w
  <2>3. QED
    BY <1>1, <2>1, <2>2
<1>9. PassInv'
  BY <1>2, <1>6, <1>7, <1>8 DEF PassInv
<1>10. StartInv' /\ InsertInv' /\ MergeInv' /\ TimSortInv' /\ DoneInv'
  BY <1>2, <1>6 DEF StartInv, InsertInv, MergeInv, TimSortInv, DoneInv
<1>11. QED
  BY <1>7, <1>9, <1>10 DEF IInv

LEMMA CopyBackInv == IInv /\ CopyBack => IInv'
<1> SUFFICES ASSUME IInv, CopyBack PROVE IInv'
  OBVIOUS
<1> USE DEF CopyBack
<1>1. /\ TypeOK /\ N \in Nat \ {0} /\ N = Len(data) /\ width \in Nat \ {0}
      /\ Dest \in Arrays(N)
  BY Basics DEF IInv, TypeOK
<1>2. A = 5 /\ SortedBlocks(data, Dest, width, N)
  BY DEF IInv, PassInv
<1>3. a' = Dest
  BY DEF Dest
<1>4. TypeOK' /\ data' = data /\ N' = N
  BY <1>1, <1>3 DEF TypeOK, N
<1>5. InOrder(data, Dest, 0, N)
  <2>1. 0 * width = 0 /\ 0 < N /\ 0 \in Nat
    BY <1>1
  <2>2. InOrder(data, Dest, 0 * width, Least(0 * width + width, N))
    BY <1>1, <1>2, <2>1 DEF SortedBlocks
  <2>3. Least(0 * width + width, N) = N
    BY <1>1, <2>1 DEF Least
  <2>4. QED
    BY <2>1, <2>2, <2>3
<1>6. DoneInv'
  BY <1>2, <1>3, <1>4, <1>5 DEF DoneInv
<1>7. StartInv' /\ InsertInv' /\ MergeInv' /\ PassInv' /\ TimSortInv'
  BY <1>2 DEF StartInv, InsertInv, MergeInv, PassInv, TimSortInv
<1>8. QED
  BY <1>4, <1>6, <1>7 DEF IInv
-----------------------------------------------------------------------------
(***************************************************************************)
(* Merging                                                                 *)
(***************************************************************************)
\* What a merge is about.
LEMMA MergeFacts ==
  ASSUME IInv, pc = "merge"
  PROVE  /\ TypeOK /\ N \in Nat \ {0} /\ N = Len(data) /\ A \in {5, 6}
         /\ A = 6 => flip = FALSE /\ Dest = a /\ StackInv
         /\ Dest \in Arrays(N) /\ Source \in Arrays(N) /\ a \in Arrays(N) /\ t \in Arrays(N)
         /\ m.from \in Nat /\ m.mid \in Nat /\ m.to \in Nat
         /\ m.from < m.mid /\ m.mid < m.to /\ m.to <= N
         /\ m.i \in Nat /\ m.j \in Nat /\ m.i <= m.mid - m.from /\ m.j <= m.to - m.mid
         /\ Taken(data, Dest, LeftPart, RightPart, m.from, m.mid, m.to, m.i, m.j)
<1>1. TypeOK /\ N \in Nat \ {0} /\ N = Len(data) /\ Dest \in Arrays(N) /\ Source \in Arrays(N)
  BY Basics DEF IInv
<1>2. /\ A \in {5, 6} /\ m.from < m.mid /\ m.mid < m.to
      /\ Taken(data, Dest, LeftPart, RightPart, m.from, m.mid, m.to, m.i, m.j)
  BY DEF IInv, MergeInv
<1>3. /\ m.from \in 0 .. N /\ m.mid \in 0 .. N /\ m.to \in 0 .. N /\ m.i \in Nat /\ m.j \in Nat
      /\ a \in Arrays(N) /\ t \in Arrays(N)
  BY <1>1 DEF TypeOK
<1>4. m.i \in 0 .. m.mid - m.from /\ m.j \in 0 .. m.to - m.mid
  BY <1>2 DEF Taken
<1>5. A = 6 => flip = FALSE /\ Dest = a /\ StackInv
  BY DEF IInv, TimSortInv, Dest
<1>6. /\ m.from \in Nat /\ m.mid \in Nat /\ m.to \in Nat /\ m.to <= N
      /\ m.i <= m.mid - m.from /\ m.j <= m.to - m.mid
  BY <1>1, <1>3, <1>4
<1>7. QED
  BY <1>1, <1>2, <1>3, <1>5, <1>6

\* A write to the array of the result.
LEMMA WriteIs ==
  ASSUME IInv, pc = "merge", NEW r, Write(r), flip' = flip, A' = A
  PROVE  /\ Dest' = r
         /\ A = 5 => Source' = Source
         /\ A = 6 => a' = r /\ t' = t
         /\ r \in Arrays(N) => a' \in Arrays(N) /\ t' \in Arrays(N)
<1>1. a \in Arrays(N) /\ t \in Arrays(N) /\ (A = 6 => flip = FALSE)
  BY MergeFacts
<1>2. CASE flip
  BY <1>1, <1>2 DEF Write, Dest, Source
<1>3. CASE ~flip
  BY <1>1, <1>3 DEF Write, Dest, Source
<1>4. QED
  BY <1>2, <1>3

\* Only what is merged changes: the blocks before it stay sorted ...
LEMMA OtherBlocks ==
  ASSUME IInv, pc = "merge", A = 5, NEW r, \A p \in 1 .. N : p <= m.from => r[p] = Dest[p]
  PROVE  SortedBlocks(data, r, 2 * width, m.from)
<1>1. N \in Nat /\ width \in Nat \ {0}
  BY MergeFacts DEF IInv, TypeOK
<1>2. PICK q \in Nat : m.from = q * (2 * width)
  BY DEF IInv, PassInv
<1>3. SortedBlocks(data, Dest, 2 * width, m.from)
  BY DEF IInv, PassInv
<1> DEFINE w == 2 * width
           to == m.from
<1>4. w \in Nat \ {0} /\ to = q * w /\ SortedBlocks(data, Dest, w, to)
  BY <1>1, <1>2, <1>3
<1>5. \A p \in 1 .. N : p <= to => r[p] = Dest[p]
  OBVIOUS
<1> HIDE DEF w, to
<1>6. SortedBlocks(data, r, w, to)
  BY <1>1, <1>4, <1>5, SameBlocks
<1>7. QED
  BY <1>6 DEF w, to

\* ... and so do the other runs; what is not read yet is where it was.
LEMMA OtherRuns ==
  ASSUME IInv, pc = "merge", A = 6, NEW r,
         \A p \in 1 .. N : p \notin m.from + 1 .. m.to => r[p] = a[p]
  PROVE  /\ \A k \in 2 .. Len(stack) - 1 :
              stack[k] # m.from => InOrder(data, r, stack[k], stack[k + 1])
         /\ Unread(data, r, Top)
<1>1. TypeOK /\ StackInv /\ N \in Nat /\ N = Len(data)
  BY MergeFacts
<1>2. PICK h \in 2 .. Len(stack) - 1 : m.from = stack[h] /\ m.to = stack[h + 1]
  BY DEF IInv, TimSortInv
<1>3. Len(stack) \in Nat /\ \A l \in 1 .. Len(stack) : stack[l] \in 0 .. N
  BY <1>1, Basics
<1>4. \A k, l \in 2 .. Len(stack) : k < l => stack[k] < stack[l]
  BY <1>1 DEF StackInv
<1>5. ASSUME NEW k \in 2 .. Len(stack) - 1, stack[k] # m.from
      PROVE  InOrder(data, r, stack[k], stack[k + 1])
  <2>1. /\ stack[k] \in Nat /\ stack[k + 1] \in Nat /\ stack[k + 1] <= N
        /\ stack[h] \in Nat /\ stack[h + 1] \in Nat
    BY <1>3
  <2>2. InOrder(data, a, stack[k], stack[k + 1])
    BY <1>1, <1>5 DEF StackInv
  <2>3. k < h => stack[k + 1] <= stack[h]
    <3>1. k + 1 = h => stack[k + 1] = stack[h]
      OBVIOUS
    <3>2. k + 1 \in 2 .. Len(stack) /\ h \in 2 .. Len(stack)
      BY <1>3
    <3>3. k + 1 < h => stack[k + 1] < stack[h]
      BY <1>4, <3>2
    <3>4. k < h => k + 1 = h \/ k + 1 < h
      BY <1>3
    <3>5. QED
      BY <2>1, <3>1, <3>3, <3>4
  <2>4. k > h => stack[h + 1] <= stack[k]
    <3>1. h + 1 = k => stack[h + 1] = stack[k]
      OBVIOUS
    <3>2. h + 1 \in 2 .. Len(stack) /\ k \in 2 .. Len(stack)
      BY <1>3
    <3>3. h + 1 < k => stack[h + 1] < stack[k]
      BY <1>4, <3>2
    <3>4. k > h => h + 1 = k \/ h + 1 < k
      BY <1>3
    <3>5. QED
      BY <2>1, <3>1, <3>3, <3>4
  <2>5. k # h
    BY <1>2, <1>5
  <2>6. stack[k + 1] <= m.from \/ m.to <= stack[k]
    <3>1. k < h \/ k > h
      BY <1>3, <2>5
    <3>2. QED
      BY <1>2, <2>3, <2>4, <3>1
  <2>7. \A p \in stack[k] + 1 .. stack[k + 1] : p \in 1 .. N /\ p \notin m.from + 1 .. m.to
    <3> DEFINE lo == stack[k]
               hi == stack[k + 1]
               from == m.from
               to == m.to
    <3>1. from \in Nat /\ to \in Nat
      BY MergeFacts
    <3>2. lo \in Nat /\ hi \in Nat /\ hi <= N /\ N \in Nat /\ (hi <= from \/ to <= lo)
      BY <1>1, <2>1, <2>6
    <3> HIDE DEF lo, hi, from, to
    <3>3. \A p \in lo + 1 .. hi : p \in 1 .. N /\ p \notin from + 1 .. to
      BY ONLY <3>1, <3>2
    <3>4. QED
      BY <3>3 DEF lo, hi, from, to
  <2>8. \A p \in stack[k] + 1 .. stack[k + 1] : r[p] = a[p]
    BY <2>7
  <2>9. QED
    BY <2>1, <2>2, <2>8, SameBlock
<1>6. Unread(data, r, Top)
  <2>1. Unread(data, a, Top)
    BY <1>1 DEF StackInv
  <2>2. m.to <= Top /\ Top \in Nat /\ m.to \in Nat /\ m.from \in Nat
    BY <1>1, <1>2, RunsBelow, MergeFacts
  <2>3. \A p \in Top + 1 .. Len(data) : p \in 1 .. N /\ p \notin m.from + 1 .. m.to
    BY <1>1, <2>2
  <2>4. QED
    BY <2>1, <2>3 DEF Unread
<1>7. QED
  BY <1>5, <1>6

\* An item of a part that is not taken yet.
LEMMA PartItem ==
  ASSUME IInv, pc = "merge"
  PROVE  /\ \A p \in 1 .. m.mid - m.from : LeftPart[p] = LeftItem(p)
         /\ \A q \in 1 .. m.to - m.mid : RightPart[q] = RightItem(q)
BY DEF LeftPart, RightPart

LEMMA NextPlace ==
  ASSUME NEW from \in Nat, NEW mid \in Nat, NEW to \in Nat, NEW n \in Nat, to <= n,
         NEW i \in Nat, NEW j \in Nat, from + i < mid, mid + j < to
  PROVE  /\ from + i + j + 1 \in from + 1 .. to /\ from + i + j + 1 \in 1 .. n
         /\ from + i + j + 1 <= mid + j /\ from + i + j + 1 \in Nat
         /\ \A p \in from + 1 .. from + i + j : p \in 1 .. n /\ p # from + i + j + 1
OBVIOUS

\* The next item of the result is written.
LEMMA TakeInv ==
  ASSUME IInv, Merging, NEW item \in Items,
         Write([Dest EXCEPT ![m.from + m.i + m.j + 1] = item]),
         NEW i \in Nat, NEW j \in Nat, m.i <= i, m.j <= j, i + j = m.i + m.j + 1,
         m' = [m EXCEPT !.i = i, !.j = j],
         A' = A, data' = data, flip' = flip, width' = width, lost' = lost, block' = block,
         stack' = stack, pc' = pc,
         \A r : (/\ r[m.from + m.i + m.j + 1] = item
                 /\ \A p \in m.from + 1 .. m.from + m.i + m.j : r[p] = Dest[p])
                => Taken(data, r, LeftPart, RightPart, m.from, m.mid, m.to, i, j)
  PROVE  IInv'
<1> DEFINE k == m.from + m.i + m.j + 1
           r == [Dest EXCEPT ![k] = item]
           from == m.from
           mid == m.mid
           to == m.to
<1>0. pc = "merge" /\ from + m.i < mid /\ mid + m.j < to
  BY DEF Merging
<1>1. /\ TypeOK /\ N \in Nat \ {0} /\ N = Len(data) /\ A \in {5, 6}
      /\ A = 6 => flip = FALSE /\ Dest = a /\ StackInv
      /\ Dest \in Arrays(N)
      /\ from \in Nat /\ mid \in Nat /\ to \in Nat
      /\ from < mid /\ mid < to /\ to <= N
      /\ m.i \in Nat /\ m.j \in Nat
  BY <1>0, MergeFacts
<1>2. k \in from + 1 .. to /\ k \in 1 .. N /\ k <= mid + m.j /\ k \in Nat
  BY ONLY <1>0, <1>1, NextPlace DEF k
<1>3. r \in Arrays(N) /\ r[k] = item /\ \A p \in 1 .. N : p # k => r[p] = Dest[p]
  BY <1>1, <1>2 DEF Arrays
<1>4. Write(r)
  OBVIOUS
<1> HIDE DEF r
<1>5. /\ Dest' = r
      /\ A = 5 => Source' = Source
      /\ A = 6 => a' = r /\ t' = t
      /\ a' \in Arrays(N) /\ t' \in Arrays(N)
  BY <1>0, <1>3, <1>4, WriteIs
<1>6. /\ m' \in [from : 0 .. N, mid : 0 .. N, to : 0 .. N, i : Nat, j : Nat,
                 next : {"call", "pair", "stack", "final"}]
      /\ m'.from = from /\ m'.mid = mid /\ m'.to = to /\ m'.i = i /\ m'.j = j
      /\ m'.next = m.next
  BY <1>1 DEF TypeOK
<1>7. TypeOK' /\ N' = N
  BY <1>1, <1>5, <1>6 DEF TypeOK, N
<1>8. Taken(data, r, LeftPart, RightPart, from, mid, to, i, j)
  <2>1. \A p \in from + 1 .. from + m.i + m.j : p \in 1 .. N /\ p # k
    BY ONLY <1>0, <1>1, NextPlace DEF k
  <2>2. \A p \in from + 1 .. from + m.i + m.j : r[p] = Dest[p]
    BY <1>3, <2>1
  <2>3. QED
    BY <1>3, <2>2
<1>9. \A p \in i + 1 .. mid - from : LeftPart'[p] = LeftPart[p]
  <2>1. \A p \in i + 1 .. mid - from : p \in 1 .. mid - from
    OBVIOUS
  <2>2. \A p \in 1 .. mid - from : LeftPart'[p] = LeftPart[p]
    <3>1. CASE A = 5
      <4>1. LeftPart' = [p \in 1 .. mid - from |-> Source[from + p]]
        BY <1>5, <1>6, <3>1 DEF LeftPart, LeftItem, InPlace
      <4>2. LeftPart = [p \in 1 .. mid - from |-> Source[from + p]]
        BY <3>1 DEF LeftPart, LeftItem, InPlace
      <4>3. QED
        BY <4>1, <4>2
    <3>2. CASE A = 6
      <4>1. LeftPart' = [p \in 1 .. mid - from |-> t[p]]
        BY <1>5, <1>6, <3>2 DEF LeftPart, LeftItem, InPlace
      <4>2. LeftPart = [p \in 1 .. mid - from |-> t[p]]
        BY <3>2 DEF LeftPart, LeftItem, InPlace
      <4>3. QED
        BY <4>1, <4>2
    <3>3. QED
      BY <1>1, <3>1, <3>2
  <2>3. QED
    BY <2>1, <2>2
<1>10. \A q \in j + 1 .. to - mid : RightPart'[q] = RightPart[q]
  <2>1. CASE A = 5
    <3>1. RightPart' = [q \in 1 .. to - mid |-> Source[mid + q]]
      BY <1>5, <1>6, <2>1 DEF RightPart, RightItem, InPlace
    <3>2. RightPart = [q \in 1 .. to - mid |-> Source[mid + q]]
      BY <2>1 DEF RightPart, RightItem, InPlace
    <3>3. QED
      BY <3>1, <3>2
  <2>2. CASE A = 6
    <3>1. RightPart' = [q \in 1 .. to - mid |-> r[mid + q]]
      BY <1>5, <1>6, <2>2 DEF RightPart, RightItem, InPlace
    <3>2. RightPart = [q \in 1 .. to - mid |-> a[mid + q]]
      BY <2>2 DEF RightPart, RightItem, InPlace
    <3> HIDE DEF from, mid, to
    <3>3. \A q \in j + 1 .. to - mid : mid + q \in 1 .. N /\ mid + q # k /\ q \in 1 .. to - mid
      <4> HIDE DEF k
      <4>1. k <= mid + j /\ mid \in Nat /\ to \in Nat /\ to <= N /\ k \in Nat /\ N \in Nat
        BY <1>1, <1>2
      <4>2. QED
        BY ONLY <4>1, j \in Nat
    <3>4. \A q \in j + 1 .. to - mid : r[mid + q] = a[mid + q]
      BY <1>1, <1>3, <2>2, <3>3
    <3>5. QED
      BY <3>1, <3>2, <3>3, <3>4
  <2>3. QED
    BY <1>1, <2>1, <2>2
<1>11. MergeInv'
  <2>1. \A p \in from + 1 .. from + i + j : r[p] = r[p]
    OBVIOUS
  <2> HIDE DEF from, mid, to
  <2>2. from \in Nat /\ mid \in Nat /\ to \in Nat
    BY <1>1
  <2>3. Taken(data, r, LeftPart', RightPart', from, mid, to, i, j)
    BY ONLY <1>8, <1>9, <1>10, <2>1, <2>2, TakenAgrees
  <2>4. Taken(data', Dest', LeftPart', RightPart', m'.from, m'.mid, m'.to, m'.i, m'.j)
    BY <1>5, <1>6, <2>3
  <2>5. A' \in {5, 6} /\ m'.from < m'.mid /\ m'.mid < m'.to
    BY <1>1, <1>6
  <2>6. QED
    BY <2>4, <2>5 DEF MergeInv
<1>12. A = 5 => PassInv'
  <2> SUFFICES ASSUME A = 5 PROVE PassInv'
    OBVIOUS
  <2>1. \A p \in 1 .. N : p <= from => r[p] = Dest[p]
    BY <1>1, <1>2, <1>3
  <2>2. SortedBlocks(data, r, 2 * width, from)
    BY <1>0, <2>1, OtherBlocks
  <2>3. /\ \E q \in Nat : from = q * (2 * width)
        /\ mid = from + width /\ to = Least(from + 2 * width, N) /\ m.next = "pair"
        /\ SortedBlocks(data, Source, width, N)
    BY <1>0 DEF IInv, PassInv
  <2>4. (SortedBlocks(data, Dest, 2 * width, m.from) /\ SortedBlocks(data, Source, width, N))'
    BY <1>5, <1>6, <1>7, <2>2, <2>3
  <2>5. (/\ \E q \in Nat : m.from = q * (2 * width)
         /\ m.mid = m.from + width /\ m.to = Least(m.from + 2 * width, N) /\ m.next = "pair")'
    BY <1>6, <1>7, <2>3
  <2>6. pc' = "merge"
    BY <1>0
  <2>7. QED
    BY <2>4, <2>5, <2>6 DEF PassInv
<1>13. A = 6 => PassInv'
  BY <1>0 DEF PassInv
<1>14. A = 6 => StackInv'
  <2> SUFFICES ASSUME A = 6 PROVE StackInv'
    OBVIOUS
  <2>1. \A p \in 1 .. N : p \notin from + 1 .. to => r[p] = a[p]
    BY <1>1, <1>2, <1>3
  <2>2. /\ \A l \in 2 .. Len(stack) - 1 :
             stack[l] # m.from => InOrder(data, r, stack[l], stack[l + 1])
        /\ Unread(data, r, Top)
    BY <1>0, <2>1, OtherRuns
  <2>3. Top' = Top /\ a' = r /\ pc' = "merge" /\ m'.from = m.from
    BY <1>0, <1>5, <1>6 DEF Top
  <2>4. QED
    BY <1>1, <2>2, <2>3 DEF StackInv
<1>15. TimSortInv'
  <2>1. Top' = Top /\ pc' = "merge" /\ m'.next = m.next /\ m'.from = m.from /\ m'.to = m.to
    BY <1>0, <1>6 DEF Top
  <2>2. A = 6 => /\ Shrinks(m.next)
                 /\ \E l \in 2 .. Len(stack) - 1 : m.from = stack[l] /\ m.to = stack[l + 1]
    BY <1>0 DEF IInv, TimSortInv
  <2>3. A = 6 => Shrinks(m.next)'
    BY <1>7, <2>1, <2>2 DEF Shrinks
  <2>4. A' # 5 => flip' = FALSE
    BY <1>1
  <2>5. QED
    BY <1>14, <2>1, <2>2, <2>3, <2>4 DEF TimSortInv
<1>16. StartInv' /\ InsertInv' /\ DoneInv'
  BY <1>0 DEF StartInv, InsertInv, DoneInv
<1>17. QED
  BY <1>1, <1>7, <1>11, <1>12, <1>13, <1>15, <1>16 DEF IInv

LEMMA TakeLeftInv == IInv /\ TakeLeft => IInv'
<1> SUFFICES ASSUME IInv, TakeLeft PROVE IInv'
  OBVIOUS
<1> DEFINE i == m.i
           j == m.j
           from == m.from
           mid == m.mid
           to == m.to
           item == LeftItem(i + 1)
<1>0. Merging /\ pc = "merge" /\ from + i < mid /\ mid + j < to
  BY DEF TakeLeft, Merging
<1>1. /\ N \in Nat /\ from \in Nat /\ mid \in Nat /\ to \in Nat /\ i \in Nat /\ j \in Nat
      /\ from < mid /\ mid < to /\ to <= N
      /\ Taken(data, Dest, LeftPart, RightPart, from, mid, to, i, j)
  BY <1>0, MergeFacts
<1>2. m' = [m EXCEPT !.i = i + 1] /\ m \in [from : 0 .. N, mid : 0 .. N, to : 0 .. N,
              i : Nat, j : Nat, next : {"call", "pair", "stack", "final"}]
  BY DEF TakeLeft, IInv, TypeOK
<1>3. m' = [m EXCEPT !.i = i + 1, !.j = j]
  BY <1>2
<1>4. i < mid - from /\ j < to - mid
  <2> HIDE DEF i, j, from, mid, to
  <2>1. QED
    BY ONLY <1>0, <1>1
<1>5. i + 1 \in i + 1 .. mid - from /\ i + 1 \in 1 .. mid - from /\ j + 1 \in 1 .. to - mid
  <2> HIDE DEF i, j, from, mid, to
  <2>1. QED
    BY ONLY <1>1, <1>4
<1>6. LeftPart[i + 1] = item /\ RightPart[j + 1] = RightItem(j + 1)
  BY <1>0, <1>5, PartItem
<1>7. item \in Items
  BY <1>1, <1>5, <1>6 DEF Taken
<1>8. TakesLeft(LeftPart[i + 1], RightPart[j + 1])
  BY <1>6 DEF TakeLeft
<1>9. ASSUME NEW r, r[from + i + j + 1] = item,
             \A p \in from + 1 .. from + i + j : r[p] = Dest[p]
      PROVE  Taken(data, r, LeftPart, RightPart, from, mid, to, i + 1, j)
  <2> HIDE DEF i, j, from, mid, to, item
  <2>1. r[from + i + j + 1] = LeftPart[i + 1]
    BY <1>6, <1>9
  <2>2. QED
    BY ONLY <1>1, <1>4, <1>8, <1>9, <2>1, TakenFromLeft
<1>10. i + 1 \in Nat /\ j \in Nat /\ i <= i + 1 /\ j <= j /\ (i + 1) + j = i + j + 1
  <2> HIDE DEF i, j
  <2>1. QED
    BY ONLY <1>1
<1>11. /\ Write([Dest EXCEPT ![from + i + j + 1] = item])
       /\ A' = A /\ data' = data /\ flip' = flip /\ width' = width /\ lost' = lost
       /\ block' = block /\ stack' = stack /\ pc' = pc
  BY DEF TakeLeft
<1> HIDE DEF item
<1>12. QED
  BY ONLY IInv, <1>0, <1>3, <1>7, <1>9, <1>10, <1>11, TakeInv

LEMMA TakeRightInv == IInv /\ TakeRight => IInv'
<1> SUFFICES ASSUME IInv, TakeRight PROVE IInv'
  OBVIOUS
<1> DEFINE i == m.i
           j == m.j
           from == m.from
           mid == m.mid
           to == m.to
           item == RightItem(j + 1)
<1>0. Merging /\ pc = "merge" /\ from + i < mid /\ mid + j < to
  BY DEF TakeRight, Merging
<1>1. /\ N \in Nat /\ from \in Nat /\ mid \in Nat /\ to \in Nat /\ i \in Nat /\ j \in Nat
      /\ from < mid /\ mid < to /\ to <= N
      /\ Taken(data, Dest, LeftPart, RightPart, from, mid, to, i, j)
  BY <1>0, MergeFacts
<1>2. m' = [m EXCEPT !.j = j + 1] /\ m \in [from : 0 .. N, mid : 0 .. N, to : 0 .. N,
              i : Nat, j : Nat, next : {"call", "pair", "stack", "final"}]
  BY DEF TakeRight, IInv, TypeOK
<1>3. m' = [m EXCEPT !.i = i, !.j = j + 1]
  BY <1>2
<1>4. i < mid - from /\ j < to - mid
  <2> HIDE DEF i, j, from, mid, to
  <2>1. QED
    BY ONLY <1>0, <1>1
<1>5. i + 1 \in 1 .. mid - from /\ j + 1 \in j + 1 .. to - mid /\ j + 1 \in 1 .. to - mid
  <2> HIDE DEF i, j, from, mid, to
  <2>1. QED
    BY ONLY <1>1, <1>4
<1>6. LeftPart[i + 1] = LeftItem(i + 1) /\ RightPart[j + 1] = item
  BY <1>0, <1>5, PartItem
<1>7. item \in Items
  BY <1>1, <1>5, <1>6 DEF Taken
<1>8. ~TakesLeft(LeftPart[i + 1], RightPart[j + 1])
  BY <1>6 DEF TakeRight
<1>9. ASSUME NEW r, r[from + i + j + 1] = item,
             \A p \in from + 1 .. from + i + j : r[p] = Dest[p]
      PROVE  Taken(data, r, LeftPart, RightPart, from, mid, to, i, j + 1)
  <2> HIDE DEF i, j, from, mid, to, item
  <2>1. r[from + i + j + 1] = RightPart[j + 1]
    BY <1>6, <1>9
  <2>2. QED
    BY ONLY <1>1, <1>4, <1>8, <1>9, <2>1, TakenFromRight
<1>10. i \in Nat /\ j + 1 \in Nat /\ i <= i /\ j <= j + 1 /\ i + (j + 1) = i + j + 1
  <2> HIDE DEF i, j
  <2>1. QED
    BY ONLY <1>1
<1>11. /\ Write([Dest EXCEPT ![from + i + j + 1] = item])
       /\ A' = A /\ data' = data /\ flip' = flip /\ width' = width /\ lost' = lost
       /\ block' = block /\ stack' = stack /\ pc' = pc
  BY DEF TakeRight
<1> HIDE DEF item
<1>12. QED
  BY ONLY IInv, <1>0, <1>3, <1>7, <1>9, <1>10, <1>11, TakeInv

LEMMA EndMergeInv == IInv /\ EndMerge => IInv'
<1> SUFFICES ASSUME IInv, EndMerge PROVE IInv'
  OBVIOUS
<1> USE DEF EndMerge
<1> DEFINE i == m.i
           j == m.j
           from == m.from
           mid == m.mid
           to == m.to
           r == WithRest
<1>0. pc = "merge" /\ ~(from + i < mid /\ mid + j < to)
  BY DEF Merging
<1>1. /\ TypeOK /\ N \in Nat \ {0} /\ N = Len(data) /\ A \in {5, 6}
      /\ A = 6 => flip = FALSE /\ Dest = a /\ StackInv
      /\ Dest \in Arrays(N) /\ Source \in Arrays(N) /\ a \in Arrays(N) /\ t \in Arrays(N)
      /\ from \in Nat /\ mid \in Nat /\ to \in Nat /\ i \in Nat /\ j \in Nat
      /\ from < mid /\ mid < to /\ to <= N /\ i <= mid - from /\ j <= to - mid
      /\ Taken(data, Dest, LeftPart, RightPart, from, mid, to, i, j)
  BY <1>0, MergeFacts
<1>2. i = mid - from \/ j = to - mid
  <2> HIDE DEF i, j, from, mid, to
  <2>1. QED
    BY ONLY <1>0, <1>1
<1>3. from + i = mid <=> i = mid - from
  <2> HIDE DEF i, j, from, mid, to
  <2>1. QED
    BY ONLY <1>1
<1>4. r = [p \in 1 .. N |->
             IF p \notin from + i + j + 1 .. to THEN Dest[p]
             ELSE IF i = mid - from THEN RightItem(p - mid) ELSE LeftItem(p - from - j)]
  BY <1>1, <1>3 DEF WithRest, Arrays
<1>5. ASSUME NEW p \in from + i + j + 1 .. to
      PROVE  /\ p \in 1 .. N
             /\ i = mid - from => p - mid \in 1 .. to - mid
             /\ i # mid - from => p - from - j \in 1 .. mid - from
  <2> HIDE DEF i, j, from, mid, to
  <2>1. QED
    BY ONLY <1>1, <1>2, p \in from + i + j + 1 .. to
<1>6. \A p \in from + i + j + 1 .. to :
        r[p] = IF i = mid - from THEN RightPart[p - mid] ELSE LeftPart[p - from - j]
  <2> SUFFICES ASSUME NEW p \in from + i + j + 1 .. to
               PROVE r[p] = IF i = mid - from THEN RightPart[p - mid] ELSE LeftPart[p - from - j]
    OBVIOUS
  <2>1. r[p] = IF i = mid - from THEN RightItem(p - mid) ELSE LeftItem(p - from - j)
    BY <1>4, <1>5
  <2>2. i = mid - from => RightPart[p - mid] = RightItem(p - mid)
    BY <1>0, <1>5, PartItem
  <2>3. i # mid - from => LeftPart[p - from - j] = LeftItem(p - from - j)
    BY <1>0, <1>5, PartItem
  <2>4. QED
    BY <2>1, <2>2, <2>3
<1>7. \A p \in 1 .. N : p \notin from + 1 .. to => r[p] = Dest[p]
  <2>1. \A p \in 1 .. N : p \notin from + 1 .. to => p \notin from + i + j + 1 .. to
    <3> HIDE DEF i, j, from, mid, to
    <3>1. QED
      BY ONLY <1>1
  <2>2. QED
    BY <1>4, <2>1
<1>8. \A p \in from + 1 .. from + i + j : r[p] = Dest[p]
  <2>1. \A p \in from + 1 .. from + i + j : p \in 1 .. N /\ p \notin from + i + j + 1 .. to
    <3> HIDE DEF i, j, from, mid, to
    <3>1. QED
      BY ONLY <1>1
  <2>2. QED
    BY <1>4, <2>1
<1>9. r \in Arrays(N)
  <2>1. ASSUME NEW p \in 1 .. N PROVE r[p] \in Items
    <3>1. CASE p \notin from + i + j + 1 .. to
      BY <1>1, <1>4, <3>1 DEF Arrays
    <3>2. CASE p \in from + i + j + 1 .. to /\ i = mid - from
      <4>1. p - mid \in j + 1 .. to - mid
        <5> HIDE DEF i, j, from, mid, to
        <5>1. QED
          BY ONLY <1>1, <3>2
      <4>2. RightPart[p - mid] \in Items
        BY <1>1, <4>1 DEF Taken
      <4>3. QED
        BY <1>6, <3>2, <4>2
    <3>3. CASE p \in from + i + j + 1 .. to /\ i # mid - from
      <4>1. p - from - j \in i + 1 .. mid - from
        <5> HIDE DEF i, j, from, mid, to
        <5>1. QED
          BY ONLY <1>1, <1>2, <3>3
      <4>2. LeftPart[p - from - j] \in Items
        BY <1>1, <4>1 DEF Taken
      <4>3. QED
        BY <1>6, <3>3, <4>2
    <3>4. QED
      BY <3>1, <3>2, <3>3
  <2>2. QED
    BY <1>4, <2>1 DEF Arrays
<1>10. InOrder(data, r, from, to)
  <2> HIDE DEF i, j, from, mid, to, r
  <2>1. QED
    BY ONLY <1>1, <1>2, <1>6, <1>8, TakenEnds
<1>11. /\ Dest' = r
       /\ A = 5 => Source' = Source
       /\ A = 6 => a' = r /\ t' = t
       /\ a' \in Arrays(N) /\ t' \in Arrays(N)
  BY <1>0, <1>9, WriteIs
<1>12. TypeOK' /\ N' = N
  <2>1. m.next \in {"call", "pair", "stack", "final"}
    BY <1>1 DEF TypeOK
  <2>2. A = 5 => m.next = "pair"
    BY <1>0 DEF IInv, PassInv
  <2>3. A = 6 => m.next \in {"stack", "final"}
    BY <1>0 DEF IInv, TimSortInv, Shrinks
  <2>4. QED
    BY <1>1, <1>11, <2>1, <2>2, <2>3 DEF TypeOK, N
<1> HIDE DEF r
<1>13. CASE A = 5
  <2>1. /\ \E q \in Nat : m.from = q * (2 * width)
        /\ m.to = Least(m.from + 2 * width, N) /\ m.next = "pair"
        /\ SortedBlocks(data, Source, width, N)
    BY <1>0, <1>13 DEF IInv, PassInv
  <2>2. PICK q \in Nat : from = q * (2 * width)
    BY <2>1
  <2>3. SortedBlocks(data, r, 2 * width, from)
    <3>1. \A p \in 1 .. N : p <= from => r[p] = Dest[p]
      <4>1. \A p \in 1 .. N : p <= from => p \notin from + 1 .. to
        <5> HIDE DEF from, to
        <5>1. QED
          BY ONLY <1>1
      <4>2. QED
        BY <1>7, <4>1
    <3>2. QED
      BY <1>0, <1>13, <3>1, OtherBlocks
  <2> DEFINE w == 2 * width
  <2>4. /\ w \in Nat \ {0} /\ from = q * w /\ SortedBlocks(data, r, w, from)
        /\ N \in Nat /\ to \in Nat /\ from \in Nat /\ q \in Nat
        /\ to = Least(from + w, N)
    <3>1. width \in Nat \ {0}
      BY <1>1 DEF TypeOK
    <3>2. w \in Nat \ {0}
      BY <3>1
    <3> HIDE DEF w
    <3>3. from = q * w /\ SortedBlocks(data, r, w, from) /\ to = Least(from + w, N)
      BY <2>1, <2>2, <2>3 DEF w
    <3>4. QED
      BY <1>1, <3>2, <3>3
  <2>5. InOrder(data, r, from, Least(from + w, N))
    BY <1>10, <2>4
  <2> HIDE DEF w, from, to
  <2>6. to <= from + w
    BY ONLY <2>4 DEF Least
  <2>7. SortedBlocks(data, r, w, to)
    BY ONLY <2>4, <2>5, <2>6, BlocksGrow
  <2>8. to = N \/ to = (q + 1) * w
    <3>1. to = N \/ to = from + w
      BY ONLY <2>4 DEF Least
    <3>2. (q + 1) * w = q * w + w
      BY ONLY <2>4
    <3>3. QED
      BY ONLY <2>4, <3>1, <3>2
  <2>9. /\ m'.to = N' \/ \E h \in Nat : m'.to = h * (2 * width')
        /\ SortedBlocks(data', Dest', 2 * width', m'.to)
        /\ SortedBlocks(data', Source', width', N')
    <3>1. m'.to = N' \/ \E h \in Nat : m'.to = h * (2 * width')
      <4>1. q + 1 \in Nat
        OBVIOUS
      <4>2. QED
        BY <1>12, <2>8, <4>1 DEF w, to
    <3>2. SortedBlocks(data', Dest', 2 * width', m'.to)
      BY <1>11, <2>7 DEF w, to
    <3>3. SortedBlocks(data', Source', width', N')
      BY <1>11, <1>12, <1>13, <2>1
    <3>4. QED
      BY <3>1, <3>2, <3>3
  <2>10. pc' = "pair"
    BY <2>1
  <2>11. PassInv' /\ StartInv' /\ InsertInv' /\ MergeInv' /\ TimSortInv' /\ DoneInv'
    BY <1>13, <2>9, <2>10 DEF PassInv, StartInv, InsertInv, MergeInv, TimSortInv, DoneInv
  <2>12. QED
    BY <1>12, <2>11 DEF IInv
<1>14. CASE A = 6
  <2>1. Shrinks(m.next) /\ flip = FALSE
    BY <1>0, <1>14 DEF IInv, TimSortInv
  <2>2. pc' = m.next /\ m.next \in {"stack", "final"}
    BY <2>1 DEF Shrinks
  <2>3. Top' = Top /\ a' = r /\ stack' = stack /\ m' = m
    BY <1>11, <1>14 DEF Top
  <2>4. /\ \A k \in 2 .. Len(stack) - 1 :
             stack[k] # m.from => InOrder(data, r, stack[k], stack[k + 1])
        /\ Unread(data, r, Top)
    BY <1>0, <1>1, <1>7, <1>14, OtherRuns
  <2>5. \A k \in 2 .. Len(stack) - 1 : InOrder(data, r, stack[k], stack[k + 1])
    <3> SUFFICES ASSUME NEW k \in 2 .. Len(stack) - 1, stack[k] = m.from
                 PROVE  InOrder(data, r, stack[k], stack[k + 1])
      BY <2>4
    <3>1. PICK h \in 2 .. Len(stack) - 1 : m.from = stack[h] /\ m.to = stack[h + 1]
      BY <1>0, <1>14 DEF IInv, TimSortInv
    <3>2. k = h
      <4>1. \A g, l \in 2 .. Len(stack) : g < l => stack[g] < stack[l]
        BY <1>1, <1>14 DEF StackInv
      <4>2. k \in 2 .. Len(stack) /\ h \in 2 .. Len(stack) /\ Len(stack) \in Nat
        BY <1>1, Basics
      <4>3. stack[k] \in Nat /\ stack[h] = stack[k]
        BY <1>1, <3>1
      <4>4. ~(k < h) /\ ~(h < k)
        BY <4>1, <4>2, <4>3
      <4>5. QED
        BY <4>2, <4>4
    <3>3. QED
      BY <1>10, <3>1, <3>2
  <2>6. StackInv'
    BY <1>1, <1>14, <2>2, <2>3, <2>4, <2>5 DEF StackInv
  <2>7. Shrinks(pc)'
    BY <1>12, <2>1, <2>2, <2>3 DEF Shrinks
  <2>8. TimSortInv'
    BY <1>14, <2>1, <2>2, <2>6, <2>7 DEF TimSortInv
  <2>9. PassInv' /\ StartInv' /\ InsertInv' /\ MergeInv' /\ DoneInv'
    BY <2>2 DEF PassInv, StartInv, InsertInv, MergeInv, DoneInv
  <2>10. QED
    BY <1>12, <2>8, <2>9 DEF IInv
<1>15. QED
  BY <1>1, <1>13, <1>14

LEMMA FindRunInv == IInv /\ FindRun => IInv'
<1> SUFFICES ASSUME IInv, FindRun PROVE IInv'
  OBVIOUS
<1> USE DEF FindRun
<1> DEFINE e == RunEnd(Top)
           r == IF Ascends(Top) THEN a ELSE Reversed(Top, RunEnd(Top))
<1>1. /\ TypeOK /\ N \in Nat \ {0} /\ N = Len(data) /\ A = 6 /\ flip = FALSE /\ StackInv
      /\ Shrinking(stack, Len(stack)) /\ Top < N /\ a \in Arrays(N) /\ t \in Arrays(N)
      /\ width \in Nat \ {0}
  BY Basics DEF IInv, TypeOK, TimSortInv
<1>2. Top \in Nat /\ Unread(data, a, Top)
  BY <1>1, TopIs DEF StackInv
<1>3. \A p \in Top + 1 .. N : a[p] = Original(p)
  BY <1>1, <1>2 DEF Unread, Original
<1>4. e \in Top + 1 .. N
  BY <1>1, <1>2, RunEnds
<1>5. /\ r \in Arrays(N) /\ InOrder(data, r, Top, e)
      /\ \A p \in 1 .. N : p \notin Top + 1 .. e => r[p] = a[p]
  <2>1. N \in Nat /\ r = IF Ascends(Top) THEN a ELSE Reversed(Top, RunEnd(Top))
    BY <1>1
  <2> HIDE DEF r
  <2>2. QED
    BY ONLY <1>1, <1>2, <1>3, <2>1, RunSorts DEF e
<1>6. a' = r
  OBVIOUS
<1> DEFINE from == Top
<1> HIDE DEF e, r, from
<1>7. from = Top /\ from \in Nat /\ from < N /\ e \in Nat /\ from < e /\ e <= N /\ N \in Nat
  BY <1>1, <1>2, <1>4 DEF from
<1>8. \A p \in 1 .. from : r[p] = a[p]
  <2>1. \A p \in 1 .. from : p \in 1 .. N /\ p \notin from + 1 .. e
    BY ONLY <1>7
  <2>2. QED
    BY <1>5, <1>7, <2>1
<1>9. Unread(data, r, e)
  <2>1. \A p \in e + 1 .. N : p \in from + 1 .. N /\ p \in 1 .. N /\ p \notin from + 1 .. e
    BY ONLY <1>7
  <2>2. \A p \in e + 1 .. N : r[p] = a[p] /\ a[p] = Original(p)
    BY <1>3, <1>5, <1>7, <2>1
  <2>3. QED
    BY <1>1, <2>2 DEF Unread, Original
<1>10. CASE e - from < width
  <2>1. /\ block' = [from |-> from, to |-> Least(from + width, N), i |-> e]
        /\ pc' = "insert" /\ stack' = stack
    BY <1>10 DEF from, e
  <2>2. /\ block' \in [from : 0 .. N, to : 0 .. N, i : 1 .. N + 1]
        /\ block'.from = from /\ block'.i = e
        /\ block'.from < block'.i /\ block'.i <= block'.to
    <3> DEFINE to == Least(from + width, N)
    <3>1. to \in 0 .. N /\ e <= to
      BY ONLY <1>1, <1>7, <1>10 DEF Least
    <3>2. from \in 0 .. N /\ e \in 1 .. N + 1
      BY ONLY <1>7
    <3> HIDE DEF to
    <3>3. block' = [from |-> from, to |-> to, i |-> e]
      BY <2>1 DEF to
    <3>4. QED
      BY ONLY <1>7, <3>1, <3>2, <3>3
  <2>3. TypeOK' /\ data' = data /\ N' = N
    BY <1>1, <1>5, <1>6, <2>1, <2>2 DEF TypeOK, N
  <2>4. Top' = Top
    BY <2>1 DEF Top
  <2>5. InsertInv'
    <3>1. InOrder(data', a', block'.from, block'.i) /\ Unread(data', a', block'.i)
      BY <1>5, <1>6, <1>7, <1>9, <2>2
    <3>2. A' = 6 /\ flip' = FALSE /\ block'.from = Top'
      BY <1>1, <1>7, <2>2, <2>4
    <3>3. QED
      BY <2>2, <3>1, <3>2 DEF InsertInv
  <2>6. StackInv'
    <3>1. \A k \in 2 .. Len(stack) - 1 : InOrder(data, r, stack[k], stack[k + 1])
      <4> SUFFICES ASSUME NEW k \in 2 .. Len(stack) - 1
                   PROVE  InOrder(data, r, stack[k], stack[k + 1])
        OBVIOUS
      <4>1. InOrder(data, a, stack[k], stack[k + 1])
        BY <1>1 DEF StackInv
      <4>2. \A p \in 1 .. Top : r[p] = a[p]
        BY <1>7, <1>8
      <4>3. QED
        BY <1>1, <4>1, <4>2, SameRun
    <3>2. Unread(data', a', block'.i)
      BY <1>6, <1>9, <2>2
    <3>3. /\ 2 <= Len(stack) /\ stack[1] = 0 /\ stack[2] = 0
          /\ \A k, l \in 2 .. Len(stack) : k < l => stack[k] < stack[l]
      BY <1>1 DEF StackInv
    <3>4. stack' = stack /\ pc' = "insert" /\ a' = r /\ data' = data
      BY <1>6, <2>1
    <3>5. QED
      BY <3>1, <3>2, <3>3, <3>4 DEF StackInv
  <2>7. TimSortInv'
    BY <1>1, <2>1, <2>3, <2>4, <2>6 DEF TimSortInv
  <2>8. StartInv' /\ MergeInv' /\ PassInv' /\ DoneInv'
    BY <2>1 DEF StartInv, MergeInv, PassInv, DoneInv
  <2>9. QED
    BY <2>3, <2>5, <2>7, <2>8 DEF IInv
<1>11. CASE ~(e - from < width)
  <2>1. block' = block /\ pc' = "stack" /\ stack' = Append(stack, e)
    BY <1>11 DEF from, e
  <2>2. /\ stack' \in Seq(0 .. N) /\ 3 <= Len(stack')
        /\ stack'[1] = 0 /\ stack'[2] = 0 /\ stack'[Len(stack')] = e
        /\ \A k, l \in 2 .. Len(stack') : k < l => stack'[k] < stack'[l]
        /\ \A k \in 2 .. Len(stack') - 1 : InOrder(data, r, stack'[k], stack'[k + 1])
        /\ Shrinking(stack', Len(stack') - 2)
    <3>1. pc # "merge" /\ stack' = Append(stack, e)
      BY <2>1
    <3>2. \A p \in 1 .. Top : r[p] = a[p]
      BY <1>7, <1>8
    <3>3. QED
      BY <1>1, <1>4, <1>5, <3>1, <3>2, PushedRun
  <2>3. TypeOK' /\ data' = data /\ N' = N
    BY <1>1, <1>5, <1>6, <2>1, <2>2 DEF TypeOK, N
  <2>4. Top' = e
    BY <2>2 DEF Top
  <2>5. StackInv'
    <3>1. 2 <= Len(stack')
      <4>1. Len(stack') \in Nat
        BY <2>2, LenProperties
      <4>2. QED
        BY <2>2, <4>1
    <3>2. Unread(data', a', Top')
      BY <1>6, <1>9, <2>4
    <3>3. pc' = "stack" /\ a' = r /\ data' = data
      BY <1>6, <2>1
    <3>4. QED
      BY <2>2, <3>1, <3>2, <3>3 DEF StackInv
  <2>6. Shrinks("stack")'
    BY <2>2 DEF Shrinks
  <2>7. TimSortInv'
    BY <1>1, <2>1, <2>5, <2>6 DEF TimSortInv
  <2>8. StartInv' /\ InsertInv' /\ MergeInv' /\ PassInv' /\ DoneInv'
    BY <2>1 DEF StartInv, InsertInv, MergeInv, PassInv, DoneInv
  <2>9. QED
    BY <2>3, <2>7, <2>8 DEF IInv
<1>12. QED
  BY <1>10, <1>11

\* Two runs of the stack, without their common end, are merged.
LEMMA MergeAtInv ==
  ASSUME IInv, pc \in {"stack", "final"}, NEW k \in 3 .. Len(stack) - 1,
         k = Len(stack) - 1 \/ (pc = "stack" /\ k = Len(stack) - 2), MergeAt(k, pc)
  PROVE  IInv'
<1> USE DEF MergeAt
<1> DEFINE n == Len(stack)
           lo == stack[k - 1]
           mid == stack[k]
           hi == stack[k + 1]
           st == [p \in 1 .. n - 1 |-> IF p < k THEN stack[p] ELSE stack[p + 1]]
<1>1. /\ TypeOK /\ N \in Nat \ {0} /\ N = Len(data) /\ A = 6 /\ flip = FALSE /\ StackInv
      /\ Shrinks(pc) /\ a \in Arrays(N) /\ t \in Arrays(N)
      /\ n \in Nat /\ \A p \in 1 .. n : stack[p] \in 0 .. N
  <2>1. TypeOK /\ A = 6 /\ flip = FALSE /\ StackInv /\ Shrinks(pc)
    BY DEF IInv, TimSortInv
  <2>2. /\ N \in Nat \ {0} /\ N = Len(data) /\ n \in Nat
        /\ stack \in [1 .. n -> 0 .. N]
    BY <2>1, Basics
  <2>3. a \in Arrays(N) /\ t \in Arrays(N)
    BY <2>1 DEF TypeOK
  <2> HIDE DEF n
  <2>4. \A p \in 1 .. n : stack[p] \in 0 .. N
    BY <2>2
  <2>5. QED
    BY <2>1, <2>2, <2>3, <2>4 DEF n
<1>2. /\ stack[1] = 0 /\ stack[2] = 0
      /\ \A p, q \in 2 .. n : p < q => stack[p] < stack[q]
      /\ Unread(data, a, Top)
      /\ \A p \in 2 .. n - 1 : InOrder(data, a, stack[p], stack[p + 1])
  BY <1>1 DEF StackInv
<1>3. /\ k \in Nat /\ k - 1 \in 2 .. n - 2 /\ k \in 2 .. n - 1
      /\ k - 1 \in 2 .. n /\ k \in 2 .. n /\ k + 1 \in 2 .. n /\ k < n
      /\ k - 1 \in 1 .. n /\ k \in 1 .. n /\ k + 1 \in 1 .. n /\ (k - 1) + 1 = k
  BY <1>1
<1>4. lo \in Nat /\ mid \in Nat /\ hi \in Nat /\ lo < mid /\ mid < hi /\ hi <= N
  <2>1. lo \in 0 .. N /\ mid \in 0 .. N /\ hi \in 0 .. N
    BY <1>1, <1>3
  <2>2. lo < mid /\ mid < hi
    BY <1>2, <1>3
  <2>3. QED
    BY <1>1, <2>1, <2>2
<1>5. InOrder(data, a, lo, mid) /\ InOrder(data, a, mid, hi)
  <2>1. InOrder(data, a, stack[k - 1], stack[(k - 1) + 1])
    <3>1. k - 1 \in 2 .. n - 1
      BY <1>1, <1>3
    <3>2. QED
      BY <1>2, <3>1
  <2>2. InOrder(data, a, stack[k], stack[k + 1])
    BY <1>2, <1>3
  <2>3. QED
    BY <1>3, <2>1, <2>2
<1>6. stack' = st /\ m' = [from |-> lo, mid |-> mid, to |-> hi, i |-> 0, j |-> 0, next |-> pc]
      /\ t' = [p \in DOMAIN t |-> IF p \in 1 .. mid - lo THEN a[lo + p] ELSE t[p]]
  OBVIOUS
<1>7. st \in Seq(0 .. N) /\ Len(st) = n - 1
      /\ \A p \in 1 .. n - 1 : st[p] = IF p < k THEN stack[p] ELSE stack[p + 1]
  <2>1. n - 1 \in Nat
    BY <1>1, <1>3
  <2>2. \A p \in 1 .. n - 1 : p \in 1 .. n /\ p + 1 \in 1 .. n
    BY <1>1
  <2>3. \A p \in 1 .. n - 1 : (IF p < k THEN stack[p] ELSE stack[p + 1]) \in 0 .. N
    BY <1>1, <2>2
  <2> HIDE DEF n
  <2>4. st \in [1 .. n - 1 -> 0 .. N]
    BY <2>3
  <2> HIDE DEF st
  <2>5. st \in Seq(0 .. N)
    BY <2>1, <2>4, SeqDef
  <2>6. Len(st) = n - 1
    <3>1. Len(st) \in Nat /\ 1 .. Len(st) = 1 .. n - 1
      BY <2>4, <2>5, LenProperties
    <3>2. QED
      BY <2>1, <3>1
  <2>7. QED
    BY <2>5, <2>6 DEF st
<1> HIDE DEF st
<1>8. t' = [p \in 1 .. N |-> IF p \in 1 .. mid - lo THEN a[lo + p] ELSE t[p]]
  BY <1>1, <1>6 DEF Arrays
<1>9. t' \in Arrays(N) /\ \A p \in 1 .. mid - lo : t'[p] = a[lo + p]
  <2>1. \A p \in 1 .. mid - lo : p \in 1 .. N /\ lo + p \in 1 .. N
    <3> HIDE DEF lo, mid, hi
    <3>1. QED
      BY ONLY <1>1, <1>4
  <2>2. ASSUME NEW p \in 1 .. N
        PROVE  (IF p \in 1 .. mid - lo THEN a[lo + p] ELSE t[p]) \in Items
    BY <1>1, <2>1 DEF Arrays
  <2>3. t' \in Arrays(N)
    BY <1>8, <2>2 DEF Arrays
  <2>4. QED
    BY <1>8, <2>1, <2>3
<1>10. /\ m' \in [from : 0 .. N, mid : 0 .. N, to : 0 .. N, i : Nat, j : Nat,
                  next : {"call", "pair", "stack", "final"}]
       /\ m'.from = lo /\ m'.mid = mid /\ m'.to = hi /\ m'.i = 0 /\ m'.j = 0 /\ m'.next = pc
  BY <1>1, <1>3, <1>6
<1>11. TypeOK' /\ data' = data /\ N' = N
  BY <1>1, <1>6, <1>7, <1>9, <1>10 DEF TypeOK, N
<1>12. st[1] = 0 /\ st[2] = 0 /\ Top' = Top
  <2>1. 1 \in 1 .. n - 1 /\ 2 \in 1 .. n - 1 /\ 1 < k /\ 2 < k
    BY <1>1, <1>3
  <2>2. st[1] = stack[1] /\ st[2] = stack[2]
    BY <1>7, <2>1
  <2>3. st[n - 1] = stack[n]
    <3>1. n - 1 \in 1 .. n - 1 /\ ~(n - 1 < k) /\ (n - 1) + 1 = n
      BY <1>1, <1>3
    <3>2. QED
      BY <1>7, <3>1
  <2>4. QED
    BY <1>2, <1>6, <1>7, <2>2, <2>3 DEF Top
<1>13. ASSUME NEW p \in 2 .. n - 1, NEW q \in 2 .. n - 1, p < q PROVE st[p] < st[q]
  <2> DEFINE p1 == IF p < k THEN p ELSE p + 1
             q1 == IF q < k THEN q ELSE q + 1
  <2>1. p1 \in 2 .. n /\ q1 \in 2 .. n /\ p1 < q1 /\ p \in 1 .. n - 1 /\ q \in 1 .. n - 1
    BY <1>1, <1>3, <1>13
  <2>2. st[p] = stack[p1] /\ st[q] = stack[q1]
    BY <1>7, <2>1
  <2>3. QED
    BY <1>2, <2>1, <2>2
<1>14. ASSUME NEW p \in 2 .. n - 2, st[p] # lo PROVE InOrder(data, a, st[p], st[p + 1])
  <2>1. p \in 1 .. n - 1 /\ p + 1 \in 1 .. n - 1
    BY <1>1
  <2>2. p # k - 1
    <3>1. SUFFICES ASSUME p = k - 1 PROVE FALSE
      OBVIOUS
    <3>2. p < k
      BY <1>3, <3>1
    <3>3. st[p] = stack[p]
      BY <1>7, <2>1, <3>2
    <3>4. QED
      BY <1>14, <3>1, <3>3
  <2>3. CASE p + 1 < k
    <3>1. p < k /\ p \in 2 .. n - 1
      BY <1>1, <2>3
    <3>2. st[p] = stack[p] /\ st[p + 1] = stack[p + 1]
      BY <1>7, <2>1, <2>3, <3>1
    <3>3. QED
      BY <1>2, <3>1, <3>2
  <2>4. CASE p >= k
    <3>1. ~(p < k) /\ ~(p + 1 < k) /\ p + 1 \in 2 .. n - 1
      BY <1>1, <1>3, <2>4
    <3>2. st[p] = stack[p + 1] /\ st[p + 1] = stack[(p + 1) + 1]
      BY <1>7, <2>1, <3>1
    <3>3. QED
      BY <1>2, <3>1, <3>2
  <2>5. QED
    BY <1>1, <1>3, <2>2, <2>3, <2>4
<1>15. pc' = "merge" /\ a' = a /\ A' = 6 /\ flip' = FALSE
  BY <1>1
<1>16. StackInv'
  <2>0. stack' = st /\ Len(stack') = n - 1 /\ n \in Nat /\ 3 <= n
    <3> HIDE DEF n
    <3>1. stack' = st
      BY ONLY <1>6
    <3>2. Len(stack') = n - 1
      BY ONLY <3>1, <1>7
    <3>3. n \in Nat /\ k - 1 \in 2 .. n - 2 /\ k \in Nat
      BY ONLY <1>1, <1>3
    <3>4. QED
      BY ONLY <3>1, <3>2, <3>3
  <2>1. 2 <= Len(stack') /\ stack'[1] = 0 /\ stack'[2] = 0
    BY <1>12, <2>0
  <2>2. \A p, q \in 2 .. Len(stack') : p < q => stack'[p] < stack'[q]
    BY <1>6, <1>7, <1>13
  <2>3. \A p \in 2 .. Len(stack') - 1 :
          stack'[p] # m'.from => InOrder(data', a', stack'[p], stack'[p + 1])
    <3>1. Len(stack') - 1 = n - 2
      BY <2>0
    <3>2. m'.from = lo /\ data' = data /\ a' = a
      BY <1>10, <1>11, <1>15
    <3>3. QED
      BY <1>14, <2>0, <3>1, <3>2
  <2>4. Unread(data', a', Top')
    BY <1>2, <1>11, <1>12, <1>15
  <2>5. QED
    BY <1>15, <2>1, <2>2, <2>3, <2>4 DEF StackInv
<1>17. Shrinks(m.next)'
  <2>1. 3 <= Len(stack')
    BY <1>1, <1>3, <1>6, <1>7
  <2>2. pc = "stack" => Shrinking(st, (n - 1) - 2)
    <3> SUFFICES ASSUME pc = "stack", NEW p \in 2 .. ((n - 1) - 2) - 2
                 PROVE  st[p + 1] - st[p] > st[p + 2] - st[p + 1]
      BY DEF Shrinking
    <3>1. Shrinking(stack, n - 2)
      BY <1>1 DEF Shrinks
    <3>2. /\ p \in 2 .. (n - 2) - 2 /\ p \in 1 .. n - 1 /\ p + 1 \in 1 .. n - 1
          /\ p + 2 \in 1 .. n - 1 /\ p < k /\ p + 1 < k /\ p + 2 < k
      BY <1>1, <1>3
    <3>3. st[p] = stack[p] /\ st[p + 1] = stack[p + 1] /\ st[p + 2] = stack[p + 2]
      BY <1>7, <3>2
    <3>4. QED
      BY <3>1, <3>2, <3>3 DEF Shrinking
  <2>3. pc = "final" => Shrinking(st, (n - 1) - 1)
    <3> SUFFICES ASSUME pc = "final", NEW p \in 2 .. ((n - 1) - 1) - 2
                 PROVE  st[p + 1] - st[p] > st[p + 2] - st[p + 1]
      BY DEF Shrinking
    <3>1. Shrinking(stack, n - 1) /\ k = n - 1
      BY <1>1 DEF Shrinks
    <3>2. /\ p \in 2 .. (n - 1) - 2 /\ p \in 1 .. n - 1 /\ p + 1 \in 1 .. n - 1
          /\ p + 2 \in 1 .. n - 1 /\ p < k /\ p + 1 < k /\ p + 2 < k
      <4> HIDE DEF n
      <4>1. QED
        BY ONLY <1>1, <3>1
    <3>3. st[p] = stack[p] /\ st[p + 1] = stack[p + 1] /\ st[p + 2] = stack[p + 2]
      BY <1>7, <3>2
    <3>4. QED
      BY <3>1, <3>2, <3>3 DEF Shrinking
  <2>4. pc = "final" => Top' = N'
    BY <1>1, <1>11, <1>12 DEF Shrinks
  <2>5. QED
    BY <1>6, <1>7, <1>10, <2>1, <2>2, <2>3, <2>4 DEF Shrinks
<1>18. \E p \in 2 .. Len(stack') - 1 : m'.from = stack'[p] /\ m'.to = stack'[p + 1]
  <2>1. k - 1 \in 1 .. n - 1 /\ k - 1 < k /\ k \in 1 .. n - 1 /\ ~(k < k)
        /\ k - 1 \in 2 .. (n - 1) - 1
    BY <1>1, <1>3
  <2>2. st[k - 1] = lo /\ st[k] = hi
    BY <1>7, <2>1
  <2>3. m'.from = st[k - 1] /\ m'.to = st[(k - 1) + 1]
    BY <1>3, <1>10, <2>2
  <2>4. QED
    BY <1>6, <1>7, <2>1, <2>3
<1>19. MergeInv'
  <2>1. Dest' = a
    BY <1>15 DEF Dest
  <2>2. LeftPart' = [p \in 1 .. mid - lo |-> t'[p]]
    BY <1>10, <1>15 DEF LeftPart, LeftItem, InPlace
  <2>3. RightPart' = [q \in 1 .. hi - mid |-> a[mid + q]]
    BY <1>10, <1>15 DEF RightPart, RightItem, InPlace
  <2>4. \A p \in 1 .. mid - lo : LeftPart'[p] = a[lo + p]
    BY <1>9, <2>2
  <2>5. \A q \in 1 .. hi - mid : RightPart'[q] = a[mid + q]
    BY <2>3
  <2> HIDE DEF lo, mid, hi
  <2>6. lo <= mid /\ mid <= hi /\ N \in Nat
    BY ONLY <1>1, <1>4
  <2>7. Taken(data, Dest', LeftPart', RightPart', lo, mid, hi, 0, 0)
    BY ONLY <1>1, <1>4, <1>5, <2>4, <2>5, <2>6, TakenStarts
  <2>8. QED
    BY <1>4, <1>10, <1>11, <1>15, <2>7 DEF MergeInv
<1>20. TimSortInv'
  BY <1>15, <1>16, <1>17, <1>18 DEF TimSortInv
<1>21. StartInv' /\ InsertInv' /\ PassInv' /\ DoneInv'
  BY <1>15 DEF StartInv, InsertInv, PassInv, DoneInv
<1>22. QED
  BY <1>11, <1>19, <1>20, <1>21 DEF IInv

\* The stack, when merge_stack() or final_merge_stack() looks at it.
LEMMA StackFacts ==
  ASSUME IInv, pc \in {"stack", "final"}
  PROVE  /\ TypeOK /\ N \in Nat \ {0} /\ A = 6 /\ flip = FALSE /\ StackInv /\ Shrinks(pc)
         /\ Len(stack) \in Nat /\ 3 <= Len(stack)
         /\ \A k \in 1 .. Len(stack) : stack[k] \in 0 .. N
         /\ stack[1] = 0 /\ stack[2] = 0
         /\ \A k, l \in 2 .. Len(stack) : k < l => stack[k] < stack[l]
<1>1. TypeOK /\ A = 6 /\ flip = FALSE /\ StackInv /\ Shrinks(pc)
  BY DEF IInv, TimSortInv
<1>2. N \in Nat \ {0} /\ Len(stack) \in Nat /\ stack \in [1 .. Len(stack) -> 0 .. N]
  BY <1>1, Basics
<1>3. 3 <= Len(stack)
  BY <1>1 DEF Shrinks
<1>4. /\ stack[1] = 0 /\ stack[2] = 0
      /\ \A k, l \in 2 .. Len(stack) : k < l => stack[k] < stack[l]
  BY <1>1 DEF StackInv
<1>5. \A k \in 1 .. Len(stack) : stack[k] \in 0 .. N
  BY <1>2
<1>6. QED
  BY <1>1, <1>2, <1>3, <1>4, <1>5

LEMMA MergeABInv == IInv /\ MergeAB => IInv'
<1> SUFFICES ASSUME IInv, MergeAB PROVE IInv'
  OBVIOUS
<1> DEFINE n == Len(stack)
<1>1. /\ pc = "stack" /\ n \in Nat /\ n >= 4 /\ MergeAt(n - 2, pc)
      /\ stack[n - 2] - stack[n - 3] > 0 /\ stack[1] = 0 /\ stack[2] = 0
  BY StackFacts DEF MergeAB, IsDeep, Crowded, TopRuns
<1>2. n # 4
  <2> SUFFICES ASSUME n = 4 PROVE FALSE
    OBVIOUS
  <2>1. n - 2 = 2 /\ n - 3 = 1
    OBVIOUS
  <2>2. stack[2] - stack[1] > 0
    BY <1>1, <2>1
  <2>3. QED
    BY <1>1, <2>2
<1>3. n - 2 \in 3 .. n - 1
  BY <1>1, <1>2
<1>4. QED
  BY <1>1, <1>3, MergeAtInv

LEMMA MergeBCInv == IInv /\ MergeBC => IInv'
<1> SUFFICES ASSUME IInv, MergeBC PROVE IInv'
  OBVIOUS
<1> DEFINE n == Len(stack)
<1>1. pc = "stack" /\ n \in Nat /\ n >= 4 /\ MergeAt(n - 1, pc)
  BY StackFacts DEF MergeBC, IsDeep
<1>2. n - 1 \in 3 .. n - 1
  BY <1>1
<1>3. QED
  BY <1>1, <1>2, MergeAtInv

LEMMA FinalMergeInv == IInv /\ FinalMerge => IInv'
<1> SUFFICES ASSUME IInv, FinalMerge PROVE IInv'
  OBVIOUS
<1> DEFINE n == Len(stack)
<1>1. pc = "final" /\ n \in Nat /\ n >= 4 /\ MergeAt(n - 1, pc)
  BY StackFacts DEF FinalMerge, IsDeep
<1>2. n - 1 \in 3 .. n - 1
  BY <1>1
<1>3. QED
  BY <1>1, <1>2, MergeAtInv

LEMMA StackSettledInv == IInv /\ StackSettled => IInv'
<1> SUFFICES ASSUME IInv, StackSettled PROVE IInv'
  OBVIOUS
<1> USE DEF StackSettled, arrays
<1> DEFINE n == Len(stack)
<1>1. /\ TypeOK /\ N \in Nat \ {0} /\ A = 6 /\ flip = FALSE /\ StackInv /\ Shrinks("stack")
      /\ n \in Nat /\ 3 <= n
      /\ \A k \in 1 .. n : stack[k] \in 0 .. N
      /\ \A k, l \in 2 .. n : k < l => stack[k] < stack[l]
  BY StackFacts
<1>2. TypeOK' /\ data' = data /\ N' = N
  BY <1>1 DEF TypeOK, N
<1>3. n >= 4 => /\ ~(stack[n - 2] - stack[n - 3] > 0
                     /\ stack[n - 2] - stack[n - 3]
                          <= (stack[n - 1] - stack[n - 2]) + (stack[n] - stack[n - 1]))
                /\ stack[n - 1] - stack[n - 2] > stack[n] - stack[n - 1]
  BY DEF IsDeep, Crowded, TopRuns
<1>4. Shrinking(stack, n)
  <2> SUFFICES ASSUME NEW k \in 2 .. n - 2
               PROVE  stack[k + 1] - stack[k] > stack[k + 2] - stack[k + 1]
    BY DEF Shrinking
  <2>1. n >= 4 /\ k \in Nat
    BY <1>1
  <2>2. CASE k = n - 2
    <3>1. k + 1 = n - 1 /\ k + 2 = n
      BY <1>1, <2>2
    <3>2. QED
      BY <1>3, <2>1, <2>2, <3>1
  <2>3. CASE k = n - 3
    <3>1. k + 1 = n - 2 /\ k + 2 = n - 1 /\ n - 3 \in 2 .. n /\ n - 2 \in 2 .. n
          /\ n - 1 \in 2 .. n /\ n \in 2 .. n
      BY <1>1, <2>3
    <3>2. stack[n - 3] < stack[n - 2] /\ stack[n - 1] < stack[n]
      <4>1. n - 3 < n - 2 /\ n - 1 < n
        BY <1>1
      <4> HIDE DEF n
      <4>2. QED
        BY <1>1, <3>1, <4>1
    <3>3. stack[n - 3] \in Nat /\ stack[n - 2] \in Nat /\ stack[n - 1] \in Nat /\ stack[n] \in Nat
      <4> HIDE DEF n
      <4>1. \A l \in 2 .. n : l \in 1 .. n
        BY ONLY <1>1
      <4>2. \A l \in 2 .. n : stack[l] \in 0 .. N
        BY ONLY <1>1, <4>1
      <4>3. \A l \in 2 .. n : stack[l] \in Nat
        BY ONLY <1>1, <4>2
      <4>4. QED
        BY ONLY <3>1, <4>3
    <3>4. stack[n - 2] - stack[n - 3] > stack[n - 1] - stack[n - 2]
      BY <1>3, <2>1, <3>2, <3>3
    <3>5. QED
      BY <2>3, <3>1, <3>4
  <2>4. CASE k \in 2 .. (n - 2) - 2
    BY <1>1, <2>4 DEF Shrinks, Shrinking
  <2>5. k = n - 2 \/ k = n - 3 \/ k \in 2 .. (n - 2) - 2
    BY <1>1
  <2>6. QED
    BY <2>2, <2>3, <2>4, <2>5
<1>5. Top' = Top /\ Top \in 0 .. N
  BY <1>1, TopIs DEF Top
<1>6. StackInv'
  BY <1>1, <1>5 DEF StackInv
<1>7. CASE Top < N
  <2>1. pc' = "runs"
    BY <1>7
  <2>2. TimSortInv'
    BY <1>1, <1>2, <1>4, <1>5, <1>6, <1>7, <2>1 DEF TimSortInv
  <2>3. StartInv' /\ InsertInv' /\ MergeInv' /\ PassInv' /\ DoneInv'
    BY <2>1 DEF StartInv, InsertInv, MergeInv, PassInv, DoneInv
  <2>4. QED
    BY <1>2, <2>2, <2>3 DEF IInv
<1>8. CASE ~(Top < N)
  <2>1. pc' = "final" /\ Top = N
    BY <1>1, <1>5, <1>8
  <2>2. Shrinking(stack, n - 1)
    <3>1. \A k \in 2 .. (n - 1) - 2 : k \in 2 .. n - 2
      BY <1>1
    <3>2. QED
      BY <1>4, <3>1 DEF Shrinking
  <2>3. Shrinks("final")'
    BY <1>1, <1>2, <1>5, <2>1, <2>2 DEF Shrinks
  <2>4. TimSortInv'
    BY <1>1, <1>6, <2>1, <2>3 DEF TimSortInv
  <2>5. StartInv' /\ InsertInv' /\ MergeInv' /\ PassInv' /\ DoneInv'
    BY <2>1 DEF StartInv, InsertInv, MergeInv, PassInv, DoneInv
  <2>6. QED
    BY <1>2, <2>4, <2>5 DEF IInv
<1>9. QED
  BY <1>7, <1>8

LEMMA FinalDoneInv == IInv /\ FinalDone => IInv'
<1> SUFFICES ASSUME IInv, FinalDone PROVE IInv'
  OBVIOUS
<1> USE DEF FinalDone, arrays
<1>1. /\ TypeOK /\ A = 6 /\ flip = FALSE /\ StackInv /\ Shrinks("final")
      /\ Len(stack) \in Nat /\ 3 <= Len(stack) /\ ~(Len(stack) >= 4)
      /\ stack[1] = 0 /\ stack[2] = 0 /\ stack \in Seq(0 .. N)
  BY StackFacts DEF IsDeep, TypeOK
<1>2. Len(stack) = 3
  <2> DEFINE n == Len(stack)
  <2>1. n \in Nat /\ 3 <= n /\ ~(n >= 4)
    BY <1>1
  <2> HIDE DEF n
  <2>2. n = 3
    BY ONLY <2>1
  <2>3. QED
    BY <2>2 DEF n
<1>3. stack[3] = N
  BY <1>1, <1>2 DEF Shrinks, Top
<1>4. stack = <<0, 0, N>>
  BY <1>1, <1>2, <1>3
<1>5. InOrder(data, a, stack[2], stack[2 + 1])
  <2>1. 2 \in 2 .. Len(stack) - 1
    BY <1>2
  <2>2. QED
    BY <1>1, <2>1 DEF StackInv
<1>6. InOrder(data, a, 0, N)
  BY <1>1, <1>3, <1>5
<1>7. TypeOK' /\ data' = data /\ N' = N
  BY <1>1 DEF TypeOK, N
<1>8. DoneInv'
  BY <1>4, <1>6, <1>7 DEF DoneInv
<1>9. StartInv' /\ InsertInv' /\ MergeInv' /\ PassInv' /\ TimSortInv'
  BY <1>1 DEF StartInv, InsertInv, MergeInv, PassInv, TimSortInv
<1>10. QED
  BY <1>7, <1>8, <1>9 DEF IInv
-----------------------------------------------------------------------------
LEMMA StutterInv == IInv /\ UNCHANGED vars => IInv'
<1> SUFFICES ASSUME IInv, UNCHANGED vars PROVE IInv'
  OBVIOUS
<1> USE DEF vars, arrays
<1>1. N' = N /\ Top' = Top /\ Dest' = Dest /\ Source' = Source
  BY DEF N, Top, Dest, Source
<1>2. LeftPart' = LeftPart /\ RightPart' = RightPart
  BY <1>1 DEF LeftPart, RightPart, LeftItem, RightItem, InPlace
<1>3. TypeOK' /\ StartInv' /\ InsertInv' /\ MergeInv' /\ PassInv'
  BY <1>1, <1>2 DEF IInv, TypeOK, StartInv, InsertInv, MergeInv, PassInv
<1>4. StackInv' = StackInv
  BY <1>1 DEF StackInv
<1>5. TimSortInv' /\ DoneInv'
  BY <1>1, <1>4 DEF IInv, TimSortInv, DoneInv, Shrinks
<1>6. QED
  BY <1>3, <1>5 DEF IInv

LEMMA StepInv == IInv /\ [StableNext]_vars => IInv'
<1> SUFFICES ASSUME IInv, [StableNext]_vars PROVE IInv'
  OBVIOUS
<1>1. CASE UNCHANGED vars
  BY <1>1, StutterInv
<1>2. CASE StableNext
  BY <1>2, InsertSort0CallInv, InsertNextInv, InsertSort0DoneInv, MergeSortCallInv, HalveInv,
     SortMinrunsInv, NextMinrunInv, PassInvariant, NextPairInv, EndPassInv, CopyBackInv,
     TakeLeftInv, TakeRightInv, EndMergeInv, StartTimSortInv, FindRunInv, PushRunInv,
     MergeABInv, MergeBCInv, StackSettledInv, FinalMergeInv, FinalDoneInv DEF StableNext
<1>3. QED
  BY <1>1, <1>2

\* The invariant of the three sorts: which blocks and runs are in order, what of a merge is
\* done, and how the lengths of the runs on the stack compare.
THEOREM Invariance == StableSpec => []IInv
<1>1. QED
  BY InitInv, StepInv, PTL DEF StableSpec

\* What the steps of insert_sort0, mergesort1 and timsort (merge_sort.cc) keep sorted, and
\* that the result is, stably: for arrays of every length with any keys.
THEOREM SortsSort == StableSpec => []RunsAreSorted
<1>1. ASSUME IInv PROVE RunsAreSorted
  <2>1. TypeOK /\ N \in Nat \ {0} /\ N = Len(data)
    BY <1>1, Basics DEF IInv
  <2>2. ASSUME pc = "passes", NEW s \in 0 .. N - 1, s * width < N
        PROVE  StablySorted(IF flip THEN t ELSE a, s * width, Least((s + 1) * width, N))
    <3>1. SortedBlocks(data, Dest, width, N)
      BY <1>1, <2>2 DEF IInv, PassInv
    <3>2. s \in Nat /\ width \in Nat /\ (s + 1) * width = s * width + width
      BY <2>1 DEF TypeOK
    <3>3. InOrder(data, Dest, s * width, Least(s * width + width, N))
      BY <2>1, <2>2, <3>1, <3>2 DEF SortedBlocks
    <3>4. QED
      BY <3>2, <3>3, StablySortedIs DEF Dest
  <2>3. ASSUME pc \in {"runs", "stack", "final"}, NEW k \in 2 .. Len(stack) - 1
        PROVE  StablySorted(a, stack[k], stack[k + 1])
    <3>1. StackInv
      BY <1>1, <2>3 DEF IInv, TimSortInv
    <3>2. InOrder(data, a, stack[k], stack[k + 1])
      BY <2>3, <3>1 DEF StackInv
    <3>3. QED
      BY <3>2, StablySortedIs
  <2>4. pc = "merge" => m.from < m.mid /\ m.mid < m.to
    BY <1>1 DEF IInv, MergeInv
  <2>5. pc = "done" => StablySorted(a, 0, N)
    BY <1>1, StablySortedIs DEF IInv, DoneInv
  <2>6. QED
    BY <2>2, <2>3, <2>4, <2>5 DEF RunsAreSorted
<1>2. QED
  BY <1>1, Invariance, PTL

\* The lengths of the runs on TimSort's stack, which merge_stack() (merge_sort.cc) keeps in
\* check however many there are, and that one run is left at the end.
THEOREM StackStaysShort == StableSpec => []RunsShrink
<1>1. ASSUME IInv PROVE RunsShrink
  <2>1. \A top : ShrinkUpTo(top) <=> Shrinking(stack, top)
    BY DEF ShrinkUpTo, Shrinking
  <2>2. pc = "runs" => Shrinking(stack, Len(stack))
    <3>1. pc = "runs" => A = 6
      BY <1>1 DEF IInv, TimSortInv
    <3>2. QED
      BY <1>1, <3>1 DEF IInv, TimSortInv
  <2>3. pc = "stack" => Shrinking(stack, Len(stack) - 2)
    BY <1>1 DEF IInv, TimSortInv, Shrinks
  <2>4. pc = "final" => Shrinking(stack, Len(stack) - 1)
    BY <1>1 DEF IInv, TimSortInv, Shrinks
  <2>5. pc = "done" /\ A = 6 => stack = <<0, 0, N>>
    BY <1>1 DEF IInv, DoneInv
  <2>6. QED
    BY <2>1, <2>2, <2>3, <2>4, <2>5 DEF RunsShrink
<1>2. QED
  BY <1>1, Invariance, PTL
=============================================================================
