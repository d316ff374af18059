---------------------------- MODULE SortFunctions ----------------------------
(***************************************************************************)
(* The sorts of src/sort that are modelled as functions of the sequence of *)
(* items: some permute the items, others o alone.                          *)
(***************************************************************************)
EXTENDS SortItems, SequencesExt

CONSTANTS
  MergeLimit,    \* P, the length that merge_sort0 leaves to insert_sort0
  InsertLimit    \* the length that bestsort() leaves to insert_sort0

ASSUME LimitsAssumption ==
  /\ MergeLimit \in Nat \ {0}
  /\ InsertLimit \in Nat

\* a with its positions from + 1 .. from + Len(part) overwritten.
Patched(a, from, part) ==
  [i \in DOMAIN a |-> IF i - from \in DOMAIN part THEN part[i - from] ELSE a[i]]

\* The array o permuted: position i takes what was at t[i].  x stays.
Reordered(a, t) == [i \in DOMAIN a |-> [a[i] EXCEPT !.o = a[t[i]].o]]
-----------------------------------------------------------------------------
(***************************************************************************)
(* Insertion sorts                                                         *)
(***************************************************************************)
\* insert_sort0 of a part
InsertSort(a) == FoldLeft(LAMBDA s, i : Insert(s, 0, i), a, [j \in 1 .. Len(a) - 1 |-> j + 1])

\* The indices 2 .. n: the first item is in place before the loop.
Rest(a) == [j \in 1 .. Len(a) - 1 |-> j + 1]

\* insert_sort2: the indices are sorted in tmp1, x is only read.
InsertIndex(a, t, i) ==
  InsertAt(t, 1 + Max({0} \cup {k \in DOMAIN t : a[t[k]].x <= a[i].x}), i)

InsertSort2(a) ==
  Reordered(a, FoldLeft(LAMBDA t, i : InsertIndex(a, t, i), <<1>>, Rest(a)))

\* insert_sort3: t[l .. r] is w.t, and the place n, from where the search starts,
\* is position n - l + 1 of it.  The shorter side makes room.
TwoWayInsert(a, w, i) ==
  LET key(k) == a[w.t[k]].x
      r == Len(w.t)
      start == Len(a) - w.l + 1
      j == IF a[i].x < key(start)
           THEN 1 + Max({k \in 1 .. start - 1 : key(k) <= a[i].x})
           ELSE Min({k \in start + 1 .. r : a[i].x < key(k)})
  IN  IF a[i].x >= key(r) THEN [w EXCEPT !.t = Append(w.t, i)]
      ELSE IF a[i].x < key(1) THEN [t |-> <<i>> \o w.t, l |-> w.l - 1]
      ELSE [t |-> InsertAt(w.t, j, i), l |-> IF r - j + 1 <= j - 1 THEN w.l ELSE w.l - 1]

InsertSort3(a) ==
  Reordered(a, FoldLeft(LAMBDA w, i : TwoWayInsert(a, w, i),
                        [t |-> <<1>>, l |-> Len(a)], Rest(a)).t)
-----------------------------------------------------------------------------
(***************************************************************************)
(* Merging                                                                 *)
(***************************************************************************)
\* What one part has left follows when the other is used up.
RECURSIVE Merge(_, _)
Merge(A, B) ==
  IF A = <<>> \/ B = <<>> THEN A \o B
  ELSE IF TakesLeft(A[1], B[1]) THEN <<A[1]>> \o Merge(Tail(A), B)
  ELSE <<B[1]>> \o Merge(A, Tail(B))

\* For elements of the size of an int: the rest of the left part is copied back with
\* that size.
RECURSIVE MergeSort0(_)
MergeSort0(a) ==
  IF Len(a) <= MergeLimit THEN InsertSort(a)
  ELSE LET n1 == Len(a) \div 2
       IN  Merge(MergeSort0(SubSeq(a, 1, n1)), MergeSort0(SubSeq(a, n1 + 1, Len(a))))

-----------------------------------------------------------------------------
(***************************************************************************)
(* Counting and radix sorts.  A histogram is a function from the radixes;  *)
(* once the items are scattered, every entry is the end of its part.       *)
(***************************************************************************)
Ends(keys, bits) ==
  [r \in 0 .. 2 ^ bits - 1 |-> Cardinality({i \in DOMAIN keys : keys[i] <= r})]

\* Which position each of the scattered items was at.
Scatter(keys) ==
  LET place(i) == Cardinality({j \in DOMAIN keys :
                                 keys[j] < keys[i] \/ (keys[j] = keys[i] /\ j <= i)})
  IN  [k \in DOMAIN keys |-> CHOOSE i \in DOMAIN keys : place(i) = k]

\* count_sort0<T, true>; without the mask all keys have K bits.
Masked(a, K) == [i \in DOMAIN a |-> a[i].x % 2 ^ K]

CountSort(a, K) == Reordered(a, Scatter(Masked(a, K)))

\* bestsort() of a part, whose keys have K bits that matter.
BestSort(a, K) == IF Len(a) <= InsertLimit THEN InsertSort(a) ELSE CountSort(a, K)

\* What the histogram of the caller looks like after it.
HistogramAfter(histogram, a, K, shared) ==
  IF shared /\ Len(a) > InsertLimit THEN Ends(Masked(a, K), K) @@ histogram ELSE histogram

\* One turn of the loop in radix_recurse(): the part of radix r, sorted on shift bits.
SortPart(c, r, shift, shared) ==
  LET start == IF r = 0 THEN 0 ELSE c.histogram[r - 1]
      part == SubSeq(c.a, start + 1, c.histogram[r])
  IN  IF c.histogram[r] - start <= 1 THEN c
      ELSE [a |-> Patched(c.a, start, BestSort(part, shift)),
            histogram |-> HistogramAfter(c.histogram, part, shift, shared)]

\* The bits of the type TO that radix_sort3 stores what is left of a key in.
NarrowBits(shift) == IF shift <= 8 THEN 8 ELSE 16

\* What of a key the parts are sorted by.
Remainder(key, bits) == key % 2 ^ bits

\* radix_sort1 and radix_sort3: the first bits of K, then the parts, in xx and oo.
\* shared: count_sort0 finds the histogram of the caller in tmp3.
RadixSort(a, K, bits, width, shared) ==
  LET shift == K - bits
      radixes == [i \in DOMAIN a |-> a[i].x \div 2 ^ shift]
      from == Scatter(radixes)
      scattered == [k \in DOMAIN a |->
                      [a[from[k]] EXCEPT !.x = Remainder(@, bits) % 2 ^ width]]
      sorted == FoldLeft(LAMBDA c, r : SortPart(c, r, shift, shared),
                         [a |-> scattered, histogram |-> Ends(radixes, bits)],
                         [r \in 1 .. 2 ^ bits |-> r - 1])
  IN  [i \in DOMAIN a |-> [a[i] EXCEPT !.o = sorted.a[i].o]]

RadixSort1(a, K, bits) == RadixSort(a, K, bits, K, TRUE)

\* A bug: no push of tmp3 around the parts.
RadixSort3Shared(a, K, bits) == RadixSort(a, K, bits, NarrowBits(K - bits), TRUE)

RadixSort3(a, K, bits) == RadixSort(a, K, bits, NarrowBits(K - bits), FALSE)
=============================================================================
