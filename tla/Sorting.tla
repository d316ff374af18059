------------------------------- MODULE Sorting -------------------------------
(***************************************************************************)
(* One call of a sort function by the benchmark of src/sort: main()        *)
(* chooses the algorithm, test() fills the array, and the function sorts   *)
(* it: loop turn by loop turn as StableSorts has it, or in one step.       *)
(***************************************************************************)
EXTENDS SortFunctions, StableSorts

CONSTANTS
  Algorithms,    \* the numbers of the algorithms, as given to --algo
  MaxLength,     \* N, at most
  Bits,          \* the values of K
  Keys,          \* the keys that rand() returns
  MaskCovers,    \* BOOLEAN: only radix sorts whose mask has room for the remainder?
  LongParts      \* BOOLEAN: may radix_sort1 meet parts that count_sort0 sorts?

ASSUME AlgorithmsAssumption == Algorithms \subseteq (1 .. 6) \cup (8 .. 10)
ASSUME InputAssumption ==
  /\ MaxLength \in Nat \ {0}
  /\ Bits \subseteq Nat \ {0}
  /\ Keys \subseteq Nat
  /\ MaskCovers \in BOOLEAN
  /\ LongParts \in BOOLEAN

VARIABLES
  K,            \* the number of bits of the keys
  tmp0          \* how many of them a radix sort looks at first

call == <<A, data, K, tmp0>>
sortVars == <<vars, K, tmp0>>
-----------------------------------------------------------------------------
\* What --algo 9 and --algo 10 set tmp0 to.
RadixSteps(algo, k) ==
  LET kstep == IF k <= 4 THEN 1 ELSE IF k <= (IF algo = 9 THEN 16 ELSE 8) THEN 2 ELSE 4
  IN  {b \in 1 .. k - 1 : b % kstep = 0 /\ b <= 20 /\ (MaskCovers => k <= 2 * b)}

\* The lengths of the parts that the first bits divide the keys into.
PartLengths(keys) ==
  {Cardinality({i \in DOMAIN keys : keys[i] \div 2 ^ (K - tmp0) = r}) : r \in 0 .. 2 ^ tmp0 - 1}

\* test(): N keys of K bits, and the ordering 0 .. N - 1.
Init ==
  /\ K \in Bits
  /\ data \in UNION {[1 .. n -> {x \in Keys : x < 2 ^ K}] : n \in 1 .. MaxLength}
  /\ StartSort(Algorithms)
  /\ tmp0 \in IF A \in {9, 10} THEN RadixSteps(A, K) ELSE {0}
  /\ A = 9 /\ ~LongParts => \A n \in PartLengths(data) : n <= InsertLimit

\* A call that does its work in one step.
Sorts(algo, result) ==
  /\ pc = "call"
  /\ A = algo
  /\ a' = result
  /\ pc' = "done"
  /\ UNCHANGED <<call, t, flip, width, lost, block, m, stack>>

InsertSort2Call == Sorts(2, InsertSort2(a))
InsertSort3Call == Sorts(3, InsertSort3(a))
MergeSort0Call == Sorts(4, MergeSort0(a))
CountSort0Call == Sorts(8, CountSort(a, K))
RadixSort1Call == Sorts(9, RadixSort1(a, K, tmp0))
RadixSort3Call == Sorts(10, RadixSort3(a, K, tmp0))

SortNext ==
  \/ InsertSort2Call \/ InsertSort3Call \/ MergeSort0Call
  \/ CountSort0Call \/ RadixSort1Call \/ RadixSort3Call
  \/ StableNext /\ UNCHANGED <<K, tmp0>>

Spec == Init /\ [][SortNext]_sortVars
-----------------------------------------------------------------------------
(***************************************************************************)
(* Properties                                                              *)
(***************************************************************************)
\* The functions that sort x together with o.
Together == {1, 4, 5, 6}

\* main.cc:46: whatever the algorithm, o ends as the ordering that sorts the data, and,
\* because a radix sort calls these functions part by part, as the stable one.  x is sorted
\* with it where the function sorts both.
OrderIsStable ==
  pc = "done" =>
    StablySorted(IF A \in Together THEN a
                 ELSE [i \in 1 .. N |-> [x |-> data[a[i].o], o |-> a[i].o]], 0, N)

\* radix_sort.cc:202: radix_sort1 "first partially sorts by `k = tmp0` MSB bits, and then
\* sorts the remaining numbers".
RemainderIsSorted ==
  pc = "done" => \A i \in 1 .. N - 1 : data[a[i].o] <= data[a[i + 1].o]
=============================================================================
