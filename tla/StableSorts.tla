------------------------------ MODULE StableSorts ------------------------------
(***************************************************************************)
(* The sorts of src/sort that work on the arrays in place and in passes,   *)
(* loop turn by loop turn: insert_sort0, mergesort1 (bottom-up) and        *)
(* timsort.  tmp1 and tmp2 are one buffer t of items, as x and o are.      *)
(***************************************************************************)
EXTENDS SortItems, Sequences

CONSTANT RunLimit       \* 16 in compute_minrun()

ASSUME RunLimitAssumption == RunLimit \in Nat \ {0, 1}

VARIABLES
  A,            \* the algorithm: 1 insert_sort0, 5 mergesort1, 6 timsort
  data,         \* the keys that were to be sorted
  a,            \* x and o
  t,            \* tmp1 and tmp2
  flip,         \* mergesort1: are the items in t?
  width,        \* mergesort1: the length of the sorted blocks; timsort: minrun
  lost,         \* compute_minrun(): was a bit that was shifted out set?
  block,        \* insertion: the items from + 1 .. to, of which those up to i are in order
  m,            \* merging: from + 1 .. mid and mid + 1 .. to, of which i and j are taken
  stack,        \* timsort: 0, 0, and the ends of the runs
  pc

arrays == <<a, t, flip>>
vars == <<A, data, arrays, width, lost, block, m, stack, pc>>

N == Len(data)

Original(p) == [x |-> data[p], o |-> p]

StartSort(algorithms) ==
  /\ A \in algorithms
  /\ a = [p \in 1 .. N |-> Original(p)]
  /\ t = a
  /\ flip = FALSE
  /\ width = N
  /\ lost = FALSE
  /\ block = [from |-> 0, to |-> N, i |-> 1]
  /\ m = [from |-> 0, mid |-> 0, to |-> 0, i |-> 0, j |-> 0, next |-> "call"]
  /\ stack = <<>>
  /\ pc = "call"
-----------------------------------------------------------------------------
\* insert_sort0
InsertSort0Call ==
  /\ pc = "call"
  /\ A = 1
  /\ pc' = "insert"
  /\ UNCHANGED <<A, data, arrays, width, lost, block, m, stack>>

\* A turn of its loop, and of that of iinsert_mergesort().
InsertNext ==
  /\ pc = "insert"
  /\ block.i < block.to
  /\ a' = Insert(a, block.from, block.i + 1)
  /\ block' = [block EXCEPT !.i = @ + 1]
  /\ UNCHANGED <<A, data, t, flip, width, lost, m, stack, pc>>

Inserted == pc = "insert" /\ block.i = block.to

InsertSort0Done ==
  /\ Inserted
  /\ A = 1
  /\ pc' = "done"
  /\ UNCHANGED <<A, data, arrays, width, lost, block, m, stack>>
-----------------------------------------------------------------------------
(***************************************************************************)
(* compute_minrun(), with n in width                                       *)
(***************************************************************************)
MergeSortCall ==
  /\ pc = "call"
  /\ A \in {5, 6}
  /\ pc' = "minrun"
  /\ UNCHANGED <<A, data, arrays, width, lost, block, m, stack>>

Halve ==
  /\ pc = "minrun"
  /\ width >= RunLimit
  /\ width' = width \div 2
  /\ lost' = (lost \/ width % 2 = 1)
  /\ UNCHANGED <<A, data, arrays, block, m, stack, pc>>

\* The minrun is known.
HasMinrun ==
  /\ pc = "minrun"
  /\ width < RunLimit
  /\ width' = IF lost THEN width + 1 ELSE width
-----------------------------------------------------------------------------
(***************************************************************************)
(* mergesort1                                                              *)
(***************************************************************************)
\* The array that a pass reads, and the one that it and merge_chunks() write to.
Source == IF flip THEN a ELSE t
Dest == IF flip THEN t ELSE a
Write(result) == IF flip THEN t' = result /\ a' = a ELSE a' = result /\ t' = t

Minrun(from, length) == [from |-> from, to |-> Least(from + length, N), i |-> from + 1]

SortMinruns ==
  /\ HasMinrun
  /\ A = 5
  /\ block' = Minrun(0, width')
  /\ pc' = "insert"
  /\ UNCHANGED <<A, data, arrays, lost, m, stack>>

NextMinrun ==
  /\ Inserted
  /\ A = 5
  /\ block' = Minrun(block.to, width)
  /\ pc' = IF block.to < N THEN "insert" ELSE "passes"
  /\ UNCHANGED <<A, data, arrays, width, lost, m, stack>>

\* The two blocks from s on, the last one maybe shorter, or none at all.
Pair(s) == [from |-> s, mid |-> Least(s + width, N), to |-> Least(s + 2 * width, N),
            i |-> 0, j |-> 0, next |-> "pair"]

Pass ==
  /\ pc = "passes"
  /\ width < N
  /\ flip' = ~flip
  /\ m' = Pair(0)
  /\ pc' = "merge"
  /\ UNCHANGED <<A, data, a, t, width, lost, block, stack>>

NextPair ==
  /\ pc = "pair"
  /\ m.to + width < N
  /\ m' = Pair(m.to)
  /\ pc' = "merge"
  /\ UNCHANGED <<A, data, arrays, width, lost, block, stack>>

\* dest with the positions from + 1 .. to as in source.
Copied(dest, source, from, to) ==
  [p \in DOMAIN dest |-> IF p \in from + 1 .. to THEN source[p] ELSE dest[p]]

\* A last block without a neighbour is copied.
EndPass ==
  /\ pc = "pair"
  /\ m.to + width >= N
  /\ Write(Copied(Dest, Source, m.to, N))
  /\ width' = 2 * width
  /\ pc' = "passes"
  /\ UNCHANGED <<A, data, flip, lost, block, m, stack>>

\* The result is copied back from the buffers.
CopyBack ==
  /\ pc = "passes"
  /\ width >= N
  /\ a' = IF flip THEN t ELSE a
  /\ pc' = "done"
  /\ UNCHANGED <<A, data, t, flip, width, lost, block, m, stack>>
-----------------------------------------------------------------------------
(***************************************************************************)
(* Merging: merge_chunks(), where the left part was copied to t and the    *)
(* result overwrites both, and the inner loop of mergesort1, from one      *)
(* array to the other.                                                     *)
(***************************************************************************)
InPlace == A = 6
LeftItem(i) == IF InPlace THEN t[i] ELSE Source[m.from + i]
RightItem(j) == IF InPlace THEN a[m.mid + j] ELSE Source[m.mid + j]

Merging == pc = "merge" /\ m.from + m.i < m.mid /\ m.mid + m.j < m.to

TakeLeft ==
  /\ Merging
  /\ TakesLeft(LeftItem(m.i + 1), RightItem(m.j + 1))
  /\ Write([Dest EXCEPT ![m.from + m.i + m.j + 1] = LeftItem(m.i + 1)])
  /\ m' = [m EXCEPT !.i = @ + 1]
  /\ UNCHANGED <<A, data, flip, width, lost, block, stack, pc>>

TakeRight ==
  /\ Merging
  /\ ~TakesLeft(LeftItem(m.i + 1), RightItem(m.j + 1))
  /\ Write([Dest EXCEPT ![m.from + m.i + m.j + 1] = RightItem(m.j + 1)])
  /\ m' = [m EXCEPT !.j = @ + 1]
  /\ UNCHANGED <<A, data, flip, width, lost, block, stack, pc>>

\* What one part has left follows when the other is used up.
WithRest ==
  [p \in DOMAIN Dest |->
     IF p \notin m.from + m.i + m.j + 1 .. m.to THEN Dest[p]
     ELSE IF m.from + m.i = m.mid THEN RightItem(p - m.mid) ELSE LeftItem(p - m.from - m.j)]

EndMerge ==
  /\ pc = "merge"
  /\ ~Merging
  /\ Write(WithRest)
  /\ pc' = m.next
  /\ UNCHANGED <<A, data, flip, width, lost, block, m, stack>>
-----------------------------------------------------------------------------
(***************************************************************************)
(* timsort                                                                 *)
(***************************************************************************)
StartTimSort ==
  /\ HasMinrun
  /\ A = 6
  /\ stack' = <<0, 0>>
  /\ pc' = "runs"
  /\ UNCHANGED <<A, data, arrays, lost, block, m>>

\* The end of the last run.
Top == stack[Len(stack)]

Ascends(from) == from + 1 = N \/ a[from + 1].x <= a[from + 2].x

\* find_next_run_length(): where the run that starts after from ends ...
RunEnd(from) ==
  LET goesOn(k) == IF Ascends(from) THEN a[k - 1].x <= a[k].x ELSE a[k].x < a[k - 1].x
  IN  Max({e \in from + 1 .. N : \A k \in from + 2 .. e : goesOn(k)})

\* ... and a descending one is reversed.
Reversed(from, to) ==
  [p \in 1 .. N |-> IF p \in from + 1 .. to THEN a[from + to + 1 - p] ELSE a[p]]

\* A run that is too short is to be extended, to the minrun or what is left.
FindRun ==
  /\ pc = "runs"
  /\ a' = IF Ascends(Top) THEN a ELSE Reversed(Top, RunEnd(Top))
  /\ IF RunEnd(Top) - Top < width
     THEN /\ block' = [from |-> Top, to |-> Least(Top + width, N), i |-> RunEnd(Top)]
          /\ pc' = "insert"
          /\ stack' = stack
     ELSE /\ stack' = Append(stack, RunEnd(Top))
          /\ pc' = "stack"
          /\ block' = block
  /\ UNCHANGED <<A, data, t, flip, width, lost, m>>

PushRun ==
  /\ Inserted
  /\ A = 6
  /\ stack' = Append(stack, block.to)
  /\ pc' = "stack"
  /\ UNCHANGED <<A, data, arrays, width, lost, block, m>>

\* A bug: two runs are left as they are.
IsDeeper(st) == Len(st) > 4

\* Are there two runs?
IsDeep(st) == Len(st) >= 4

\* The lengths of the top three runs; A has no items at the bottom of the stack.
TopRuns ==
  LET s == Len(stack)
  IN  [A |-> stack[s - 2] - stack[s - 3], B |-> stack[s - 1] - stack[s - 2],
       C |-> stack[s] - stack[s - 1]]

\* merge_chunks() is called for the runs that meet at stack[k], which goes from the stack.
MergeAt(k, next) ==
  /\ m' = [from |-> stack[k - 1], mid |-> stack[k], to |-> stack[k + 1],
           i |-> 0, j |-> 0, next |-> next]
  /\ t' = [p \in DOMAIN t |-> IF p \in 1 .. stack[k] - stack[k - 1]
                              THEN a[stack[k - 1] + p] ELSE t[p]]
  /\ stack' = [p \in 1 .. Len(stack) - 1 |-> IF p < k THEN stack[p] ELSE stack[p + 1]]
  /\ pc' = "merge"
  /\ UNCHANGED <<A, data, a, flip, width, lost, block>>

\* |A| > |B| + |C| is violated.
Crowded == TopRuns.A > 0 /\ TopRuns.A <= TopRuns.B + TopRuns.C

\* merge_stack()
MergeAB ==
  /\ pc = "stack" /\ IsDeep(stack)
  /\ Crowded /\ TopRuns.A < TopRuns.C
  /\ MergeAt(Len(stack) - 2, "stack")

MergeBC ==
  /\ pc = "stack" /\ IsDeep(stack)
  /\ IF Crowded THEN TopRuns.A >= TopRuns.C ELSE TopRuns.B <= TopRuns.C
  /\ MergeAt(Len(stack) - 1, "stack")

\* Nothing to merge: the next run, unless there is none.
StackSettled ==
  /\ pc = "stack"
  /\ IsDeep(stack) => ~Crowded /\ TopRuns.B > TopRuns.C
  /\ pc' = IF Top < N THEN "runs" ELSE "final"
  /\ UNCHANGED <<A, data, arrays, width, lost, block, m, stack>>

\* final_merge_stack()
FinalMerge ==
  /\ pc = "final" /\ IsDeep(stack)
  /\ MergeAt(Len(stack) - 1, "final")

FinalDone ==
  /\ pc = "final" /\ ~IsDeep(stack)
  /\ pc' = "done"
  /\ UNCHANGED <<A, data, arrays, width, lost, block, m, stack>>

StableNext ==
  \/ InsertSort0Call \/ InsertNext \/ InsertSort0Done
  \/ MergeSortCall \/ Halve \/ SortMinruns \/ NextMinrun
  \/ Pass \/ NextPair \/ EndPass \/ CopyBack
  \/ TakeLeft \/ TakeRight \/ EndMerge
  \/ StartTimSort \/ FindRun \/ PushRun \/ MergeAB \/ MergeBC \/ StackSettled
  \/ FinalMerge \/ FinalDone

-----------------------------------------------------------------------------
\* Any array of at least one item.
StableInit == data \in Seq(Nat) \ {<<>>} /\ StartSort({1, 5, 6})
StableSpec == StableInit /\ [][StableNext]_vars
-----------------------------------------------------------------------------
(***************************************************************************)
(* Properties                                                              *)
(***************************************************************************)
\* By key, and equal keys in the order they came in.
Before(p, q) == p.x < q.x \/ (p.x = q.x /\ p.o < q.o)

\* The items from + 1 .. to of s are those of the input, in order.
StablySorted(s, from, to) ==
  /\ {s[i].o : i \in from + 1 .. to} = from + 1 .. to
  /\ \A i \in from + 1 .. to : s[i].x = data[s[i].o]
  /\ \A i, k \in from + 1 .. to : i < k => Before(s[i], s[k])

\* Between the passes of mergesort1 every block of the width is sorted, in the arrays that
\* the flag says; between the merges of timsort every run on the stack is, and they cover
\* what has been read of the data; two parts are merged only if both have items, as the
\* loops take for granted.  At the end x is sorted, stably, and o is the ordering that
\* sorts it (main.cc:46).
RunsAreSorted ==
  /\ pc = "passes" =>
       \A s \in 0 .. N - 1 : s * width < N =>
         StablySorted(IF flip THEN t ELSE a, s * width, Least((s + 1) * width, N))
  /\ pc \in {"runs", "stack", "final"} =>
       \A k \in 2 .. Len(stack) - 1 : StablySorted(a, stack[k], stack[k + 1])
  /\ pc = "merge" => m.from < m.mid /\ m.mid < m.to
  /\ pc = "done" /\ A \in {1, 5, 6} => StablySorted(a, 0, N)

\* The runs up to the one that ends at stack[top] become shorter upwards.
ShrinkUpTo(top) ==
  \A k \in 2 .. top - 2 : stack[k + 1] - stack[k] > stack[k + 2] - stack[k + 1]

\* merge_stack() keeps every run longer than the next one, also those below the three it
\* looks at: that keeps the stack short.  While it or final_merge_stack() is at work this
\* may fail at the top only.  One run is left at the end, as timsort asserts.
RunsShrink ==
  /\ pc = "runs" => ShrinkUpTo(Len(stack))
  /\ pc = "stack" => ShrinkUpTo(Len(stack) - 2)
  /\ pc = "final" => ShrinkUpTo(Len(stack) - 1)
  /\ pc = "done" /\ A = 6 => stack = <<0, 0, N>>
=============================================================================
