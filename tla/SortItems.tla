------------------------------- MODULE SortItems -------------------------------
(***************************************************************************)
(* What the sorts of src/sort have in common.  The arrays x (the keys) and *)
(* o (the ordering) are one sequence of items [x, o].  Keys are natural    *)
(* numbers: the element types are unsigned, and where they are int, K bits *)
(* of rand() fill them.                                                    *)
(***************************************************************************)
EXTENDS Integers, FiniteSetsExt

Least(a, b) == IF a < b THEN a ELSE b

\* Where the scan from position i - 1 down stops: at the last key that is not larger, or
\* before the first position, from + 1.
StopsAt(a, from, i) == Max({from} \cup {k \in from + 1 .. i - 1 : a[k].x <= a[i].x})

\* The item at i moves down to behind that place, and those between move up.
Insert(a, from, i) ==
  LET k == StopsAt(a, from, i)
  IN  [p \in DOMAIN a |-> IF p = k + 1 THEN a[i]
                          ELSE IF p \in k + 2 .. i THEN a[p - 1] ELSE a[p]]

\* A bug: of equal items the right one goes first.
TakesLeftIfSmaller(a, b) == a.x < b.x

\* In all merges: is the next item taken from the left part?
TakesLeft(a, b) == a.x <= b.x
=============================================================================
