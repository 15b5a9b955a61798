--------------------------- MODULE SortedArraySet ---------------------------
(***************************************************************************)
(* sorted_array_set and sorted_array_set_t                                 *)
(* (src/include/csdb/internal/sorted_array_set.h): a set in an array of    *)
(* the caller's, whose elements have one size.  Elements are compared as   *)
(* byte strings, which is a linear order: here they are integers.  The     *)
(* search of sorted_array_set is the loop of its own lower_bound, one      *)
(* iteration a step.                                                       *)
(***************************************************************************)
EXTENDS Integers, Sequences

CONSTANTS
  Element,    \* elements, and values that are looked for
  MaxLength   \* bound on the array's length

ASSUME SortedArraySetAssumption == Element \subseteq Int /\ MaxLength \in Nat

VARIABLES
  array,     \* the elements
  search,    \* "idle", "loop" while lower_bound runs, "done"
  wanted,    \* what is looked for
  first,     \* lower_bound's first, as an index from 0
  count,     \* lower_bound's count
  index      \* what getIndex returned

searchVars == <<array, search, wanted, first, count, index>>

\* size(), the index of what is not there.
Size == Len(array)

\* elements[i].
At(i) == array[i + 1]

InOrder(s) == \A i, j \in DOMAIN s : i <= j => s[i] <= s[j]

Rearranged(s) ==
  {[i \in DOMAIN s |-> s[p[i]]] :
     p \in {q \in [DOMAIN s -> DOMAIN s] : \A i \in DOMAIN s : \E j \in DOMAIN s : q[j] = i}}

\* The constructor asserts that there is an element.
SearchInit ==
  /\ array \in UNION {[1 .. n -> Element] : n \in 1 .. MaxLength}
  /\ search = "idle"
  /\ wanted \in Element
  /\ first = 0 /\ count = 0 /\ index = 0

\* sort(), of the caller's array, before a search.
SortElements ==
  /\ search = "idle"
  /\ \E s \in Rearranged(array) : InOrder(s) /\ array' = s
  /\ UNCHANGED <<search, wanted, first, count, index>>

\* contains() and getIndex() call find(), and find() calls lower_bound().
StartSearch(v) ==
  /\ search # "loop"
  /\ search' = "loop" /\ wanted' = v
  /\ first' = 0 /\ count' = Size
  /\ UNCHANGED <<array, index>>

\* Mutant: half of the range is left although its middle was not less.
Iterate_DropsHalf ==
  LET step == count \div 2
  IN  /\ search = "loop" /\ count > 0
      /\ IF At(first + step) <= wanted
           THEN first' = first + step + 1 /\ count' = count - step - 1
           ELSE first' = first /\ count' = step
      /\ UNCHANGED <<array, search, wanted, index>>

\* One iteration of lower_bound.
Iterate ==
  LET step == count \div 2
  IN  /\ search = "loop" /\ count > 0
      /\ IF At(first + step) < wanted
           THEN first' = first + step + 1 /\ count' = count - (step + 1)
           ELSE first' = first /\ count' = step
      /\ UNCHANGED <<array, search, wanted, index>>

\* find() after the lower bound of v came out as i.
Found(i, v) == IF i # Size /\ At(i) = v THEN i ELSE Size

Finish ==
  /\ search = "loop" /\ count = 0
  /\ search' = "done"
  /\ index' = Found(first, wanted)
  /\ UNCHANGED <<array, wanted, first, count>>

\* sorted_array_set_t::find(): std::lower_bound gives the first element that is
\* not less, of an array in order.
FindTemplated(v) ==
  /\ search # "loop" /\ InOrder(array)
  /\ search' = "done" /\ wanted' = v
  /\ \E i \in 0 .. Size :
       /\ \A j \in 0 .. i - 1 : At(j) < v
       /\ \A j \in i .. Size - 1 : ~(At(j) < v)
       /\ index' = Found(i, v)
  /\ UNCHANGED <<array, first, count>>

SearchNext ==
  \/ SortElements
  \/ \E v \in Element : StartSearch(v) \/ FindTemplated(v)
  \/ Iterate
  \/ Finish

SearchSpec == SearchInit /\ [][SearchNext]_searchVars

-----------------------------------------------------------------------------
(* What is found is there, in any array; in an array in order what is there  *)
(* is found, at its first place (sorted_array_set.h:128-171, 279-291).       *)
FoundIsFirst ==
  search = "done" =>
    /\ index \in 0 .. Size
    /\ index < Size => At(index) = wanted
    /\ InOrder(array) => \A i \in 0 .. index - 1 : At(i) # wanted

(* No element outside the array is read (sorted_array_set.h:137-166).        *)
StaysInside ==
  search = "loop" => first >= 0 /\ count >= 0 /\ first + count <= Size

(* Every iteration leaves fewer elements, so that the loop ends              *)
(* (sorted_array_set.h:137-153).                                             *)
RangeShrinks ==
  [][search = "loop" /\ search' = "loop" => count' < count]_searchVars
=============================================================================
