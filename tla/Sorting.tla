------------------------------ MODULE Sorting -------------------------------
(***************************************************************************)
(* Sorting as list.sort, sorted and ORDER BY do it: by a key that is a      *)
(* number, and members with equal keys in the order in which they came.    *)
(* SortSeq of the module TLC is no stable sort, and is undefined where      *)
(* different elements have equal keys.                                     *)
(***************************************************************************)
EXTENDS Integers, FiniteSets

\* Whether position i comes before position j.
Sooner(key, i, j) == key[i] < key[j] \/ (key[i] = key[j] /\ i < j)

Predecessors(found, key, i) == {j \in found : Sooner(key, j, i)}

\* The positions of a set in the order of their keys.
InOrder(found, key) ==
    [n \in 1..Cardinality(found) |-> CHOOSE i \in found : Cardinality(Predecessors(found, key, i)) = n - 1]

\* The elements of a list at these positions, sorted.
Sorted(list, found, key) ==
    LET order == InOrder(found, key)
    IN  [n \in DOMAIN order |-> list[order[n]]]

=============================================================================
