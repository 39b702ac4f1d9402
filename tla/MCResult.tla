------------------------------ MODULE MCResult ------------------------------
(* Three objects, two values and two locations. *)
EXTENDS Result, TLC

CONSTANTS o1, o2, o3, v1, v2, here, there

ObjectSet == {o1, o2, o3}
ValueSet == {v1, v2}
LocationSet == {here, there}

Symmetry == Permutations(ObjectSet) \cup Permutations(ValueSet) \cup Permutations(LocationSet)
=============================================================================
