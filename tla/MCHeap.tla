------------------------------- MODULE MCHeap -------------------------------
(* Heap on small instances. *)
EXTENDS Heap, TLC

\* References to an any, and objects with two fields.
GraphKinds == {ref_new_any, ObjectData(2)}

\* Objects with two fields, and references to a float.
RefKinds == {ObjectData(2), ref_new_f64}
FloatRefKinds == {ref_new_f64}

AddrSymmetry == Permutations(Addr)
=============================================================================
