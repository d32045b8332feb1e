------------------------------ MODULE MCObjects ------------------------------
(* Objects on small instances. *)
EXTENDS Objects, TLC

CONSTANTS o1, x, s1, s2

\* o1.x and o1.x = v.
ReadAndWrite ==
    s1 :> [op |-> "get", name |-> x, obj |-> o1] @@ s2 :> [op |-> "set", name |-> x, obj |-> o1]
=============================================================================
