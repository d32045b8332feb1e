----------------------------- MODULE ObjectSpec -----------------------------
(***************************************************************************)
(* What dynamic objects promise: an object is a map from names to values   *)
(* that only grows (the README's monotonic objects), a read returns the    *)
(* value of the first object on the prototype chain that has the name, and *)
(* undefined when the chain ends without one.  Objects implements this.    *)
(***************************************************************************)
CONSTANTS Obj, Name, Prim, Undefined, None, Proto

VARIABLES fields,    \* allocated objects -> (names -> values)
          call,      \* the read in progress
          result,    \* what the last read returned
          stopped    \* an assertion failed

view == <<fields, call, result, stopped>>

Has(o, n) == n \in DOMAIN fields[o]
ProtoOf(o) == IF Has(o, Proto) /\ fields[o][Proto] \in Obj THEN fields[o][Proto] ELSE None

\* The objects that a read of n from o looks at, the least set that holds o and
\* the prototype of each of its objects without n: the prototype chain as far as
\* the first object with n.  A chain that is a cycle without n has no such object.
Passes(S, n) == \A a \in S : ~Has(a, n) /\ ProtoOf(a) # None => ProtoOf(a) \in S
Searched(o, n) ==
    {a \in DOMAIN fields : \A S \in SUBSET DOMAIN fields : o \in S /\ Passes(S, n) => a \in S}

\* v is what a read of n from o returns.
Answer(o, n, v) ==
    \E a \in Searched(o, n) :
        \/ Has(a, n) /\ v = fields[a][n]
        \/ ~Has(a, n) /\ ProtoOf(a) = None /\ v = Undefined
HasAnswer(o, n) == \E a \in Searched(o, n) : Has(a, n) \/ ProtoOf(a) = None

Put(f, x, v) == [y \in DOMAIN f \cup {x} |-> IF y = x THEN v ELSE f[y]]

Init == fields = [o \in {} |-> None] /\ call = None /\ result = Undefined /\ stopped = FALSE

New(o) ==
    /\ call = None /\ o \notin DOMAIN fields
    /\ \/ fields' = Put(fields, o, [n \in {} |-> None])
       \/ \E p \in DOMAIN fields : fields' = Put(fields, o, [n \in {Proto} |-> p])
    /\ UNCHANGED <<call, result, stopped>>

Set(o, n, v) ==
    /\ call = None
    /\ fields' = [fields EXCEPT ![o] = Put(@, n, v)]
    /\ UNCHANGED <<call, result, stopped>>

Ask(o, n) ==
    /\ call = None
    /\ call' = [obj |-> o, name |-> n]
    /\ UNCHANGED <<fields, result, stopped>>

Tell ==
    /\ call # None /\ call' = None
    /\ Answer(call.obj, call.name, result')
    /\ UNCHANGED <<fields, stopped>>

Next ==
    \/ \E o \in Obj : New(o)
    \/ \E o \in DOMAIN fields, n \in Name, v \in DOMAIN fields \cup Prim : Set(o, n, v)
    \/ \E o \in DOMAIN fields, n \in Name : Ask(o, n)
    \/ Tell

Spec == Init /\ [][Next]_view
=============================================================================
