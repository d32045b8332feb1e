------------------------------ MODULE ClassList ------------------------------
(***************************************************************************)
(* The hidden classes of dynamic objects (runtime/src/allocator/           *)
(* class_list.rs).  A class maps field names to offsets and remembers, for *)
(* every field that was ever added to one of its instances, the class that *)
(* instance moved to.  Tags are u16: the cast in new_class_type and        *)
(* transition truncates.                                                   *)
(***************************************************************************)
EXTENDS Integers, Sequences

CONSTANTS Name,     \* field names; StringPtr equality compares the contents
          TagMod    \* 2^16, the number of class tags

ASSUME TagModAssumption == TagMod \in Nat \ {0}

VARIABLE classes

Offsets == [name : Name, index : Nat]
Transitions == [name : Name, tag : Nat]
ClassType == [size : Nat, offsets : Seq(Offsets), transitions : Seq(Transitions)]

ClassNew == [size |-> 0, offsets |-> <<>>, transitions |-> <<>>]
ClassListNew == classes = <<ClassNew>>

get_class(tag) == classes[tag + 1]

\* iter().find(...): the first pair with the name.
Named(pairs, name) == {i \in DOMAIN pairs : pairs[i].name = name}
First(pairs, name) == pairs[CHOOSE i \in Named(pairs, name) : \A j \in Named(pairs, name) : i <= j]

\* Class::lookup without the cache: the offset, or -1 for None.
lookup(class, name) ==
    IF Named(class.offsets, name) = {} THEN -1 ELSE First(class.offsets, name).index

\* The tag that new_class_type gives to the next class.
NextTag == Len(classes) % TagMod

\* The tag transition returns.
TransitionTag(tag, name) ==
    LET known == get_class(tag).transitions IN
    IF Named(known, name) # {} THEN First(known, name).tag ELSE NextTag

\* Mutant: the new field is given the size after it was counted.
branch_OffByOne(class, name) ==
    [size |-> class.size + 1,
     offsets |-> Append(class.offsets, [name |-> name, index |-> class.size + 1]),
     transitions |-> <<>>]

\* Class::branch: the class with one more field.
branch(class, name) ==
    [size |-> class.size + 1,
     offsets |-> Append(class.offsets, [name |-> name, index |-> class.size]),
     transitions |-> <<>>]

transition(tag, name) ==
    LET class == get_class(tag) IN
    IF Named(class.transitions, name) # {}
    THEN UNCHANGED classes
    ELSE classes' = Append([classes EXCEPT ![tag + 1].transitions =
                                Append(@, [name |-> name, tag |-> NextTag])],
                           branch(class, name))

-----------------------------------------------------------------------------
Once(pairs) == \A i, j \in DOMAIN pairs : pairs[i].name = pairs[j].name => i = j

GoodClass(class) ==
    /\ class.size = Len(class.offsets)
    /\ \A i \in DOMAIN class.offsets : class.offsets[i].index = i - 1
    /\ Once(class.offsets) /\ Once(class.transitions)

\* Every class has one offset for each of its names, 0 .. size - 1 in the order
\* the fields were added, and the class a transition leads to comes later and
\* has the same offsets and one more: what an offset means never changes for an
\* object, however many fields it and its siblings gain.
ClassesAgree ==
    \A t \in DOMAIN classes :
        /\ GoodClass(classes[t])
        /\ \A i \in DOMAIN classes[t].transitions :
              LET step == classes[t].transitions[i] IN
              /\ step.tag + 1 \in t + 1 .. Len(classes)
              /\ get_class(step.tag).offsets =
                    Append(classes[t].offsets, [name |-> step.name, index |-> classes[t].size])
=============================================================================
