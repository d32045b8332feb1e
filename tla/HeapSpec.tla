------------------------------ MODULE HeapSpec ------------------------------
(***************************************************************************)
(* What the managed heap promises to the code that uses it.  A program     *)
(* sees a graph of objects: those it can reach from the shadow stack and   *)
(* from the pointer the last allocation gave it.  Floats are values here,  *)
(* garbage does not exist, and all a collection does is make the unrooted  *)
(* pointer unusable when it begins: until it ends nothing changes.  An     *)
(* allocation gives an address the program does not know yet, or traps.    *)
(* Heap implements this module.                                            *)
(***************************************************************************)
EXTENDS Naturals, Sequences, Functions

CONSTANTS Static,      \* tags outside the collected heap
          None,        \* no pointer
          Val,         \* floats
          FrameSlots   \* bound on the slots of a frame

VARIABLES stack,     \* the frames of roots
          hand,      \* the pointer the last allocation returned
          mem,       \* the objects the program sees: address -> cells
          collecting, trapped

view == <<stack, hand, mem, collecting, trapped>>

Imm == [k |-> "imm"]
PtrTo(p) == [k |-> "ptr", to |-> p]
Num(v) == [k |-> "num", val |-> v]

Targets(cells) == {cells[i].to : i \in {j \in DOMAIN cells : cells[j].k = "ptr"}}
Rooted(st, h) == ((UNION {Range(st[f]) : f \in DOMAIN st}) \cup {h}) \ {None}

\* The addresses of m that a program with roots st and pointer h can get at.
Visible(st, h, m) ==
    {a \in DOMAIN m : \A S \in SUBSET DOMAIN m :
        ( /\ Rooted(st, h) \cap DOMAIN m \subseteq S
          /\ \A b \in S : Targets(m[b]) \cap DOMAIN m \subseteq S ) => a \in S}

View(st, h, m) == Restrict(m, Visible(st, h, m))

\* The program's state becomes st and h over the objects m, of which it sees
\* what it can reach.
Becomes(st, h, m) ==
    /\ ~trapped /\ ~collecting
    /\ stack' = st /\ hand' = h /\ mem' = View(st, h, m)
    /\ UNCHANGED trapped

Goes(st, h, m) == Becomes(st, h, m) /\ UNCHANGED collecting

Known == DOMAIN mem \cup Static
Cells == {Imm} \cup {PtrTo(p) : p \in Known} \cup {Num(v) : v \in Val}

Push(n) == Goes(Append(stack, [i \in 1 .. n |-> None]), hand, mem)

Pop == stack # <<>> /\ Goes(SubSeq(stack, 1, Len(stack) - 1), hand, mem)

Root(f, i, p) == Goes([stack EXCEPT ![f][i] = p], hand, mem)

Store(a, i, v) == Goes(stack, hand, [mem EXCEPT ![a][i] = v])

\* Objects appear at fresh addresses; the program gets a pointer to one of
\* them, whose contents are what it asked for.
New(h, fresh) ==
    /\ DOMAIN fresh \cap DOMAIN mem = {}
    /\ h \in DOMAIN fresh
    /\ \A a \in DOMAIN fresh : Targets(fresh[a]) \subseteq Known \cup DOMAIN fresh
    /\ Goes(stack, h, [a \in DOMAIN mem \cup DOMAIN fresh |->
                          IF a \in DOMAIN fresh THEN fresh[a] ELSE mem[a]])

\* A collection begins: the pointer in hand is given up.
Collect == Becomes(stack, None, mem) /\ collecting' = TRUE

\* It ends with every object as it was.
Resume == collecting /\ ~trapped /\ collecting' = FALSE /\ UNCHANGED <<stack, hand, mem, trapped>>

Trap == ~trapped /\ trapped' = TRUE /\ collecting' = FALSE /\ UNCHANGED <<stack, hand, mem>>

Init ==
    /\ stack = <<>> /\ hand = None /\ mem = [a \in {} |-> <<>>]
    /\ collecting = FALSE /\ trapped = FALSE

\* Fresh objects are the ones mem' shows that mem did not.
Appears == [a \in DOMAIN mem' \ DOMAIN mem |-> mem'[a]]

Next ==
    \/ \E n \in 1 .. FrameSlots : Push(n)
    \/ Pop
    \/ \E f \in DOMAIN stack : \E i \in DOMAIN stack[f], p \in Known \cup {None} : Root(f, i, p)
    \/ \E a \in DOMAIN mem, v \in Cells : \E i \in DOMAIN mem[a] : Store(a, i, v)
    \/ New(hand', Appears)
    \/ Collect \/ Resume
    \/ Trap

Spec == Init /\ [][Next]_view
=============================================================================
