--------------------------- MODULE CompiledCode ----------------------------
(***************************************************************************)
(* The code notwasm/translation.rs generates, as far as the collector is   *)
(* concerned: where pointers live between two instructions (WebAssembly    *)
(* locals, the operand stack, locals of the runtime's Rust functions) and  *)
(* which of them the generated code has put on the shadow stack when an    *)
(* allocation collects.                                                    *)
(*                                                                         *)
(* The program is any program: whenever a statement has ended, the         *)
(* function that runs goes on with any statement of Stmts, translated to   *)
(* instructions.  A collection is one step here, as HeapSpec promises, and *)
(* any allocation may cause one.  Values are pointers and things that are  *)
(* not pointers (Undef).  A float that is tagged is allocated, which may   *)
(* collect, but where the collector moves floats to is left to Heap.       *)
(* Programs that come from JavaScript have no globals of their own.        *)
(***************************************************************************)
EXTENDS Naturals, Sequences, Functions

CONSTANTS Addr,        \* addresses
          Cell,        \* cells of an object, an array, a ref or an environment
          Local,       \* locals of a function ...
          Param,       \* ... of which these are its parameters
          Undef,       \* a value that is not a pointer, an empty slot
          Free,        \* the contents of a free address
          Exprs,       \* the kinds of expressions of the program
          MaxDepth     \* bound on the depth of calls

ASSUME LocalsAssumption == Param \subseteq Local /\ Param # {}
ASSUME UndefAssumption == Undef \notin Addr
ASSUME FreeAssumption == Free \notin [Cell -> Addr \cup {Undef}]
ASSUME DepthAssumption == MaxDepth \in Nat \ {0}

VARIABLES heap,      \* address -> cells, or Free
          stack,     \* activations: locals, operands (last on top), code to run
          shadow     \* shadow frames, one slot per local

vars == <<heap, stack, shadow>>

Value == Addr \cup {Undef}

Pointers(S) == S \cap Addr

---------------------------------------------------------------------------
(* Instructions *)

Get(x) == [op |-> "get", x |-> x, obj |-> FALSE]
\* the operand is used as an object, which the types promise it is
GetObj(x) == [op |-> "get", x |-> x, obj |-> TRUE]
Load(c) == [op |-> "load", c |-> c]
\* a runtime function that allocates: with no argument, or with one that
\* becomes cell c of what it allocates
Alloc == [op |-> "alloc", n |-> 0]
AllocWith(c) == [op |-> "alloc", n |-> 1, c |-> c]
\* an allocation of something that is not modelled (the data of an object)
AllocData == [op |-> "data"]
\* f64_to_any: the float goes to the float heap, and the heap may be collected
AllocF64 == [op |-> "f64"]
\* object and value are on the stack; keep says what the function returns
Store(c, keep) == [op |-> "store", c |-> c, keep |-> keep]
Drop == [op |-> "drop"]
TeeLocal(x) == [op |-> "tee", x |-> x]
\* set_in_current_shadow_frame_slot, for anys and closures too
SetSlot(x) == [op |-> "slot", x |-> x]
Call == [op |-> "call"]
GcExitFn == [op |-> "exit"]
Return == [op |-> "return"]

---------------------------------------------------------------------------
(* translate_atom, translate_expr *)

Atoms ==
    {<<Get(x)>> : x \in Local} \cup {<<GetObj(x), Load(c)>> : x \in Local, c \in Cell}
    \cup {<<AllocF64>>}                                \* ToAny of a float

\* array_new, string operations
PrimCall == {<<Alloc>>}
NewRef == {a \o <<AllocWith(c)>> : a \in Atoms, c \in Cell}
\* insert allocates new data before it writes
SetCode(x, a, c) == <<GetObj(x)>> \o a \o <<AllocData, Store(c, "value")>>
ObjectSet == {SetCode(x, a, c) : x \in Local, a \in Atoms, c \in Cell}
\* Call, and ClosureCall whose first argument is the environment that the
\* caller's closure keeps
CallExpr == {<<Get(x), Call>> : x \in Local}
\* {}: jnks_new_object calls object_create, which allocates an object and then
\* inserts __proto__
ObjectEmpty == {<<Alloc, AllocData>>}
\* janky_primitive_plus makes a string of each operand, then one of both
Plus == {<<Alloc, Alloc, Drop, Drop, Alloc>>}
\* jnks_new_fn_obj, env_alloc(len, fn_obj), env_init_at(env, i, a), closure_new
Closure == {<<Alloc, AllocWith(c)>> \o a \o <<Store(d, "object")>> :
               c \in Cell, d \in Cell, a \in Atoms}

ExprCode ==
    UNION {e.code : e \in {k \in {
        [kind |-> "Atom", code |-> Atoms],
        [kind |-> "PrimCall", code |-> PrimCall],
        [kind |-> "NewRef", code |-> NewRef],
        [kind |-> "ObjectSet", code |-> ObjectSet],
        [kind |-> "Call", code |-> CallExpr],
        [kind |-> "ObjectEmpty", code |-> ObjectEmpty],
        [kind |-> "Plus", code |-> Plus],
        [kind |-> "Closure", code |-> Closure]} : k.kind \in Exprs}}

(* translate_rec *)

\* mutant: the local is set but not its slot
NoSlot(x) == <<TeeLocal(x), Drop>>

\* the end of Var and of Assign to a local
SetLocal(x) == <<TeeLocal(x), SetSlot(x)>>

StoreCode(x, e, c) == <<GetObj(x)>> \o e \o <<Store(c, "nothing")>>

Stmts ==
    {e \o SetLocal(x) : e \in ExprCode, x \in Local}                  \* Var, Assign
    \cup {e \o <<Drop>> : e \in ExprCode}                             \* Expression
    \cup {StoreCode(x, e, c) : x \in Local, e \in ExprCode, c \in Cell}  \* Store
    \cup {<<GcExitFn>> \o a \o <<Return>> : a \in Atoms}              \* Return

---------------------------------------------------------------------------
(* Running it *)

EmptyFrame == [x \in Local |-> Undef]

Init ==
    /\ heap = [a \in Addr |-> Free]
    /\ stack = <<[locals |-> EmptyFrame, ops |-> <<>>, todo |-> <<>>]>>
    /\ shadow = <<EmptyFrame>>

Depth == Len(stack)
Cur == stack[Depth]
Here == Head(Cur.todo)
Running(op) == Cur.todo # <<>> /\ Here.op = op

\* the operand that is n below the top
Operand(n) == Cur.ops[Len(Cur.ops) - n]

\* The instruction is done: it popped n operands and pushed those of new.
Does(n, new) ==
    stack' = [stack EXCEPT ![Depth].ops = SubSeq(@, 1, Len(@) - n) \o new,
                           ![Depth].todo = Tail(@)]

\* The next statement, any one; main does not return.
Begin(s) ==
    /\ Cur.todo = <<>>
    /\ Head(s) = GcExitFn => Depth > 1
    /\ \A i \in DOMAIN s : s[i].op = "get" => (s[i].obj => Cur.locals[s[i].x] \in Addr)
    /\ \A i \in DOMAIN s : s[i].op = "call" => Depth < MaxDepth
    /\ stack' = [stack EXCEPT ![Depth].todo = s]
    /\ UNCHANGED <<heap, shadow>>

GetLocalInst ==
    /\ Running("get")
    /\ Does(0, <<Cur.locals[Here.x]>>)
    /\ UNCHANGED <<heap, shadow>>

LoadInst ==
    /\ Running("load")
    /\ Does(1, <<heap[Operand(0)][Here.c]>>)
    /\ UNCHANGED <<heap, shadow>>

StoreInst ==
    /\ Running("store")
    /\ heap' = [heap EXCEPT ![Operand(1)][Here.c] = Operand(0)]
    /\ Does(2, CASE Here.keep = "value" -> <<Operand(0)>>
                 [] Here.keep = "object" -> <<Operand(1)>>
                 [] Here.keep = "nothing" -> <<>>)
    /\ UNCHANGED shadow

DropInst ==
    /\ Running("drop")
    /\ Does(1, <<>>)
    /\ UNCHANGED <<heap, shadow>>

TeeLocalInst ==
    /\ Running("tee")
    /\ stack' = [stack EXCEPT ![Depth].locals[Here.x] = Operand(0),
                              ![Depth].todo = Tail(@)]
    /\ UNCHANGED <<heap, shadow>>

SetSlotInst ==
    /\ Running("slot")
    /\ shadow' = [shadow EXCEPT ![Len(shadow)][Here.x] = Operand(0)]
    /\ Does(1, <<>>)
    /\ UNCHANGED heap

(* Heap::gc, external here: HeapSpec says what it may do *)

\* mutant: only the frame of the running function is looked at
CurrentFrameRoots == Pointers(Range(shadow[Len(shadow)]))

Roots == Pointers(UNION {Range(shadow[f]) : f \in DOMAIN shadow})

Closed(R, S) ==
    /\ R \subseteq S
    /\ \A a \in S : heap[a] # Free => Pointers(Range(heap[a])) \subseteq S

ReachFrom(R) == {a \in Addr : \A S \in SUBSET Addr : Closed(R, S) => a \in S}

Collected(R) == [a \in Addr |-> IF a \in ReachFrom(R) THEN heap[a] ELSE Free]

AllocInst ==
    /\ Running("alloc")
    /\ \E h \in {heap, Collected(Roots)} : \E a \in Addr :
         /\ h[a] = Free
         /\ heap' = [h EXCEPT ![a] =
              [c \in Cell |-> IF Here.n = 1 /\ c = Here.c THEN Operand(0) ELSE Undef]]
         /\ Does(Here.n, <<a>>)
    /\ UNCHANGED shadow

AllocDataInst ==
    /\ Running("data")
    /\ heap' \in {heap, Collected(Roots)}
    /\ Does(0, <<>>)
    /\ UNCHANGED shadow

AllocF64Inst ==
    /\ Running("f64")
    /\ heap' \in {heap, Collected(Roots)}
    /\ Does(0, <<Undef>>)
    /\ UNCHANGED shadow

\* mutant: the callee has no shadow frame of its own
NoEnter(frames) == frames

\* mutant: the slots of a new frame are not initialised
GarbageFrame(frames) == Append(frames, [x \in Local |-> Free])

gc_enter_fn(frames) == Append(frames, EmptyFrame)

\* The callee's parameters are the arguments.  Their slots are reserved but
\* not set.
CallInst ==
    /\ Running("call")
    /\ LET callee == [locals |-> [x \in Local |-> IF x \in Param THEN Operand(0) ELSE Undef],
                      ops |-> <<>>, todo |-> <<>>]
           caller == [Cur EXCEPT !.ops = SubSeq(@, 1, Len(@) - 1), !.todo = Tail(@)]
       IN  stack' = [stack EXCEPT ![Depth] = caller] \o <<callee>>
    /\ shadow' = gc_enter_fn(shadow)
    /\ UNCHANGED heap

GcExitInst ==
    /\ Running("exit")
    /\ shadow' = SubSeq(shadow, 1, Len(shadow) - 1)
    /\ Does(0, <<>>)
    /\ UNCHANGED heap

ReturnInst ==
    /\ Running("return")
    /\ stack' = [SubSeq(stack, 1, Depth - 1) EXCEPT ![Depth - 1].ops = Append(@, Operand(0))]
    /\ UNCHANGED <<heap, shadow>>

Next ==
    \/ \E s \in Stmts : Begin(s)
    \/ GetLocalInst \/ LoadInst \/ StoreInst \/ DropInst \/ TeeLocalInst \/ SetSlotInst
    \/ AllocInst \/ AllocDataInst \/ AllocF64Inst \/ CallInst \/ GcExitInst \/ ReturnInst

Spec == Init /\ [][Next]_vars

---------------------------------------------------------------------------
(* Properties *)

\* Slots, locals, operands and cells hold values, from the moment they exist.
TypeOK ==
    /\ heap \in [Addr -> [Cell -> Value] \cup {Free}]
    /\ shadow \in Seq([Local -> Value])
    /\ Depth \in 1 .. MaxDepth
    /\ \A i \in DOMAIN stack :
         /\ stack[i].locals \in [Local -> Value]
         /\ stack[i].ops \in Seq(Value)

\* the function has left its shadow frame and evaluates what it returns
Returning == Cur.todo # <<>> /\ Cur.todo[Len(Cur.todo)] = Return /\ Here # GcExitFn

\* The locals whose values the code may still use: of a function that returns,
\* those that what it returns is made of.
Live(i) ==
    IF i = Depth /\ Returning
    THEN {Cur.todo[j].x : j \in {k \in DOMAIN Cur.todo : Cur.todo[k].op = "get"}}
    ELSE Local

\* What the code that runs still holds, outside the heap.
Held == Pointers(UNION {{stack[i].locals[x] : x \in Live(i)} \cup Range(stack[i].ops) :
                           i \in DOMAIN stack})

\* "Before calling gc(), the shadow stack must contain all GC roots"
\* (allocator/mod.rs): when an allocation is about to run, everything in a
\* local or on an operand stack of any function on the way is reachable from
\* the shadow stack, arguments and return values on their way included.
GcContract ==
    Running("alloc") \/ Running("data") \/ Running("f64") => Held \subseteq ReachFrom(Roots)

\* No local, operand, slot or cell points to freed memory, after any number of
\* collections and reuses of addresses.
NoDangling ==
    /\ \A a \in Held \cup Roots : heap[a] # Free
    /\ \A a \in Addr : heap[a] # Free =>
         \A b \in Pointers(Range(heap[a])) : heap[b] # Free

\* Every function writes into its own shadow frame, and a slot holds what its
\* local holds: calls and returns keep the two stacks in step.
ShadowMirrors ==
    /\ Len(shadow) = IF Returning THEN Depth - 1 ELSE Depth
    /\ \A i \in DOMAIN shadow, x \in Local :
         \/ shadow[i][x] = stack[i].locals[x]
         \/ x \in Param /\ shadow[i][x] = Undef
         \/ i = Depth /\ Cur.todo # <<>> /\ Here = SetSlot(x)
=============================================================================
