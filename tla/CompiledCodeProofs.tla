------------------------- MODULE CompiledCodeProofs -------------------------
(***************************************************************************)
(* The contract between compiled code and the collector, for every program *)
(* whose expressions are of the kinds of SafeExprs, every number of        *)
(* locals, cells and addresses and every depth of calls.                   *)
(*                                                                         *)
(* GcContract is about the moments of allocation only, and neither it nor  *)
(* NoDangling is inductive: what an operand stack may hold depends on how  *)
(* far the statement has come.  Inv therefore says at which point of which *)
(* statement every function is, what its operands are at that point        *)
(* (values of its locals, or a value that was just loaded or made), and    *)
(* through which slot every local is rooted.                               *)
(***************************************************************************)
EXTENDS CompiledCode, SequenceTheorems, TLAPS

\* The kinds of expressions whose translation holds nothing unrooted while it
\* allocates.  Each of the others (an object literal, +, a closure) breaks
\* GcContract, alone or as in the run compiled_code_create.
SafeExprs == {"Atom", "PrimCall", "NewRef", "ObjectSet", "Call"}

Instr ==
    {Get(x) : x \in Local} \cup {GetObj(x) : x \in Local} \cup {Load(c) : c \in Cell}
    \cup {Alloc, AllocData, AllocF64, Drop, Call, GcExitFn, Return}
    \cup {AllocWith(c) : c \in Cell}
    \cup {Store(c, k) : c \in Cell, k \in {"value", "nothing"}}
    \cup {TeeLocal(x) : x \in Local} \cup {SetSlot(x) : x \in Local}
Code == Seq(Instr)
Operands == Seq(Value)
Locals == [Local -> Value]

Activation == [locals : Locals, ops : Operands, todo : Code]

\* Instruction i and then the code t; operand v on top of b.
Then(i, t) == <<i>> \o t
On(b, v) == b \o <<v>>

-----------------------------------------------------------------------------
(* Where a function is in its statement: L are its locals, t is the code it *)
(* has still to run, o are its operands, b those below the ones that matter.*)

\* The local is used as an object, which the types of the program promise.
IsObj(L, x) == L[x] \in Addr

\* k is what is left of a statement once the value of its expression is on b.
Rest(L, k, b) ==
    \/ b = <<>> /\ k = <<Drop>>
    \/ b = <<>> /\ \E x \in Local : k = <<TeeLocal(x), SetSlot(x)>>
    \/ \E x \in Local, c \in Cell :
          b = <<L[x]>> /\ IsObj(L, x) /\ k = <<Store(c, "nothing")>>

\* r is what is left once the atom that an allocation waits for is on b.
Arg(L, r, b) ==
    \/ \E k \in Code, c \in Cell : Rest(L, k, b) /\ r = Then(AllocWith(c), k)
    \/ \E k \in Code, c \in Cell, x \in Local, d \in Operands :
          /\ Rest(L, k, d) /\ IsObj(L, x) /\ b = On(d, L[x])
          /\ r = Then(AllocData, Then(Store(c, "value"), k))

AfterAtom(L, r, b) == Rest(L, r, b) \/ Arg(L, r, b)

\* t evaluates an atom on b, an expression on b.
AtomAt(L, t, b) ==
    \E r \in Code :
        /\ AfterAtom(L, r, b)
        /\ \/ \E x \in Local : t = Then(Get(x), r)
           \/ \E x \in Local, c \in Cell : IsObj(L, x) /\ t = Then(GetObj(x), Then(Load(c), r))
           \/ t = Then(AllocF64, r)

ExprAt(L, t, b) ==
    \/ AtomAt(L, t, b)
    \/ \E k \in Code : Rest(L, k, b) /\ t = Then(Alloc, k)
    \/ \E k \in Code, x \in Local : Rest(L, k, b) /\ t = Then(Get(x), Then(Call, k))
    \/ \E s \in Code, x \in Local :
          IsObj(L, x) /\ AtomAt(L, s, On(b, L[x])) /\ t = Then(GetObj(x), s)

AtStore(L, t, o) ==
    \E x \in Local, s \in Code :
        t = Then(GetObj(x), s) /\ o = <<>> /\ IsObj(L, x) /\ ExprAt(L, s, <<L[x]>>)
AtLoad(L, t, o) ==
    \E x \in Local, c \in Cell, r \in Code, b \in Operands :
        t = Then(Load(c), r) /\ o = On(b, L[x]) /\ IsObj(L, x) /\ AfterAtom(L, r, b)
\* The argument survives the collection that the allocation may cause: it is
\* one of the addresses K that can be reached from the shadow stack.
AtArg(L, t, o, K) ==
    \E b \in Operands, v \in Value : o = On(b, v) /\ Arg(L, t, b) /\ (v \in Addr => v \in K)
AtWrite(L, t, o) ==
    \E x \in Local, c \in Cell, k \in Code, b \in Operands, v \in Value :
        /\ t = Then(Store(c, "value"), k) /\ o = On(On(b, L[x]), v)
        /\ IsObj(L, x) /\ Rest(L, k, b)
AtCall(L, t, o) ==
    \E x \in Local, k \in Code, b \in Operands :
        t = Then(Call, k) /\ o = On(b, L[x]) /\ Rest(L, k, b)
AtValue(L, t, o) == \E b \in Operands, v \in Value : o = On(b, v) /\ Rest(L, t, b)
AtSlot(L, t, o) == \E x \in Local : t = <<SetSlot(x)>> /\ o = <<L[x]>>
Idle(t, o) == t = <<>> /\ o = <<>>

InBody(L, t, o, K) ==
    \/ Idle(t, o) \/ AtStore(L, t, o) \/ ExprAt(L, t, o) \/ AtLoad(L, t, o) \/ AtArg(L, t, o, K)
    \/ AtWrite(L, t, o) \/ AtCall(L, t, o) \/ AtValue(L, t, o) \/ AtSlot(L, t, o)

\* A return, before and after gc_exit_fn.  Once the shadow frame is gone nothing
\* roots the locals, and nothing collects before the ones in use are read.
AtExit(L, t, o) ==
    /\ o = <<>>
    /\ \/ \E x \in Local : t = <<GcExitFn, Get(x), Return>>
       \/ \E x \in Local, c \in Cell : IsObj(L, x) /\ t = <<GcExitFn, GetObj(x), Load(c), Return>>
       \/ t = <<GcExitFn, AllocF64, Return>>

LeaveRead(L, t, o) ==
    /\ o = <<>>
    /\ \/ \E x \in Local : t = <<Get(x), Return>>
       \/ \E x \in Local, c \in Cell : IsObj(L, x) /\ t = <<GetObj(x), Load(c), Return>>
LeaveF64(t, o) == t = <<AllocF64, Return>> /\ o = <<>>
LeaveLoad(L, t, o) ==
    \E x \in Local, c \in Cell : IsObj(L, x) /\ t = <<Load(c), Return>> /\ o = <<L[x]>>
LeaveReturn(t, o) == \E v \in Value : t = <<Return>> /\ o = <<v>>
Leaving(L, t, o) == LeaveRead(L, t, o) \/ LeaveF64(t, o) \/ LeaveLoad(L, t, o) \/ LeaveReturn(t, o)

-----------------------------------------------------------------------------
(* The inductive invariant.                                                  *)

StateOK ==
    /\ heap \in [Addr -> [Cell -> Value] \cup {Free}]
    /\ shadow \in Seq(Locals)
    /\ stack \in Seq(Activation) /\ stack # <<>>

\* A function that has called waits for the value of its expression; the one
\* that runs is at some point of a statement.
PointInv ==
    /\ \A i \in 1 .. Depth - 1 : Rest(stack[i].locals, stack[i].todo, stack[i].ops)
    /\ \/ InBody(Cur.locals, Cur.todo, Cur.ops, ReachFrom(Roots)) /\ Len(shadow) = Depth
       \/ AtExit(Cur.locals, Cur.todo, Cur.ops) /\ Len(shadow) = Depth /\ Depth > 1
       \/ Leaving(Cur.locals, Cur.todo, Cur.ops) /\ Len(shadow) = Depth - 1 /\ Depth > 1

\* A call that is still to be made fits the bound.
DepthInv ==
    /\ Depth <= MaxDepth
    /\ \A j \in DOMAIN Cur.todo : Cur.todo[j].op = "call" => Depth < MaxDepth

\* A local is rooted by its own slot or, while it is an argument that was not
\* assigned, by a slot of a function further down.
MirrorInv ==
    \A i \in DOMAIN shadow, x \in Local :
        \/ shadow[i][x] = stack[i].locals[x]
        \/ /\ x \in Param /\ shadow[i][x] = Undef
           /\ \E j \in 1 .. i - 1, y \in Local : shadow[j][y] = stack[i].locals[x]
        \/ i = Depth /\ Cur.todo # <<>> /\ Here = SetSlot(x)

Alive(h, v) == v \in Addr => h[v] # Free

\* Slots, cells, operands, and the locals that a return still reads, point to
\* objects.
SlotsAlive == \A i \in DOMAIN shadow, x \in Local : Alive(heap, shadow[i][x])
CellsAlive(h) == \A a \in Addr : h[a] # Free => \A c \in Cell : Alive(h, h[a][c])
AliveInv ==
    /\ SlotsAlive
    /\ CellsAlive(heap)
    /\ \A i \in DOMAIN stack : \A j \in DOMAIN stack[i].ops : Alive(heap, stack[i].ops[j])
    /\ Len(shadow) < Depth /\ LeaveRead(Cur.locals, Cur.todo, Cur.ops) =>
         \A x \in Local : Alive(heap, Cur.locals[x])

Inv == StateOK /\ PointInv /\ DepthInv /\ MirrorInv /\ AliveInv

-----------------------------------------------------------------------------
(* Lemmas on instructions and sequences.                                     *)

\* What each instruction is, by its fields.
LEMMA Fields ==
  /\ \A x : Get(x).op = "get" /\ Get(x).x = x /\ Get(x).obj = FALSE
  /\ \A x : GetObj(x).op = "get" /\ GetObj(x).x = x /\ GetObj(x).obj = TRUE
  /\ \A c : Load(c).op = "load" /\ Load(c).c = c
  /\ Alloc.op = "alloc" /\ Alloc.n = 0
  /\ \A c : AllocWith(c).op = "alloc" /\ AllocWith(c).n = 1 /\ AllocWith(c).c = c
  /\ AllocData.op = "data" /\ AllocF64.op = "f64" /\ Drop.op = "drop"
  /\ Call.op = "call" /\ GcExitFn.op = "exit" /\ Return.op = "return"
  /\ \A c, k : Store(c, k).op = "store" /\ Store(c, k).c = c /\ Store(c, k).keep = k
  /\ \A x : TeeLocal(x).op = "tee" /\ TeeLocal(x).x = x
  /\ \A x : SetSlot(x).op = "slot" /\ SetSlot(x).x = x
  BY DEF Get, GetObj, Load, Alloc, AllocWith, AllocData, AllocF64, Drop, Call, GcExitFn, Return,
         Store, TeeLocal, SetSlot

\* The instructions that occur in code.
LEMMA Instrs ==
  /\ \A x \in Local : /\ Get(x) \in Instr /\ GetObj(x) \in Instr
                      /\ TeeLocal(x) \in Instr /\ SetSlot(x) \in Instr
  /\ \A c \in Cell : Load(c) \in Instr /\ AllocWith(c) \in Instr
  /\ \A c \in Cell : Store(c, "value") \in Instr /\ Store(c, "nothing") \in Instr
  /\ Alloc \in Instr /\ AllocData \in Instr /\ AllocF64 \in Instr /\ Drop \in Instr
  /\ Call \in Instr /\ GcExitFn \in Instr /\ Return \in Instr
  BY DEF Instr

\* The next instruction and what follows it.
LEMMA Cons ==
  ASSUME NEW i \in Instr, NEW t \in Code
  PROVE  /\ Then(i, t) \in Code /\ Then(i, t) # <<>>
         /\ Head(Then(i, t)) = i /\ Tail(Then(i, t)) = t
  <1>1. /\ Then(i, t) \in Seq(Instr) /\ Len(Then(i, t)) = Len(t) + 1 /\ Then(i, t)[1] = i
        /\ Len(t) \in Nat
    BY DEF Code, Then
  <1>2. Then(i, t) # <<>>
    BY <1>1
  <1>3. Head(Then(i, t)) = i
    BY <1>1
  <1>4. Tail(Then(i, t)) = t
    <2>1. /\ Tail(Then(i, t)) \in Seq(Instr) /\ Len(Tail(Then(i, t))) = Len(t)
          /\ \A j \in 1 .. Len(t) : Tail(Then(i, t))[j] = Then(i, t)[j + 1]
      BY <1>1, <1>2, HeadTailProperties
    <2>2. \A j \in 1 .. Len(t) : Then(i, t)[j + 1] = t[j]
      BY <1>1 DEF Code, Then
    <2> QED BY <2>1, <2>2, SeqEqual DEF Code
  <1> QED BY <1>1, <1>2, <1>3, <1>4 DEF Code

\* The same of a load: its cell, and what follows it.
LEMMA LoadHead ==
  ASSUME NEW c \in Cell, NEW t \in Code
  PROVE  Head(Then(Load(c), t)).op = "load" /\ Head(Then(Load(c), t)).c = c /\ Tail(Then(Load(c), t)) = t
  <1>1. Load(c) \in Instr
    BY Instrs
  <1>2. Head(Then(Load(c), t)) = Load(c) /\ Tail(Then(Load(c), t)) = t
    BY <1>1, Cons
  <1>3. Load(c).op = "load" /\ Load(c).c = c
    BY Fields
  <1> QED BY <1>2, <1>3

\* The same for code that is spelled out.
LEMMA Short ==
  /\ \A i \in Instr : <<i>> \in Code /\ <<i>> # <<>> /\ Head(<<i>>) = i /\ Tail(<<i>>) = <<>>
  /\ \A i, j \in Instr : /\ <<i, j>> \in Code /\ <<i, j>> # <<>>
                         /\ Head(<<i, j>>) = i /\ Tail(<<i, j>>) = <<j>>
  /\ \A i, j, k \in Instr : /\ <<i, j, k>> \in Code /\ <<i, j, k>> # <<>>
                            /\ Head(<<i, j, k>>) = i /\ Tail(<<i, j, k>>) = <<j, k>>
  /\ \A i, j, k, l \in Instr : /\ <<i, j, k, l>> \in Code /\ <<i, j, k, l>> # <<>>
                               /\ Head(<<i, j, k, l>>) = i /\ Tail(<<i, j, k, l>>) = <<j, k, l>>
  BY DEF Code

\* The operand on top, and what is below it.
LEMMA Push ==
  ASSUME NEW b \in Operands, NEW v \in Value
  PROVE  /\ On(b, v) \in Operands /\ On(b, v) # <<>>
         /\ Len(On(b, v)) = Len(b) + 1
         /\ On(b, v)[Len(On(b, v))] = v
         /\ SubSeq(On(b, v), 1, Len(On(b, v)) - 1) = b
         /\ \A j \in DOMAIN b : j \in DOMAIN On(b, v) /\ On(b, v)[j] = b[j]
         /\ \A j \in DOMAIN On(b, v) : j \in DOMAIN b \/ On(b, v)[j] = v
  <1> DEFINE t == On(b, v)
  <1>1. /\ t \in Seq(Value) /\ Len(t) = Len(b) + 1 /\ t[Len(b) + 1] = v /\ Len(b) \in Nat
        /\ \A j \in 1 .. Len(b) : t[j] = b[j]
        /\ DOMAIN b = 1 .. Len(b) /\ DOMAIN t = 1 .. Len(b) + 1
    BY DEF Operands, On
  <1> HIDE DEF t
  <1>2. SubSeq(t, 1, Len(t) - 1) = b
    <2>1. /\ SubSeq(t, 1, Len(b)) \in Seq(Value) /\ Len(SubSeq(t, 1, Len(b))) = Len(b)
          /\ \A j \in 1 .. Len(b) : SubSeq(t, 1, Len(b))[j] = t[j]
      BY <1>1
    <2> QED BY <1>1, <2>1, SeqEqual DEF Operands
  <1>3. t # <<>>
    BY <1>1
  <1> QED BY <1>1, <1>2, <1>3 DEF t, Operands

\* An operand stack of one.
LEMMA One ==
  ASSUME NEW v \in Value
  PROVE  /\ <<v>> \in Operands /\ <<v>> = On(<<>>, v) /\ <<>> \in Operands
         /\ Len(<<v>>) = 1 /\ <<v>>[1] = v /\ SubSeq(<<v>>, 1, 0) = <<>>
         /\ DOMAIN <<v>> = {1}
  BY DEF Operands, On

-----------------------------------------------------------------------------
(* The points of a statement, by the instruction that comes next.            *)

\* What is left after an expression begins with an instruction that does not
\* allocate, and the operands below its value are locals.
LEMMA RestHead ==
  ASSUME NEW L \in Locals, NEW k, NEW b, Rest(L, k, b)
  PROVE  /\ k \in Code /\ k # <<>> /\ b \in Operands
         /\ Head(k).op \in {"drop", "tee", "store"}
         /\ Head(k).op = "store" => Head(k).keep = "nothing"
         /\ \A j \in DOMAIN b : \E x \in Local : b[j] = L[x]
  <1>1. CASE b = <<>> /\ k = <<Drop>>
    BY <1>1, Short, Instrs, Fields DEF Operands
  <1>2. CASE b = <<>> /\ \E x \in Local : k = <<TeeLocal(x), SetSlot(x)>>
    <2>1. PICK x \in Local : k = <<TeeLocal(x), SetSlot(x)>>
      BY <1>2
    <2>2. k \in Code /\ k # <<>> /\ Head(k) = TeeLocal(x)
      BY <2>1, Short, Instrs
    <2> QED BY <1>2, <2>2, Fields DEF Operands
  <1>3. CASE \E x \in Local, c \in Cell : b = <<L[x]>> /\ IsObj(L, x) /\ k = <<Store(c, "nothing")>>
    BY <1>3, Short, Instrs, Fields DEF Operands, Locals
  <1> QED BY <1>1, <1>2, <1>3 DEF Rest

\* The argument of an allocation is followed by the allocation.
LEMMA ArgHead ==
  ASSUME NEW L \in Locals, NEW r, NEW b, Arg(L, r, b)
  PROVE  /\ r \in Code /\ r # <<>> /\ b \in Operands
         /\ Head(r).op \in {"alloc", "data"}
         /\ \A j \in DOMAIN b : \E x \in Local : b[j] = L[x]
  <1>1. CASE \E k \in Code, c \in Cell : Rest(L, k, b) /\ r = Then(AllocWith(c), k)
    BY <1>1, RestHead, Cons, Instrs, Fields
  <1>2. ASSUME NEW k \in Code, NEW c \in Cell, NEW x \in Local, NEW d \in Operands,
               Rest(L, k, d), IsObj(L, x), b = On(d, L[x]),
               r = Then(AllocData, Then(Store(c, "value"), k))
        PROVE  /\ r \in Code /\ r # <<>> /\ b \in Operands
               /\ Head(r).op \in {"alloc", "data"}
               /\ \A j \in DOMAIN b : \E y \in Local : b[j] = L[y]
    <2>1. L[x] \in Value
      BY DEF Locals
    <2>2. r \in Code /\ r # <<>> /\ Head(r).op = "data"
      <3>1. Then(Store(c, "value"), k) \in Code
        BY Cons, Instrs
      <3> QED BY <1>2, <3>1, Cons, Instrs, Fields
    <2>3. b \in Operands /\ \A j \in DOMAIN b : (j \in DOMAIN d /\ b[j] = d[j]) \/ b[j] = L[x]
      BY <1>2, <2>1, Push
    <2> QED BY <1>2, <2>2, <2>3, RestHead
  <1> QED BY <1>1, <1>2 DEF Arg

\* An atom is a read or a boxed float.
LEMMA AtomHead ==
  ASSUME NEW L \in Locals, NEW t, NEW b, AtomAt(L, t, b)
  PROVE  /\ t \in Code /\ t # <<>> /\ b \in Operands /\ Head(t).op \in {"get", "f64"}
         /\ \A j \in DOMAIN b : \E x \in Local : b[j] = L[x]
  <1>1. PICK r \in Code :
          /\ AfterAtom(L, r, b)
          /\ \/ \E x \in Local : t = Then(Get(x), r)
             \/ \E x \in Local, c \in Cell : IsObj(L, x) /\ t = Then(GetObj(x), Then(Load(c), r))
             \/ t = Then(AllocF64, r)
    BY DEF AtomAt
  <1>2. b \in Operands /\ \A j \in DOMAIN b : \E x \in Local : b[j] = L[x]
    BY <1>1, RestHead, ArgHead DEF AfterAtom
  <1>3. CASE \E x \in Local : t = Then(Get(x), r)
    BY <1>2, <1>3, Cons, Instrs, Fields
  <1>4. ASSUME NEW x \in Local, NEW c \in Cell, t = Then(GetObj(x), Then(Load(c), r))
        PROVE  t \in Code /\ t # <<>> /\ Head(t) = GetObj(x)
    <2>1. Then(Load(c), r) \in Code
      BY Cons, Instrs
    <2> QED BY <1>4, <2>1, Cons, Instrs
  <1>5. CASE t = Then(AllocF64, r)
    BY <1>2, <1>5, Cons, Instrs, Fields
  <1> QED BY <1>1, <1>2, <1>3, <1>4, <1>5, Fields

\* No expression begins with anything but a read or an allocation.
LEMMA ExprHead ==
  ASSUME NEW L \in Locals, NEW t, NEW b \in Operands, ExprAt(L, t, b)
  PROVE  /\ t \in Code /\ t # <<>> /\ Head(t).op \in {"get", "f64", "alloc"}
         /\ \A j \in DOMAIN b : \E x \in Local : b[j] = L[x]
  <1>1. CASE AtomAt(L, t, b)
    BY <1>1, AtomHead
  <1>2. CASE \E k \in Code : Rest(L, k, b) /\ t = Then(Alloc, k)
    BY <1>2, RestHead, Cons, Instrs, Fields
  <1>3. CASE \E k \in Code, x \in Local : Rest(L, k, b) /\ t = Then(Get(x), Then(Call, k))
    <2>1. PICK k \in Code, x \in Local : Rest(L, k, b) /\ t = Then(Get(x), Then(Call, k))
      BY <1>3
    <2>2. Then(Call, k) \in Code
      BY Cons, Instrs
    <2>3. t \in Code /\ t # <<>> /\ Head(t) = Get(x)
      BY <2>1, <2>2, Cons, Instrs
    <2> QED BY <2>1, <2>3, RestHead, Fields
  <1>4. ASSUME NEW s \in Code, NEW x \in Local, IsObj(L, x), AtomAt(L, s, On(b, L[x])),
               t = Then(GetObj(x), s)
        PROVE  /\ t \in Code /\ t # <<>> /\ Head(t).op = "get"
               /\ \A j \in DOMAIN b : \E y \in Local : b[j] = L[y]
    <2>1. L[x] \in Value
      BY DEF Locals
    <2>2. \A j \in DOMAIN b : j \in DOMAIN On(b, L[x]) /\ On(b, L[x])[j] = b[j]
      BY <2>1, Push
    <2>3. t \in Code /\ t # <<>> /\ Head(t) = GetObj(x)
      BY <1>4, Cons, Instrs
    <2> QED BY <1>4, <2>2, <2>3, AtomHead, Fields
  <1> QED BY <1>1, <1>2, <1>3, <1>4 DEF ExprAt

\* The point is known by the instruction that comes next.
LEMMA PointHead ==
  ASSUME NEW L \in Locals, NEW t, NEW o \in Operands, NEW K, InBody(L, t, o, K), t # <<>>
  PROVE  /\ Head(t).op \in {"get", "f64", "alloc", "load", "data", "store", "call", "drop", "tee", "slot"}
         /\ Head(t).op = "get" => AtStore(L, t, o) \/ ExprAt(L, t, o)
         /\ Head(t).op = "f64" => ExprAt(L, t, o)
         /\ Head(t).op = "alloc" => ExprAt(L, t, o) \/ AtArg(L, t, o, K)
         /\ Head(t).op = "load" => AtLoad(L, t, o)
         /\ Head(t).op = "data" => AtArg(L, t, o, K)
         /\ Head(t).op = "store" => \/ AtWrite(L, t, o) /\ Head(t).keep = "value"
                                    \/ AtValue(L, t, o) /\ Head(t).keep = "nothing"
         /\ Head(t).op = "call" => AtCall(L, t, o)
         /\ Head(t).op \in {"drop", "tee"} => AtValue(L, t, o)
         /\ Head(t).op = "slot" => AtSlot(L, t, o)
  <1>1. CASE AtStore(L, t, o)
    <2>1. Head(t).op = "get"
      BY <1>1, Cons, Instrs, Fields DEF AtStore
    <2> QED BY <1>1, <2>1
  <1>2. CASE ExprAt(L, t, o)
    BY <1>2, ExprHead
  <1>3. CASE AtLoad(L, t, o)
    <2>1. Head(t).op = "load"
      BY <1>3, LoadHead DEF AtLoad
    <2> QED BY <1>3, <2>1
  <1>4. CASE AtArg(L, t, o, K)
    BY <1>4, ArgHead DEF AtArg
  <1>5. CASE AtWrite(L, t, o)
    <2>1. Head(t).op = "store" /\ Head(t).keep = "value"
      BY <1>5, Cons, Instrs, Fields DEF AtWrite
    <2> QED BY <1>5, <2>1
  <1>6. CASE AtCall(L, t, o)
    <2>1. Head(t).op = "call"
      BY <1>6, Cons, Instrs, Fields DEF AtCall
    <2> QED BY <1>6, <2>1
  <1>7. CASE AtValue(L, t, o)
    BY <1>7, RestHead DEF AtValue
  <1>8. CASE AtSlot(L, t, o)
    BY <1>8, Short, Instrs, Fields DEF AtSlot
  <1> QED BY <1>1, <1>2, <1>3, <1>4, <1>5, <1>6, <1>7, <1>8 DEF InBody, Idle

-----------------------------------------------------------------------------
(* From point to point.  K2 is any set of addresses: what follows these      *)
(* instructions does not collect any more.                                   *)

\* A local is read: it is an object to be used, an argument, or the value.
LEMMA GetPoint ==
  ASSUME NEW L \in Locals, NEW t \in Code, NEW o \in Operands, NEW K, InBody(L, t, o, K),
         t # <<>>, Head(t).op = "get", \A x \in Local : L[x] \in Addr => L[x] \in K
  PROVE  Head(t).x \in Local /\ InBody(L, Tail(t), On(o, L[Head(t).x]), K)
  <1>0. \A x \in Local : L[x] \in Value
    BY DEF Locals
  <1>1. CASE AtStore(L, t, o)
    <2>1. PICK x \in Local, s \in Code :
            t = Then(GetObj(x), s) /\ o = <<>> /\ IsObj(L, x) /\ ExprAt(L, s, <<L[x]>>)
      BY <1>1 DEF AtStore
    <2>2. Head(t).x = x /\ Tail(t) = s
      BY <2>1, Cons, Instrs, Fields
    <2>3. On(o, L[x]) = <<L[x]>>
      BY <1>0, <2>1, One
    <2> QED BY <2>1, <2>2, <2>3 DEF InBody
  <1>2. CASE AtomAt(L, t, o)
    <2>1. PICK r \in Code :
            /\ AfterAtom(L, r, o)
            /\ \/ \E x \in Local : t = Then(Get(x), r)
               \/ \E x \in Local, c \in Cell : IsObj(L, x) /\ t = Then(GetObj(x), Then(Load(c), r))
               \/ t = Then(AllocF64, r)
      BY <1>2 DEF AtomAt
    <2>2. CASE \E x \in Local : t = Then(Get(x), r)
      <3>1. PICK x \in Local : t = Then(Get(x), r)
        BY <2>2
      <3>2. Head(t).x = x /\ Tail(t) = r
        BY <3>1, Cons, Instrs, Fields
      <3>3. AtArg(L, r, On(o, L[x]), K) \/ AtValue(L, r, On(o, L[x]))
        BY <1>0, <2>1 DEF AfterAtom, AtArg, AtValue
      <3> QED BY <3>2, <3>3 DEF InBody
    <2>3. CASE \E x \in Local, c \in Cell : IsObj(L, x) /\ t = Then(GetObj(x), Then(Load(c), r))
      <3>1. PICK x \in Local, c \in Cell : IsObj(L, x) /\ t = Then(GetObj(x), Then(Load(c), r))
        BY <2>3
      <3>2. Then(Load(c), r) \in Code
        BY Cons, Instrs
      <3>3. Head(t).x = x /\ Tail(t) = Then(Load(c), r)
        <4>1. Head(t) = GetObj(x) /\ Tail(t) = Then(Load(c), r)
          BY <3>1, <3>2, Cons, Instrs
        <4> QED BY <4>1, Fields
      <3>4. AtLoad(L, Then(Load(c), r), On(o, L[x]))
        BY <2>1, <3>1 DEF AtLoad
      <3> QED BY <3>3, <3>4 DEF InBody
    <2>4. t # Then(AllocF64, r)
      BY Cons, Instrs, Fields
    <2> QED BY <2>1, <2>2, <2>3, <2>4
  <1>3. CASE \E k \in Code : Rest(L, k, o) /\ t = Then(Alloc, k)
    BY <1>3, Cons, Instrs, Fields
  <1>4. CASE \E k \in Code, x \in Local : Rest(L, k, o) /\ t = Then(Get(x), Then(Call, k))
    <2>1. PICK k \in Code, x \in Local : Rest(L, k, o) /\ t = Then(Get(x), Then(Call, k))
      BY <1>4
    <2>2. Then(Call, k) \in Code
      BY Cons, Instrs
    <2>3. Head(t).x = x /\ Tail(t) = Then(Call, k)
      <3>1. Head(t) = Get(x) /\ Tail(t) = Then(Call, k)
        BY <2>1, <2>2, Cons, Instrs
      <3> QED BY <3>1, Fields
    <2>4. AtCall(L, Then(Call, k), On(o, L[x]))
      BY <2>1 DEF AtCall
    <2> QED BY <2>3, <2>4 DEF InBody
  <1>5. CASE \E s \in Code, x \in Local :
               IsObj(L, x) /\ AtomAt(L, s, On(o, L[x])) /\ t = Then(GetObj(x), s)
    <2>1. PICK s \in Code, x \in Local :
            IsObj(L, x) /\ AtomAt(L, s, On(o, L[x])) /\ t = Then(GetObj(x), s)
      BY <1>5
    <2>2. Head(t).x = x /\ Tail(t) = s
      BY <2>1, Cons, Instrs, Fields
    <2> QED BY <2>1, <2>2 DEF InBody, ExprAt
  <1> QED BY <1>1, <1>2, <1>3, <1>4, <1>5, PointHead DEF ExprAt

\* A cell is loaded from a local that is an object; the value takes its place.
LEMMA LoadPoint ==
  ASSUME NEW L \in Locals, NEW t \in Code, NEW o \in Operands, NEW K, InBody(L, t, o, K),
         t # <<>>, Head(t).op = "load"
  PROVE  \E b \in Operands, x \in Local :
            /\ o = On(b, L[x]) /\ L[x] \in Addr /\ Head(t).c \in Cell
            /\ \A j \in DOMAIN b : \E y \in Local : b[j] = L[y]
            /\ \A v \in Value : (v \in Addr => v \in K) => InBody(L, Tail(t), On(b, v), K)
  <1>1. PICK x \in Local, c \in Cell, r \in Code, b \in Operands :
          t = Then(Load(c), r) /\ o = On(b, L[x]) /\ IsObj(L, x) /\ AfterAtom(L, r, b)
    BY PointHead DEF AtLoad
  <1>2. Head(t).c = c /\ Tail(t) = r
    BY <1>1, LoadHead
  <1>3. \A v \in Value : (v \in Addr => v \in K) => InBody(L, r, On(b, v), K)
    BY <1>1 DEF AfterAtom, InBody, AtArg, AtValue
  <1>4. \A j \in DOMAIN b : \E y \in Local : b[j] = L[y]
    BY <1>1, RestHead, ArgHead DEF AfterAtom
  <1> QED BY <1>1, <1>2, <1>3, <1>4 DEF IsObj

\* Whenever an allocation comes next, the operands are locals, or the argument
\* that the collector can reach.
LEMMA KeptOperands ==
  ASSUME NEW L \in Locals, NEW t \in Code, NEW o \in Operands, NEW K, InBody(L, t, o, K),
         t # <<>>, Head(t).op \in {"alloc", "data", "f64"},
         \A x \in Local : L[x] \in Addr => L[x] \in K
  PROVE  \A j \in DOMAIN o : o[j] \in Addr => o[j] \in K
  <1>1. CASE ExprAt(L, t, o)
    BY <1>1, ExprHead
  <1>2. CASE AtArg(L, t, o, K)
    <2>1. PICK b \in Operands, v \in Value : o = On(b, v) /\ Arg(L, t, b) /\ (v \in Addr => v \in K)
      BY <1>2 DEF AtArg
    <2>2. \A j \in DOMAIN o : (j \in DOMAIN b /\ o[j] = b[j]) \/ o[j] = v
      BY <2>1, Push
    <2>3. \A j \in DOMAIN b : \E x \in Local : b[j] = L[x]
      BY <2>1, ArgHead
    <2> QED BY <2>1, <2>2, <2>3
  <1> QED BY <1>1, <1>2, PointHead

\* An allocation pops its argument, if it has one, and pushes the value of the
\* expression.
LEMMA AllocPoint ==
  ASSUME NEW L \in Locals, NEW t \in Code, NEW o \in Operands, NEW K, InBody(L, t, o, K),
         t # <<>>, Head(t).op = "alloc"
  PROVE  \E b \in Operands :
            /\ \/ Head(t).n = 0 /\ o = b
               \/ Head(t).n = 1 /\ Head(t).c \in Cell /\ \E v \in Value : o = On(b, v)
            /\ \A j \in DOMAIN b : \E x \in Local : b[j] = L[x]
            /\ \A w \in Value : \A K2 : InBody(L, Tail(t), On(b, w), K2)
  <1>1. CASE ExprAt(L, t, o)
    <2>1. ~AtomAt(L, t, o)
      BY AtomHead
    <2>2. ~\E k \in Code, x \in Local : t = Then(Get(x), Then(Call, k))
      <3> SUFFICES ASSUME NEW k \in Code, NEW x \in Local, t = Then(Get(x), Then(Call, k))
                   PROVE  FALSE
        OBVIOUS
      <3>1. Then(Call, k) \in Code
        BY Cons, Instrs
      <3>2. Head(t) = Get(x)
        BY <3>1, Cons, Instrs
      <3> QED BY <3>2, Fields
    <2>3. ~\E s \in Code, x \in Local : t = Then(GetObj(x), s)
      BY Cons, Instrs, Fields
    <2>4. PICK k \in Code : Rest(L, k, o) /\ t = Then(Alloc, k)
      BY <1>1, <2>1, <2>2, <2>3 DEF ExprAt
    <2>5. Head(t).n = 0 /\ Tail(t) = k
      BY <2>4, Cons, Instrs, Fields
    <2>6. \A w \in Value : \A K2 : InBody(L, Tail(t), On(o, w), K2)
      BY <2>4, <2>5 DEF InBody, AtValue
    <2> QED BY <2>4, <2>5, <2>6, RestHead
  <1>2. CASE AtArg(L, t, o, K)
    <2>1. PICK b \in Operands, v \in Value : o = On(b, v) /\ Arg(L, t, b)
      BY <1>2 DEF AtArg
    <2>2. ~\E k \in Code, c \in Cell : t = Then(AllocData, Then(Store(c, "value"), k))
      <3> SUFFICES ASSUME NEW k \in Code, NEW c \in Cell,
                          t = Then(AllocData, Then(Store(c, "value"), k))
                   PROVE  FALSE
        OBVIOUS
      <3>1. Then(Store(c, "value"), k) \in Code
        BY Cons, Instrs
      <3> QED BY <3>1, Cons, Instrs, Fields
    <2>3. PICK k \in Code, c \in Cell : Rest(L, k, b) /\ t = Then(AllocWith(c), k)
      BY <2>1, <2>2 DEF Arg
    <2>4. Head(t).n = 1 /\ Head(t).c = c /\ Tail(t) = k
      BY <2>3, Cons, Instrs, Fields
    <2>5. \A w \in Value : \A K2 : InBody(L, Tail(t), On(b, w), K2)
      BY <2>3, <2>4 DEF InBody, AtValue
    <2> QED BY <2>1, <2>3, <2>4, <2>5, RestHead
  <1> QED BY <1>1, <1>2, PointHead

\* The data of an object are allocated between its operands and the store.
LEMMA DataPoint ==
  ASSUME NEW L \in Locals, NEW t \in Code, NEW o \in Operands, NEW K, InBody(L, t, o, K),
         t # <<>>, Head(t).op = "data"
  PROVE  \A K2 : InBody(L, Tail(t), o, K2)
  <1>1. PICK b \in Operands, v \in Value : o = On(b, v) /\ Arg(L, t, b)
    BY PointHead DEF AtArg
  <1>2. ~\E k \in Code, c \in Cell : t = Then(AllocWith(c), k)
    BY Cons, Instrs, Fields
  <1>3. PICK k \in Code, c \in Cell, x \in Local, d \in Operands :
          /\ Rest(L, k, d) /\ IsObj(L, x) /\ b = On(d, L[x])
          /\ t = Then(AllocData, Then(Store(c, "value"), k))
    BY <1>1, <1>2 DEF Arg
  <1>4. Then(Store(c, "value"), k) \in Code
    BY Cons, Instrs
  <1>5. Tail(t) = Then(Store(c, "value"), k)
    BY <1>3, <1>4, Cons, Instrs
  <1>6. AtWrite(L, Tail(t), o)
    BY <1>1, <1>3, <1>5 DEF AtWrite
  <1> QED BY <1>6 DEF InBody

\* A boxed float is an atom: an argument, or the value.
LEMMA F64Point ==
  ASSUME NEW L \in Locals, NEW t \in Code, NEW o \in Operands, NEW K, InBody(L, t, o, K),
         t # <<>>, Head(t).op = "f64"
  PROVE  \A K2 : InBody(L, Tail(t), On(o, Undef), K2)
  <1>0. Undef \in Value /\ Undef \notin Addr
    BY UndefAssumption DEF Value
  <1>1. ~\E k \in Code : t = Then(Alloc, k)
    BY Cons, Instrs, Fields
  <1>2. ~\E s \in Code, x \in Local : t = Then(Get(x), s) \/ t = Then(GetObj(x), s)
    BY Cons, Instrs, Fields
  <1>3. AtomAt(L, t, o)
    <2>1. \A k \in Code : Then(Call, k) \in Code
      BY Cons, Instrs
    <2> QED BY <1>1, <1>2, <2>1, PointHead DEF ExprAt
  <1>4. PICK r \in Code : AfterAtom(L, r, o) /\ t = Then(AllocF64, r)
    <2>1. \A c \in Cell, r \in Code : Then(Load(c), r) \in Code
      BY Cons, Instrs
    <2> QED BY <1>2, <1>3, <2>1 DEF AtomAt
  <1>5. Tail(t) = r
    BY <1>4, Cons, Instrs
  <1> QED BY <1>0, <1>4, <1>5 DEF InBody, AfterAtom, AtArg, AtValue

\* A store writes into a local that is an object.
LEMMA StorePoint ==
  ASSUME NEW L \in Locals, NEW t \in Code, NEW o \in Operands, NEW K, InBody(L, t, o, K),
         t # <<>>, Head(t).op = "store"
  PROVE  \E b \in Operands, x \in Local, v \in Value :
            /\ o = On(On(b, L[x]), v) /\ L[x] \in Addr /\ Head(t).c \in Cell
            /\ \A j \in DOMAIN b : \E y \in Local : b[j] = L[y]
            /\ \/ Head(t).keep = "value" /\ \A K2 : InBody(L, Tail(t), On(b, v), K2)
               \/ Head(t).keep = "nothing" /\ \A K2 : InBody(L, Tail(t), b, K2)
  <1>1. CASE AtWrite(L, t, o)
    <2>1. PICK x \in Local, c \in Cell, k \in Code, b \in Operands, v \in Value :
            /\ t = Then(Store(c, "value"), k) /\ o = On(On(b, L[x]), v)
            /\ IsObj(L, x) /\ Rest(L, k, b)
      BY <1>1 DEF AtWrite
    <2>2. Head(t) = Store(c, "value") /\ Tail(t) = k
      BY <2>1, Cons, Instrs
    <2>3. \A K2 : InBody(L, Tail(t), On(b, v), K2)
      BY <2>1, <2>2 DEF InBody, AtValue
    <2> QED BY <2>1, <2>2, <2>3, RestHead, Fields DEF IsObj
  <1>2. CASE AtValue(L, t, o) /\ Head(t).keep = "nothing"
    <2>1. PICK b \in Operands, v \in Value : o = On(b, v) /\ Rest(L, t, b)
      BY <1>2 DEF AtValue
    <2>2. t # <<Drop>>
      BY Short, Instrs, Fields
    <2>3. ~\E x \in Local : t = <<TeeLocal(x), SetSlot(x)>>
      BY Short, Instrs, Fields
    <2>4. PICK x \in Local, c \in Cell : b = <<L[x]>> /\ IsObj(L, x) /\ t = <<Store(c, "nothing")>>
      BY <2>1, <2>2, <2>3 DEF Rest
    <2>5. Head(t) = Store(c, "nothing") /\ Tail(t) = <<>>
      BY <2>4, Short, Instrs
    <2>6. b = On(<<>>, L[x]) /\ <<>> \in Operands
      BY <2>4, One DEF Locals
    <2>7. \A K2 : InBody(L, Tail(t), <<>>, K2)
      BY <2>5 DEF InBody, Idle
    <2> QED BY <1>2, <2>1, <2>4, <2>5, <2>6, <2>7, Fields DEF IsObj
  <1> QED BY <1>1, <1>2, PointHead

\* An expression statement ends with nothing on the stack.
LEMMA DropPoint ==
  ASSUME NEW L \in Locals, NEW t \in Code, NEW o \in Operands, NEW K, InBody(L, t, o, K),
         t # <<>>, Head(t).op = "drop"
  PROVE  \E v \in Value : o = On(<<>>, v) /\ Tail(t) = <<>>
  <1>1. PICK b \in Operands, v \in Value : o = On(b, v) /\ Rest(L, t, b)
    BY PointHead DEF AtValue
  <1>2. ~\E x \in Local : t = <<TeeLocal(x), SetSlot(x)>>
    BY Short, Instrs, Fields
  <1>3. ~\E c \in Cell : t = <<Store(c, "nothing")>>
    BY Short, Instrs, Fields
  <1>4. b = <<>> /\ t = <<Drop>>
    BY <1>1, <1>2, <1>3 DEF Rest
  <1> QED BY <1>1, <1>4, Short, Instrs

\* A local is set, and its slot comes next.
LEMMA TeePoint ==
  ASSUME NEW L \in Locals, NEW t \in Code, NEW o \in Operands, NEW K, InBody(L, t, o, K),
         t # <<>>, Head(t).op = "tee"
  PROVE  /\ Head(t).x \in Local /\ Tail(t) = <<SetSlot(Head(t).x)>>
         /\ \E v \in Value : o = On(<<>>, v)
  <1>1. PICK b \in Operands, v \in Value : o = On(b, v) /\ Rest(L, t, b)
    BY PointHead DEF AtValue
  <1>2. t # <<Drop>>
    BY Short, Instrs, Fields
  <1>3. ~\E c \in Cell : t = <<Store(c, "nothing")>>
    BY Short, Instrs, Fields
  <1>4. PICK x \in Local : b = <<>> /\ t = <<TeeLocal(x), SetSlot(x)>>
    BY <1>1, <1>2, <1>3 DEF Rest
  <1>5. Head(t) = TeeLocal(x) /\ Tail(t) = <<SetSlot(x)>>
    BY <1>4, Short, Instrs
  <1> QED BY <1>1, <1>4, <1>5, Fields

\* The slot that is set is the slot of the local that holds the operand.
LEMMA SlotPoint ==
  ASSUME NEW L \in Locals, NEW t \in Code, NEW o \in Operands, NEW K, InBody(L, t, o, K),
         t # <<>>, Head(t).op = "slot"
  PROVE  \E x \in Local : Head(t) = SetSlot(x) /\ o = On(<<>>, L[x]) /\ Tail(t) = <<>>
  <1>1. PICK x \in Local : t = <<SetSlot(x)>> /\ o = <<L[x]>>
    BY PointHead DEF AtSlot
  <1>2. o = On(<<>>, L[x])
    BY <1>1, One DEF Locals
  <1> QED BY <1>1, <1>2, Short, Instrs

\* The argument of a call is a local of the caller, which then waits for a value.
LEMMA CallPoint ==
  ASSUME NEW L \in Locals, NEW t \in Code, NEW o \in Operands, NEW K, InBody(L, t, o, K),
         t # <<>>, Head(t).op = "call"
  PROVE  \E b \in Operands, x \in Local : o = On(b, L[x]) /\ Rest(L, Tail(t), b)
  <1>1. PICK x \in Local, k \in Code, b \in Operands :
          t = Then(Call, k) /\ o = On(b, L[x]) /\ Rest(L, k, b)
    BY PointHead DEF AtCall
  <1> QED BY <1>1, Cons, Instrs

-----------------------------------------------------------------------------
(* A statement that begins is at one of the points.                          *)

\* The object locals of a statement that begins are objects.
Promised(L, s) == \A i \in DOMAIN s : s[i].op = "get" => (s[i].obj => L[s[i].x] \in Addr)

\* What holds of code holds of what follows its first instruction.
LEMMA PromisedThen ==
  ASSUME NEW L, NEW i \in Instr, NEW t \in Code, Promised(L, Then(i, t))
  PROVE  Promised(L, t) /\ (\A x \in Local : i = GetObj(x) => IsObj(L, x))
  <1>1. /\ DOMAIN Then(i, t) = 1 .. Len(t) + 1 /\ DOMAIN t = 1 .. Len(t) /\ Len(t) \in Nat
        /\ Then(i, t)[1] = i /\ \A j \in 1 .. Len(t) : Then(i, t)[j + 1] = t[j]
    BY DEF Then, Code
  <1>2. Promised(L, t)
    BY <1>1 DEF Promised
  <1>3. ASSUME NEW x \in Local, i = GetObj(x) PROVE IsObj(L, x)
    <2>1. Then(i, t)[1] = GetObj(x) /\ 1 \in DOMAIN Then(i, t)
      BY <1>1, <1>3
    <2> QED BY <2>1, Fields DEF Promised, IsObj
  <1> QED BY <1>2, <1>3

\* Concatenation of code.
LEMMA Concat ==
  ASSUME NEW s \in Code, NEW t \in Code, NEW u \in Code
  PROVE  s \o t \in Code /\ (s \o t) \o u = s \o (t \o u)
  <1>1. s \in Seq(Instr) /\ t \in Seq(Instr) /\ u \in Seq(Instr)
    BY DEF Code
  <1>2. s \o t \in Seq(Instr)
    BY <1>1, ConcatProperties
  <1>3. (s \o t) \o u = s \o (t \o u)
    BY <1>1, ConcatAssociative
  <1> QED BY <1>2, <1>3 DEF Code

\* An instruction before t, as code that runs one after the other.
LEMMA Unfold1 ==
  ASSUME NEW i \in Instr, NEW t \in Code
  PROVE  <<i>> \in Code /\ <<i>> \o t = Then(i, t) /\ <<i>> \o t \in Code
  <1>1. <<i>> \in Code
    BY Short
  <1>2. <<i>> \o t = Then(i, t)
    BY DEF Then
  <1> QED BY <1>1, <1>2, Cons

\* Two instructions before t.
LEMMA Unfold2 ==
  ASSUME NEW i \in Instr, NEW j \in Instr, NEW t \in Code
  PROVE  <<i, j>> \in Code /\ <<i, j>> \o t = Then(i, Then(j, t)) /\ <<i, j>> \o t \in Code
  <1>1. <<i>> \in Code /\ <<j>> \in Code /\ <<i, j>> \in Code
    BY Short
  <1>2. <<i, j>> = <<i>> \o <<j>>
    <2> DEFINE u == <<i>> \o <<j>>
               w == <<i, j>>
    <2>1. u \in Seq(Instr) /\ Len(u) = 2 /\ u[1] = i /\ u[2] = j
      OBVIOUS
    <2>2. w \in Seq(Instr) /\ Len(w) = 2 /\ w[1] = i /\ w[2] = j
      OBVIOUS
    <2> HIDE DEF u, w
    <2>3. u = w
      BY <2>1, <2>2, SeqEqual
    <2> QED BY <2>3 DEF u, w
  <1>3. (<<i>> \o <<j>>) \o t = <<i>> \o (<<j>> \o t)
    <2> DEFINE u == <<i>>
               w == <<j>>
    <2>1. u \in Code /\ w \in Code
      BY <1>1, Zenon
    <2> HIDE DEF u, w
    <2>2. (u \o w) \o t = u \o (w \o t)
      BY <2>1, Concat, ZenonT(40)
    <2> QED BY <2>2, Zenon DEF u, w
  <1>4. <<j>> \o t = Then(j, t) /\ Then(j, t) \in Code
    BY Unfold1
  <1>5. <<i>> \o Then(j, t) = Then(i, Then(j, t)) /\ <<i>> \o Then(j, t) \in Code
    BY <1>4, Unfold1
  <1>6. <<i, j>> \o t = <<i>> \o Then(j, t)
    BY <1>2, <1>3, <1>4, Zenon
  <1> QED BY <1>1, <1>5, <1>6, Zenon

\* An atom followed by r.
LEMMA AtomCode ==
  ASSUME NEW L, NEW a \in Atoms, NEW r \in Code, NEW b, AfterAtom(L, r, b), Promised(L, a \o r)
  PROVE  a \in Code /\ a \o r \in Code /\ AtomAt(L, a \o r, b)
  <1>1. CASE \E x \in Local : a = <<Get(x)>>
    <2>1. PICK x \in Local : a = <<Get(x)>>
      BY <1>1
    <2>2. a \in Code /\ a \o r = Then(Get(x), r) /\ a \o r \in Code
      BY <2>1, Unfold1, Instrs, Zenon
    <2> QED BY <2>2 DEF AtomAt
  <1>2. CASE \E x \in Local, c \in Cell : a = <<GetObj(x), Load(c)>>
    <2>1. PICK x \in Local, c \in Cell : a = <<GetObj(x), Load(c)>>
      BY <1>2
    <2>2. a \in Code /\ a \o r = Then(GetObj(x), Then(Load(c), r)) /\ a \o r \in Code
      <3>1. GetObj(x) \in Instr /\ Load(c) \in Instr
        BY Instrs
      <3> QED BY <2>1, <3>1, Unfold2, Zenon
    <2>3. Then(Load(c), r) \in Code
      BY Cons, Instrs
    <2>4. IsObj(L, x)
      BY <2>2, <2>3, PromisedThen, Instrs
    <2> QED BY <2>2, <2>4 DEF AtomAt
  <1>3. CASE a = <<AllocF64>>
    <2>1. a \in Code /\ a \o r = Then(AllocF64, r) /\ a \o r \in Code
      BY <1>3, Unfold1, Instrs, Zenon
    <2> QED BY <2>1 DEF AtomAt
  <1> QED BY <1>1, <1>2, <1>3 DEF Atoms

\* An expression of one of the safe kinds followed by k.
LEMMA ExprCodePoint ==
  ASSUME Exprs \subseteq SafeExprs, NEW L \in Locals, NEW e \in ExprCode,
         NEW k \in Code, NEW b \in Operands, Rest(L, k, b), Promised(L, e \o k)
  PROVE  e \in Code /\ e \o k \in Code /\ ExprAt(L, e \o k, b)
  <1>0. /\ \A x \in Local : L[x] \in Value
        /\ \A a \in Atoms : a \in Code
    <2>1. \A a \in Atoms : a \in Code
      <3>1. \A x \in Local : <<Get(x)>> \in Code
        BY Short, Instrs
      <3>2. \A x \in Local, c \in Cell : <<GetObj(x), Load(c)>> \in Code
        BY Short, Instrs
      <3>3. <<AllocF64>> \in Code
        BY Short, Instrs
      <3> QED BY <3>1, <3>2, <3>3 DEF Atoms
    <2> QED BY <2>1 DEF Locals
  <1>1. CASE e \in Atoms
    BY <1>1, AtomCode DEF ExprAt, AfterAtom
  <1>2. CASE e \in PrimCall
    <2>1. e = <<Alloc>>
      BY <1>2 DEF PrimCall
    <2>2. e \in Code /\ e \o k = Then(Alloc, k) /\ e \o k \in Code
      BY <2>1, Unfold1, Instrs, Zenon
    <2> QED BY <2>2 DEF ExprAt
  <1>3. CASE e \in NewRef
    <2>1. PICK a \in Atoms, c \in Cell : e = a \o <<AllocWith(c)>>
      BY <1>3 DEF NewRef
    <2> DEFINE r == Then(AllocWith(c), k)
    <2>2. r \in Code /\ <<AllocWith(c)>> \in Code /\ <<AllocWith(c)>> \o k = r
      BY Unfold1, Instrs, ZenonT(40)
    <2>3. e \o k = a \o r /\ e \in Code
      <3> DEFINE w == <<AllocWith(c)>>
      <3>1. w \in Code /\ a \in Code /\ w \o k = r /\ e = a \o w
        BY <1>0, <2>1, <2>2, Zenon
      <3> HIDE DEF w, r
      <3>2. (a \o w) \o k = a \o (w \o k) /\ a \o w \in Code
        BY <3>1, Concat, Zenon
      <3> QED BY <3>1, <3>2, Zenon
    <2>4. AfterAtom(L, r, b)
      BY DEF AfterAtom, Arg
    <2> HIDE DEF r
    <2> QED BY <2>2, <2>3, <2>4, AtomCode DEF ExprAt
  <1>4. CASE e \in ObjectSet
    <2>1. PICK x \in Local, a \in Atoms, c \in Cell : e = SetCode(x, a, c)
      BY <1>4 DEF ObjectSet
    <2> DEFINE w == <<AllocData, Store(c, "value")>>
               r == Then(AllocData, Then(Store(c, "value"), k))
    <2>2. w \in Code /\ w \o k = r /\ r \in Code /\ <<GetObj(x)>> \in Code
      <3>1. AllocData \in Instr /\ Store(c, "value") \in Instr /\ GetObj(x) \in Instr
        BY Instrs
      <3>2. w \in Code /\ w \o k = r /\ w \o k \in Code
        BY <3>1, Unfold2, Zenon
      <3>3. <<GetObj(x)>> \in Code
        BY <3>1, Unfold1, Zenon
      <3> QED BY <3>2, <3>3, Zenon
    <2>3. e = (<<GetObj(x)>> \o a) \o w
      BY <2>1, Zenon DEF SetCode
    <2> HIDE DEF w
    <2>4. e \in Code /\ e \o k = <<GetObj(x)>> \o (a \o r) /\ a \o r \in Code
      <3>1. <<GetObj(x)>> \o a \in Code
        BY <1>0, <2>2, Concat, Zenon
      <3>2. e \o k = (<<GetObj(x)>> \o a) \o r
        <4>1. ((<<GetObj(x)>> \o a) \o w) \o k = (<<GetObj(x)>> \o a) \o (w \o k)
          BY <2>2, <3>1, Concat, Zenon
        <4> QED BY <2>2, <2>3, <4>1, Zenon
      <3>3. (<<GetObj(x)>> \o a) \o r = <<GetObj(x)>> \o (a \o r) /\ a \o r \in Code
        BY <1>0, <2>2, Concat, ZenonT(40)
      <3> QED BY <2>2, <2>3, <3>1, <3>2, <3>3, Concat, Zenon
    <2>5. e \o k = Then(GetObj(x), a \o r) /\ e \o k \in Code
      BY <2>4, Unfold1, Instrs, Zenon
    <2>6. Promised(L, a \o r) /\ IsObj(L, x)
      BY <2>4, <2>5, PromisedThen, Instrs
    <2>7. AfterAtom(L, r, On(b, L[x]))
      BY <2>6 DEF AfterAtom, Arg
    <2>8. AtomAt(L, a \o r, On(b, L[x]))
      BY <2>2, <2>6, <2>7, AtomCode
    <2> QED BY <2>4, <2>5, <2>6, <2>8 DEF ExprAt
  <1>5. CASE e \in CallExpr
    <2>1. PICK x \in Local : e = <<Get(x), Call>>
      BY <1>5 DEF CallExpr
    <2>2. e \in Code /\ e \o k = Then(Get(x), Then(Call, k)) /\ e \o k \in Code
      <3>1. Get(x) \in Instr /\ Call \in Instr
        BY Instrs
      <3> QED BY <2>1, <3>1, Unfold2, Zenon
    <2> QED BY <2>2 DEF ExprAt
  <1> QED BY <1>1, <1>2, <1>3, <1>4, <1>5 DEF ExprCode, SafeExprs

\* The expressions are code.
LEMMA ExprIsCode ==
  ASSUME Exprs \subseteq SafeExprs, NEW e \in ExprCode
  PROVE  e \in Code
  <1>1. \A a \in Atoms : a \in Code
    <2>1. \A x \in Local : <<Get(x)>> \in Code
      BY Short, Instrs
    <2>2. \A x \in Local, c \in Cell : <<GetObj(x), Load(c)>> \in Code
      BY Short, Instrs
    <2>3. <<AllocF64>> \in Code
      BY Short, Instrs
    <2> QED BY <2>1, <2>2, <2>3 DEF Atoms
  <1>2. CASE e \in PrimCall
    BY <1>2, Short, Instrs DEF PrimCall
  <1>3. CASE e \in NewRef
    <2>1. PICK a \in Atoms, c \in Cell : e = a \o <<AllocWith(c)>>
      BY <1>3 DEF NewRef
    <2>2. <<AllocWith(c)>> \in Code
      BY Short, Instrs
    <2> QED BY <1>1, <2>1, <2>2, Concat, Zenon
  <1>4. CASE e \in ObjectSet
    <2>1. ASSUME NEW x \in Local, NEW a \in Atoms, NEW c \in Cell
          PROVE  SetCode(x, a, c) \in Code
      <3>1. <<GetObj(x)>> \in Code /\ <<AllocData, Store(c, "value")>> \in Code
        <4>1. GetObj(x) \in Instr /\ AllocData \in Instr /\ Store(c, "value") \in Instr
          BY Instrs
        <4> QED BY <4>1, Short, Zenon
      <3>2. <<GetObj(x)>> \o a \in Code
        BY <1>1, <3>1, Concat, Zenon
      <3> QED BY <3>1, <3>2, Concat, Zenon DEF SetCode
    <2> QED BY <1>4, <2>1 DEF ObjectSet
  <1>5. CASE e \in CallExpr
    <2>1. PICK x \in Local : e = <<Get(x), Call>>
      BY <1>5 DEF CallExpr
    <2>2. Get(x) \in Instr /\ Call \in Instr
      BY Instrs
    <2> QED BY <2>1, <2>2, Short, Zenon
  <1> QED BY <1>1, <1>2, <1>3, <1>4, <1>5 DEF ExprCode, SafeExprs

\* Short code put together.
LEMMA Tuples ==
  ASSUME NEW i, NEW j, NEW k, NEW l
  PROVE  /\ <<i>> \o <<j>> \o <<l>> = <<i, j, l>>
         /\ <<i>> \o <<j, k>> \o <<l>> = <<i, j, k, l>>
  <1> DEFINE S == {i, j, k, l}
             u == <<i>> \o <<j>> \o <<l>>
             w == <<i, j, l>>
             p == <<i>> \o <<j, k>> \o <<l>>
             q == <<i, j, k, l>>
  <1>1. /\ u \in Seq(S) /\ Len(u) = 3 /\ u[1] = i /\ u[2] = j /\ u[3] = l
        /\ w \in Seq(S) /\ Len(w) = 3 /\ w[1] = i /\ w[2] = j /\ w[3] = l
    OBVIOUS
  <1>2. /\ p \in Seq(S) /\ Len(p) = 4 /\ p[1] = i /\ p[2] = j /\ p[3] = k /\ p[4] = l
        /\ q \in Seq(S) /\ Len(q) = 4 /\ q[1] = i /\ q[2] = j /\ q[3] = k /\ q[4] = l
    OBVIOUS
  <1> HIDE DEF S, u, w, p, q
  <1>3. u = w
    BY <1>1, SeqEqual
  <1>4. p = q
    BY <1>2, SeqEqual
  <1> QED BY <1>3, <1>4 DEF u, w, p, q

\* Every statement that may begin is at one of the points, with no operands; the
\* returns are those that begin with gc_exit_fn.
LEMMA BeginPoint ==
  ASSUME Exprs \subseteq SafeExprs, NEW L \in Locals, NEW s \in Stmts, Promised(L, s)
  PROVE  /\ s \in Code
         /\ \/ \A K : InBody(L, s, <<>>, K)
            \/ AtExit(L, s, <<>>) /\ Head(s) = GcExitFn
  <1>0. <<>> \in Operands /\ \A x \in Local : L[x] \in Value /\ <<L[x]>> \in Operands
    BY One DEF Locals, Operands
  <1>1. ASSUME NEW e \in ExprCode, NEW x \in Local, s = e \o SetLocal(x)
        PROVE  s \in Code /\ \A K : InBody(L, s, <<>>, K)
    <2> DEFINE k == SetLocal(x)
    <2>1. k \in Code /\ Rest(L, k, <<>>)
      BY Short, Instrs DEF Rest, SetLocal
    <2>2. s = e \o k
      BY <1>1
    <2> HIDE DEF k
    <2> QED BY <1>0, <2>1, <2>2, ExprCodePoint DEF InBody
  <1>2. ASSUME NEW e \in ExprCode, s = e \o <<Drop>>
        PROVE  s \in Code /\ \A K : InBody(L, s, <<>>, K)
    <2> DEFINE k == <<Drop>>
    <2>1. k \in Code /\ Rest(L, k, <<>>)
      BY Short, Instrs DEF Rest
    <2>2. s = e \o k
      BY <1>2
    <2> HIDE DEF k
    <2> QED BY <1>0, <2>1, <2>2, ExprCodePoint DEF InBody
  <1>3. ASSUME NEW x \in Local, NEW e \in ExprCode, NEW c \in Cell,
               s = StoreCode(x, e, c)
        PROVE  s \in Code /\ \A K : InBody(L, s, <<>>, K)
    <2> DEFINE k == <<Store(c, "nothing")>>
    <2>1. k \in Code
      BY Short, Instrs
    <2>2. s = (<<GetObj(x)>> \o e) \o k /\ e \in Code /\ <<GetObj(x)>> \in Code
      <3>1. s = (<<GetObj(x)>> \o e) \o k
        BY <1>3, Zenon DEF StoreCode
      <3>2. e \in Code /\ <<GetObj(x)>> \in Code
        BY ExprIsCode, Short, Instrs
      <3> QED BY <3>1, <3>2, Zenon
    <2>3. IsObj(L, x) => Rest(L, k, <<L[x]>>)
      BY DEF Rest
    <2> HIDE DEF k
    <2>4. e \o k \in Code /\ s = <<GetObj(x)>> \o (e \o k)
      BY <2>1, <2>2, Concat, Zenon
    <2>5. s = Then(GetObj(x), e \o k) /\ s \in Code
      BY <2>4, Unfold1, Instrs, Zenon
    <2>6. Promised(L, e \o k) /\ IsObj(L, x)
      BY <2>4, <2>5, PromisedThen, Instrs
    <2>7. ExprAt(L, e \o k, <<L[x]>>)
      BY <1>0, <2>1, <2>3, <2>6, ExprCodePoint
    <2>8. AtStore(L, s, <<>>)
      BY <2>4, <2>5, <2>6, <2>7 DEF AtStore
    <2> QED BY <2>5, <2>8 DEF InBody
  <1>4. ASSUME NEW a \in Atoms, s = <<GcExitFn>> \o a \o <<Return>>
        PROVE  s \in Code /\ AtExit(L, s, <<>>) /\ Head(s) = GcExitFn
    <2>1. CASE \E x \in Local : a = <<Get(x)>>
      <3>1. PICK x \in Local : a = <<Get(x)>>
        BY <2>1
      <3>2. s = <<GcExitFn, Get(x), Return>>
        BY <1>4, <3>1, Tuples, Zenon
      <3>3. s \in Code /\ Head(s) = GcExitFn
        <4>1. GcExitFn \in Instr /\ Return \in Instr /\ Get(x) \in Instr
          BY Instrs
        <4> QED BY <3>2, <4>1, Short, ZenonT(40)
      <3> QED BY <3>2, <3>3 DEF AtExit
    <2>2. CASE \E x \in Local, c \in Cell : a = <<GetObj(x), Load(c)>>
      <3>1. PICK x \in Local, c \in Cell : a = <<GetObj(x), Load(c)>>
        BY <2>2
      <3>2. s = <<GcExitFn, GetObj(x), Load(c), Return>>
        BY <1>4, <3>1, Tuples, Zenon
      <3>3. s \in Code /\ Head(s) = GcExitFn
        <4>1. GcExitFn \in Instr /\ Return \in Instr /\ GetObj(x) \in Instr /\ Load(c) \in Instr
          BY Instrs
        <4> DEFINE g == GetObj(x)
                   l == Load(c)
        <4> HIDE DEF g, l
        <4>2. g \in Instr /\ l \in Instr /\ s = <<GcExitFn, g, l, Return>>
          BY <3>2, <4>1 DEF g, l
        <4>3. s \in Code
          BY <4>1, <4>2 DEF Code
        <4>4. Head(s) = GcExitFn
          BY <4>2
        <4> QED BY <4>3, <4>4
      <3>4. IsObj(L, x)
        <4>1. 2 \in DOMAIN s /\ s[2] = GetObj(x)
          BY <3>2
        <4> QED BY <4>1, Fields DEF Promised, IsObj
      <3> QED BY <3>2, <3>3, <3>4 DEF AtExit
    <2>3. CASE a = <<AllocF64>>
      <3>2. s = <<GcExitFn, AllocF64, Return>>
        BY <1>4, <2>3, Tuples, Zenon
      <3>3. s \in Code /\ Head(s) = GcExitFn
        <4>1. GcExitFn \in Instr /\ Return \in Instr /\ AllocF64 \in Instr
          BY Instrs
        <4> QED BY <3>2, <4>1, Short, ZenonT(40)
      <3> QED BY <3>2, <3>3 DEF AtExit
    <2> QED BY <2>1, <2>2, <2>3 DEF Atoms
  <1> DEFINE G(z) == z = s => \/ s \in Code /\ \A K : InBody(L, s, <<>>, K)
                              \/ s \in Code /\ AtExit(L, s, <<>>) /\ Head(s) = GcExitFn
  <1>5. /\ \A e \in ExprCode, x \in Local : G(e \o SetLocal(x))
        /\ \A e \in ExprCode : G(e \o <<Drop>>)
        /\ \A x \in Local, e \in ExprCode, c \in Cell :
              G(StoreCode(x, e, c))
        /\ \A a \in Atoms : G(<<GcExitFn>> \o a \o <<Return>>)
    BY <1>1, <1>2, <1>3, <1>4, Zenon
  <1> HIDE DEF G
  <1>6. G(s)
    <2> DEFINE V(e, x) == e \o SetLocal(x)
               A == {V(e, x) : e \in ExprCode, x \in Local}
               B == {e \o <<Drop>> : e \in ExprCode}
               C == {StoreCode(x, e, c) : x \in Local, e \in ExprCode, c \in Cell}
               D == {<<GcExitFn>> \o a \o <<Return>> : a \in Atoms}
    <2>0. \A e \in ExprCode, x \in Local : G(V(e, x))
      BY <1>5, Zenon
    <2> HIDE DEF V
    <2>1. s \in A => G(s)
      BY <2>0
    <2>2. s \in B => G(s)
      BY <1>5
    <2>3. s \in C => G(s)
      BY <1>5
    <2>4. s \in D => G(s)
      BY <1>5
    <2>5. s \in A \cup B \cup C \cup D
      BY DEF Stmts, V
    <2> HIDE DEF A, B, C, D
    <2> QED BY <2>1, <2>2, <2>3, <2>4, <2>5
  <1> QED BY <1>6, Zenon DEF G

-----------------------------------------------------------------------------
(* What the collector reaches and keeps.                                     *)

\* The shadow stack is reached, and what reached objects point to.
LEMMA Reached ==
  ASSUME heap \in [Addr -> [Cell -> Value] \cup {Free}]
  PROVE  /\ Roots \subseteq ReachFrom(Roots)
         /\ \A a \in ReachFrom(Roots), c \in Cell :
              heap[a] # Free /\ heap[a][c] \in Addr => heap[a][c] \in ReachFrom(Roots)
  <1>1. Roots \subseteq Addr
    BY DEF Roots, Pointers
  <1>2. Roots \subseteq ReachFrom(Roots)
    BY <1>1 DEF ReachFrom, Closed
  <1>3. ASSUME NEW a \in ReachFrom(Roots), NEW c \in Cell, heap[a] # Free, heap[a][c] \in Addr,
               NEW S \in SUBSET Addr, Closed(Roots, S)
        PROVE  heap[a][c] \in S
    <2>1. a \in Addr /\ a \in S
      BY <1>3 DEF ReachFrom
    <2>2. heap[a] \in [Cell -> Value]
      BY <1>3, <2>1
    <2>3. heap[a][c] \in Range(heap[a])
      BY <2>2 DEF Range
    <2>4. Pointers(Range(heap[a])) \subseteq S
      BY <1>3, <2>1 DEF Closed
    <2> QED BY <1>3, <2>3, <2>4 DEF Pointers
  <1> QED BY <1>2, <1>3 DEF ReachFrom

\* Everything that is reached is an object.
LEMMA ReachedAlive ==
  ASSUME heap \in [Addr -> [Cell -> Value] \cup {Free}], shadow \in Seq(Locals),
         SlotsAlive, CellsAlive(heap)
  PROVE  \A a \in ReachFrom(Roots) : a \in Addr /\ heap[a] # Free
  <1> DEFINE S == {a \in Addr : heap[a] # Free}
  <1>1. Roots \subseteq S
    <2> SUFFICES ASSUME NEW a \in Roots PROVE a \in S
      OBVIOUS
    <2>1. a \in Addr
      BY DEF Roots, Pointers
    <2>2. PICK f \in DOMAIN shadow : a \in Range(shadow[f])
      BY DEF Roots, Pointers
    <2>3. shadow[f] \in [Local -> Value]
      BY DEF Locals
    <2>4. PICK x \in Local : shadow[f][x] = a
      BY <2>2, <2>3 DEF Range
    <2> QED BY <2>1, <2>4 DEF SlotsAlive, Alive
  <1>2. ASSUME NEW a \in S PROVE Pointers(Range(heap[a])) \subseteq S
    <2>1. a \in Addr /\ heap[a] # Free /\ heap[a] \in [Cell -> Value]
      BY <1>2
    <2> SUFFICES ASSUME NEW b \in Pointers(Range(heap[a])) PROVE b \in S
      OBVIOUS
    <2>2. PICK c \in Cell : heap[a][c] = b
      BY <2>1 DEF Pointers, Range
    <2> QED BY <2>1, <2>2 DEF CellsAlive, Alive, Pointers
  <1>3. Closed(Roots, S)
    BY <1>1, <1>2 DEF Closed
  <1> QED BY <1>3 DEF ReachFrom

\* A collection keeps what is reached, and what it keeps points to what it keeps.
LEMMA GcKeeps ==
  ASSUME heap \in [Addr -> [Cell -> Value] \cup {Free}], shadow \in Seq(Locals),
         SlotsAlive, CellsAlive(heap), NEW h \in {heap, Collected(Roots)}
  PROVE  /\ h \in [Addr -> [Cell -> Value] \cup {Free}]
         /\ \A a \in ReachFrom(Roots) : h[a] # Free
         /\ CellsAlive(h)
  <1>1. CASE h = heap
    BY <1>1, ReachedAlive
  <1>2. CASE h = Collected(Roots)
    <2>1. h \in [Addr -> [Cell -> Value] \cup {Free}]
      BY <1>2 DEF Collected
    <2>2. \A a \in Addr : h[a] = IF a \in ReachFrom(Roots) THEN heap[a] ELSE Free
      BY <1>2 DEF Collected
    <2>3. \A a \in ReachFrom(Roots) : h[a] # Free
      BY <2>2, ReachedAlive
    <2>4. ASSUME NEW a \in Addr, h[a] # Free, NEW c \in Cell, h[a][c] \in Addr
          PROVE  h[h[a][c]] # Free
      <3>1. a \in ReachFrom(Roots) /\ h[a] = heap[a]
        BY <2>2, <2>4
      <3>2. heap[a][c] \in ReachFrom(Roots)
        BY <2>4, <3>1, Reached
      <3> QED BY <2>3, <3>1, <3>2
    <2> QED BY <2>1, <2>3, <2>4 DEF CellsAlive, Alive
  <1> QED BY <1>1, <1>2

-----------------------------------------------------------------------------
(* Consequences of the invariant.                                            *)

\* The shapes of the two stacks.
LEMMA Shape ==
  ASSUME Inv
  PROVE  /\ Depth \in Nat /\ Depth >= 1 /\ DOMAIN stack = 1 .. Depth
         /\ Len(shadow) \in Nat /\ Len(shadow) <= Depth /\ Len(shadow) >= Depth - 1
         /\ DOMAIN shadow = 1 .. Len(shadow)
         /\ \A i \in DOMAIN shadow : shadow[i] \in Locals
         /\ \A i \in 1 .. Depth : /\ stack[i] \in Activation /\ stack[i].locals \in Locals
                                  /\ stack[i].ops \in Operands /\ stack[i].todo \in Code
         /\ Cur = stack[Depth]
  <1>1. stack \in Seq(Activation) /\ stack # <<>> /\ shadow \in Seq(Locals)
    BY DEF Inv, StateOK
  <1>2. Depth \in Nat /\ Depth >= 1 /\ DOMAIN stack = 1 .. Depth
    BY <1>1 DEF Depth
  <1>3. Len(shadow) \in Nat /\ DOMAIN shadow = 1 .. Len(shadow) /\ \A i \in DOMAIN shadow : shadow[i] \in Locals
    BY <1>1
  <1>4. Len(shadow) <= Depth /\ Len(shadow) >= Depth - 1
    <2>1. Len(shadow) = Depth \/ Len(shadow) = Depth - 1
      BY Zenon DEF Inv, PointInv
    <2>2. Depth \in Nat /\ Depth >= 1 /\ Len(shadow) \in Nat
      BY <1>2, <1>3
    <2> QED BY <2>1, <2>2
  <1>5. \A i \in 1 .. Depth : stack[i] \in Activation
    BY <1>1, <1>2
  <1> QED BY <1>2, <1>3, <1>4, <1>5 DEF Activation, Cur

\* A local of a function that has a shadow frame is rooted, unless its slot is
\* the next thing to be set.
LEMMA LocalRooted ==
  ASSUME Inv, NEW i \in DOMAIN shadow, NEW x \in Local, stack[i].locals[x] \in Addr,
         ~(i = Depth /\ Cur.todo # <<>> /\ Here = SetSlot(x))
  PROVE  /\ stack[i].locals[x] \in Roots
         /\ \E j \in 1 .. i, y \in Local : shadow[j][y] = stack[i].locals[x]
  <1>1. PICK j \in 1 .. i, y \in Local : shadow[j][y] = stack[i].locals[x]
    <2>1. i \in 1 .. i /\ \A j \in 1 .. i - 1 : j \in 1 .. i
      BY Shape
    <2> QED BY <2>1 DEF Inv, MirrorInv
  <1>2. j \in DOMAIN shadow /\ shadow[j] \in [Local -> Value]
    BY Shape DEF Locals
  <1>3. shadow[j][y] \in Range(shadow[j])
    BY <1>2 DEF Range
  <1>4. stack[i].locals[x] \in Roots
    BY <1>1, <1>2, <1>3 DEF Roots, Pointers
  <1> QED BY <1>1, <1>4

\* The operands of a function that has called are rooted.
LEMMA CallerRooted ==
  ASSUME Inv, NEW i \in 1 .. Depth - 1, NEW j \in DOMAIN stack[i].ops, stack[i].ops[j] \in Addr
  PROVE  stack[i].ops[j] \in Roots
  <1>1. Rest(stack[i].locals, stack[i].todo, stack[i].ops) /\ stack[i].locals \in Locals
    BY Shape DEF Inv, PointInv
  <1>2. PICK x \in Local : stack[i].ops[j] = stack[i].locals[x]
    BY <1>1, RestHead
  <1>3. i \in DOMAIN shadow /\ i # Depth
    BY Shape
  <1> QED BY <1>2, <1>3, LocalRooted

-----------------------------------------------------------------------------
(* A step of the running function that sets no local and no slot.            *)

\* A function is a caller or it is the one that runs.
LEMMA Below ==
  ASSUME NEW d \in Nat, NEW i \in 1 .. d
  PROVE  i = d \/ i \in 1 .. d - 1
  OBVIOUS

\* The callers are not the function that runs.
LEMMA Callers ==
  ASSUME NEW d \in Nat, NEW i \in 1 .. d - 1
  PROVE  i \in 1 .. d /\ i # d
  OBVIOUS

\* The instructions that are left when one is done.
LEMMA TailOf ==
  ASSUME NEW t \in Code, t # <<>>
  PROVE  /\ Tail(t) \in Code
         /\ \A j \in DOMAIN Tail(t) : j + 1 \in DOMAIN t /\ Tail(t)[j] = t[j + 1]
  <1>1. /\ Tail(t) \in Seq(Instr) /\ Len(Tail(t)) = Len(t) - 1 /\ Len(t) \in Nat
        /\ \A j \in 1 .. Len(Tail(t)) : Tail(t)[j] = t[j + 1]
    BY HeadTailProperties DEF Code
  <1>2. DOMAIN t = 1 .. Len(t) /\ DOMAIN Tail(t) = 1 .. Len(Tail(t))
    BY <1>1 DEF Code
  <1> QED BY <1>1, <1>2 DEF Code

\* What Does(n, new) makes of the stack.
LEMMA DoesTop ==
  ASSUME Inv, Cur.todo # <<>>, NEW n, NEW new, Does(n, new), NEW o2 \in Operands,
         SubSeq(Cur.ops, 1, Len(Cur.ops) - n) \o new = o2
  PROVE  /\ stack' \in Seq(Activation) /\ stack' # <<>> /\ Depth' = Depth
         /\ DOMAIN stack' = 1 .. Depth
         /\ \A i \in 1 .. Depth - 1 : stack'[i] = stack[i]
         /\ Cur' = stack'[Depth]
         /\ Cur'.locals = Cur.locals /\ Cur'.todo = Tail(Cur.todo) /\ Cur'.ops = o2
         /\ \A i \in 1 .. Depth : stack'[i].locals = stack[i].locals
  <1> DEFINE g == [Cur EXCEPT !.ops = o2, !.todo = Tail(Cur.todo)]
  <1>1. /\ Depth \in Nat /\ Depth >= 1 /\ DOMAIN stack = 1 .. Depth /\ Cur = stack[Depth]
        /\ Cur \in Activation /\ stack \in Seq(Activation) /\ Depth = Len(stack)
    BY Shape DEF Inv, StateOK, Depth
  <1>2. Tail(Cur.todo) \in Code
    BY <1>1 DEF Activation, Code
  <1>3. g \in Activation /\ g.locals = Cur.locals /\ g.todo = Tail(Cur.todo) /\ g.ops = o2
    BY <1>1, <1>2 DEF Activation
  <1>4. stack' = [stack EXCEPT ![Depth] = g]
    BY <1>1 DEF Does, Activation
  <1> HIDE DEF g
  <1>5. stack' \in Seq(Activation) /\ Len(stack') = Depth /\ stack'[Depth] = g
    BY <1>1, <1>3, <1>4
  <1>6. \A i \in 1 .. Depth - 1 : stack'[i] = stack[i]
    BY <1>1, <1>4
  <1>7. Depth' = Depth /\ Cur' = g
    BY <1>5 DEF Depth, Cur
  <1>8. stack' # <<>> /\ DOMAIN stack' = 1 .. Depth
    BY <1>1, <1>5
  <1>9. \A i \in 1 .. Depth : stack'[i].locals = stack[i].locals
    BY <1>1, <1>3, <1>5, <1>6, Below
  <1> QED BY <1>1, <1>3, <1>5, <1>6, <1>7, <1>8, <1>9

\* Such a step keeps the invariant if its heap is sound, keeps the roots, and its
\* operands and the next point are right.
LEMMA Step ==
  ASSUME Inv, Cur.todo # <<>>, Here.op # "slot", NEW n, NEW new, Does(n, new), shadow' = shadow,
         NEW o2 \in Operands, SubSeq(Cur.ops, 1, Len(Cur.ops) - n) \o new = o2,
         heap' \in [Addr -> [Cell -> Value] \cup {Free}], CellsAlive(heap'),
         \A a \in Roots : heap'[a] # Free,
         \A j \in DOMAIN o2 : Alive(heap', o2[j]),
         \/ InBody(Cur.locals, Tail(Cur.todo), o2, ReachFrom(Roots)') /\ Len(shadow) = Depth
         \/ /\ LeaveLoad(Cur.locals, Tail(Cur.todo), o2) \/ LeaveReturn(Tail(Cur.todo), o2)
            /\ ~LeaveRead(Cur.locals, Tail(Cur.todo), o2)
            /\ Len(shadow) = Depth - 1 /\ Depth > 1
  PROVE  Inv'
  <1>0. /\ Depth \in Nat /\ Depth >= 1 /\ DOMAIN stack = 1 .. Depth
        /\ Len(shadow) \in Nat /\ Len(shadow) <= Depth /\ DOMAIN shadow = 1 .. Len(shadow)
        /\ Cur.todo \in Code /\ shadow \in Seq(Locals)
        /\ \A i \in DOMAIN shadow : shadow[i] \in Locals
    BY Shape DEF Inv, StateOK
  <1>1. /\ stack' \in Seq(Activation) /\ stack' # <<>> /\ Depth' = Depth
        /\ DOMAIN stack' = 1 .. Depth
        /\ \A i \in 1 .. Depth - 1 : stack'[i] = stack[i]
        /\ Cur' = stack'[Depth]
        /\ Cur'.locals = Cur.locals /\ Cur'.todo = Tail(Cur.todo) /\ Cur'.ops = o2
        /\ \A i \in 1 .. Depth : stack'[i].locals = stack[i].locals
    BY DoesTop
  <1>2. StateOK'
    BY <1>0, <1>1 DEF StateOK
  <1>3. PointInv'
    <2>1. \A i \in 1 .. Depth - 1 : Rest(stack'[i].locals, stack'[i].todo, stack'[i].ops)
      BY <1>1 DEF Inv, PointInv
    <2>2. \/ InBody(Cur'.locals, Cur'.todo, Cur'.ops, ReachFrom(Roots)') /\ Len(shadow') = Depth
          \/ Leaving(Cur'.locals, Cur'.todo, Cur'.ops) /\ Len(shadow') = Depth - 1 /\ Depth > 1
      BY <1>1 DEF Leaving
    <2> QED BY <1>1, <2>1, <2>2 DEF PointInv
  <1>4. DepthInv'
    <2>1. \A j \in DOMAIN Tail(Cur.todo) :
            j + 1 \in DOMAIN Cur.todo /\ Tail(Cur.todo)[j] = Cur.todo[j + 1]
      BY <1>0, TailOf
    <2> QED BY <1>1, <2>1 DEF Inv, DepthInv
  <1>5. MirrorInv'
    <2> SUFFICES ASSUME NEW i \in DOMAIN shadow, NEW x \in Local
                 PROVE  \/ shadow[i][x] = stack'[i].locals[x]
                        \/ /\ x \in Param /\ shadow[i][x] = Undef
                           /\ \E j \in 1 .. i - 1, y \in Local : shadow[j][y] = stack'[i].locals[x]
      BY DEF MirrorInv
    <2>1. Here # SetSlot(x)
      BY Fields
    <2>2. stack'[i].locals = stack[i].locals
      BY <1>0, <1>1
    <2> QED BY <2>1, <2>2 DEF Inv, MirrorInv
  <1>6. AliveInv'
    <2>1. SlotsAlive'
      <3> SUFFICES ASSUME NEW i \in DOMAIN shadow, NEW x \in Local, shadow[i][x] \in Addr
                   PROVE  heap'[shadow[i][x]] # Free
        BY DEF SlotsAlive, Alive
      <3>1. shadow[i] \in [Local -> Value]
        BY <1>0 DEF Locals
      <3>2. shadow[i][x] \in Range(shadow[i])
        BY <3>1 DEF Range
      <3>3. shadow[i][x] \in Roots
        BY <3>2 DEF Roots, Pointers
      <3> QED BY <3>3
    <2>2. CellsAlive(heap)'
      OBVIOUS
    <2>3. ASSUME NEW i \in 1 .. Depth, NEW j \in DOMAIN stack'[i].ops
          PROVE  Alive(heap', stack'[i].ops[j])
      <3>1. CASE i = Depth
        BY <1>1, <2>3, <3>1
      <3>2. CASE i # Depth
        <4>1. i \in 1 .. Depth - 1 /\ stack'[i] = stack[i]
          BY <1>0, <1>1, <3>2, Below
        <4>2. stack[i].ops[j] \in Addr => stack[i].ops[j] \in Roots
          BY <2>3, <4>1, CallerRooted
        <4> QED BY <4>1, <4>2 DEF Alive
      <3> QED BY <3>1, <3>2
    <2>4. ~(Len(shadow') < Depth' /\ LeaveRead(Cur'.locals, Cur'.todo, Cur'.ops))
      <3>0. Depth \in Nat
        BY <1>0
      <3>1. ~(Depth < Depth)
        BY <3>0
      <3>2. /\ Cur'.locals = Cur.locals /\ Cur'.todo = Tail(Cur.todo) /\ Cur'.ops = o2
            /\ Depth' = Depth
        BY <1>1
      <3> QED BY <3>1, <3>2
    <2> QED BY <1>1, <2>1, <2>2, <2>3, <2>4 DEF AliveInv
  <1> QED BY <1>2, <1>3, <1>4, <1>5, <1>6 DEF Inv

-----------------------------------------------------------------------------
(* Every step keeps the invariant.                                           *)

\* Inside its body a function can rely on its locals: they are rooted.
LEMMA BodyRooted ==
  ASSUME Inv, Len(shadow) = Depth, Cur.todo = <<>> \/ Here.op # "slot"
  PROVE  \A x \in Local : Cur.locals[x] \in Addr => /\ Cur.locals[x] \in Roots
                                                   /\ Cur.locals[x] \in ReachFrom(Roots)
                                                   /\ heap[Cur.locals[x]] # Free
  <1> SUFFICES ASSUME NEW x \in Local, Cur.locals[x] \in Addr
               PROVE  /\ Cur.locals[x] \in Roots
                      /\ Cur.locals[x] \in ReachFrom(Roots)
                      /\ heap[Cur.locals[x]] # Free
    OBVIOUS
  <1>1. Depth \in DOMAIN shadow /\ Cur = stack[Depth]
    BY Shape
  <1>2. ~(Cur.todo # <<>> /\ Here = SetSlot(x))
    BY Fields
  <1>3. Cur.locals[x] \in Roots
    BY <1>1, <1>2, LocalRooted
  <1>4. /\ heap \in [Addr -> [Cell -> Value] \cup {Free}] /\ shadow \in Seq(Locals)
        /\ SlotsAlive /\ CellsAlive(heap)
    BY DEF Inv, StateOK, AliveInv
  <1>5. Cur.locals[x] \in ReachFrom(Roots)
    BY <1>3, <1>4, Reached
  <1> QED BY <1>3, <1>4, <1>5, ReachedAlive

\* An instruction that a return never reaches runs inside a body.
LEMMA RunsInBody ==
  ASSUME Inv, Cur.todo # <<>>, Here.op \in {"store", "drop", "tee", "slot", "alloc", "data", "call"}
  PROVE  InBody(Cur.locals, Cur.todo, Cur.ops, ReachFrom(Roots)) /\ Len(shadow) = Depth
  <1>1. ~AtExit(Cur.locals, Cur.todo, Cur.ops)
    <2>1. \A i, j \in Instr : Cur.todo # <<GcExitFn, i, j>>
      BY Short, Instrs, Fields DEF Here
    <2>2. \A i, j, k \in Instr : Cur.todo # <<GcExitFn, i, j, k>>
      BY Short, Instrs, Fields DEF Here
    <2> QED BY <2>1, <2>2, Instrs DEF AtExit
  <1>2. ~Leaving(Cur.locals, Cur.todo, Cur.ops)
    <2>1. \A x \in Local : Cur.todo # <<Get(x), Return>>
      BY Short, Instrs, Fields DEF Here
    <2>2. \A x \in Local, c \in Cell : Cur.todo # <<GetObj(x), Load(c), Return>>
      BY Short, Instrs, Fields DEF Here
    <2>3. Cur.todo # <<AllocF64, Return>> /\ Cur.todo # <<Return>>
      BY Short, Instrs, Fields DEF Here
    <2>4. \A c \in Cell : Cur.todo # <<Load(c), Return>>
      BY Short, Instrs, Fields DEF Here
    <2> QED BY <2>1, <2>2, <2>3, <2>4 DEF Leaving, LeaveRead, LeaveF64, LeaveLoad, LeaveReturn
  <1> QED BY <1>1, <1>2 DEF Inv, PointInv

\* What the invariant says of the heap, the roots and the operands.
LEMMA HeapFacts ==
  ASSUME Inv
  PROVE  /\ heap \in [Addr -> [Cell -> Value] \cup {Free}] /\ shadow \in Seq(Locals)
         /\ SlotsAlive /\ CellsAlive(heap)
         /\ \A a \in Roots : a \in Addr /\ heap[a] # Free
         /\ Cur.locals \in Locals /\ Cur.ops \in Operands /\ Cur.todo \in Code
         /\ \A j \in DOMAIN Cur.ops : Alive(heap, Cur.ops[j])
  <1>1. /\ heap \in [Addr -> [Cell -> Value] \cup {Free}] /\ shadow \in Seq(Locals)
        /\ SlotsAlive /\ CellsAlive(heap)
    BY DEF Inv, StateOK, AliveInv
  <1>2. \A a \in Roots : a \in Addr /\ heap[a] # Free
    BY <1>1, Reached, ReachedAlive
  <1>3. Depth \in 1 .. Depth /\ DOMAIN stack = 1 .. Depth /\ Cur = stack[Depth]
    BY Shape
  <1>4. \A j \in DOMAIN Cur.ops : Alive(heap, Cur.ops[j])
    BY <1>3 DEF Inv, AliveInv
  <1> QED BY <1>1, <1>2, <1>3, <1>4, Shape

\* A step that leaves heap and shadow stack alone reaches what it reached before.
LEMMA SameReach ==
  ASSUME heap' = heap, shadow' = shadow
  PROVE  ReachFrom(Roots)' = ReachFrom(Roots) /\ Roots' = Roots
  BY DEF ReachFrom, Roots, Closed

\* Popping and pushing operands.
LEMMA Pops ==
  ASSUME NEW b \in Operands, NEW v \in Value
  PROVE  /\ SubSeq(b, 1, Len(b) - 0) \o <<v>> = On(b, v)
         /\ SubSeq(b, 1, Len(b) - 0) \o <<>> = b
         /\ \A w \in Value : SubSeq(On(b, w), 1, Len(On(b, w)) - 1) \o <<v>> = On(b, v)
         /\ SubSeq(On(b, v), 1, Len(On(b, v)) - 1) \o <<>> = b
  <1>1. SubSeq(b, 1, Len(b) - 0) = b
    <2>1. b \in Seq(Value) /\ Len(b) \in Nat /\ Len(b) - 0 = Len(b)
      BY DEF Operands
    <2>2. /\ SubSeq(b, 1, Len(b)) \in Seq(Value) /\ Len(SubSeq(b, 1, Len(b))) = Len(b)
          /\ \A j \in 1 .. Len(b) : SubSeq(b, 1, Len(b))[j] = b[j]
      BY <2>1
    <2> QED BY <2>1, <2>2, SeqEqual
  <1>2. b \o <<>> = b
    BY DEF Operands
  <1>3. \A w \in Value : SubSeq(On(b, w), 1, Len(On(b, w)) - 1) = b
    BY Push
  <1> QED BY <1>1, <1>2, <1>3 DEF On

\* A return begins with gc_exit_fn.
LEMMA ExitHead ==
  ASSUME NEW L \in Locals, NEW t, NEW o, AtExit(L, t, o)
  PROVE  /\ t \in Code /\ t # <<>> /\ Head(t) = GcExitFn /\ o = <<>>
         /\ Leaving(L, Tail(t), o)
  <1>1. ASSUME NEW i \in Instr, NEW j \in Instr, t = <<GcExitFn, i, j>>
        PROVE  t \in Code /\ t # <<>> /\ Head(t) = GcExitFn /\ Tail(t) = <<i, j>>
    BY <1>1, Short, Instrs
  <1>2. ASSUME NEW i \in Instr, NEW j \in Instr, NEW k \in Instr, t = <<GcExitFn, i, j, k>>
        PROVE  t \in Code /\ t # <<>> /\ Head(t) = GcExitFn /\ Tail(t) = <<i, j, k>>
    BY <1>2, Short, Instrs
  <1>3. CASE \E x \in Local : t = <<GcExitFn, Get(x), Return>>
    BY <1>1, <1>3, Instrs DEF AtExit, Leaving, LeaveRead
  <1>4. CASE \E x \in Local, c \in Cell : IsObj(L, x) /\ t = <<GcExitFn, GetObj(x), Load(c), Return>>
    <2>1. PICK x \in Local, c \in Cell : IsObj(L, x) /\ t = <<GcExitFn, GetObj(x), Load(c), Return>>
      BY <1>4
    <2>2. GetObj(x) \in Instr /\ Load(c) \in Instr /\ Return \in Instr
      BY Instrs
    <2>3. t \in Code /\ t # <<>> /\ Head(t) = GcExitFn /\ Tail(t) = <<GetObj(x), Load(c), Return>>
      BY <1>2, <2>1, <2>2
    <2> QED BY <2>1, <2>3 DEF AtExit, Leaving, LeaveRead
  <1>5. CASE t = <<GcExitFn, AllocF64, Return>>
    BY <1>1, <1>5, Instrs DEF AtExit, Leaving, LeaveF64
  <1> QED BY <1>3, <1>4, <1>5 DEF AtExit

\* Once the shadow frame is gone the code reads a local, loads from it or boxes
\* a float, and returns.
LEMMA LeavePoint ==
  ASSUME NEW L \in Locals, NEW t, NEW o, Leaving(L, t, o)
  PROVE  /\ t \in Code /\ t # <<>> /\ Head(t).op \in {"get", "f64", "load", "return"}
         /\ Head(t).op = "get" =>
              /\ LeaveRead(L, t, o) /\ Head(t).x \in Local /\ o = <<>>
              /\ LeaveLoad(L, Tail(t), <<L[Head(t).x]>>) \/ LeaveReturn(Tail(t), <<L[Head(t).x]>>)
         /\ Head(t).op = "f64" => o = <<>> /\ Tail(t) = <<Return>> /\ t = <<AllocF64, Return>>
         /\ Head(t).op = "load" =>
              /\ Head(t).c \in Cell /\ Tail(t) = <<Return>>
              /\ \E x \in Local : IsObj(L, x) /\ o = On(<<>>, L[x])
         /\ Head(t).op = "return" => \E v \in Value : o = On(<<>>, v) /\ t = <<Return>>
  <1>0. \A x \in Local : L[x] \in Value
    BY DEF Locals
  <1>1. CASE o = <<>> /\ \E x \in Local : t = <<Get(x), Return>>
    <2>1. PICK x \in Local : t = <<Get(x), Return>>
      BY <1>1
    <2>2. Get(x) \in Instr /\ Return \in Instr
      BY Instrs
    <2>3. t \in Code /\ t # <<>> /\ Head(t) = Get(x) /\ Tail(t) = <<Return>>
      BY <2>1, <2>2, Short
    <2>4. Head(t).op = "get" /\ Head(t).x = x
      BY <2>3, Fields
    <2>5. LeaveRead(L, t, o) /\ LeaveReturn(Tail(t), <<L[x]>>)
      BY <1>0, <1>1, <2>1, <2>3 DEF LeaveRead, LeaveReturn
    <2> QED BY <1>1, <2>3, <2>4, <2>5
  <1>2. CASE o = <<>> /\ \E x \in Local, c \in Cell : IsObj(L, x) /\ t = <<GetObj(x), Load(c), Return>>
    <2>1. PICK x \in Local, c \in Cell : IsObj(L, x) /\ t = <<GetObj(x), Load(c), Return>>
      BY <1>2
    <2>2. GetObj(x) \in Instr /\ Load(c) \in Instr /\ Return \in Instr
      BY Instrs
    <2>3. t \in Code /\ t # <<>> /\ Head(t) = GetObj(x) /\ Tail(t) = <<Load(c), Return>>
      BY <2>1, <2>2, Short
    <2>4. Head(t).op = "get" /\ Head(t).x = x
      BY <2>3, Fields
    <2>5. LeaveRead(L, t, o) /\ LeaveLoad(L, Tail(t), <<L[x]>>)
      BY <1>2, <2>1, <2>3 DEF LeaveRead, LeaveLoad
    <2> QED BY <1>2, <2>3, <2>4, <2>5
  <1>3. CASE LeaveF64(t, o)
    <2>1. t = <<AllocF64, Return>> /\ o = <<>>
      BY <1>3 DEF LeaveF64
    <2>2. t \in Code /\ t # <<>> /\ Head(t) = AllocF64 /\ Tail(t) = <<Return>>
      BY <2>1, Short, Instrs
    <2> QED BY <2>1, <2>2, Fields
  <1>4. CASE LeaveLoad(L, t, o)
    <2>1. PICK x \in Local, c \in Cell : IsObj(L, x) /\ t = <<Load(c), Return>> /\ o = <<L[x]>>
      BY <1>4 DEF LeaveLoad
    <2>2. t \in Code /\ t # <<>> /\ Head(t) = Load(c) /\ Tail(t) = <<Return>>
      BY <2>1, Short, Instrs
    <2>3. o = On(<<>>, L[x])
      BY <1>0, <2>1, One
    <2> QED BY <2>1, <2>2, <2>3, Fields
  <1>5. CASE LeaveReturn(t, o)
    <2>1. t = <<Return>> /\ \E v \in Value : o = On(<<>>, v)
      BY <1>5, One DEF LeaveReturn
    <2>2. t \in Code /\ t # <<>> /\ Head(t) = Return
      BY <2>1, Short, Instrs
    <2> QED BY <2>1, <2>2, Fields
  <1> QED BY <1>1, <1>2, <1>3, <1>4, <1>5 DEF Leaving, LeaveRead

\* In particular, a load.
LEMMA LeaveLoadPoint ==
  ASSUME NEW L \in Locals, NEW t, NEW o, Leaving(L, t, o), Head(t).op = "load"
  PROVE  /\ Head(t).c \in Cell /\ Tail(t) = <<Return>>
         /\ \E x \in Local : IsObj(L, x) /\ o = On(<<>>, L[x])
  <1>1. Head(t).op = "load" =>
              /\ Head(t).c \in Cell /\ Tail(t) = <<Return>>
              /\ \E x \in Local : IsObj(L, x) /\ o = On(<<>>, L[x])
    BY LeavePoint, ZenonT(40)
  <1> QED BY <1>1, Zenon

\* A float that is boxed.
LEMMA LeaveF64Point ==
  ASSUME NEW L \in Locals, NEW t, NEW o, Leaving(L, t, o), Head(t).op = "f64"
  PROVE  o = <<>> /\ Tail(t) = <<Return>> /\ t = <<AllocF64, Return>>
  BY LeavePoint, Zenon

\* A return, of one value.
LEMMA LeaveReturnPoint ==
  ASSUME NEW L \in Locals, NEW t, NEW o, Leaving(L, t, o), Head(t).op = "return"
  PROVE  \E v \in Value : o = On(<<>>, v) /\ t = <<Return>>
  BY LeavePoint, Zenon

\* A read keeps the invariant.
LEMMA GetLocalStep ==
  ASSUME Inv, GetLocalInst
  PROVE  Inv'
  <1>0. Cur.todo # <<>> /\ Here.op = "get" /\ Here = Head(Cur.todo) /\ heap' = heap /\ shadow' = shadow
    BY DEF GetLocalInst, Running, Here
  <1>1. Does(0, <<Cur.locals[Here.x]>>)
    BY DEF GetLocalInst
  <1>2. ReachFrom(Roots)' = ReachFrom(Roots)
    BY <1>0, SameReach
  <1> DEFINE v == Cur.locals[Here.x]
  <1>3. CASE InBody(Cur.locals, Cur.todo, Cur.ops, ReachFrom(Roots)) /\ Len(shadow) = Depth
    <2>1. \A x \in Local : Cur.locals[x] \in Addr => /\ Cur.locals[x] \in ReachFrom(Roots)
                                                     /\ heap[Cur.locals[x]] # Free
      BY <1>0, <1>3, BodyRooted
    <2>2. Here.x \in Local /\ InBody(Cur.locals, Tail(Cur.todo), On(Cur.ops, v), ReachFrom(Roots))
      BY <1>0, <1>3, <2>1, GetPoint, HeapFacts
    <2>3. v \in Value /\ Alive(heap, v)
      BY <2>1, <2>2, HeapFacts DEF Locals, Alive
    <2> HIDE DEF v
    <2>4. On(Cur.ops, v) \in Operands /\ \A j \in DOMAIN On(Cur.ops, v) : Alive(heap, On(Cur.ops, v)[j])
      <3>1. \A j \in DOMAIN Cur.ops : On(Cur.ops, v)[j] = Cur.ops[j]
        BY <2>3, HeapFacts, Push
      <3>2. \A j \in DOMAIN On(Cur.ops, v) : j \in DOMAIN Cur.ops \/ On(Cur.ops, v)[j] = v
        BY <2>3, HeapFacts, Push
      <3>3. On(Cur.ops, v) \in Operands
        BY <2>3, HeapFacts, Push
      <3> QED BY <2>3, <3>1, <3>2, <3>3, HeapFacts
    <2>5. SubSeq(Cur.ops, 1, Len(Cur.ops) - 0) \o <<v>> = On(Cur.ops, v)
      BY <2>3, HeapFacts, Pops
    <2>6. Does(0, <<v>>)
      BY <1>1 DEF v
    <2> QED BY <1>0, <1>2, <1>3, <2>2, <2>4, <2>5, <2>6, HeapFacts, Step
  <1>4. CASE Leaving(Cur.locals, Cur.todo, Cur.ops) /\ Len(shadow) = Depth - 1 /\ Depth > 1
    <2>1. /\ LeaveRead(Cur.locals, Cur.todo, Cur.ops) /\ Here.x \in Local /\ Cur.ops = <<>>
          /\ LeaveLoad(Cur.locals, Tail(Cur.todo), <<v>>) \/ LeaveReturn(Tail(Cur.todo), <<v>>)
      <3>1. Cur.locals \in Locals
        BY HeapFacts
      <3>2. Head(Cur.todo).op = "get" =>
              /\ LeaveRead(Cur.locals, Cur.todo, Cur.ops) /\ Head(Cur.todo).x \in Local
              /\ Cur.ops = <<>>
              /\ \/ LeaveLoad(Cur.locals, Tail(Cur.todo), <<Cur.locals[Head(Cur.todo).x]>>)
                 \/ LeaveReturn(Tail(Cur.todo), <<Cur.locals[Head(Cur.todo).x]>>)
        BY <1>4, <3>1, LeavePoint
      <3> QED BY <1>0, <3>2
    <2>2. v \in Value
      BY <2>1, HeapFacts DEF Locals
    <2>3. Alive(heap, v)
      <3>1. Depth \in Nat
        BY Shape
      <3>2. Len(shadow) < Depth
        BY <1>4, <3>1
      <3> QED BY <2>1, <3>2 DEF Inv, AliveInv
    <2> HIDE DEF v
    <2>4. <<v>> \in Operands /\ \A j \in DOMAIN <<v>> : Alive(heap, <<v>>[j])
      BY <2>2, <2>3, One
    <2>5. SubSeq(Cur.ops, 1, Len(Cur.ops) - 0) \o <<v>> = <<v>>
      <3>1. <<>> \in Operands /\ <<v>> = On(<<>>, v)
        BY <2>2, One, Zenon
      <3>2. SubSeq(<<>>, 1, Len(<<>>) - 0) \o <<v>> = On(<<>>, v)
        BY <2>2, <3>1, Pops, Zenon
      <3> QED BY <2>1, <3>1, <3>2, Zenon
    <2>6. Does(0, <<v>>)
      BY <1>1 DEF v
    <2>7. ~LeaveRead(Cur.locals, Tail(Cur.todo), <<v>>)
      BY DEF LeaveRead
    <2> QED BY <1>0, <1>4, <2>1, <2>4, <2>5, <2>6, <2>7, HeapFacts, Step
  <1>5. ~AtExit(Cur.locals, Cur.todo, Cur.ops)
    BY <1>0, ExitHead, HeapFacts, Fields
  <1> QED BY <1>3, <1>4, <1>5 DEF Inv, PointInv

\* The operands are alive when the top and those below it are.
LEMMA AliveOn ==
  ASSUME NEW h, NEW b \in Operands, NEW v \in Value
  PROVE  (\A j \in DOMAIN On(b, v) : Alive(h, On(b, v)[j])) <=>
            Alive(h, v) /\ \A j \in DOMAIN b : Alive(h, b[j])
  <1>1. /\ \A j \in DOMAIN b : j \in DOMAIN On(b, v) /\ On(b, v)[j] = b[j]
        /\ \A j \in DOMAIN On(b, v) : j \in DOMAIN b \/ On(b, v)[j] = v
    BY Push
  <1>2. \E j \in DOMAIN On(b, v) : On(b, v)[j] = v
    <2>1. /\ Len(On(b, v)) = Len(b) + 1 /\ On(b, v)[Len(On(b, v))] = v
          /\ On(b, v) \in Seq(Value) /\ Len(b) \in Nat
      BY Push DEF Operands
    <2>2. Len(On(b, v)) \in DOMAIN On(b, v)
      BY <2>1
    <2> QED BY <2>1, <2>2
  <1> QED BY <1>1, <1>2

\* The top operand, and the one below it.
LEMMA Tops ==
  ASSUME NEW b \in Operands, NEW u \in Value, NEW v \in Value
  PROVE  /\ On(b, v)[Len(On(b, v)) - 0] = v
         /\ On(On(b, u), v)[Len(On(On(b, u), v)) - 1] = u
         /\ SubSeq(On(On(b, u), v), 1, Len(On(On(b, u), v)) - 2) = b
  <1> DEFINE s == On(b, u)
             t == On(s, v)
  <1>1. /\ s \in Operands /\ Len(s) = Len(b) + 1 /\ s[Len(s)] = u
        /\ SubSeq(s, 1, Len(s) - 1) = b /\ Len(b) \in Nat /\ DOMAIN s = 1 .. Len(s)
    <2>1. /\ s \in Operands /\ Len(s) = Len(b) + 1 /\ s[Len(s)] = u
          /\ SubSeq(s, 1, Len(s) - 1) = b
      BY Push
    <2> HIDE DEF s
    <2> QED BY <2>1 DEF Operands
  <1> HIDE DEF s
  <1>2. /\ t \in Operands /\ Len(t) = Len(s) + 1 /\ SubSeq(t, 1, Len(t) - 1) = s
        /\ \A j \in DOMAIN s : t[j] = s[j]
    BY <1>1, Push
  <1> HIDE DEF t
  <1>3. t[Len(t) - 1] = u
    BY <1>1, <1>2
  <1>4. SubSeq(t, 1, Len(t) - 2) = b
    <2>1. /\ SubSeq(t, 1, Len(b)) \in Seq(Value) /\ Len(SubSeq(t, 1, Len(b))) = Len(b)
          /\ \A j \in 1 .. Len(b) : SubSeq(t, 1, Len(b))[j] = t[j]
      BY <1>1, <1>2 DEF Operands
    <2>2. \A j \in 1 .. Len(b) : t[j] = s[j]
      BY <1>1, <1>2
    <2>3. \A j \in 1 .. Len(b) : s[j] = b[j]
      <3>1. \A j \in DOMAIN b : On(b, u)[j] = b[j]
        BY Push
      <3> QED BY <3>1 DEF s, Operands
    <2>4. Len(t) - 2 = Len(b)
      BY <1>1, <1>2
    <2> QED BY <2>1, <2>2, <2>3, <2>4, SeqEqual DEF Operands
  <1>5. On(b, v)[Len(On(b, v)) - 0] = v
    <2>1. On(b, v)[Len(On(b, v))] = v /\ Len(On(b, v)) = Len(b) + 1
      BY Push
    <2> QED BY <1>1, <2>1
  <1> QED BY <1>3, <1>4, <1>5 DEF s, t

\* An object is made or written: the heap stays sound.
LEMMA Written ==
  ASSUME NEW h \in [Addr -> [Cell -> Value] \cup {Free}], CellsAlive(h),
         NEW a \in Addr, NEW f \in [Cell -> Value], \A c \in Cell : Alive(h, f[c]),
         NEW h2, h2 = [h EXCEPT ![a] = f]
  PROVE  /\ h2 \in [Addr -> [Cell -> Value] \cup {Free}] /\ CellsAlive(h2)
         /\ h2[a] # Free
         /\ \A r \in Addr : h[r] # Free => h2[r] # Free
  <1>1. f # Free
    BY FreeAssumption DEF Value
  <1>2. h2 \in [Addr -> [Cell -> Value] \cup {Free}] /\ h2[a] = f
    OBVIOUS
  <1>3. \A r \in Addr : h[r] # Free => h2[r] # Free
    BY <1>1
  <1>4. ASSUME NEW r \in Addr, h2[r] # Free, NEW c \in Cell
        PROVE  Alive(h2, h2[r][c])
    <2>1. Alive(h, h2[r][c])
      <3>1. CASE r = a
        BY <1>2, <3>1
      <3>2. CASE r # a
        <4>1. h2[r] = h[r]
          BY <3>2
        <4> QED BY <1>4, <4>1 DEF CellsAlive
      <3> QED BY <3>1, <3>2
    <2> QED BY <1>3, <2>1 DEF Alive
  <1> QED BY <1>1, <1>2, <1>3, <1>4 DEF CellsAlive

\* A load keeps the invariant.
LEMMA LoadStep ==
  ASSUME Inv, LoadInst
  PROVE  Inv'
  <1> DEFINE v == heap[Operand(0)][Here.c]
  <1>0. /\ Cur.todo # <<>> /\ Here.op = "load" /\ Here = Head(Cur.todo)
        /\ heap' = heap /\ shadow' = shadow /\ Does(1, <<v>>)
    BY DEF LoadInst, Running, Here
  <1>1. Operand(0) = Cur.ops[Len(Cur.ops) - 0]
    BY DEF Operand
  <1>2. ReachFrom(Roots)' = ReachFrom(Roots)
    BY <1>0, SameReach
  <1>3. CASE InBody(Cur.locals, Cur.todo, Cur.ops, ReachFrom(Roots)) /\ Len(shadow) = Depth
    <2>1. PICK b \in Operands, x \in Local :
            /\ Cur.ops = On(b, Cur.locals[x]) /\ Cur.locals[x] \in Addr /\ Here.c \in Cell
            /\ \A w \in Value : (w \in Addr => w \in ReachFrom(Roots)) =>
                                  InBody(Cur.locals, Tail(Cur.todo), On(b, w), ReachFrom(Roots))
      BY <1>0, <1>3, LoadPoint, HeapFacts
    <2>2. Cur.locals[x] \in ReachFrom(Roots) /\ heap[Cur.locals[x]] # Free
      BY <1>0, <1>3, <2>1, BodyRooted
    <2>3. Operand(0) = Cur.locals[x] /\ Cur.locals[x] \in Value
      BY <1>1, <2>1, Tops DEF Value
    <2>4. v \in Value /\ (v \in Addr => v \in ReachFrom(Roots))
      BY <2>1, <2>2, <2>3, HeapFacts, Reached
    <2>5. Alive(heap, v)
      BY <2>4, HeapFacts, ReachedAlive DEF Alive
    <2> HIDE DEF v
    <2>6. \A j \in DOMAIN b : Alive(heap, b[j])
      BY <2>1, <2>3, HeapFacts, AliveOn
    <2>7. On(b, v) \in Operands /\ \A j \in DOMAIN On(b, v) : Alive(heap, On(b, v)[j])
      BY <2>4, <2>5, <2>6, Push, AliveOn
    <2>8. SubSeq(Cur.ops, 1, Len(Cur.ops) - 1) \o <<v>> = On(b, v)
      BY <2>1, <2>3, <2>4, Pops
    <2> QED BY <1>0, <1>2, <1>3, <2>1, <2>4, <2>7, <2>8, HeapFacts, Step
  <1>4. CASE Leaving(Cur.locals, Cur.todo, Cur.ops) /\ Len(shadow) = Depth - 1 /\ Depth > 1
    <2>1. Cur.locals \in Locals
      BY HeapFacts
    <2>2. /\ Here.c \in Cell /\ Tail(Cur.todo) = <<Return>>
          /\ \E x \in Local : IsObj(Cur.locals, x) /\ Cur.ops = On(<<>>, Cur.locals[x])
      <3>1. Head(Cur.todo).op = "load" =>
              /\ Head(Cur.todo).c \in Cell /\ Tail(Cur.todo) = <<Return>>
              /\ \E x \in Local : IsObj(Cur.locals, x) /\ Cur.ops = On(<<>>, Cur.locals[x])
        BY <1>4, <2>1, LeaveLoadPoint
      <3> QED BY <1>0, <3>1
    <2>3. PICK u \in Addr : Cur.ops = On(<<>>, u) /\ u \in Value /\ <<>> \in Operands
      BY <2>2 DEF IsObj, Value, Operands
    <2>4. Operand(0) = u
      BY <1>1, <2>3, Tops
    <2>5. heap[u] # Free
      <3>1. Alive(heap, u)
        BY <2>3, HeapFacts, AliveOn
      <3> QED BY <3>1 DEF Alive
    <2>6. v \in Value /\ Alive(heap, v)
      BY <2>2, <2>4, <2>5, HeapFacts DEF CellsAlive
    <2> HIDE DEF v
    <2>7. <<v>> \in Operands /\ \A j \in DOMAIN <<v>> : Alive(heap, <<v>>[j])
      BY <2>6, One
    <2>8. SubSeq(Cur.ops, 1, Len(Cur.ops) - 1) \o <<v>> = <<v>>
      <3>1. <<v>> = On(<<>>, v)
        BY <2>6, One, Zenon
      <3>2. SubSeq(On(<<>>, u), 1, Len(On(<<>>, u)) - 1) \o <<v>> = On(<<>>, v)
        BY <2>3, <2>6, Pops, Zenon
      <3> QED BY <2>3, <3>1, <3>2, Zenon
    <2>9. LeaveReturn(Tail(Cur.todo), <<v>>) /\ ~LeaveRead(Cur.locals, Tail(Cur.todo), <<v>>)
      BY <2>2, <2>6 DEF LeaveReturn, LeaveRead
    <2> QED BY <1>0, <1>4, <2>7, <2>8, <2>9, HeapFacts, Step
  <1>5. ~AtExit(Cur.locals, Cur.todo, Cur.ops)
    BY <1>0, ExitHead, HeapFacts, Fields
  <1> QED BY <1>3, <1>4, <1>5 DEF Inv, PointInv

\* A store keeps the invariant.
LEMMA StoreStep ==
  ASSUME Inv, StoreInst
  PROVE  Inv'
  <1>0. /\ Cur.todo # <<>> /\ Here.op = "store" /\ Here = Head(Cur.todo) /\ shadow' = shadow
        /\ heap' = [heap EXCEPT ![Operand(1)][Here.c] = Operand(0)]
        /\ Does(2, CASE Here.keep = "value" -> <<Operand(0)>>
                     [] Here.keep = "object" -> <<Operand(1)>>
                     [] Here.keep = "nothing" -> <<>>)
    BY DEF StoreInst, Running, Here
  <1>1. InBody(Cur.locals, Cur.todo, Cur.ops, ReachFrom(Roots)) /\ Len(shadow) = Depth
    BY <1>0, RunsInBody
  <1>2. PICK b \in Operands, x \in Local, v \in Value :
          /\ Cur.ops = On(On(b, Cur.locals[x]), v) /\ Cur.locals[x] \in Addr /\ Here.c \in Cell
          /\ \/ Here.keep = "value" /\ \A K2 : InBody(Cur.locals, Tail(Cur.todo), On(b, v), K2)
             \/ Here.keep = "nothing" /\ \A K2 : InBody(Cur.locals, Tail(Cur.todo), b, K2)
    <2>1. Cur.locals \in Locals /\ Cur.ops \in Operands /\ Cur.todo \in Code
      BY HeapFacts
    <2>2. Cur.todo # <<>> /\ Head(Cur.todo).op = "store"
      BY <1>0
    <2>3. \E b \in Operands, x \in Local, v \in Value :
            /\ Cur.ops = On(On(b, Cur.locals[x]), v) /\ Cur.locals[x] \in Addr /\ Head(Cur.todo).c \in Cell
            /\ \A j \in DOMAIN b : \E y \in Local : b[j] = Cur.locals[y]
            /\ \/ Head(Cur.todo).keep = "value" /\ \A K2 : InBody(Cur.locals, Tail(Cur.todo), On(b, v), K2)
               \/ Head(Cur.todo).keep = "nothing" /\ \A K2 : InBody(Cur.locals, Tail(Cur.todo), b, K2)
      BY <1>1, <2>1, <2>2, StorePoint
    <2> QED BY <1>0, <2>3
  <1> DEFINE u == Cur.locals[x]
  <1>3. u \in Value /\ u \in Addr /\ heap[u] # Free
    BY <1>0, <1>1, <1>2, BodyRooted DEF Value
  <1> HIDE DEF u
  <1>4. Cur.ops = On(On(b, u), v)
    BY <1>2 DEF u
  <1>5. Operand(0) = v /\ Operand(1) = u
    <2>1. On(b, u) \in Operands
      BY <1>3, Push
    <2>2. Cur.ops[Len(Cur.ops) - 0] = v
      BY <1>3, <1>4, <2>1, Tops
    <2>3. Cur.ops[Len(Cur.ops) - 1] = u
      BY <1>3, <1>4, Tops
    <2> QED BY <2>2, <2>3 DEF Operand
  <1>6. Alive(heap, v) /\ \A j \in DOMAIN b : Alive(heap, b[j])
    <2>1. On(b, u) \in Operands
      BY <1>3, Push
    <2>2. Alive(heap, v) /\ \A j \in DOMAIN On(b, u) : Alive(heap, On(b, u)[j])
      BY <1>4, <2>1, HeapFacts, AliveOn
    <2> QED BY <1>3, <2>2, AliveOn
  <1>7. /\ heap' \in [Addr -> [Cell -> Value] \cup {Free}] /\ CellsAlive(heap')
        /\ \A r \in Addr : heap[r] # Free => heap'[r] # Free
    <2> DEFINE f == [heap[u] EXCEPT ![Here.c] = v]
    <2>1. heap[u] \in [Cell -> Value] /\ \A c \in Cell : Alive(heap, heap[u][c])
      BY <1>3, HeapFacts DEF CellsAlive
    <2>2. f \in [Cell -> Value] /\ \A c \in Cell : Alive(heap, f[c])
      BY <1>2, <1>6, <2>1
    <2>3. heap' = [heap EXCEPT ![u] = f]
      BY <1>0, <1>5
    <2> HIDE DEF f
    <2> QED BY <1>3, <2>2, <2>3, HeapFacts, Written
  <1>8. \A a \in Roots : heap'[a] # Free
    BY <1>7, HeapFacts
  <1>9. SubSeq(Cur.ops, 1, Len(Cur.ops) - 2) = b
    BY <1>3, <1>4, Tops
  <1>10. Alive(heap', v) /\ \A j \in DOMAIN b : Alive(heap', b[j])
    BY <1>6, <1>7 DEF Alive
  <1>11. CASE Here.keep = "value" /\ \A K2 : InBody(Cur.locals, Tail(Cur.todo), On(b, v), K2)
    <2>1. Does(2, <<v>>)
      BY <1>0, <1>5, <1>11
    <2>2. SubSeq(Cur.ops, 1, Len(Cur.ops) - 2) \o <<v>> = On(b, v) /\ On(b, v) \in Operands
      BY <1>9, Push DEF On
    <2>3. \A j \in DOMAIN On(b, v) : Alive(heap', On(b, v)[j])
      BY <1>10, AliveOn
    <2>4. InBody(Cur.locals, Tail(Cur.todo), On(b, v), ReachFrom(Roots)')
      BY <1>11
    <2> QED BY <1>0, <1>1, <1>7, <1>8, <2>1, <2>2, <2>3, <2>4, Step
  <1>12. CASE Here.keep = "nothing" /\ \A K2 : InBody(Cur.locals, Tail(Cur.todo), b, K2)
    <2>1. Does(2, <<>>)
      BY <1>0, <1>12
    <2>2. SubSeq(Cur.ops, 1, Len(Cur.ops) - 2) \o <<>> = b
      BY <1>9 DEF Operands
    <2>4. InBody(Cur.locals, Tail(Cur.todo), b, ReachFrom(Roots)')
      BY <1>12
    <2> QED BY <1>0, <1>1, <1>7, <1>8, <1>10, <2>1, <2>2, <2>4, Step
  <1> QED BY <1>2, <1>11, <1>12

\* Dropping the value of an expression keeps the invariant.
LEMMA DropStep ==
  ASSUME Inv, DropInst
  PROVE  Inv'
  <1>0. /\ Cur.todo # <<>> /\ Here.op = "drop" /\ Here = Head(Cur.todo)
        /\ shadow' = shadow /\ heap' = heap /\ Does(1, <<>>)
    BY DEF DropInst, Running, Here
  <1>1. InBody(Cur.locals, Cur.todo, Cur.ops, ReachFrom(Roots)) /\ Len(shadow) = Depth
    BY <1>0, RunsInBody
  <1>2. PICK v \in Value : Cur.ops = On(<<>>, v) /\ Tail(Cur.todo) = <<>>
    BY <1>0, <1>1, DropPoint, HeapFacts
  <1>3. <<>> \in Operands
    BY DEF Operands
  <1>4. SubSeq(Cur.ops, 1, Len(Cur.ops) - 1) \o <<>> = <<>>
    BY <1>2, <1>3, Pops, Zenon
  <1>5. InBody(Cur.locals, Tail(Cur.todo), <<>>, ReachFrom(Roots)')
    BY <1>2 DEF InBody, Idle
  <1>6. \A j \in DOMAIN <<>> : Alive(heap', <<>>[j])
    OBVIOUS
  <1> QED BY <1>0, <1>1, <1>3, <1>4, <1>5, <1>6, HeapFacts, Step

\* What an allocation finds after the collection that it may cause: a sound heap
\* that still has the roots and all operands.
LEMMA Collecting ==
  ASSUME Inv, Cur.todo # <<>>, Here.op \in {"alloc", "data", "f64"},
         InBody(Cur.locals, Cur.todo, Cur.ops, ReachFrom(Roots)), Len(shadow) = Depth,
         NEW h \in {heap, Collected(Roots)}
  PROVE  /\ h \in [Addr -> [Cell -> Value] \cup {Free}] /\ CellsAlive(h)
         /\ \A a \in Roots : h[a] # Free
         /\ \A j \in DOMAIN Cur.ops : Alive(h, Cur.ops[j])
  <1>1. /\ heap \in [Addr -> [Cell -> Value] \cup {Free}] /\ shadow \in Seq(Locals)
        /\ SlotsAlive /\ CellsAlive(heap)
        /\ Cur.locals \in Locals /\ Cur.ops \in Operands /\ Cur.todo \in Code
    BY HeapFacts
  <1>2. /\ h \in [Addr -> [Cell -> Value] \cup {Free}]
        /\ \A a \in ReachFrom(Roots) : h[a] # Free
        /\ CellsAlive(h)
    BY <1>1, GcKeeps
  <1>3. Roots \subseteq ReachFrom(Roots)
    BY <1>1, Reached
  <1>4. Here.op # "slot" /\ Here = Head(Cur.todo)
    BY DEF Here
  <1>5. \A x \in Local : Cur.locals[x] \in Addr => Cur.locals[x] \in ReachFrom(Roots)
    BY <1>4, BodyRooted
  <1>6. \A j \in DOMAIN Cur.ops : Cur.ops[j] \in Addr => Cur.ops[j] \in ReachFrom(Roots)
    BY <1>1, <1>4, <1>5, KeptOperands
  <1> QED BY <1>2, <1>3, <1>6 DEF Alive

\* An allocation keeps the invariant, collection or not.
LEMMA AllocStep ==
  ASSUME Inv, AllocInst
  PROVE  Inv'
  <1>0. Cur.todo # <<>> /\ Here.op = "alloc" /\ Here = Head(Cur.todo) /\ shadow' = shadow
    BY DEF AllocInst, Running, Here
  <1>1. InBody(Cur.locals, Cur.todo, Cur.ops, ReachFrom(Roots)) /\ Len(shadow) = Depth
    BY <1>0, RunsInBody
  <1>2. Cur.locals \in Locals /\ Cur.ops \in Operands /\ Cur.todo \in Code
    BY HeapFacts
  <1>3. PICK b \in Operands :
          /\ \/ Here.n = 0 /\ Cur.ops = b
             \/ Here.n = 1 /\ Here.c \in Cell /\ \E v \in Value : Cur.ops = On(b, v)
          /\ \A w \in Value : \A K2 : InBody(Cur.locals, Tail(Cur.todo), On(b, w), K2)
    <2>1. Cur.todo # <<>> /\ Head(Cur.todo).op = "alloc"
      BY <1>0
    <2>2. \E b \in Operands :
            /\ \/ Head(Cur.todo).n = 0 /\ Cur.ops = b
               \/ Head(Cur.todo).n = 1 /\ Head(Cur.todo).c \in Cell /\ \E v \in Value : Cur.ops = On(b, v)
            /\ \A j \in DOMAIN b : \E x \in Local : b[j] = Cur.locals[x]
            /\ \A w \in Value : \A K2 : InBody(Cur.locals, Tail(Cur.todo), On(b, w), K2)
      BY <1>1, <1>2, <2>1, AllocPoint
    <2> QED BY <1>0, <2>2
  <1>4. PICK h \in {heap, Collected(Roots)}, a \in Addr :
          /\ heap' = [h EXCEPT ![a] =
                [c \in Cell |-> IF Here.n = 1 /\ c = Here.c THEN Operand(0) ELSE Undef]]
          /\ Does(Here.n, <<a>>)
    BY DEF AllocInst
  <1>5. /\ h \in [Addr -> [Cell -> Value] \cup {Free}] /\ CellsAlive(h)
        /\ \A r \in Roots : h[r] # Free
        /\ \A j \in DOMAIN Cur.ops : Alive(h, Cur.ops[j])
    BY <1>0, <1>1, Collecting
  <1> DEFINE f == [c \in Cell |-> IF Here.n = 1 /\ c = Here.c THEN Operand(0) ELSE Undef]
  <1>6. /\ f \in [Cell -> Value] /\ \A c \in Cell : Alive(h, f[c])
        /\ \A j \in DOMAIN b : Alive(h, b[j])
        /\ SubSeq(Cur.ops, 1, Len(Cur.ops) - Here.n) \o <<a>> = On(b, a)
    <2>0. a \in Value /\ Undef \in Value /\ Alive(h, Undef)
      BY UndefAssumption DEF Value, Alive
    <2>1. CASE Here.n = 0 /\ Cur.ops = b
      <3>1. f = [c \in Cell |-> Undef]
        BY <2>1
      <3>2. SubSeq(Cur.ops, 1, Len(Cur.ops) - Here.n) \o <<a>> = On(b, a)
        BY <2>0, <2>1, Pops
      <3> QED BY <1>5, <2>0, <2>1, <3>1, <3>2
    <2>2. CASE Here.n = 1 /\ Here.c \in Cell /\ \E v \in Value : Cur.ops = On(b, v)
      <3>1. PICK v \in Value : Cur.ops = On(b, v)
        BY <2>2
      <3>2. Operand(0) = v
        BY <3>1, Tops DEF Operand
      <3>3. Alive(h, v) /\ \A j \in DOMAIN b : Alive(h, b[j])
        BY <1>5, <3>1, AliveOn
      <3>4. SubSeq(Cur.ops, 1, Len(Cur.ops) - Here.n) \o <<a>> = On(b, a)
        BY <2>0, <2>2, <3>1, Pops
      <3> QED BY <2>0, <3>2, <3>3, <3>4
    <2> QED BY <1>3, <2>1, <2>2
  <1>7. heap' = [h EXCEPT ![a] = f]
    BY <1>4
  <1> HIDE DEF f
  <1>8. /\ heap' \in [Addr -> [Cell -> Value] \cup {Free}] /\ CellsAlive(heap')
        /\ heap'[a] # Free
        /\ \A r \in Addr : h[r] # Free => heap'[r] # Free
    BY <1>5, <1>6, <1>7, Written
  <1>9. \A r \in Roots : heap'[r] # Free
    BY <1>5, <1>8, HeapFacts
  <1>10. On(b, a) \in Operands /\ \A j \in DOMAIN On(b, a) : Alive(heap', On(b, a)[j])
    <2>1. a \in Value /\ Alive(heap', a)
      BY <1>8 DEF Value, Alive
    <2>2. \A j \in DOMAIN b : Alive(heap', b[j])
      BY <1>6, <1>8 DEF Alive
    <2> QED BY <2>1, <2>2, Push, AliveOn
  <1>11. InBody(Cur.locals, Tail(Cur.todo), On(b, a), ReachFrom(Roots)')
    BY <1>3 DEF Value
  <1> QED BY <1>0, <1>1, <1>4, <1>6, <1>8, <1>9, <1>10, <1>11, Step

\* So does an allocation of data.
LEMMA AllocDataStep ==
  ASSUME Inv, AllocDataInst
  PROVE  Inv'
  <1>0. /\ Cur.todo # <<>> /\ Here.op = "data" /\ Here = Head(Cur.todo) /\ shadow' = shadow
        /\ heap' \in {heap, Collected(Roots)} /\ Does(0, <<>>)
    BY DEF AllocDataInst, Running, Here
  <1>1. InBody(Cur.locals, Cur.todo, Cur.ops, ReachFrom(Roots)) /\ Len(shadow) = Depth
    BY <1>0, RunsInBody
  <1>2. Cur.locals \in Locals /\ Cur.ops \in Operands /\ Cur.todo \in Code
    BY HeapFacts
  <1>3. \A K2 : InBody(Cur.locals, Tail(Cur.todo), Cur.ops, K2)
    BY <1>0, <1>1, <1>2, DataPoint
  <1>4. /\ heap' \in [Addr -> [Cell -> Value] \cup {Free}] /\ CellsAlive(heap')
        /\ \A r \in Roots : heap'[r] # Free
        /\ \A j \in DOMAIN Cur.ops : Alive(heap', Cur.ops[j])
    BY <1>0, <1>1, Collecting
  <1>5. SubSeq(Cur.ops, 1, Len(Cur.ops) - 0) \o <<>> = Cur.ops
    <2>1. Undef \in Value
      BY DEF Value
    <2> QED BY <1>2, <2>1, Pops
  <1>6. InBody(Cur.locals, Tail(Cur.todo), Cur.ops, ReachFrom(Roots)')
    BY <1>3
  <1> QED BY <1>0, <1>1, <1>2, <1>4, <1>5, <1>6, Step

\* And the boxing of a float, in a body or in a return.
LEMMA AllocF64Step ==
  ASSUME Inv, AllocF64Inst
  PROVE  Inv'
  <1>0. /\ Cur.todo # <<>> /\ Here.op = "f64" /\ Here = Head(Cur.todo) /\ shadow' = shadow
        /\ heap' \in {heap, Collected(Roots)} /\ Does(0, <<Undef>>)
    BY DEF AllocF64Inst, Running, Here
  <1>1. Cur.locals \in Locals /\ Cur.ops \in Operands /\ Cur.todo \in Code
    BY HeapFacts
  <1>2. Undef \in Value /\ \A h : Alive(h, Undef)
    BY UndefAssumption DEF Value, Alive
  <1>3. CASE InBody(Cur.locals, Cur.todo, Cur.ops, ReachFrom(Roots)) /\ Len(shadow) = Depth
    <2>1. InBody(Cur.locals, Tail(Cur.todo), On(Cur.ops, Undef), ReachFrom(Roots)')
      BY <1>0, <1>1, <1>3, F64Point
    <2>2. /\ heap' \in [Addr -> [Cell -> Value] \cup {Free}] /\ CellsAlive(heap')
          /\ \A r \in Roots : heap'[r] # Free
          /\ \A j \in DOMAIN Cur.ops : Alive(heap', Cur.ops[j])
      BY <1>0, <1>3, Collecting
    <2>3. /\ On(Cur.ops, Undef) \in Operands
          /\ \A j \in DOMAIN On(Cur.ops, Undef) : Alive(heap', On(Cur.ops, Undef)[j])
      BY <1>1, <1>2, <2>2, Push, AliveOn
    <2>4. SubSeq(Cur.ops, 1, Len(Cur.ops) - 0) \o <<Undef>> = On(Cur.ops, Undef)
      BY <1>1, <1>2, Pops
    <2> QED BY <1>0, <1>3, <2>1, <2>2, <2>3, <2>4, Step
  <1>4. CASE Leaving(Cur.locals, Cur.todo, Cur.ops) /\ Len(shadow) = Depth - 1 /\ Depth > 1
    <2>1. Cur.ops = <<>> /\ Tail(Cur.todo) = <<Return>>
      <3>1. Head(Cur.todo).op = "f64"
        BY <1>0
      <3> QED BY <1>1, <1>4, <3>1, LeaveF64Point, Zenon
    <2>2. /\ heap' \in [Addr -> [Cell -> Value] \cup {Free}] /\ CellsAlive(heap')
          /\ \A r \in ReachFrom(Roots) : heap'[r] # Free
      BY <1>0, HeapFacts, GcKeeps
    <2>3. \A r \in Roots : heap'[r] # Free
      BY <2>2, HeapFacts, Reached
    <2>4. <<Undef>> \in Operands /\ \A j \in DOMAIN <<Undef>> : Alive(heap', <<Undef>>[j])
      BY <1>2, One
    <2>5. SubSeq(Cur.ops, 1, Len(Cur.ops) - 0) \o <<Undef>> = <<Undef>>
      <3>1. <<>> \in Operands /\ <<Undef>> = On(<<>>, Undef)
        BY <1>2, One, Zenon
      <3>2. SubSeq(<<>>, 1, Len(<<>>) - 0) \o <<Undef>> = On(<<>>, Undef)
        BY <1>2, <3>1, Pops, Zenon
      <3> QED BY <2>1, <3>1, <3>2, Zenon
    <2>6. LeaveReturn(Tail(Cur.todo), <<Undef>>) /\ ~LeaveRead(Cur.locals, Tail(Cur.todo), <<Undef>>)
      BY <1>2, <2>1 DEF LeaveReturn, LeaveRead
    <2> QED BY <1>0, <1>4, <2>2, <2>3, <2>4, <2>5, <2>6, Step
  <1>5. ~AtExit(Cur.locals, Cur.todo, Cur.ops)
    BY <1>0, <1>1, ExitHead, Fields
  <1> QED BY <1>3, <1>4, <1>5 DEF Inv, PointInv

\* The stack after the running function was replaced by g.
LEMMA TopSet ==
  ASSUME Inv, NEW g \in Activation, stack' = [stack EXCEPT ![Depth] = g]
  PROVE  /\ stack' \in Seq(Activation) /\ stack' # <<>> /\ Depth' = Depth
         /\ DOMAIN stack' = 1 .. Depth
         /\ \A i \in 1 .. Depth - 1 : stack'[i] = stack[i]
         /\ Cur' = g /\ stack'[Depth] = g
  <1>1. /\ Depth \in Nat /\ Depth >= 1 /\ DOMAIN stack = 1 .. Depth
        /\ stack \in Seq(Activation) /\ Depth = Len(stack)
    BY Shape DEF Inv, StateOK, Depth
  <1>2. stack' \in Seq(Activation) /\ Len(stack') = Depth /\ stack'[Depth] = g
    BY <1>1
  <1>3. \A i \in 1 .. Depth - 1 : stack'[i] = stack[i]
    <2> SUFFICES ASSUME NEW i \in 1 .. Depth - 1 PROVE stack'[i] = stack[i]
      OBVIOUS
    <2>1. i \in 1 .. Depth /\ i # Depth
      BY <1>1, Callers, Zenon
    <2> QED BY <1>1, <2>1
  <1>4. Depth' = Depth /\ Cur' = g
    BY <1>2 DEF Depth, Cur
  <1>5. stack' # <<>> /\ DOMAIN stack' = 1 .. Depth
    BY <1>1, <1>2
  <1> QED BY <1>2, <1>3, <1>4, <1>5

\* A statement that begins keeps the invariant.
LEMMA BeginStep ==
  ASSUME Inv, Exprs \subseteq SafeExprs, NEW s \in Stmts, Begin(s)
  PROVE  Inv'
  <1>0. /\ Cur.todo = <<>> /\ (Head(s) = GcExitFn => Depth > 1) /\ Promised(Cur.locals, s)
        /\ \A i \in DOMAIN s : s[i].op = "call" => Depth < MaxDepth
        /\ heap' = heap /\ shadow' = shadow /\ stack' = [stack EXCEPT ![Depth].todo = s]
    BY DEF Begin, Promised
  <1>1. /\ Cur.locals \in Locals /\ Cur.ops \in Operands /\ Cur \in Activation /\ Cur = stack[Depth]
        /\ Depth \in 1 .. Depth /\ DOMAIN stack = 1 .. Depth
    BY Shape
  <1>2. /\ s \in Code
        /\ \/ \A K : InBody(Cur.locals, s, <<>>, K)
           \/ AtExit(Cur.locals, s, <<>>) /\ Head(s) = GcExitFn
    BY <1>0, <1>1, BeginPoint
  <1>3. Cur.ops = <<>> /\ Len(shadow) = Depth
    <2>1. ~AtExit(Cur.locals, Cur.todo, Cur.ops) /\ ~Leaving(Cur.locals, Cur.todo, Cur.ops)
      <3>1. ~AtExit(Cur.locals, Cur.todo, Cur.ops)
        BY <1>0, <1>1, ExitHead
      <3>2. ~Leaving(Cur.locals, Cur.todo, Cur.ops)
        <4> SUFFICES ASSUME Leaving(Cur.locals, Cur.todo, Cur.ops) PROVE FALSE
          OBVIOUS
        <4>1. Cur.todo # <<>>
          BY <1>1, LeavePoint, Zenon
        <4> QED BY <1>0, <4>1
      <3> QED BY <3>1, <3>2
    <2>2. InBody(Cur.locals, Cur.todo, Cur.ops, ReachFrom(Roots)) /\ Len(shadow) = Depth
      BY <2>1 DEF Inv, PointInv
    <2>3. Cur.ops = <<>>
      <3>1. \A x \in Local, t \in Code : Then(GetObj(x), t) # <<>>
        BY Cons, Instrs
      <3>2. ~AtStore(Cur.locals, Cur.todo, Cur.ops)
        BY <1>0, <3>1 DEF AtStore
      <3>3. ~ExprAt(Cur.locals, Cur.todo, Cur.ops)
        BY <1>0, <1>1, ExprHead
      <3>4. ~AtLoad(Cur.locals, Cur.todo, Cur.ops)
        BY <1>0, Cons, Instrs DEF AtLoad
      <3>5. ~AtArg(Cur.locals, Cur.todo, Cur.ops, ReachFrom(Roots))
        BY <1>0, <1>1, ArgHead DEF AtArg
      <3>6. ~AtWrite(Cur.locals, Cur.todo, Cur.ops)
        BY <1>0, Cons, Instrs DEF AtWrite
      <3>7. ~AtCall(Cur.locals, Cur.todo, Cur.ops)
        BY <1>0, Cons, Instrs DEF AtCall
      <3>8. ~AtValue(Cur.locals, Cur.todo, Cur.ops)
        BY <1>0, <1>1, RestHead DEF AtValue
      <3>9. ~AtSlot(Cur.locals, Cur.todo, Cur.ops)
        BY <1>0 DEF AtSlot
      <3> QED BY <2>2, <3>2, <3>3, <3>4, <3>5, <3>6, <3>7, <3>8, <3>9 DEF InBody, Idle
    <2> QED BY <2>2, <2>3
  <1> DEFINE g == [Cur EXCEPT !.todo = s]
  <1>4. g \in Activation /\ g.locals = Cur.locals /\ g.todo = s /\ g.ops = Cur.ops
    BY <1>1, <1>2 DEF Activation
  <1>5. stack' = [stack EXCEPT ![Depth] = g]
    BY <1>0, <1>1 DEF Activation
  <1> HIDE DEF g
  <1>6. /\ stack' \in Seq(Activation) /\ stack' # <<>> /\ Depth' = Depth
        /\ DOMAIN stack' = 1 .. Depth
        /\ \A i \in 1 .. Depth - 1 : stack'[i] = stack[i]
        /\ Cur' = g /\ stack'[Depth] = g
    BY <1>4, <1>5, TopSet
  <1>7. /\ \A i \in 1 .. Depth : stack'[i].locals = stack[i].locals /\ stack'[i].ops = stack[i].ops
        /\ Depth \in Nat /\ Len(shadow) \in Nat /\ DOMAIN shadow = 1 .. Len(shadow)
    BY <1>1, <1>4, <1>6, Shape, Below
  <1>8. StateOK'
    BY <1>0, <1>6 DEF Inv, StateOK
  <1>9. PointInv'
    <2>1. \A i \in 1 .. Depth - 1 : Rest(stack'[i].locals, stack'[i].todo, stack'[i].ops)
      BY <1>6 DEF Inv, PointInv
    <2>2. \/ InBody(Cur'.locals, Cur'.todo, Cur'.ops, ReachFrom(Roots)') /\ Len(shadow') = Depth
          \/ AtExit(Cur'.locals, Cur'.todo, Cur'.ops) /\ Len(shadow') = Depth /\ Depth > 1
      BY <1>0, <1>2, <1>3, <1>4, <1>6
    <2> QED BY <1>6, <2>1, <2>2 DEF PointInv
  <1>10. DepthInv'
    BY <1>0, <1>4, <1>6 DEF Inv, DepthInv
  <1>11. MirrorInv'
    <2> SUFFICES ASSUME NEW i \in DOMAIN shadow, NEW x \in Local
                 PROVE  \/ shadow[i][x] = stack'[i].locals[x]
                        \/ /\ x \in Param /\ shadow[i][x] = Undef
                           /\ \E j \in 1 .. i - 1, y \in Local : shadow[j][y] = stack'[i].locals[x]
      BY <1>0 DEF MirrorInv
    <2>1. stack'[i].locals = stack[i].locals
      BY <1>3, <1>7
    <2> QED BY <1>0, <2>1 DEF Inv, MirrorInv
  <1>12. AliveInv'
    <2>1. SlotsAlive' /\ CellsAlive(heap)'
      BY <1>0, HeapFacts DEF SlotsAlive
    <2>2. \A i \in DOMAIN stack' : \A j \in DOMAIN stack'[i].ops : Alive(heap', stack'[i].ops[j])
      BY <1>0, <1>1, <1>6, <1>7 DEF Inv, AliveInv
    <2>3. ~(Len(shadow') < Depth')
      <3>1. Depth \in Nat /\ Len(shadow') = Depth /\ Depth' = Depth
        BY <1>0, <1>3, <1>6, <1>7
      <3> QED BY <3>1
    <2> QED BY <2>1, <2>2, <2>3 DEF AliveInv
  <1> QED BY <1>8, <1>9, <1>10, <1>11, <1>12 DEF Inv

\* Setting a local keeps the invariant: its slot comes next.
LEMMA TeeStep ==
  ASSUME Inv, TeeLocalInst
  PROVE  Inv'
  <1>0. /\ Cur.todo # <<>> /\ Here.op = "tee" /\ Here = Head(Cur.todo) /\ heap' = heap /\ shadow' = shadow
        /\ stack' = [stack EXCEPT ![Depth].locals[Here.x] = Operand(0), ![Depth].todo = Tail(@)]
    BY DEF TeeLocalInst, Running, Here
  <1>1. /\ Cur.locals \in Locals /\ Cur.ops \in Operands /\ Cur.todo \in Code
        /\ Cur \in Activation /\ Cur = stack[Depth]
        /\ Depth \in 1 .. Depth /\ DOMAIN stack = 1 .. Depth
        /\ Depth \in Nat /\ Len(shadow) \in Nat /\ DOMAIN shadow = 1 .. Len(shadow)
    BY Shape
  <1>2. InBody(Cur.locals, Cur.todo, Cur.ops, ReachFrom(Roots)) /\ Len(shadow) = Depth
    BY <1>0, RunsInBody
  <1>3. PICK v \in Value : Cur.ops = On(<<>>, v)
    BY <1>0, <1>1, <1>2, TeePoint
  <1> DEFINE x == Here.x
  <1>4. x \in Local /\ Tail(Cur.todo) = <<SetSlot(x)>>
    BY <1>0, <1>1, <1>2, TeePoint
  <1> HIDE DEF x
  <1>5. Operand(0) = v /\ <<>> \in Operands /\ Cur.ops = <<v>>
    <2>1. <<>> \in Operands /\ <<v>> = On(<<>>, v)
      BY One, Zenon
    <2>2. Operand(0) = v
      BY <1>3, <2>1, Tops DEF Operand
    <2> QED BY <1>3, <2>1, <2>2
  <1> DEFINE M == [Cur.locals EXCEPT ![x] = v]
             g == [Cur EXCEPT !.locals = M, !.todo = Tail(Cur.todo)]
  <1>6. M \in Locals /\ M[x] = v /\ \A y \in Local : y # x => M[y] = Cur.locals[y]
    BY <1>1, <1>4 DEF Locals
  <1>7. g \in Activation /\ g.locals = M /\ g.todo = <<SetSlot(x)>> /\ g.ops = Cur.ops
    <2>1. Tail(Cur.todo) \in Code
      BY <1>0, <1>1, TailOf
    <2> HIDE DEF M
    <2> QED BY <1>1, <1>4, <1>6, <2>1 DEF Activation
  <1>8. stack' = [stack EXCEPT ![Depth] = g]
    BY <1>0, <1>1, <1>5 DEF Activation, x
  <1> HIDE DEF M, g
  <1>9. /\ stack' \in Seq(Activation) /\ stack' # <<>> /\ Depth' = Depth
        /\ DOMAIN stack' = 1 .. Depth
        /\ \A i \in 1 .. Depth - 1 : stack'[i] = stack[i]
        /\ Cur' = g /\ stack'[Depth] = g
    BY <1>7, <1>8, TopSet
  <1>10. StateOK'
    BY <1>0, <1>9 DEF Inv, StateOK
  <1>11. PointInv'
    <2>1. \A i \in 1 .. Depth - 1 : Rest(stack'[i].locals, stack'[i].todo, stack'[i].ops)
      BY <1>9 DEF Inv, PointInv
    <2>2. AtSlot(Cur'.locals, Cur'.todo, Cur'.ops)
      BY <1>4, <1>5, <1>6, <1>7, <1>9 DEF AtSlot
    <2>3. InBody(Cur'.locals, Cur'.todo, Cur'.ops, ReachFrom(Roots)') /\ Len(shadow') = Depth
      BY <1>0, <1>2, <2>2 DEF InBody
    <2> QED BY <1>9, <2>1, <2>3 DEF PointInv
  <1>12. DepthInv'
    <2>1. \A j \in DOMAIN Cur'.todo : Cur'.todo[j].op # "call"
      <3>1. Cur'.todo = <<SetSlot(x)>>
        BY <1>7, <1>9
      <3>2. \A j \in DOMAIN Cur'.todo : Cur'.todo[j] = SetSlot(x)
        BY <3>1
      <3> QED BY <3>2, Fields
    <2> QED BY <1>9, <2>1 DEF Inv, DepthInv
  <1>13. MirrorInv'
    <2> SUFFICES ASSUME NEW i \in DOMAIN shadow', NEW y \in Local
                 PROVE  \/ shadow'[i][y] = stack'[i].locals[y]
                        \/ /\ y \in Param /\ shadow'[i][y] = Undef
                           /\ \E j \in 1 .. i - 1, z \in Local : shadow'[j][z] = stack'[i].locals[y]
                        \/ i = Depth' /\ Cur'.todo # <<>> /\ Here' = SetSlot(y)
      BY Zenon DEF MirrorInv
    <2>0. shadow' = shadow /\ i \in DOMAIN shadow
      BY <1>0
    <2>1. i \in 1 .. Depth /\ Here # SetSlot(y)
      BY <1>0, <1>1, <1>2, <2>0, Fields
    <2>2. CASE i = Depth /\ y = x
      <3>1. Cur'.todo # <<>> /\ Head(Cur'.todo) = SetSlot(x)
        BY <1>4, <1>7, <1>9, Short, Instrs
      <3> QED BY <1>9, <2>2, <3>1 DEF Here
    <2>3. CASE ~(i = Depth /\ y = x)
      <3>1. stack'[i].locals[y] = stack[i].locals[y]
        BY <1>1, <1>6, <1>7, <1>9, <2>1, <2>3, Below
      <3> QED BY <2>0, <2>1, <3>1 DEF Inv, MirrorInv
    <2> QED BY <2>2, <2>3
  <1>14. AliveInv'
    <2>1. SlotsAlive' /\ CellsAlive(heap)'
      BY <1>0, HeapFacts DEF SlotsAlive
    <2>2. \A i \in 1 .. Depth : stack'[i].ops = stack[i].ops
      BY <1>1, <1>7, <1>9, Below
    <2>3. \A i \in DOMAIN stack' : \A j \in DOMAIN stack'[i].ops : Alive(heap', stack'[i].ops[j])
      BY <1>0, <1>1, <1>9, <2>2 DEF Inv, AliveInv
    <2>4. ~(Len(shadow') < Depth')
      <3>1. Depth \in Nat /\ Len(shadow') = Depth /\ Depth' = Depth
        BY <1>0, <1>1, <1>2, <1>9
      <3> QED BY <3>1
    <2> QED BY <2>1, <2>3, <2>4 DEF AliveInv
  <1> QED BY <1>10, <1>11, <1>12, <1>13, <1>14 DEF Inv

\* Setting the slot ends the statement and mirrors the local.
LEMMA SlotStep ==
  ASSUME Inv, SetSlotInst
  PROVE  Inv'
  <1>0. /\ Cur.todo # <<>> /\ Here.op = "slot" /\ Here = Head(Cur.todo) /\ heap' = heap
        /\ shadow' = [shadow EXCEPT ![Len(shadow)][Here.x] = Operand(0)]
        /\ Does(1, <<>>)
    BY DEF SetSlotInst, Running, Here
  <1>1. /\ Cur.locals \in Locals /\ Cur.ops \in Operands /\ Cur.todo \in Code /\ Cur = stack[Depth]
        /\ Depth \in 1 .. Depth /\ DOMAIN stack = 1 .. Depth
        /\ Depth \in Nat /\ Len(shadow) \in Nat /\ DOMAIN shadow = 1 .. Len(shadow)
        /\ shadow \in Seq(Locals)
    BY Shape, HeapFacts
  <1>2. InBody(Cur.locals, Cur.todo, Cur.ops, ReachFrom(Roots)) /\ Len(shadow) = Depth
    BY <1>0, RunsInBody
  <1>3. PICK x \in Local : /\ Here = SetSlot(x) /\ Cur.ops = On(<<>>, Cur.locals[x])
                           /\ Tail(Cur.todo) = <<>>
    BY <1>0, <1>1, <1>2, SlotPoint
  <1> DEFINE v == Cur.locals[x]
  <1>4. v \in Value /\ Here.x = x /\ <<>> \in Operands
    BY <1>1, <1>3, Fields DEF Locals, Operands
  <1>5. Cur.ops = On(<<>>, v) /\ v = stack[Depth].locals[x]
    BY <1>1, <1>3
  <1> HIDE DEF v
  <1>6. Operand(0) = v /\ Alive(heap, v)
    <2>1. Operand(0) = v
      BY <1>4, <1>5, Tops DEF Operand
    <2>2. Alive(heap, v)
      BY <1>4, <1>5, HeapFacts, AliveOn
    <2> QED BY <2>1, <2>2
  <1>7. SubSeq(Cur.ops, 1, Len(Cur.ops) - 1) \o <<>> = <<>>
    BY <1>4, <1>5, Pops, ZenonT(40)
  <1>8. /\ stack' \in Seq(Activation) /\ stack' # <<>> /\ Depth' = Depth
        /\ DOMAIN stack' = 1 .. Depth
        /\ \A i \in 1 .. Depth - 1 : stack'[i] = stack[i]
        /\ Cur' = stack'[Depth]
        /\ Cur'.locals = Cur.locals /\ Cur'.todo = Tail(Cur.todo) /\ Cur'.ops = <<>>
        /\ \A i \in 1 .. Depth : stack'[i].locals = stack[i].locals
    BY <1>0, <1>4, <1>7, DoesTop
  <1> DEFINE F == [shadow[Depth] EXCEPT ![x] = v]
  <1>9. F \in Locals /\ F[x] = v /\ \A y \in Local : y # x => F[y] = shadow[Depth][y]
    <2>1. shadow[Depth] \in Locals
      BY <1>1, <1>2
    <2> QED BY <1>4, <2>1 DEF Locals
  <1>10. shadow' = [shadow EXCEPT ![Depth] = F]
    BY <1>0, <1>1, <1>2, <1>4, <1>6
  <1> HIDE DEF F
  <1>11. /\ shadow' \in Seq(Locals) /\ Len(shadow') = Depth /\ DOMAIN shadow' = 1 .. Depth
         /\ shadow'[Depth] = F
    BY <1>1, <1>2, <1>9, <1>10
  <1>12. \A i \in 1 .. Depth - 1 : shadow'[i] = shadow[i]
    BY <1>1, <1>2, <1>10, Callers
  <1>13. StateOK'
    BY <1>0, <1>8, <1>11 DEF Inv, StateOK
  <1>14. PointInv'
    <2>1. \A i \in 1 .. Depth - 1 : Rest(stack'[i].locals, stack'[i].todo, stack'[i].ops)
      BY <1>8 DEF Inv, PointInv
    <2>2. InBody(Cur'.locals, Cur'.todo, Cur'.ops, ReachFrom(Roots)') /\ Len(shadow') = Depth
      BY <1>3, <1>8, <1>11 DEF InBody, Idle
    <2> QED BY <1>8, <2>1, <2>2 DEF PointInv
  <1>15. DepthInv'
    <2>1. Cur'.todo = <<>>
      BY <1>3, <1>8
    <2>2. \A j \in DOMAIN Cur'.todo : FALSE
      BY <2>1
    <2> QED BY <1>8, <2>2 DEF Inv, DepthInv
  <1>16. MirrorInv'
    <2> SUFFICES ASSUME NEW i \in DOMAIN shadow', NEW y \in Local
                 PROVE  \/ shadow'[i][y] = stack'[i].locals[y]
                        \/ /\ y \in Param /\ shadow'[i][y] = Undef
                           /\ \E j \in 1 .. i - 1, z \in Local : shadow'[j][z] = stack'[i].locals[y]
      BY Zenon DEF MirrorInv
    <2>1. i \in 1 .. Depth /\ i \in DOMAIN shadow /\ stack'[i].locals = stack[i].locals
      BY <1>1, <1>2, <1>8, <1>11
    <2>2. CASE i = Depth /\ y = x
      BY <1>5, <1>9, <1>11, <2>1, <2>2
    <2>3. CASE ~(i = Depth /\ y = x)
      <3>1. shadow'[i][y] = shadow[i][y]
        BY <1>1, <1>9, <1>11, <1>12, <2>1, <2>3, Below
      <3>2. ~(i = Depth /\ Here = SetSlot(y))
        BY <1>3, <2>3, Fields
      <3>3. \A j \in 1 .. i - 1 : shadow'[j] = shadow[j]
        <4>1. i \in Nat /\ i <= Depth
          BY <2>1
        <4>2. \A j \in 1 .. i - 1 : j \in 1 .. Depth - 1
          BY <1>1, <4>1
        <4> QED BY <1>12, <4>2
      <3>4. \/ shadow[i][y] = stack[i].locals[y]
            \/ /\ y \in Param /\ shadow[i][y] = Undef
               /\ \E j \in 1 .. i - 1, z \in Local : shadow[j][z] = stack[i].locals[y]
        BY <2>1, <3>2 DEF Inv, MirrorInv
      <3> QED BY <2>1, <3>1, <3>3, <3>4
    <2> QED BY <2>2, <2>3
  <1>17. AliveInv'
    <2>1. SlotsAlive'
      <3> SUFFICES ASSUME NEW i \in DOMAIN shadow', NEW y \in Local
                   PROVE  Alive(heap', shadow'[i][y])
        BY DEF SlotsAlive
      <3>1. i \in 1 .. Depth /\ i \in DOMAIN shadow
        BY <1>1, <1>2, <1>11
      <3>2. shadow'[i][y] = v \/ shadow'[i][y] = shadow[i][y]
        BY <1>1, <1>9, <1>11, <1>12, <3>1, Below
      <3> QED BY <1>0, <1>6, <3>1, <3>2, HeapFacts DEF SlotsAlive
    <2>2. CellsAlive(heap)'
      BY <1>0, HeapFacts
    <2>3. ASSUME NEW i \in 1 .. Depth, NEW j \in DOMAIN stack'[i].ops
          PROVE  Alive(heap', stack'[i].ops[j])
      <3>1. i # Depth
        BY <1>8, <2>3
      <3>2. i \in 1 .. Depth - 1 /\ stack'[i] = stack[i]
        BY <1>1, <1>8, <3>1, Below
      <3> QED BY <1>0, <1>1, <2>3, <3>2 DEF Inv, AliveInv
    <2>4. ~(Len(shadow') < Depth')
      <3>1. Depth \in Nat /\ Len(shadow') = Depth /\ Depth' = Depth
        BY <1>1, <1>8, <1>11
      <3> QED BY <3>1
    <2> QED BY <1>8, <2>1, <2>2, <2>3, <2>4 DEF AliveInv
  <1> QED BY <1>13, <1>14, <1>15, <1>16, <1>17 DEF Inv

\* gc_exit_fn drops the frame: the locals that the return reads are alive.
LEMMA ExitStep ==
  ASSUME Inv, GcExitInst
  PROVE  Inv'
  <1>0. /\ Cur.todo # <<>> /\ Here.op = "exit" /\ Here = Head(Cur.todo) /\ heap' = heap
        /\ shadow' = SubSeq(shadow, 1, Len(shadow) - 1) /\ Does(0, <<>>)
    BY DEF GcExitInst, Running, Here
  <1>1. /\ Cur.locals \in Locals /\ Cur.ops \in Operands /\ Cur.todo \in Code /\ Cur = stack[Depth]
        /\ Depth \in 1 .. Depth /\ DOMAIN stack = 1 .. Depth
        /\ Depth \in Nat /\ Len(shadow) \in Nat /\ DOMAIN shadow = 1 .. Len(shadow)
        /\ shadow \in Seq(Locals)
    BY Shape, HeapFacts
  <1>2. AtExit(Cur.locals, Cur.todo, Cur.ops) /\ Len(shadow) = Depth /\ Depth > 1
    <2>1. ~InBody(Cur.locals, Cur.todo, Cur.ops, ReachFrom(Roots))
      BY <1>0, <1>1, PointHead
    <2>2. ~Leaving(Cur.locals, Cur.todo, Cur.ops)
      <3> SUFFICES ASSUME Leaving(Cur.locals, Cur.todo, Cur.ops) PROVE FALSE
        OBVIOUS
      <3>1. Head(Cur.todo).op \in {"get", "f64", "load", "return"}
        BY <1>1, LeavePoint, Zenon
      <3> QED BY <1>0, <3>1
    <2> QED BY <2>1, <2>2 DEF Inv, PointInv
  <1>3. Cur.ops = <<>> /\ Leaving(Cur.locals, Tail(Cur.todo), <<>>)
    BY <1>1, <1>2, ExitHead
  <1>4. SubSeq(Cur.ops, 1, Len(Cur.ops) - 0) \o <<>> = <<>> /\ <<>> \in Operands
    <2>1. Undef \in Value /\ <<>> \in Operands
      BY DEF Value, Operands
    <2>2. SubSeq(<<>>, 1, Len(<<>>) - 0) \o <<>> = <<>>
      BY <2>1, Pops, Zenon
    <2> QED BY <1>3, <2>1, <2>2, Zenon
  <1>5. /\ stack' \in Seq(Activation) /\ stack' # <<>> /\ Depth' = Depth
        /\ DOMAIN stack' = 1 .. Depth
        /\ \A i \in 1 .. Depth - 1 : stack'[i] = stack[i]
        /\ Cur' = stack'[Depth]
        /\ Cur'.locals = Cur.locals /\ Cur'.todo = Tail(Cur.todo) /\ Cur'.ops = <<>>
        /\ \A i \in 1 .. Depth : stack'[i].locals = stack[i].locals
    BY <1>0, <1>4, DoesTop
  <1>6. /\ shadow' \in Seq(Locals) /\ Len(shadow') = Depth - 1
        /\ DOMAIN shadow' = 1 .. Depth - 1
        /\ \A i \in 1 .. Depth - 1 : shadow'[i] = shadow[i]
    BY <1>0, <1>1, <1>2
  <1>7. \A i \in 1 .. Depth - 1 : i \in DOMAIN shadow /\ i \in 1 .. Depth /\ i # Depth
    BY <1>1, <1>2, Callers
  <1>8. StateOK'
    BY <1>0, <1>5, <1>6 DEF Inv, StateOK
  <1>9. PointInv'
    <2>1. \A i \in 1 .. Depth - 1 : Rest(stack'[i].locals, stack'[i].todo, stack'[i].ops)
      BY <1>5 DEF Inv, PointInv
    <2>2. Leaving(Cur'.locals, Cur'.todo, Cur'.ops) /\ Len(shadow') = Depth - 1 /\ Depth > 1
      BY <1>2, <1>3, <1>5, <1>6
    <2> QED BY <1>5, <2>1, <2>2 DEF PointInv
  <1>10. DepthInv'
    <2>1. \A j \in DOMAIN Tail(Cur.todo) :
            j + 1 \in DOMAIN Cur.todo /\ Tail(Cur.todo)[j] = Cur.todo[j + 1]
      BY <1>0, <1>1, TailOf
    <2> QED BY <1>5, <2>1 DEF Inv, DepthInv
  <1>11. MirrorInv'
    <2> SUFFICES ASSUME NEW i \in DOMAIN shadow', NEW y \in Local
                 PROVE  \/ shadow'[i][y] = stack'[i].locals[y]
                        \/ /\ y \in Param /\ shadow'[i][y] = Undef
                           /\ \E j \in 1 .. i - 1, z \in Local : shadow'[j][z] = stack'[i].locals[y]
      BY Zenon DEF MirrorInv
    <2>1. i \in 1 .. Depth - 1 /\ shadow'[i] = shadow[i] /\ stack'[i].locals = stack[i].locals
      BY <1>5, <1>6
    <2>2. \A j \in 1 .. i - 1 : shadow'[j] = shadow[j]
      <3>1. i \in Nat /\ i <= Depth - 1
        BY <1>1, <2>1
      <3>2. \A j \in 1 .. i - 1 : j \in 1 .. Depth - 1
        BY <1>1, <3>1
      <3> QED BY <1>6, <3>2
    <2>3. \/ shadow[i][y] = stack[i].locals[y]
          \/ /\ y \in Param /\ shadow[i][y] = Undef
             /\ \E j \in 1 .. i - 1, z \in Local : shadow[j][z] = stack[i].locals[y]
      BY <1>7, <2>1 DEF Inv, MirrorInv
    <2> QED BY <2>1, <2>2, <2>3
  <1>12. AliveInv'
    <2>1. SlotsAlive'
      BY <1>0, <1>6, <1>7, HeapFacts DEF SlotsAlive
    <2>2. CellsAlive(heap)'
      BY <1>0, HeapFacts
    <2>3. ASSUME NEW i \in 1 .. Depth, NEW j \in DOMAIN stack'[i].ops
          PROVE  Alive(heap', stack'[i].ops[j])
      <3>1. i # Depth
        BY <1>5, <2>3
      <3>2. i \in 1 .. Depth - 1 /\ stack'[i] = stack[i]
        BY <1>1, <1>5, <3>1, Below
      <3> QED BY <1>0, <1>1, <2>3, <3>2 DEF Inv, AliveInv
    <2>4. \A x \in Local : Alive(heap', Cur'.locals[x])
      <3>1. Here.op # "slot"
        BY <1>0
      <3> QED BY <1>0, <1>2, <1>5, <3>1, BodyRooted DEF Alive
    <2> QED BY <1>5, <2>1, <2>2, <2>3, <2>4 DEF AliveInv
  <1> QED BY <1>8, <1>9, <1>10, <1>11, <1>12 DEF Inv

\* What is left after an expression makes no call.
LEMMA RestCalls ==
  ASSUME NEW L, NEW k, NEW b, Rest(L, k, b), NEW j \in DOMAIN k
  PROVE  k[j].op # "call"
  <1>1. CASE k = <<Drop>>
    BY <1>1, Fields
  <1>2. CASE \E x \in Local : k = <<TeeLocal(x), SetSlot(x)>>
    <2>1. PICK x \in Local : k = <<TeeLocal(x), SetSlot(x)>>
      BY <1>2
    <2>2. k[j] = TeeLocal(x) \/ k[j] = SetSlot(x)
      BY <2>1
    <2> QED BY <2>2, Fields
  <1>3. CASE \E c \in Cell : k = <<Store(c, "nothing")>>
    <2>1. PICK c \in Cell : k = <<Store(c, "nothing")>>
      BY <1>3
    <2>2. k[j] = Store(c, "nothing")
      BY <2>1
    <2> QED BY <2>2, Fields
  <1> QED BY <1>1, <1>2, <1>3 DEF Rest

\* A call keeps the invariant: the arguments are rooted by the caller's slots.
LEMMA CallStep ==
  ASSUME Inv, CallInst
  PROVE  Inv'
  <1> DEFINE callee == [locals |-> [x \in Local |-> IF x \in Param THEN Operand(0) ELSE Undef],
                        ops |-> <<>>, todo |-> <<>>]
             caller == [Cur EXCEPT !.ops = SubSeq(@, 1, Len(@) - 1), !.todo = Tail(@)]
  <1>0. /\ Cur.todo # <<>> /\ Here.op = "call" /\ Here = Head(Cur.todo) /\ heap' = heap
        /\ stack' = [stack EXCEPT ![Depth] = caller] \o <<callee>>
        /\ shadow' = Append(shadow, EmptyFrame)
    BY DEF CallInst, Running, Here, gc_enter_fn
  <1>1. /\ Cur.locals \in Locals /\ Cur.ops \in Operands /\ Cur.todo \in Code /\ Cur = stack[Depth]
        /\ Depth \in 1 .. Depth /\ DOMAIN stack = 1 .. Depth /\ Cur \in Activation
        /\ Depth \in Nat /\ Len(shadow) \in Nat /\ DOMAIN shadow = 1 .. Len(shadow)
        /\ shadow \in Seq(Locals) /\ stack \in Seq(Activation) /\ Depth = Len(stack)
    BY Shape, HeapFacts DEF Inv, StateOK, Depth
  <1>2. InBody(Cur.locals, Cur.todo, Cur.ops, ReachFrom(Roots)) /\ Len(shadow) = Depth
    BY <1>0, RunsInBody
  <1>3. PICK b \in Operands, x0 \in Local : /\ Cur.ops = On(b, Cur.locals[x0])
                                            /\ Rest(Cur.locals, Tail(Cur.todo), b)
    <2>1. Cur.locals \in Locals /\ Cur.ops \in Operands /\ Cur.todo \in Code
      BY <1>1
    <2> HIDE DEF caller, callee
    <2> QED BY <1>0, <1>2, <2>1, CallPoint
  <1> DEFINE v == Cur.locals[x0]
  <1>4. v \in Value /\ Operand(0) = v /\ SubSeq(Cur.ops, 1, Len(Cur.ops) - 1) = b
    <2>1. v \in Value
      BY <1>1 DEF Locals
    <2>2. Operand(0) = v
      BY <1>3, <2>1, Tops DEF Operand
    <2>3. SubSeq(Cur.ops, 1, Len(Cur.ops) - 1) = b
      BY <1>3, <2>1, Push
    <2> QED BY <2>1, <2>2, <2>3
  <1> HIDE DEF v
  <1>5. /\ caller \in Activation /\ caller.locals = Cur.locals /\ caller.ops = b
        /\ caller.todo = Tail(Cur.todo)
    <2>1. Tail(Cur.todo) \in Code
      BY <1>0, <1>1, TailOf
    <2> QED BY <1>1, <1>4, <2>1 DEF Activation
  <1>6. /\ callee \in Activation /\ callee.ops = <<>> /\ callee.todo = <<>>
        /\ \A x \in Param : callee.locals[x] = v
        /\ \A x \in Local : x \notin Param => callee.locals[x] = Undef
    <2>1. <<>> \in Operands /\ <<>> \in Code
      BY DEF Operands, Code
    <2>2. [x \in Local |-> IF x \in Param THEN Operand(0) ELSE Undef] \in Locals
      BY <1>4 DEF Locals, Value
    <2>3. callee \in Activation
      BY <2>1, <2>2 DEF Activation
    <2> QED BY <1>4, <2>3, LocalsAssumption
  <1> HIDE DEF caller, callee
  <1>7. /\ stack' \in Seq(Activation) /\ Len(stack') = Depth + 1
        /\ stack'[Depth + 1] = callee /\ stack'[Depth] = caller
        /\ \A i \in 1 .. Depth - 1 : stack'[i] = stack[i]
    <2> DEFINE u == [stack EXCEPT ![Depth] = caller]
    <2>1. u \in Seq(Activation) /\ Len(u) = Depth /\ u[Depth] = caller
      BY <1>1, <1>5
    <2>2. \A i \in 1 .. Depth - 1 : u[i] = stack[i] /\ i \in 1 .. Depth
      <3> SUFFICES ASSUME NEW i \in 1 .. Depth - 1 PROVE u[i] = stack[i] /\ i \in 1 .. Depth
        OBVIOUS
      <3>1. i \in 1 .. Depth /\ i # Depth
        BY <1>1, Callers, Zenon
      <3> QED BY <1>1, <3>1
    <2>3. stack' = u \o <<callee>>
      BY <1>0
    <2> HIDE DEF u
    <2>4. /\ stack' \in Seq(Activation) /\ Len(stack') = Depth + 1 /\ stack'[Depth + 1] = callee
          /\ \A i \in 1 .. Depth : stack'[i] = u[i]
      BY <1>1, <1>6, <2>1, <2>3
    <2> QED BY <1>1, <2>1, <2>2, <2>4
  <1>8. /\ Depth' = Depth + 1 /\ Cur' = callee /\ stack' # <<>>
        /\ DOMAIN stack' = 1 .. Depth + 1
    <2>1. Depth' = Depth + 1 /\ Cur' = callee
      BY <1>7 DEF Depth, Cur
    <2>2. stack' # <<>> /\ DOMAIN stack' = 1 .. Depth + 1
      BY <1>1, <1>7
    <2> QED BY <2>1, <2>2
  <1>9. /\ shadow' \in Seq(Locals) /\ Len(shadow') = Depth + 1 /\ DOMAIN shadow' = 1 .. Depth + 1
        /\ shadow'[Depth + 1] = EmptyFrame /\ \A i \in 1 .. Depth : shadow'[i] = shadow[i]
    <2>1. EmptyFrame \in Locals
      BY DEF EmptyFrame, Locals, Value
    <2>2. shadow \in Seq(Locals) /\ Len(shadow) = Depth /\ Depth \in Nat
      BY <1>1, <1>2
    <2>3. shadow' \in Seq(Locals) /\ Len(shadow') = Depth + 1 /\ shadow'[Depth + 1] = EmptyFrame
      BY <1>0, <2>1, <2>2, AppendProperties
    <2>4. \A i \in 1 .. Depth : shadow'[i] = shadow[i]
      BY <1>0, <2>1, <2>2, AppendProperties
    <2>5. DOMAIN shadow' = 1 .. Depth + 1
      BY <2>3
    <2> QED BY <2>3, <2>4, <2>5
  <1>10. \A i \in 1 .. Depth + 1 : i = Depth + 1 \/ i \in 1 .. Depth
    BY <1>1
  <1>11. \A i \in 1 .. Depth : stack'[i].locals = stack[i].locals
    BY <1>1, <1>5, <1>7, Below
  <1>12. StateOK'
    BY <1>0, <1>7, <1>8, <1>9 DEF Inv, StateOK
  <1>13. PointInv'
    <2>1. \A i \in 1 .. Depth : Rest(stack'[i].locals, stack'[i].todo, stack'[i].ops)
      BY <1>1, <1>3, <1>5, <1>7, Below DEF Inv, PointInv
    <2>2. \A i \in 1 .. Depth' - 1 : i \in 1 .. Depth
      BY <1>1, <1>8
    <2>3. InBody(Cur'.locals, Cur'.todo, Cur'.ops, ReachFrom(Roots)')
      BY <1>6, <1>8 DEF InBody, Idle
    <2> QED BY <1>8, <1>9, <2>1, <2>2, <2>3 DEF PointInv
  <1>14. DepthInv'
    <2>1. 1 \in DOMAIN Cur.todo /\ Cur.todo[1].op = "call"
      <3>1. Cur.todo \in Seq(Instr) /\ Cur.todo # <<>> /\ Head(Cur.todo).op = "call"
        BY <1>0, <1>1 DEF Code
      <3> QED BY <3>1
    <2>2. Depth < MaxDepth /\ MaxDepth \in Nat
      BY <2>1, DepthAssumption DEF Inv, DepthInv
    <2>3. Depth + 1 <= MaxDepth
      BY <1>1, <2>2
    <2>4. \A j \in DOMAIN Cur'.todo : FALSE
      BY <1>6, <1>8
    <2> QED BY <1>8, <2>3, <2>4 DEF DepthInv
  <1>15. MirrorInv'
    <2> SUFFICES ASSUME NEW i \in DOMAIN shadow', NEW y \in Local
                 PROVE  \/ shadow'[i][y] = stack'[i].locals[y]
                        \/ /\ y \in Param /\ shadow'[i][y] = Undef
                           /\ \E j \in 1 .. i - 1, z \in Local : shadow'[j][z] = stack'[i].locals[y]
      BY Zenon DEF MirrorInv
    <2>1. Here # SetSlot(y) /\ Here # SetSlot(x0)
      BY <1>0, Fields
    <2>2. CASE i = Depth + 1 /\ y \in Param
      <3>1. shadow'[i][y] = Undef /\ stack'[i].locals[y] = v
        BY <1>6, <1>7, <1>9, <2>2 DEF EmptyFrame
      <3>2. \E j \in 1 .. Depth, z \in Local : shadow[j][z] = v
        <4>1. Depth \in DOMAIN shadow
          BY <1>1, <1>2
        <4>2. \/ shadow[Depth][x0] = stack[Depth].locals[x0]
              \/ \E j \in 1 .. Depth - 1, z \in Local : shadow[j][z] = stack[Depth].locals[x0]
          BY <2>1, <4>1 DEF Inv, MirrorInv
        <4>3. stack[Depth].locals[x0] = v
          BY <1>1 DEF v
        <4>4. \A j \in 1 .. Depth - 1 : j \in 1 .. Depth
          BY <1>1, Callers
        <4> QED BY <1>1, <4>2, <4>3, <4>4
      <3>3. i - 1 = Depth
        BY <1>1, <2>2
      <3> QED BY <1>9, <2>2, <3>1, <3>2, <3>3
    <2>3. CASE i = Depth + 1 /\ y \notin Param
      BY <1>6, <1>7, <1>9, <2>3 DEF EmptyFrame
    <2>4. CASE i \in 1 .. Depth
      <3>1. i \in DOMAIN shadow /\ shadow'[i] = shadow[i] /\ stack'[i].locals = stack[i].locals
        BY <1>1, <1>2, <1>9, <1>11, <2>4
      <3>2. \A j \in 1 .. i - 1 : shadow'[j] = shadow[j]
        <4>1. \A j \in 1 .. i - 1 : j \in 1 .. Depth
          BY <1>1, <2>4
        <4> QED BY <1>9, <4>1
      <3>3. \/ shadow[i][y] = stack[i].locals[y]
            \/ /\ y \in Param /\ shadow[i][y] = Undef
               /\ \E j \in 1 .. i - 1, z \in Local : shadow[j][z] = stack[i].locals[y]
        BY <2>1, <3>1 DEF Inv, MirrorInv
      <3> QED BY <3>1, <3>2, <3>3
    <2> QED BY <1>9, <1>10, <2>2, <2>3, <2>4
  <1>16. AliveInv'
    <2>1. SlotsAlive'
      <3> SUFFICES ASSUME NEW i \in DOMAIN shadow', NEW y \in Local
                   PROVE  Alive(heap', shadow'[i][y])
        BY DEF SlotsAlive
      <3>1. CASE i = Depth + 1
        BY <1>9, <3>1, UndefAssumption DEF EmptyFrame, Alive
      <3>2. CASE i \in 1 .. Depth
        BY <1>0, <1>1, <1>2, <1>9, <3>2, HeapFacts DEF SlotsAlive
      <3> QED BY <1>9, <1>10, <3>1, <3>2
    <2>2. CellsAlive(heap)'
      BY <1>0, HeapFacts
    <2>3. ASSUME NEW i \in 1 .. Depth + 1, NEW j \in DOMAIN stack'[i].ops
          PROVE  Alive(heap', stack'[i].ops[j])
      <3>1. i # Depth + 1
        BY <1>6, <1>7, <2>3
      <3>2. i \in 1 .. Depth
        BY <1>10, <3>1
      <3>3. CASE i = Depth
        <4>1. \A k \in DOMAIN b : Alive(heap, b[k])
          BY <1>3, <1>4, HeapFacts, AliveOn DEF v
        <4> QED BY <1>0, <1>5, <1>7, <2>3, <3>3, <4>1
      <3>4. CASE i \in 1 .. Depth - 1
        BY <1>0, <1>1, <1>7, <2>3, <3>2, <3>4 DEF Inv, AliveInv
      <3> QED BY <1>1, <3>2, <3>3, <3>4, Below
    <2>4. ~(Len(shadow') < Depth')
      <3>1. Depth + 1 \in Nat /\ Len(shadow') = Depth + 1 /\ Depth' = Depth + 1
        BY <1>1, <1>8, <1>9
      <3> QED BY <3>1
    <2> QED BY <1>8, <2>1, <2>2, <2>3, <2>4 DEF AliveInv
  <1> QED BY <1>12, <1>13, <1>14, <1>15, <1>16 DEF Inv

\* A return keeps the invariant: the caller gets the value it waits for.
LEMMA ReturnStep ==
  ASSUME Inv, ReturnInst
  PROVE  Inv'
  <1>0. /\ Cur.todo # <<>> /\ Here.op = "return" /\ Here = Head(Cur.todo)
        /\ heap' = heap /\ shadow' = shadow
        /\ stack' = [SubSeq(stack, 1, Depth - 1) EXCEPT ![Depth - 1].ops = Append(@, Operand(0))]
    BY DEF ReturnInst, Running, Here
  <1>1. /\ Cur.locals \in Locals /\ Cur.ops \in Operands /\ Cur.todo \in Code /\ Cur = stack[Depth]
        /\ stack \in Seq(Activation) /\ Depth = Len(stack) /\ Depth \in Nat
        /\ DOMAIN stack = 1 .. Depth /\ DOMAIN shadow = 1 .. Len(shadow)
    BY Shape, HeapFacts DEF Inv, StateOK, Depth
  <1>2. Leaving(Cur.locals, Cur.todo, Cur.ops) /\ Len(shadow) = Depth - 1 /\ Depth > 1
    <2>1. ~InBody(Cur.locals, Cur.todo, Cur.ops, ReachFrom(Roots))
      BY <1>0, <1>1, PointHead
    <2>2. ~AtExit(Cur.locals, Cur.todo, Cur.ops)
      BY <1>0, <1>1, ExitHead, Fields
    <2> QED BY <2>1, <2>2 DEF Inv, PointInv
  <1>3. PICK v \in Value : Cur.ops = On(<<>>, v)
    <2>1. Head(Cur.todo).op = "return"
      BY <1>0
    <2> QED BY <1>1, <1>2, <2>1, LeaveReturnPoint
  <1>4. Operand(0) = v /\ Alive(heap, v)
    <2>1. <<>> \in Operands
      BY DEF Operands
    <2>2. Operand(0) = v
      BY <1>3, <2>1, Tops DEF Operand
    <2>3. Alive(heap, v)
      BY <1>3, <2>1, HeapFacts, AliveOn
    <2> QED BY <2>2, <2>3
  <1> DEFINE d == Depth - 1
             u == SubSeq(stack, 1, d)
             g == [stack[d] EXCEPT !.ops = On(stack[d].ops, v)]
  <1>5. d \in Nat /\ d >= 1 /\ d \in 1 .. d /\ (\A i \in 1 .. d : i \in 1 .. Depth /\ i # Depth)
    BY <1>1, <1>2
  <1>6. stack[d] \in Activation /\ stack[d].ops \in Operands /\ stack[d].locals \in Locals
    <2>1. d \in 1 .. Depth
      BY <1>5
    <2> HIDE DEF d
    <2> QED BY <2>1, Shape
  <1>7. u \in Seq(Activation) /\ Len(u) = d /\ \A i \in 1 .. d : u[i] = stack[i]
    BY <1>1, <1>5
  <1>8. /\ g \in Activation /\ g.locals = stack[d].locals /\ g.todo = stack[d].todo
        /\ g.ops = On(stack[d].ops, v)
    <2>1. On(stack[d].ops, v) \in Operands
      BY <1>6, Push
    <2> QED BY <1>6, <2>1 DEF Activation
  <1>9. stack' = [u EXCEPT ![d] = g]
    <2>1. Append(stack[d].ops, v) = On(stack[d].ops, v)
      BY <1>6, AppendIsConcat DEF On, Operands
    <2>2. stack' = [u EXCEPT ![d].ops = Append(@, v)]
      BY <1>0, <1>4
    <2>3. u[d] = stack[d]
      BY <1>5, <1>7
    <2> HIDE DEF u, d
    <2>4. [u EXCEPT ![d].ops = Append(@, v)] = [u EXCEPT ![d] = [u[d] EXCEPT !.ops = Append(u[d].ops, v)]]
      OBVIOUS
    <2> QED BY <2>1, <2>2, <2>3, <2>4
  <1> HIDE DEF u, g
  <1>10. /\ stack' \in Seq(Activation) /\ Len(stack') = d /\ stack'[d] = g
         /\ \A i \in 1 .. d - 1 : stack'[i] = stack[i]
    <2> HIDE DEF d
    <2>1. stack' \in Seq(Activation) /\ Len(stack') = d /\ stack'[d] = g
      BY <1>5, <1>7, <1>8, <1>9
    <2>2. ASSUME NEW i \in 1 .. d - 1 PROVE stack'[i] = stack[i]
      <3>1. i \in 1 .. d /\ i # d
        BY <1>5, Callers, Zenon
      <3> QED BY <1>7, <1>9, <3>1
    <2> QED BY <2>1, <2>2
  <1>11. d = Depth - 1 /\ Len(shadow) = d /\ DOMAIN shadow = 1 .. d
    BY <1>1, <1>2
  <1> HIDE DEF d
  <1>12. Depth' = d /\ Cur' = g /\ stack' # <<>> /\ DOMAIN stack' = 1 .. d
    <2>1. Depth' = d /\ Cur' = g
      BY <1>10 DEF Depth, Cur
    <2>2. stack' # <<>> /\ DOMAIN stack' = 1 .. d
      BY <1>5, <1>10
    <2> QED BY <2>1, <2>2
  <1>13. \A i \in 1 .. d : stack'[i].locals = stack[i].locals /\ stack'[i].todo = stack[i].todo
    BY <1>5, <1>8, <1>10, Below
  <1>14. \A i \in 1 .. d : Rest(stack[i].locals, stack[i].todo, stack[i].ops)
    BY <1>11 DEF Inv, PointInv
  <1>15. StateOK'
    BY <1>0, <1>10, <1>12 DEF Inv, StateOK
  <1>16. PointInv'
    <2>1. \A i \in 1 .. d - 1 : Rest(stack'[i].locals, stack'[i].todo, stack'[i].ops)
      <3>1. \A i \in 1 .. d - 1 : i \in 1 .. d
        BY <1>5, Callers
      <3> QED BY <1>10, <1>14, <3>1
    <2>2. AtValue(g.locals, g.todo, g.ops)
      BY <1>5, <1>6, <1>8, <1>14 DEF AtValue
    <2>3. InBody(Cur'.locals, Cur'.todo, Cur'.ops, ReachFrom(Roots)') /\ Len(shadow') = d
      BY <1>0, <1>11, <1>12, <2>2 DEF InBody
    <2> QED BY <1>12, <2>1, <2>3 DEF PointInv
  <1>17. DepthInv'
    <2>1. \A j \in DOMAIN Cur'.todo : Cur'.todo[j].op # "call"
      BY <1>5, <1>8, <1>12, <1>14, RestCalls
    <2>2. d <= MaxDepth
      <3>1. Depth <= MaxDepth /\ MaxDepth \in Nat
        BY DepthAssumption DEF Inv, DepthInv
      <3> QED BY <1>1, <1>11, <3>1
    <2> QED BY <1>12, <2>1, <2>2 DEF DepthInv
  <1>18. MirrorInv'
    <2> SUFFICES ASSUME NEW i \in DOMAIN shadow', NEW y \in Local
                 PROVE  \/ shadow'[i][y] = stack'[i].locals[y]
                        \/ /\ y \in Param /\ shadow'[i][y] = Undef
                           /\ \E j \in 1 .. i - 1, z \in Local : shadow'[j][z] = stack'[i].locals[y]
      BY Zenon DEF MirrorInv
    <2>1. /\ shadow' = shadow /\ i \in DOMAIN shadow /\ i # Depth
          /\ stack'[i].locals = stack[i].locals
      BY <1>0, <1>5, <1>11, <1>13
    <2> QED BY <2>1 DEF Inv, MirrorInv
  <1>19. AliveInv'
    <2>1. SlotsAlive' /\ CellsAlive(heap)'
      BY <1>0, HeapFacts DEF SlotsAlive
    <2>2. \A i \in 1 .. d : \A j \in DOMAIN stack[i].ops : Alive(heap, stack[i].ops[j])
      BY <1>1, <1>5 DEF Inv, AliveInv
    <2>3. ASSUME NEW i \in 1 .. d, NEW j \in DOMAIN stack'[i].ops
          PROVE  Alive(heap', stack'[i].ops[j])
      <3>1. CASE i = d
        <4>1. \A k \in DOMAIN On(stack[d].ops, v) : Alive(heap, On(stack[d].ops, v)[k])
          BY <1>4, <1>5, <1>6, <2>2, AliveOn
        <4> QED BY <1>0, <1>8, <1>10, <2>3, <3>1, <4>1
      <3>2. CASE i \in 1 .. d - 1
        BY <1>0, <1>10, <2>2, <2>3, <3>2
      <3> QED BY <1>5, <3>1, <3>2, Below
    <2>4. ~(Len(shadow') < Depth')
      <3>1. d \in Nat /\ Len(shadow') = d /\ Depth' = d
        BY <1>0, <1>5, <1>11, <1>12
      <3> QED BY <3>1
    <2> QED BY <1>12, <2>1, <2>3, <2>4 DEF AliveInv
  <1> QED BY <1>15, <1>16, <1>17, <1>18, <1>19 DEF Inv

\* The invariant holds initially.
LEMMA InitInv ==
  ASSUME Init
  PROVE  Inv
  <1>1. EmptyFrame \in Locals /\ \A x \in Local : EmptyFrame[x] = Undef
    BY DEF EmptyFrame, Locals, Value
  <1> DEFINE a == [locals |-> EmptyFrame, ops |-> <<>>, todo |-> <<>>]
  <1>2. a \in Activation /\ a.ops = <<>> /\ a.todo = <<>> /\ a.locals = EmptyFrame
    BY <1>1 DEF Activation, Operands, Code
  <1> HIDE DEF a
  <1>3. stack = <<a>> /\ shadow = <<EmptyFrame>> /\ heap = [b \in Addr |-> Free]
    BY DEF Init, a
  <1>4. /\ stack \in Seq(Activation) /\ stack # <<>> /\ Depth = 1 /\ Cur = a
        /\ DOMAIN stack = {1} /\ stack[1] = a
        /\ shadow \in Seq(Locals) /\ Len(shadow) = 1 /\ DOMAIN shadow = {1}
        /\ shadow[1] = EmptyFrame
    BY <1>1, <1>2, <1>3 DEF Depth, Cur
  <1>5. StateOK
    BY <1>3, <1>4 DEF StateOK
  <1>6. PointInv
    BY <1>2, <1>4 DEF PointInv, InBody, Idle
  <1>7. DepthInv
    <2>1. 1 <= MaxDepth
      BY DepthAssumption
    <2>2. \A j \in DOMAIN Cur.todo : FALSE
      BY <1>2, <1>4
    <2> QED BY <1>4, <2>1, <2>2 DEF DepthInv
  <1>8. MirrorInv
    BY <1>2, <1>4 DEF MirrorInv
  <1>9. AliveInv
    <2>1. SlotsAlive
      BY <1>1, <1>4, UndefAssumption DEF SlotsAlive, Alive
    <2>2. CellsAlive(heap)
      BY <1>3 DEF CellsAlive
    <2>3. \A i \in DOMAIN stack : \A j \in DOMAIN stack[i].ops : Alive(heap, stack[i].ops[j])
      BY <1>2, <1>4
    <2> QED BY <1>4, <2>1, <2>2, <2>3 DEF AliveInv
  <1> QED BY <1>5, <1>6, <1>7, <1>8, <1>9 DEF Inv

\* Every step of every program of safe expressions keeps the invariant.
LEMMA NextInv ==
  ASSUME Inv, Exprs \subseteq SafeExprs, [Next]_vars
  PROVE  Inv'
  <1>1. CASE UNCHANGED vars
    <2>1. heap' = heap /\ stack' = stack /\ shadow' = shadow
      BY <1>1 DEF vars
    <2>2. StateOK' /\ DepthInv'
      BY <2>1 DEF Inv, StateOK, DepthInv, Depth, Cur
    <2>3. ReachFrom(Roots)' = ReachFrom(Roots) /\ Depth' = Depth /\ Cur' = Cur /\ Here' = Here
      BY <2>1, SameReach DEF Depth, Cur, Here
    <2>4. PointInv'
      BY <2>1, <2>3 DEF Inv, PointInv
    <2>5. MirrorInv'
      BY <2>1, <2>3 DEF Inv, MirrorInv
    <2>6. AliveInv'
      BY <2>1, <2>3 DEF Inv, AliveInv, SlotsAlive
    <2> QED BY <2>2, <2>4, <2>5, <2>6 DEF Inv
  <1>2. CASE \E s \in Stmts : Begin(s)
    BY <1>2, BeginStep
  <1> QED BY <1>1, <1>2, GetLocalStep, LoadStep, StoreStep, DropStep, TeeStep, SlotStep, AllocStep,
             AllocDataStep, AllocF64Step, CallStep, ExitStep, ReturnStep DEF Next

\* The invariant holds of every behaviour of such a program.
THEOREM Invariance ==
  ASSUME Exprs \subseteq SafeExprs
  PROVE  Spec => []Inv
  <1>1. Init => Inv
    BY InitInv
  <1>2. Inv /\ [Next]_vars => Inv'
    BY NextInv
  <1> QED BY <1>1, <1>2, PTL DEF Spec

-----------------------------------------------------------------------------
(* What the invariant is for.                                                *)

\* Only a return returns.
NoReturn(t) == \A j \in DOMAIN t : t[j].op # "return"

\* No other instruction is a return, on its own or before code that has none.
LEMMA NoReturnThen ==
  ASSUME NEW i \in Instr, i.op # "return", NEW t \in Code, NoReturn(t)
  PROVE  NoReturn(Then(i, t)) /\ Then(i, t) \in Code
  <1>1. /\ DOMAIN Then(i, t) = 1 .. Len(t) + 1 /\ DOMAIN t = 1 .. Len(t) /\ Len(t) \in Nat
        /\ Then(i, t)[1] = i /\ \A j \in 1 .. Len(t) : Then(i, t)[j + 1] = t[j]
    BY DEF Then, Code
  <1>2. ASSUME NEW j \in DOMAIN Then(i, t) PROVE Then(i, t)[j].op # "return"
    <2>1. CASE j = 1
      BY <1>1, <2>1
    <2>2. CASE j # 1
      <3>1. j - 1 \in 1 .. Len(t) /\ (j - 1) + 1 = j
        BY <1>1, <1>2, <2>2
      <3> QED BY <1>1, <3>1 DEF NoReturn
    <2> QED BY <2>1, <2>2
  <1> QED BY <1>2, Cons DEF NoReturn

\* What is left of an expression statement has no return.
LEMMA RestNoReturn ==
  ASSUME NEW L, NEW k, NEW b, Rest(L, k, b)
  PROVE  NoReturn(k)
  <1>1. CASE k = <<Drop>>
    BY <1>1, Fields DEF NoReturn
  <1>2. CASE \E x \in Local : k = <<TeeLocal(x), SetSlot(x)>>
    <2>1. PICK x \in Local : k = <<TeeLocal(x), SetSlot(x)>>
      BY <1>2
    <2>2. \A j \in DOMAIN k : k[j] = TeeLocal(x) \/ k[j] = SetSlot(x)
      BY <2>1
    <2> QED BY <2>2, Fields DEF NoReturn
  <1>3. CASE \E c \in Cell : k = <<Store(c, "nothing")>>
    <2>1. PICK c \in Cell : k = <<Store(c, "nothing")>>
      BY <1>3
    <2>2. \A j \in DOMAIN k : k[j] = Store(c, "nothing")
      BY <2>1
    <2> QED BY <2>2, Fields DEF NoReturn
  <1> QED BY <1>1, <1>2, <1>3 DEF Rest

\* Nor has what follows an atom,
LEMMA AfterAtomNoReturn ==
  ASSUME NEW L, NEW r, NEW b, AfterAtom(L, r, b)
  PROVE  NoReturn(r)
  <1>1. CASE Rest(L, r, b)
    BY <1>1, RestNoReturn
  <1>2. CASE \E k \in Code, c \in Cell : Rest(L, k, b) /\ r = Then(AllocWith(c), k)
    BY <1>2, RestNoReturn, NoReturnThen, Instrs, Fields
  <1>3. ASSUME NEW k \in Code, NEW c \in Cell, NEW d, Rest(L, k, d),
               r = Then(AllocData, Then(Store(c, "value"), k))
        PROVE  NoReturn(r)
    <2>1. NoReturn(Then(Store(c, "value"), k)) /\ Then(Store(c, "value"), k) \in Code
      BY <1>3, RestNoReturn, NoReturnThen, Instrs, Fields
    <2> QED BY <1>3, <2>1, NoReturnThen, Instrs, Fields
  <1> QED BY <1>1, <1>2, <1>3 DEF AfterAtom, Arg

\* an atom,
LEMMA AtomNoReturn ==
  ASSUME NEW L, NEW t, NEW b, AtomAt(L, t, b)
  PROVE  NoReturn(t)
  <1>1. PICK r \in Code :
          /\ AfterAtom(L, r, b)
          /\ \/ \E x \in Local : t = Then(Get(x), r)
             \/ \E x \in Local, c \in Cell : IsObj(L, x) /\ t = Then(GetObj(x), Then(Load(c), r))
             \/ t = Then(AllocF64, r)
    BY DEF AtomAt
  <1>2. NoReturn(r)
    BY <1>1, AfterAtomNoReturn
  <1>3. CASE \E x \in Local : t = Then(Get(x), r)
    BY <1>2, <1>3, NoReturnThen, Instrs, Fields
  <1>4. ASSUME NEW x \in Local, NEW c \in Cell, t = Then(GetObj(x), Then(Load(c), r))
        PROVE  NoReturn(t)
    <2>1. NoReturn(Then(Load(c), r)) /\ Then(Load(c), r) \in Code
      BY <1>2, NoReturnThen, Instrs, Fields
    <2> QED BY <1>4, <2>1, NoReturnThen, Instrs, Fields
  <1>5. CASE t = Then(AllocF64, r)
    BY <1>2, <1>5, NoReturnThen, Instrs, Fields
  <1> QED BY <1>1, <1>3, <1>4, <1>5

\* an expression,
LEMMA ExprNoReturn ==
  ASSUME NEW L, NEW t, NEW b, ExprAt(L, t, b)
  PROVE  NoReturn(t)
  <1>1. CASE AtomAt(L, t, b)
    BY <1>1, AtomNoReturn
  <1>2. CASE \E k \in Code : Rest(L, k, b) /\ t = Then(Alloc, k)
    BY <1>2, RestNoReturn, NoReturnThen, Instrs, Fields
  <1>3. ASSUME NEW k \in Code, NEW x \in Local, Rest(L, k, b), t = Then(Get(x), Then(Call, k))
        PROVE  NoReturn(t)
    <2>1. NoReturn(Then(Call, k)) /\ Then(Call, k) \in Code
      BY <1>3, RestNoReturn, NoReturnThen, Instrs, Fields
    <2> QED BY <1>3, <2>1, NoReturnThen, Instrs, Fields
  <1>4. ASSUME NEW s \in Code, NEW x \in Local, AtomAt(L, s, On(b, L[x])), t = Then(GetObj(x), s)
        PROVE  NoReturn(t)
    BY <1>4, AtomNoReturn, NoReturnThen, Instrs, Fields
  <1> QED BY <1>1, <1>2, <1>3, <1>4 DEF ExprAt

\* or any point of a body.
LEMMA BodyNoReturn ==
  ASSUME NEW L, NEW t, NEW o, NEW K, InBody(L, t, o, K)
  PROVE  NoReturn(t)
  <1>1. CASE Idle(t, o)
    BY <1>1 DEF Idle, NoReturn
  <1>2. CASE AtStore(L, t, o)
    BY <1>2, ExprNoReturn, NoReturnThen, Instrs, Fields DEF AtStore
  <1>3. CASE ExprAt(L, t, o)
    BY <1>3, ExprNoReturn
  <1>4. CASE AtLoad(L, t, o)
    BY <1>4, AfterAtomNoReturn, NoReturnThen, Instrs, Fields DEF AtLoad
  <1>5. CASE AtArg(L, t, o, K)
    BY <1>5, AfterAtomNoReturn DEF AtArg, AfterAtom
  <1>6. CASE AtWrite(L, t, o)
    BY <1>6, RestNoReturn, NoReturnThen, Instrs, Fields DEF AtWrite
  <1>7. CASE AtCall(L, t, o)
    BY <1>7, RestNoReturn, NoReturnThen, Instrs, Fields DEF AtCall
  <1>8. CASE AtValue(L, t, o)
    BY <1>8, RestNoReturn DEF AtValue
  <1>9. CASE AtSlot(L, t, o)
    <2>1. PICK x \in Local : t = <<SetSlot(x)>>
      BY <1>9 DEF AtSlot
    <2>2. \A j \in DOMAIN t : t[j] = SetSlot(x)
      BY <2>1
    <2> QED BY <2>2, Fields DEF NoReturn
  <1> QED BY <1>1, <1>2, <1>3, <1>4, <1>5, <1>6, <1>7, <1>8, <1>9 DEF InBody

\* A return ends with the instruction, and what it reads it reads first.
LEMMA LeaveCode ==
  ASSUME NEW L, NEW t, NEW o, Leaving(L, t, o)
  PROVE  /\ t[Len(t)] = Return
         /\ ~LeaveRead(L, t, o) => \A k \in DOMAIN t : t[k].op # "get"
  <1>1. ASSUME NEW i, t = <<i, Return>>
        PROVE  /\ t[Len(t)] = Return
               /\ i.op # "get" => \A k \in DOMAIN t : t[k].op # "get"
    <2>1. t[Len(t)] = Return /\ \A k \in DOMAIN t : t[k] = i \/ t[k] = Return
      BY <1>1
    <2> QED BY <2>1, Fields
  <1>2. CASE LeaveRead(L, t, o)
    <2>1. CASE \E x \in Local : t = <<Get(x), Return>>
      BY <1>1, <1>2, <2>1
    <2>2. CASE \E x \in Local, c \in Cell : t = <<GetObj(x), Load(c), Return>>
      <3>1. PICK x \in Local, c \in Cell : t = <<GetObj(x), Load(c), Return>>
        BY <2>2
      <3>2. t[Len(t)] = Return
        BY <3>1
      <3> QED BY <1>2, <3>2
    <2> QED BY <1>2, <2>1, <2>2 DEF LeaveRead
  <1>3. CASE LeaveF64(t, o)
    BY <1>1, <1>3, Fields DEF LeaveF64
  <1>4. CASE LeaveLoad(L, t, o)
    <2>1. PICK c \in Cell : t = <<Load(c), Return>>
      BY <1>4 DEF LeaveLoad
    <2> QED BY <1>1, <2>1, Fields
  <1>5. CASE LeaveReturn(t, o)
    <2>1. t = <<Return>>
      BY <1>5 DEF LeaveReturn
    <2>2. t[Len(t)] = Return /\ \A k \in DOMAIN t : t[k] = Return
      BY <2>1
    <2> QED BY <2>2, Fields
  <1> QED BY <1>2, <1>3, <1>4, <1>5 DEF Leaving

\* A function has left its shadow frame exactly while it returns.
LEMMA ReturningIsLeaving ==
  ASSUME Inv
  PROVE  /\ Returning => Leaving(Cur.locals, Cur.todo, Cur.ops) /\ Len(shadow) = Depth - 1
         /\ ~Returning => Len(shadow) = Depth
  <1>0. Cur.locals \in Locals /\ Cur.todo \in Code
    BY HeapFacts
  <1>1. ASSUME InBody(Cur.locals, Cur.todo, Cur.ops, ReachFrom(Roots)) PROVE ~Returning
    <2>1. NoReturn(Cur.todo)
      BY <1>1, BodyNoReturn
    <2>2. Cur.todo # <<>> => Len(Cur.todo) \in DOMAIN Cur.todo
      BY <1>0 DEF Code
    <2> QED BY <2>1, <2>2, Fields DEF NoReturn, Returning
  <1>2. ASSUME AtExit(Cur.locals, Cur.todo, Cur.ops) PROVE ~Returning
    BY <1>0, <1>2, ExitHead DEF Returning, Here
  <1>3. ASSUME Leaving(Cur.locals, Cur.todo, Cur.ops) PROVE Returning
    <2>1. Cur.todo # <<>> /\ Head(Cur.todo).op \in {"get", "f64", "load", "return"}
      BY <1>0, <1>3, LeavePoint, Zenon
    <2>2. Head(Cur.todo) # GcExitFn
      BY <2>1, Fields
    <2>3. Cur.todo[Len(Cur.todo)] = Return
      BY <1>3, LeaveCode
    <2> QED BY <2>1, <2>2, <2>3 DEF Returning, Here
  <1> QED BY <1>1, <1>2, <1>3 DEF Inv, PointInv

\* A read names a local.
LEMMA GetsLocal ==
  ASSUME NEW i \in Instr, i.op = "get"
  PROVE  i.x \in Local
  <1>1. CASE i \in {Get(x) : x \in Local} \/ i \in {GetObj(x) : x \in Local}
    BY <1>1, Fields
  <1>2. CASE i \in {Load(c) : c \in Cell} \/ i \in {AllocWith(c) : c \in Cell}
    BY <1>2, Fields
  <1>3. CASE i \in {Alloc, AllocData, AllocF64, Drop, Call, GcExitFn, Return}
    BY <1>3, Fields
  <1>4. CASE i \in {Store(c, k) : c \in Cell, k \in {"value", "nothing"}}
    BY <1>4, Fields
  <1>5. CASE i \in {TeeLocal(x) : x \in Local} \/ i \in {SetSlot(x) : x \in Local}
    BY <1>5, Fields
  <1> QED BY <1>1, <1>2, <1>3, <1>4, <1>5 DEF Instr

\* A local that may still be used is rooted, or is the operand whose slot comes
\* next, or is about to be read by a return.
LEMMA LiveLocals ==
  ASSUME Inv, NEW i \in DOMAIN stack, NEW x \in Live(i), stack[i].locals[x] \in Addr
  PROVE  /\ x \in Local
         /\ \/ stack[i].locals[x] \in Roots
            \/ /\ Cur.todo # <<>> /\ Here.op = "slot"
               /\ \E j \in DOMAIN Cur.ops : Cur.ops[j] = stack[i].locals[x]
            \/ i = Depth /\ Len(shadow) < Depth /\ LeaveRead(Cur.locals, Cur.todo, Cur.ops)
  <1>0. /\ Cur.locals \in Locals /\ Cur.ops \in Operands /\ Cur.todo \in Code /\ Cur = stack[Depth]
        /\ Depth \in Nat /\ Len(shadow) \in Nat /\ DOMAIN shadow = 1 .. Len(shadow)
        /\ DOMAIN stack = 1 .. Depth
    BY Shape, HeapFacts
  <1>1. CASE i = Depth /\ Returning
    <2>1. PICK k \in DOMAIN Cur.todo : Cur.todo[k].op = "get" /\ x = Cur.todo[k].x
      BY <1>1 DEF Live
    <2>2. Leaving(Cur.locals, Cur.todo, Cur.ops) /\ Len(shadow) = Depth - 1
      BY <1>1, ReturningIsLeaving
    <2>3. LeaveRead(Cur.locals, Cur.todo, Cur.ops)
      BY <2>1, <2>2, LeaveCode
    <2>4. Cur.todo[k] \in Instr
      BY <1>0 DEF Code
    <2>5. x \in Local
      BY <2>1, <2>4, GetsLocal
    <2>6. Len(shadow) < Depth
      <3>1. Depth \in Nat
        BY <1>0
      <3> QED BY <2>2, <3>1
    <2> QED BY <1>1, <2>3, <2>5, <2>6
  <1>2. CASE ~(i = Depth /\ Returning)
    <2>1. x \in Local
      BY <1>2 DEF Live
    <2>2. i \in DOMAIN shadow
      <3>1. CASE i = Depth
        <4>1. Len(shadow) = Depth
          BY <1>2, <3>1, ReturningIsLeaving
        <4> QED BY <1>0, <3>1, <4>1
      <3>2. CASE i \in 1 .. Depth - 1
        <4>1. Len(shadow) >= Depth - 1
          BY Shape
        <4> QED BY <1>0, <3>2, <4>1
      <3> QED BY <1>0, <3>1, <3>2, Below
    <2>3. CASE i = Depth /\ Cur.todo # <<>> /\ Here = SetSlot(x)
      <3>1. Here.op = "slot" /\ Here.x = x /\ Here = Head(Cur.todo)
        BY <2>3, Fields DEF Here
      <3>2. InBody(Cur.locals, Cur.todo, Cur.ops, ReachFrom(Roots))
        BY <2>3, <3>1, RunsInBody
      <3>3. PICK y \in Local : Here = SetSlot(y) /\ Cur.ops = On(<<>>, Cur.locals[y])
        BY <1>0, <2>3, <3>1, <3>2, SlotPoint
      <3>4. y = x
        BY <3>1, <3>3, Fields
      <3>5. \E j \in DOMAIN Cur.ops : Cur.ops[j] = Cur.locals[x]
        <4>1. Cur.locals[x] \in Value
          BY <1>0, <2>1 DEF Locals
        <4>2. Cur.ops = <<Cur.locals[x]>>
          BY <3>3, <3>4, <4>1, One
        <4> QED BY <4>2
      <3> QED BY <1>0, <2>1, <2>3, <3>1, <3>5
    <2>4. CASE ~(i = Depth /\ Cur.todo # <<>> /\ Here = SetSlot(x))
      BY <2>1, <2>2, <2>4, LocalRooted
    <2> QED BY <2>3, <2>4
  <1> QED BY <1>1, <1>2

\* What is held is held by a local or an operand.
LEMMA HeldBy ==
  ASSUME Inv, NEW a \in Held
  PROVE  /\ a \in Addr
         /\ \E i \in DOMAIN stack :
              \/ \E x \in Live(i) : stack[i].locals[x] = a
              \/ \E j \in DOMAIN stack[i].ops : stack[i].ops[j] = a
  <1>1. a \in Addr
    BY DEF Held, Pointers
  <1>2. PICK i \in DOMAIN stack : a \in {stack[i].locals[x] : x \in Live(i)} \cup Range(stack[i].ops)
    BY DEF Held, Pointers
  <1> QED BY <1>1, <1>2 DEF Range

\* The types are a consequence of the invariant.
LEMMA InvTypeOK ==
  ASSUME Inv
  PROVE  TypeOK
  <1>1. Depth \in 1 .. MaxDepth
    <2>1. Depth \in Nat /\ Depth >= 1
      BY Shape
    <2>2. Depth <= MaxDepth /\ MaxDepth \in Nat
      BY DepthAssumption DEF Inv, DepthInv
    <2> QED BY <2>1, <2>2
  <1>2. \A i \in DOMAIN stack : stack[i].locals \in [Local -> Value] /\ stack[i].ops \in Seq(Value)
    BY Shape DEF Locals, Operands
  <1> QED BY <1>1, <1>2 DEF TypeOK, Inv, StateOK, Locals

\* Every function writes into its own frame.
LEMMA InvMirrors ==
  ASSUME Inv
  PROVE  ShadowMirrors
  BY ReturningIsLeaving DEF ShadowMirrors, Inv, MirrorInv

\* Everything held or rooted is an object.
LEMMA InvNoDangling ==
  ASSUME Inv
  PROVE  NoDangling
  <1>0. /\ heap \in [Addr -> [Cell -> Value] \cup {Free}] /\ CellsAlive(heap)
        /\ \A a \in Roots : heap[a] # Free
        /\ \A j \in DOMAIN Cur.ops : Alive(heap, Cur.ops[j])
        /\ Cur = stack[Depth]
    BY HeapFacts, Shape
  <1>1. ASSUME NEW a \in Held PROVE heap[a] # Free
    <2>1. a \in Addr
      BY HeldBy
    <2>2. PICK i \in DOMAIN stack : \/ \E x \in Live(i) : stack[i].locals[x] = a
                                    \/ \E j \in DOMAIN stack[i].ops : stack[i].ops[j] = a
      BY HeldBy
    <2>3. CASE \E j \in DOMAIN stack[i].ops : stack[i].ops[j] = a
      BY <2>1, <2>3 DEF Inv, AliveInv, Alive
    <2>4. ASSUME NEW x \in Live(i), stack[i].locals[x] = a PROVE heap[a] # Free
      <3>1. /\ x \in Local
            /\ \/ a \in Roots
               \/ \E j \in DOMAIN Cur.ops : Cur.ops[j] = a
               \/ i = Depth /\ Len(shadow) < Depth /\ LeaveRead(Cur.locals, Cur.todo, Cur.ops)
        BY <2>1, <2>4, LiveLocals
      <3>2. CASE a \in Roots \/ \E j \in DOMAIN Cur.ops : Cur.ops[j] = a
        BY <1>0, <2>1, <3>2 DEF Alive
      <3>3. CASE i = Depth /\ Len(shadow) < Depth /\ LeaveRead(Cur.locals, Cur.todo, Cur.ops)
        <4>1. Alive(heap, Cur.locals[x])
          BY <3>1, <3>3 DEF Inv, AliveInv
        <4> QED BY <1>0, <2>1, <2>4, <3>3, <4>1 DEF Alive
      <3> QED BY <3>1, <3>2, <3>3
    <2> QED BY <2>2, <2>3, <2>4
  <1>2. ASSUME NEW a \in Addr, heap[a] # Free, NEW b \in Pointers(Range(heap[a]))
        PROVE  heap[b] # Free
    <2>1. heap[a] \in [Cell -> Value]
      BY <1>0, <1>2
    <2>2. b \in Addr /\ \E c \in Cell : heap[a][c] = b
      BY <2>1 DEF Pointers, Range
    <2> QED BY <1>0, <1>2, <2>2 DEF CellsAlive, Alive
  <1> QED BY <1>0, <1>1, <1>2 DEF NoDangling

\* Whenever an allocation comes next, everything held is reached.
LEMMA InvGcContract ==
  ASSUME Inv
  PROVE  GcContract
  <1> SUFFICES ASSUME Cur.todo # <<>>, Here.op \in {"alloc", "data", "f64"}, NEW a \in Held
               PROVE  a \in ReachFrom(Roots)
    BY DEF GcContract, Running
  <1>0. /\ Roots \subseteq ReachFrom(Roots)
        /\ Cur.locals \in Locals /\ Cur.ops \in Operands /\ Cur.todo \in Code
        /\ Cur = stack[Depth] /\ Here = Head(Cur.todo) /\ Depth \in Nat /\ DOMAIN stack = 1 .. Depth
    BY HeapFacts, Shape, Reached DEF Here
  <1>1. a \in Addr
    BY HeldBy
  <1>2. PICK i \in DOMAIN stack : \/ \E x \in Live(i) : stack[i].locals[x] = a
                                  \/ \E j \in DOMAIN stack[i].ops : stack[i].ops[j] = a
    BY HeldBy
  <1>3. ~LeaveRead(Cur.locals, Cur.todo, Cur.ops)
    <2>1. \A x \in Local : Cur.todo # <<Get(x), Return>>
      BY Short, Instrs, Fields DEF Here
    <2>2. \A x \in Local, c \in Cell : Cur.todo # <<GetObj(x), Load(c), Return>>
      BY Short, Instrs, Fields DEF Here
    <2> QED BY <2>1, <2>2 DEF LeaveRead
  <1>4. ASSUME NEW x \in Live(i), stack[i].locals[x] = a PROVE a \in Roots
    BY <1>1, <1>3, <1>4, LiveLocals
  <1>5. ASSUME NEW j \in DOMAIN stack[i].ops, stack[i].ops[j] = a PROVE a \in ReachFrom(Roots)
    <2>1. CASE i \in 1 .. Depth - 1
      BY <1>0, <1>1, <1>5, <2>1, CallerRooted
    <2>2. CASE i = Depth
      <3>1. j \in DOMAIN Cur.ops /\ Cur.ops[j] = a
        BY <1>0, <1>5, <2>2
      <3>2. CASE InBody(Cur.locals, Cur.todo, Cur.ops, ReachFrom(Roots)) /\ Len(shadow) = Depth
        <4>1. Here.op # "slot"
          OBVIOUS
        <4>2. \A x \in Local : Cur.locals[x] \in Addr => Cur.locals[x] \in ReachFrom(Roots)
          BY <3>2, <4>1, BodyRooted
        <4> QED BY <1>0, <1>1, <3>1, <3>2, <4>2, KeptOperands
      <3>3. CASE Leaving(Cur.locals, Cur.todo, Cur.ops)
        <4>1. Head(Cur.todo).op = "f64"
          <5>1. Head(Cur.todo).op \in {"get", "f64", "load", "return"}
            BY <1>0, <3>3, LeavePoint, Zenon
          <5> QED BY <1>0, <5>1
        <4>2. Cur.ops = <<>>
          BY <1>0, <3>3, <4>1, LeaveF64Point, Zenon
        <4> QED BY <3>1, <4>2
      <3>4. ~AtExit(Cur.locals, Cur.todo, Cur.ops)
        BY <1>0, ExitHead, Fields
      <3> QED BY <3>2, <3>3, <3>4 DEF Inv, PointInv
    <2> QED BY <1>0, <2>1, <2>2, Below
  <1> QED BY <1>0, <1>2, <1>4, <1>5

\* Slots, locals, operands and cells always hold values.
THEOREM TypesAreKept ==
  ASSUME Exprs \subseteq SafeExprs
  PROVE  Spec => []TypeOK
  <1>1. Inv => TypeOK
    BY InvTypeOK
  <1> QED BY <1>1, Invariance, PTL

\* The contract of Heap::gc: whenever the heap may be collected, everything that
\* the code still holds can be reached from the shadow stack.
THEOREM ContractIsKept ==
  ASSUME Exprs \subseteq SafeExprs
  PROVE  Spec => []GcContract
  <1>1. Inv => GcContract
    BY InvGcContract
  <1> QED BY <1>1, Invariance, PTL

\* No local, operand, slot or cell ever points to freed memory.
THEOREM NothingDangles ==
  ASSUME Exprs \subseteq SafeExprs
  PROVE  Spec => []NoDangling
  <1>1. Inv => NoDangling
    BY InvNoDangling
  <1> QED BY <1>1, Invariance, PTL

\* gc_enter_fn, the slots and gc_exit_fn keep the two stacks in step.
THEOREM StacksInStep ==
  ASSUME Exprs \subseteq SafeExprs
  PROVE  Spec => []ShadowMirrors
  <1>1. Inv => ShadowMirrors
    BY InvMirrors
  <1> QED BY <1>1, Invariance, PTL
=============================================================================
