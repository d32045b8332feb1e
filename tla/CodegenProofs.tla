--------------------------- MODULE CodegenProofs ---------------------------
(***************************************************************************)
(* Code generation, for every function body: the shadow frame is popped    *)
(* exactly once on every way out, and the code is valid WebAssembly.       *)
(***************************************************************************)
EXTENDS Codegen, DataSegment, SequenceTheorems, WellFoundedInduction, TLAPS

CONSTANTS
    Data,                       \* labels, conditions, effects
    Janky, NotWasm, Code,       \* statements of the two languages, instructions
    returns(_), compile_stmt(_), translate_rec(_, _, _, _)

(***************************************************************************)
(* The trees.  A set of statements is the least solution of its grammar:   *)
(* what holds of a statement if it holds of its sub-statements holds of    *)
(* every statement.                                                        *)
(***************************************************************************)
NotWasmKinds == {"Empty", "Block", "Expr", "SetTest", "SetFallthrough", "If", "Loop",
                 "Label", "Break", "Return", "Panic"}
JankyKinds == NotWasmKinds \cup {"Throw"}

Arity(s) ==
    /\ s.k = "If" => Len(s.ss) = 2
    /\ s.k \in {"Loop", "Label"} => Len(s.ss) = 1
    /\ s.k \notin {"Block", "If", "Loop", "Label"} => Len(s.ss) = 0

Statements(S, kinds) ==
    /\ S = {s \in [k : kinds, x : Data, ss : Seq(S)] : Arity(s)}
    /\ \A T \in SUBSET S :
          (\A s \in S : (\A i \in DOMAIN s.ss : s.ss[i] \in T) => s \in T) => T = S

Ops == {"call", "SetTest", "SetFallthrough", "if", "loop", "block", "br", "gc_exit_fn",
        "return", "panic"}
Numbered == Data \cup Nat
Insts == [op : Ops \ {"if", "loop", "block"}, n : Numbered] \cup
         [op : {"if", "loop", "block"}, n : Numbered, result : BOOLEAN,
          body : Code, alt : Code]

Grammar ==
    /\ 0 \in Data
    /\ Statements(Janky, JankyKinds)
    /\ Statements(NotWasm, NotWasmKinds)
    /\ Code = Seq(Insts)

\* The label stacks of translate_rec.
Labels_ == Seq(Data \cup {Unused})

(***************************************************************************)
(* The recursive functions, by their equations.                            *)
(***************************************************************************)
ReturnsEq == \A s \in Janky : returns(s) = Returns(s, returns)

CompileEq == \A s \in Janky : compile_stmt(s) = CompileStmt(s, compile_stmt)

TranslateEq ==
    \A labels \in Labels_, fn, tail \in BOOLEAN, s \in NotWasm :
        translate_rec(labels, fn, tail, s) =
            TranslateStmt(labels, fn, tail, s,
                          LAMBDA ls, t, r : translate_rec(ls, fn, t, r))

Equations == ReturnsEq /\ CompileEq /\ TranslateEq

\* compile of ControlFlow, from the JankyScript body on.
Function(fn, body) ==
    [fn |-> fn,
     body |-> EndOfFunc(translate_rec(<<>>, fn, TRUE,
                          Block(compile_stmt(insert_returns(fn, body, returns(body))))))]

Bodies == {b \in Janky : b.k = "Block"}
Functions == {Function(fn, b) : fn \in BOOLEAN, b \in Bodies}

---------------------------------------------------------------------------
(* Induction, on numbers and on the pieces of a sequence of sequences.     *)

\* What holds of 0, and of n + 1 if it holds of n, holds of every number.
LEMMA Numbers ==
  ASSUME NEW S, 0 \in S, \A n \in Nat : n \in S => n + 1 \in S
  PROVE  Nat \subseteq S
  <1> SUFFICES ASSUME Nat \ S # {} PROVE FALSE
    OBVIOUS
  <1>1. PICK n \in Nat \ S : \A m \in Nat \ S : ~(<<m, n>> \in OpToRel(<, Nat))
    <2>1. IsWellFoundedOn(OpToRel(<, Nat), Nat)
      BY NatLessThanWellFounded
    <2> DEFINE T == Nat \ S
    <2>2. T \subseteq Nat /\ T # {}
      OBVIOUS
    <2> HIDE DEF T
    <2>3. \E x \in T : \A y \in T : ~(<<y, x>> \in OpToRel(<, Nat))
      BY <2>1, <2>2, WFMin
    <2> QED BY <2>3 DEF T
  <1>2. n # 0 /\ n - 1 \in Nat /\ (n - 1) + 1 = n
    OBVIOUS
  <1>3. n - 1 \in Nat \ S
    BY <1>2
  <1>4. <<n - 1, n>> \in OpToRel(<, Nat)
    BY <1>2 DEF OpToRel
  <1> QED BY <1>1, <1>3, <1>4

\* f[n] is the first n sequences of q, one after the other.
Joins(f, q, n) ==
    /\ f = [i \in 0 .. n |-> f[i]]
    /\ f[0] = <<>>
    /\ \A i \in 1 .. n : f[i] = f[i - 1] \o q[i]

LEMMA JoinsExist ==
  ASSUME NEW q, NEW n \in Nat
  PROVE  \E f : Joins(f, q, n)
  <1> DEFINE S == {m \in Nat : \E f : Joins(f, q, m)}
  <1>1. 0 \in S
    <2> DEFINE f == [i \in 0 .. 0 |-> <<>>]
    <2>1. Joins(f, q, 0)
      BY DEF Joins
    <2> QED BY <2>1
  <1>2. ASSUME NEW m \in Nat, m \in S PROVE m + 1 \in S
    <2>1. PICK g : Joins(g, q, m)
      BY <1>2
    <2> DEFINE f == [i \in 0 .. (m + 1) |-> IF i = m + 1 THEN g[m] \o q[i] ELSE g[i]]
    <2>2. f = [i \in 0 .. (m + 1) |-> f[i]] /\ f[0] = <<>>
      BY <2>1 DEF Joins
    <2>3. ASSUME NEW i \in 1 .. (m + 1) PROVE f[i] = f[i - 1] \o q[i]
      <3>1. i - 1 \in 0 .. m /\ f[i - 1] = g[i - 1]
        OBVIOUS
      <3>2. CASE i = m + 1
        <4>1. i - 1 = m /\ m + 1 \in 0 .. (m + 1)
          BY <3>2
        <4>2. f[m + 1] = g[m] \o q[m + 1]
          BY <4>1
        <4> HIDE DEF f
        <4> QED BY <3>1, <3>2, <4>1, <4>2
      <3>3. CASE i # m + 1
        BY <2>1, <3>1, <3>3 DEF Joins
      <3> QED BY <3>2, <3>3
    <2>4. Joins(f, q, m + 1)
      BY <2>2, <2>3 DEF Joins
    <2> QED BY <2>4
  <1>3. Nat \subseteq S
    <2> HIDE DEF S
    <2> QED BY <1>1, <1>2, Numbers
  <1> QED BY <1>3

\* The recursion inside FlattenSeq.
FlattenStep(q, g, i) == IF i = 1 THEN q[i] ELSE g[i - 1] \o q[i]

LEMMA FlattenDef ==
  ASSUME NEW q, Len(q) # 0
  PROVE  LET g == CHOOSE g : g = [i \in 1 .. Len(q) |-> FlattenStep(q, g, i)]
         IN  FlattenSeq(q) = g[Len(q)]
  BY DEF FlattenSeq, FlattenStep

\* FlattenSeq takes the pieces one after the other.
LEMMA FlattenJoins ==
  ASSUME NEW X, NEW q \in Seq(Seq(X))
  PROVE  \E f \in [0 .. Len(q) -> Seq(X)] : Joins(f, q, Len(q)) /\ FlattenSeq(q) = f[Len(q)]
  <1> DEFINE n == Len(q)
  <1>1. n \in Nat /\ \A i \in 1 .. n : q[i] \in Seq(X)
    OBVIOUS
  <1>2. PICK f : Joins(f, q, n)
    BY <1>1, JoinsExist
  <1>3. \A i \in 0 .. n : f[i] \in Seq(X)
    <2> DEFINE S == {m \in Nat : m \in 0 .. n => f[m] \in Seq(X)}
    <2>1. 0 \in S
      BY <1>2 DEF Joins
    <2>2. ASSUME NEW m \in Nat, m \in S PROVE m + 1 \in S
      <3> SUFFICES ASSUME m + 1 \in 0 .. n PROVE f[m + 1] \in Seq(X)
        OBVIOUS
      <3>1. m + 1 \in 1 .. n /\ (m + 1) - 1 = m /\ m \in 0 .. n
        BY <1>1
      <3>2. f[m + 1] = f[m] \o q[m + 1]
        BY <1>2, <3>1 DEF Joins
      <3>3. f[m] \in Seq(X) /\ q[m + 1] \in Seq(X)
        BY <1>1, <2>2, <3>1
      <3> QED BY <3>2, <3>3
    <2>3. Nat \subseteq S
      <3> HIDE DEF S
      <3> QED BY <2>1, <2>2, Numbers
    <2> QED BY <2>3
  <1>4. f \in [0 .. n -> Seq(X)]
    <2>1. f = [i \in 0 .. n |-> f[i]]
      BY <1>2 DEF Joins
    <2> QED BY <1>3, <2>1
  <1>5. CASE n = 0
    <2>1. q = <<>> /\ FlattenSeq(q) = q
      BY <1>5 DEF FlattenSeq
    <2> QED BY <1>2, <1>4, <1>5, <2>1 DEF Joins
  <1>6. CASE n # 0
    <2> DEFINE g == CHOOSE g : g = [i \in 1 .. n |-> FlattenStep(q, g, i)]
    <2>1. FlattenSeq(q) = g[n]
      BY <1>6, FlattenDef
    <2>2. \E h : h = [i \in 1 .. n |-> FlattenStep(q, h, i)]
      <3> DEFINE h == [i \in 1 .. n |-> f[i]]
      <3>1. ASSUME NEW i \in 1 .. n PROVE f[i] = FlattenStep(q, h, i)
        <4>1. f[i] = f[i - 1] \o q[i] /\ q[i] \in Seq(X)
          BY <1>1, <1>2 DEF Joins
        <4>2. CASE i = 1
          <5>1. f[i - 1] = <<>>
            BY <1>2, <4>2 DEF Joins
          <5>2. f[i] = q[i]
            BY <4>1, <5>1
          <5> QED BY <4>2, <5>2 DEF FlattenStep
        <4>3. CASE i # 1
          <5>1. i - 1 \in 1 .. n
            BY <1>1, <4>3
          <5>2. h[i - 1] = f[i - 1]
            BY <5>1
          <5> QED BY <4>1, <4>3, <5>2 DEF FlattenStep
        <4> QED BY <4>2, <4>3
      <3>2. h = [i \in 1 .. n |-> FlattenStep(q, h, i)]
        BY <3>1
      <3> HIDE DEF h
      <3> QED BY <3>2
    <2>3. g = [i \in 1 .. n |-> FlattenStep(q, g, i)]
      BY <2>2
    <2> HIDE DEF g
    <2>4. \A i \in 1 .. n : g[i] = FlattenStep(q, g, i)
      BY <2>3
    <2> DEFINE S == {m \in Nat : m \in 1 .. n => g[m] = f[m]}
    <2>5. 0 \in S
      OBVIOUS
    <2>6. ASSUME NEW m \in Nat, m \in S PROVE m + 1 \in S
      <3> SUFFICES ASSUME m + 1 \in 1 .. n PROVE g[m + 1] = f[m + 1]
        OBVIOUS
      <3>1. f[m + 1] = f[m] \o q[m + 1]
        <4>1. f[m + 1] = f[(m + 1) - 1] \o q[m + 1]
          BY <1>2 DEF Joins
        <4>2. (m + 1) - 1 = m
          OBVIOUS
        <4> QED BY <4>1, <4>2
      <3>2. CASE m = 0
        <4>1. g[m + 1] = q[m + 1] /\ q[m + 1] \in Seq(X)
          BY <1>1, <2>4, <3>2 DEF FlattenStep
        <4>2. f[m] = <<>>
          BY <1>2, <3>2 DEF Joins
        <4> QED BY <3>1, <4>1, <4>2
      <3>3. CASE m # 0
        <4>1. m \in 1 .. n /\ (m + 1) - 1 = m /\ m + 1 # 1
          BY <1>1, <3>3
        <4>2. g[m] = f[m]
          BY <2>6, <4>1
        <4>3. g[m + 1] = g[m] \o q[m + 1]
          BY <2>4, <4>1 DEF FlattenStep
        <4> QED BY <3>1, <4>2, <4>3
      <3> QED BY <3>2, <3>3
    <2>7. Nat \subseteq S
      <3> HIDE DEF S
      <3> QED BY <2>5, <2>6, Numbers
    <2>8. n \in 1 .. n /\ n \in S
      BY <1>1, <1>6, <2>7
    <2>9. g[n] = f[n]
      BY <2>8
    <2> QED BY <1>2, <1>4, <2>1, <2>9
  <1> QED BY <1>5, <1>6

\* What is closed under joining holds of the whole if it holds of the pieces.
LEMMA FlattenClosed ==
  ASSUME NEW X, NEW C \in SUBSET Seq(X), <<>> \in C, \A a, b \in C : a \o b \in C,
         NEW q \in Seq(C)
  PROVE  FlattenSeq(q) \in C
  <1>1. q \in Seq(Seq(X)) /\ Len(q) \in Nat /\ \A i \in 1 .. Len(q) : q[i] \in C
    OBVIOUS
  <1>2. PICK f \in [0 .. Len(q) -> Seq(X)] :
            Joins(f, q, Len(q)) /\ FlattenSeq(q) = f[Len(q)]
    BY <1>1, FlattenJoins
  <1> DEFINE S == {m \in Nat : m \in 0 .. Len(q) => f[m] \in C}
  <1>3. 0 \in S
    BY <1>2 DEF Joins
  <1>4. ASSUME NEW m \in Nat, m \in S PROVE m + 1 \in S
    <2> SUFFICES ASSUME m + 1 \in 0 .. Len(q) PROVE f[m + 1] \in C
      OBVIOUS
    <2>1. m + 1 \in 1 .. Len(q) /\ (m + 1) - 1 = m /\ m \in 0 .. Len(q)
      BY <1>1
    <2>2. f[m + 1] = f[m] \o q[m + 1]
      BY <1>2, <2>1 DEF Joins
    <2>3. f[m] \in C /\ q[m + 1] \in C
      BY <1>1, <1>4, <2>1
    <2> QED BY <2>2, <2>3
  <1>5. Nat \subseteq S
    <2> HIDE DEF S
    <2> QED BY <1>3, <1>4, Numbers
  <1>6. Len(q) \in 0 .. Len(q)
    BY <1>1
  <1>7. Len(q) \in S
    <2> HIDE DEF S
    <2> QED BY <1>1, <1>5
  <1>8. f[Len(q)] \in C
    BY <1>6, <1>7
  <1> QED BY <1>2, <1>8

---------------------------------------------------------------------------
(* Trees *)

LEMMA Induct ==
  ASSUME NEW S, NEW kinds, Statements(S, kinds), NEW T,
         \A s \in S : (\A i \in DOMAIN s.ss : s.ss[i] \in T) => s \in T
  PROVE  S \subseteq T
  <1> DEFINE U == S \cap T
  <1>1. U \in SUBSET S
    OBVIOUS
  <1>2. ASSUME NEW s \in S, \A i \in DOMAIN s.ss : s.ss[i] \in U PROVE s \in U
    BY <1>2
  <1>3. U = S
    <2> HIDE DEF U
    <2> QED BY <1>1, <1>2 DEF Statements
  <1> QED BY <1>3

LEMMA Members ==
  ASSUME NEW S, NEW kinds, Statements(S, kinds), NEW s \in S
  PROVE  /\ s \in [k : kinds, x : Data, ss : Seq(S)] /\ Arity(s)
         /\ \A i \in DOMAIN s.ss : s.ss[i] \in S
         /\ DOMAIN s.ss = 1 .. Len(s.ss) /\ Len(s.ss) \in Nat
  BY DEF Statements

LEMMA Makes ==
  ASSUME NEW S, NEW kinds, Statements(S, kinds),
         NEW s \in [k : kinds, x : Data, ss : Seq(S)], Arity(s)
  PROVE  s \in S
  BY DEF Statements

\* translate_rec, statement by statement.
LEMMA Translation ==
  ASSUME Grammar, Equations, NEW labels \in Labels_, NEW fn \in BOOLEAN, NEW tail \in BOOLEAN,
         NEW s \in NotWasm
  PROVE  LET ls == <<Unused>> \o labels
             is == translate_rec(labels, fn, tail, s)
         IN  /\ s.k = "Empty" => is = <<>>
             /\ s.k = "Block" =>
                  is = FlattenSeq([i \in DOMAIN s.ss |->
                          translate_rec(labels, fn, tail /\ i = Len(s.ss), s.ss[i])])
             /\ s.k = "Expr" => is = <<Inst("call", s.x)>>
             /\ s.k \in {"SetTest", "SetFallthrough"} => is = <<Inst(s.k, s.x)>>
             /\ s.k = "If" =>
                  is = <<Nested("if", s.x, tail /\ fn,
                                translate_rec(ls, fn, tail, s.ss[1]),
                                translate_rec(ls, fn, tail, s.ss[2]))>>
             /\ s.k = "Loop" =>
                  is = <<Nested("loop", 0, FALSE,
                                Append(translate_rec(ls, fn, FALSE, s.ss[1]), Inst("br", 0)),
                                <<>>)>>
             /\ s.k = "Label" =>
                  is = <<Nested("block", 0, FALSE,
                                translate_rec(<<s.x>> \o labels, fn, tail, s.ss[1]), <<>>)>>
             /\ s.k = "Break" => is = BreakIndex(labels, s.x)
             /\ s.k = "Return" => is = <<Inst("gc_exit_fn", 0), Inst("return", s.x)>>
             /\ s.k = "Panic" => is = <<Inst("panic", 0)>>
  <1>1. translate_rec(labels, fn, tail, s) =
            TranslateStmt(labels, fn, tail, s,
                          LAMBDA ls, t, r : translate_rec(ls, fn, t, r))
    BY DEF Equations, TranslateEq
  <1>2. QED
    BY <1>1 DEF TranslateStmt

---------------------------------------------------------------------------
(* Every gc_exit_fn is followed by a return, every return follows one.     *)

Paired ==
    {is \in Code :
        /\ \A i \in DOMAIN is : is[i].op = "gc_exit_fn" =>
              i + 1 \in DOMAIN is /\ is[i + 1].op = "return"
        /\ \A i \in DOMAIN is : is[i].op = "return" =>
              i - 1 \in DOMAIN is /\ is[i - 1].op = "gc_exit_fn"}

LEMMA PairedEmpty ==
  ASSUME Grammar
  PROVE  <<>> \in Paired
  BY DEF Grammar, Paired

LEMMA PairedOne ==
  ASSUME Grammar, NEW i \in Insts, i.op \notin {"gc_exit_fn", "return"}
  PROVE  <<i>> \in Paired
  <1>1. <<i>> \in Code
    BY DEF Grammar
  <1>2. DOMAIN <<i>> = {1} /\ <<i>>[1] = i
    OBVIOUS
  <1> QED BY <1>1, <1>2 DEF Paired

LEMMA Joined ==
  ASSUME NEW X, NEW a \in Seq(X), NEW b \in Seq(X)
  PROVE  /\ a \o b \in Seq(X) /\ DOMAIN (a \o b) = 1 .. (Len(a) + Len(b))
         /\ \A i \in 1 .. Len(a) : (a \o b)[i] = a[i]
         /\ \A i \in 1 .. Len(b) : (a \o b)[Len(a) + i] = b[i]
         /\ \A i \in DOMAIN (a \o b) :
               i \in DOMAIN a \/ (i - Len(a) \in DOMAIN b /\ (a \o b)[i] = b[i - Len(a)])
  OBVIOUS

LEMMA PairedJoin ==
  ASSUME Grammar, NEW a \in Paired, NEW b \in Paired
  PROVE  a \o b \in Paired
  <1>1. a \in Seq(Insts) /\ b \in Seq(Insts) /\ Len(a) \in Nat /\ Len(b) \in Nat
    BY DEF Grammar, Paired
  <1> DEFINE c == a \o b
  <1>2. /\ c \in Seq(Insts) /\ DOMAIN c = 1 .. (Len(a) + Len(b))
        /\ \A i \in 1 .. Len(a) : c[i] = a[i]
        /\ \A i \in 1 .. Len(b) : c[Len(a) + i] = b[i]
    BY <1>1, Joined
  <1>3. DOMAIN a = 1 .. Len(a) /\ DOMAIN b = 1 .. Len(b)
    BY <1>1
  <1> HIDE DEF c
  <1>4. ASSUME NEW i \in DOMAIN c
        PROVE  /\ c[i].op = "gc_exit_fn" => i + 1 \in DOMAIN c /\ c[i + 1].op = "return"
               /\ c[i].op = "return" => i - 1 \in DOMAIN c /\ c[i - 1].op = "gc_exit_fn"
    <2>1. CASE i \in 1 .. Len(a)
      BY <1>1, <1>2, <1>3, <2>1 DEF Paired
    <2>2. CASE i \notin 1 .. Len(a)
      <3>1. PICK j \in 1 .. Len(b) : i = Len(a) + j
        <4>1. i - Len(a) \in 1 .. Len(b) /\ i = Len(a) + (i - Len(a))
          BY <1>1, <1>2, <2>2
        <4> QED BY <4>1
      <3>2. c[i] = b[j]
        BY <1>2, <3>1
      <3>3. CASE b[j].op = "gc_exit_fn"
        <4>1. j + 1 \in 1 .. Len(b) /\ b[j + 1].op = "return"
          BY <1>3, <3>3 DEF Paired
        <4>2. Len(a) + (j + 1) = i + 1 /\ i + 1 \in 1 .. (Len(a) + Len(b))
          BY <1>1, <3>1, <4>1
        <4>3. c[Len(a) + (j + 1)] = b[j + 1]
          BY <1>2, <4>1
        <4> QED BY <1>2, <4>3, <3>2, <3>3, <4>1, <4>2
      <3>4. CASE b[j].op = "return"
        <4>1. j - 1 \in 1 .. Len(b) /\ b[j - 1].op = "gc_exit_fn"
          BY <1>3, <3>4 DEF Paired
        <4>2. Len(a) + (j - 1) = i - 1 /\ i - 1 \in 1 .. (Len(a) + Len(b))
          BY <1>1, <3>1, <4>1
        <4>3. c[Len(a) + (j - 1)] = b[j - 1]
          BY <1>2, <4>1
        <4> QED BY <1>2, <4>3, <3>2, <3>4, <4>1, <4>2
      <3> QED BY <3>2, <3>3, <3>4
    <2> QED BY <2>1, <2>2
  <1>5. c \in Code
    BY <1>2 DEF Grammar
  <1>6. c \in Paired
    BY <1>4, <1>5 DEF Paired
  <1> QED BY <1>6 DEF c

LEMMA PairedTail ==
  ASSUME Grammar, NEW is \in Paired, is # <<>>, Head(is).op # "gc_exit_fn"
  PROVE  Tail(is) \in Paired /\ Head(is).op # "return"
  <1>1. /\ is \in Seq(Insts) /\ Len(is) \in Nat /\ Len(is) > 0 /\ Head(is) = is[1]
        /\ Tail(is) \in Seq(Insts) /\ Len(Tail(is)) = Len(is) - 1
        /\ \A i \in 1 .. Len(is) - 1 : Tail(is)[i] = is[i + 1]
    BY DEF Grammar, Paired
  <1> DEFINE c == Tail(is)
  <1>2. DOMAIN is = 1 .. Len(is) /\ DOMAIN c = 1 .. Len(is) - 1 /\ c \in Code
    BY <1>1 DEF Grammar
  <1>3. \A i \in DOMAIN c : c[i] = is[i + 1] /\ i + 1 \in DOMAIN is
    BY <1>1, <1>2
  <1> HIDE DEF c
  <1>4. ASSUME NEW i \in DOMAIN c
        PROVE  /\ c[i].op = "gc_exit_fn" => i + 1 \in DOMAIN c /\ c[i + 1].op = "return"
               /\ c[i].op = "return" => i - 1 \in DOMAIN c /\ c[i - 1].op = "gc_exit_fn"
    <2>1. CASE c[i].op = "gc_exit_fn"
      <3>1. (i + 1) + 1 \in DOMAIN is /\ is[(i + 1) + 1].op = "return"
        BY <1>3, <2>1 DEF Paired
      <3>2. i + 1 \in DOMAIN c
        BY <1>1, <1>2, <3>1
      <3> QED BY <1>3, <2>1, <3>1, <3>2
    <2>2. CASE c[i].op = "return"
      <3>1. (i + 1) - 1 \in DOMAIN is /\ is[(i + 1) - 1].op = "gc_exit_fn"
        BY <1>3, <2>2 DEF Paired
      <3>2. (i + 1) - 1 = i
        BY <1>2
      <3>3. i # 1
        BY <1>1, <3>1, <3>2
      <3>4. i - 1 \in DOMAIN c /\ (i - 1) + 1 = i
        BY <1>1, <1>2, <3>3
      <3> QED BY <1>3, <2>2, <3>1, <3>2, <3>4
    <2> QED BY <2>1, <2>2
  <1>5. c \in Paired
    BY <1>2, <1>4 DEF Paired
  <1>6. is[1].op # "return"
    <2>1. 1 \in DOMAIN is /\ 1 - 1 \notin DOMAIN is
      BY <1>1, <1>2
    <2> QED BY <2>1 DEF Paired
  <1> QED BY <1>1, <1>5, <1>6 DEF c

LEMMA PairedExit ==
  ASSUME Grammar, NEW is \in Paired, is # <<>>, Head(is).op = "gc_exit_fn"
  PROVE  Tail(is) # <<>> /\ Head(Tail(is)).op = "return"
  <1>1. /\ is \in Seq(Insts) /\ Len(is) \in Nat /\ Len(is) > 0 /\ Head(is) = is[1]
        /\ Tail(is) \in Seq(Insts) /\ Len(Tail(is)) = Len(is) - 1
        /\ \A i \in 1 .. Len(is) - 1 : Tail(is)[i] = is[i + 1]
        /\ DOMAIN is = 1 .. Len(is)
    BY DEF Grammar, Paired
  <1>2. 1 + 1 \in DOMAIN is /\ is[1 + 1].op = "return"
    <2>1. 1 \in DOMAIN is /\ is[1].op = "gc_exit_fn"
      BY <1>1
    <2> QED BY <2>1 DEF Paired
  <1>3. 1 \in 1 .. Len(is) - 1 /\ Tail(is)[1] = is[1 + 1]
    BY <1>1, <1>2
  <1>4. Len(Tail(is)) > 0 /\ Head(Tail(is)) = Tail(is)[1]
    BY <1>1, <1>3
  <1>5. Tail(is) # <<>>
    <2>1. \A c : Len(c) > 0 => c # <<>>
      OBVIOUS
    <2> QED BY <1>4, <2>1
  <1> QED BY <1>2, <1>3, <1>4, <1>5

---------------------------------------------------------------------------
(* What translate_rec emits under d enclosing blocks. *)

LEMMA Inside ==
  ASSUME NEW labels \in Labels_, NEW l \in Data \cup {Unused}
  PROVE  <<l>> \o labels \in Labels_ /\ Len(<<l>> \o labels) = Len(labels) + 1
  BY DEF Labels_

LEMMA BreakIs ==
  ASSUME Grammar, NEW labels \in Labels_, NEW l
  PROVE  \E i \in Insts :
            /\ BreakIndex(labels, l) = <<i>>
            /\ \/ i = Inst("panic", 0) /\ \A j \in DOMAIN labels : labels[j] # l
               \/ \E n \in Nat : n < Len(labels) /\ i = Inst("br", n)
  <1>1. CASE \E i \in DOMAIN labels : labels[i] = l
    <2> DEFINE P == {i \in DOMAIN labels : labels[i] = l}
               m == First(labels, LAMBDA i : labels[i] = l)
    <2>1. \E i \in DOMAIN labels : labels[i] = l /\ \A j \in 1 .. i - 1 : labels[j] # l
      <3>1. P \subseteq Nat /\ P # {} /\ DOMAIN labels = 1 .. Len(labels) /\ Len(labels) \in Nat
        BY <1>1 DEF Labels_
      <3>2. PICK i \in P : \A j \in P : ~(<<j, i>> \in OpToRel(<, Nat))
        <4> HIDE DEF P
        <4> QED BY <3>1, WFMin, NatLessThanWellFounded
      <3>3. ASSUME NEW j \in 1 .. i - 1 PROVE labels[j] # l
        <4>1. j \in Nat /\ i \in Nat /\ j < i /\ j \in DOMAIN labels
          BY <3>1
        <4>2. <<j, i>> \in OpToRel(<, Nat)
          BY <4>1 DEF OpToRel
        <4> QED BY <3>2, <4>1, <4>2
      <3> QED BY <3>2, <3>3
    <2>2. m \in DOMAIN labels
      BY <2>1 DEF First
    <2>3. BreakIndex(labels, l) = <<Inst("br", m - 1)>>
      BY <1>1 DEF BreakIndex
    <2> HIDE DEF m
    <2>4. m - 1 \in Nat /\ m - 1 < Len(labels)
      BY <2>2 DEF Labels_
    <2>5. Inst("br", m - 1) \in Insts
      BY <2>4 DEF Inst, Insts, Ops, Numbered
    <2> QED BY <2>3, <2>4, <2>5
  <1>2. CASE ~\E i \in DOMAIN labels : labels[i] = l
    <2>1. BreakIndex(labels, l) = <<Inst("panic", 0)>>
      BY <1>2 DEF BreakIndex
    <2>2. Inst("panic", 0) \in Insts
      BY DEF Inst, Insts, Ops, Numbered, Grammar
    <2> QED BY <1>2, <2>1, <2>2
  <1> QED BY <1>1, <1>2

\* The code of every statement is in Paired.
LEMMA EmitsPairs ==
  ASSUME Grammar, Equations
  PROVE  \A s \in NotWasm : \A labels \in Labels_, fn, tail \in BOOLEAN :
            translate_rec(labels, fn, tail, s) \in Paired
  <1> DEFINE T == {s \in NotWasm : \A labels \in Labels_, fn, tail \in BOOLEAN :
                                      translate_rec(labels, fn, tail, s) \in Paired}
  <1>1. ASSUME NEW s \in NotWasm, \A i \in DOMAIN s.ss : s.ss[i] \in T,
               NEW labels \in Labels_, NEW fn \in BOOLEAN, NEW tail \in BOOLEAN
        PROVE  translate_rec(labels, fn, tail, s) \in Paired
    <2> DEFINE is == translate_rec(labels, fn, tail, s)
    <2>1. /\ s \in [k : NotWasmKinds, x : Data, ss : Seq(NotWasm)] /\ Arity(s)
          /\ DOMAIN s.ss = 1 .. Len(s.ss) /\ Len(s.ss) \in Nat
      BY Members DEF Grammar
    <2>2. \A i \in DOMAIN s.ss : \A ls \in Labels_, f, t \in BOOLEAN :
             translate_rec(ls, f, t, s.ss[i]) \in Paired
      BY <1>1
    <2>3. Paired \subseteq Code /\ Paired \subseteq Seq(Insts)
      BY DEF Paired, Grammar
    <2>4. CASE s.k = "Block"
      <3> DEFINE q == [i \in DOMAIN s.ss |->
                          translate_rec(labels, fn, tail /\ i = Len(s.ss), s.ss[i])]
      <3>1. q \in Seq(Paired)
        <4>1. ASSUME NEW i \in DOMAIN s.ss
              PROVE  translate_rec(labels, fn, tail /\ i = Len(s.ss), s.ss[i]) \in Paired
          <5>1. (tail /\ i = Len(s.ss)) \in BOOLEAN
            OBVIOUS
          <5> QED BY <2>2, <5>1
        <4> QED BY <2>1, <4>1
      <3>2. is = FlattenSeq(q)
        BY <2>4, Translation
      <3> HIDE DEF q, is
      <3>3. FlattenSeq(q) \in Paired
        BY <2>3, <3>1, PairedEmpty, PairedJoin, FlattenClosed
      <3> QED BY <3>2, <3>3 DEF is
    <2>5. CASE s.k = "If"
      <3> DEFINE ls == <<Unused>> \o labels
                 a == translate_rec(ls, fn, tail, s.ss[1])
                 b == translate_rec(ls, fn, tail, s.ss[2])
      <3>1. a \in Code /\ b \in Code
        <4>1. ls \in Labels_ /\ 1 \in DOMAIN s.ss /\ 2 \in DOMAIN s.ss
          <5>1. ls \in Labels_
            BY <2>1, Inside
          <5>2. Len(s.ss) = 2
            BY <2>1, <2>5 DEF Arity
          <5>3. 1 \in DOMAIN s.ss /\ 2 \in DOMAIN s.ss
            BY <2>1, <5>2
          <5> QED BY <5>1, <5>3
        <4> QED BY <2>2, <2>3, <4>1
      <3>2. is = <<Nested("if", s.x, tail /\ fn, a, b)>>
        BY <2>5, Translation
      <3> HIDE DEF a, b, is
      <3>3. Nested("if", s.x, tail /\ fn, a, b) \in Insts
        BY <2>1, <3>1 DEF Nested, Insts, Numbered
      <3>4. Nested("if", s.x, tail /\ fn, a, b).op = "if"
        BY DEF Nested
      <3> QED BY <3>2, <3>3, <3>4, PairedOne DEF is
    <2>6. CASE s.k = "Loop"
      <3> DEFINE ls == <<Unused>> \o labels
                 a == translate_rec(ls, fn, FALSE, s.ss[1])
                 b == Append(a, Inst("br", 0))
      <3>1. a \in Seq(Insts) /\ <<>> \in Code
        <4>1. ls \in Labels_ /\ 1 \in DOMAIN s.ss
          <5>1. ls \in Labels_
            BY <2>1, Inside
          <5>2. Len(s.ss) = 1
            BY <2>1, <2>6 DEF Arity
          <5>3. 1 \in DOMAIN s.ss
            BY <2>1, <5>2
          <5> QED BY <5>1, <5>3
        <4> QED BY <2>2, <2>3, <4>1, PairedEmpty
      <3>2. b \in Code
        <4>1. Inst("br", 0) \in Insts
          BY DEF Inst, Insts, Ops, Numbered
        <4> HIDE DEF a
        <4> QED BY <3>1, <4>1 DEF Grammar
      <3>3. is = <<Nested("loop", 0, FALSE, b, <<>>)>>
        BY <2>6, Translation
      <3> HIDE DEF b, is
      <3>4. Nested("loop", 0, FALSE, b, <<>>) \in Insts
        BY <3>1, <3>2 DEF Nested, Insts, Numbered
      <3>5. Nested("loop", 0, FALSE, b, <<>>).op = "loop"
        BY DEF Nested
      <3> QED BY <3>3, <3>4, <3>5, PairedOne DEF is
    <2>7. CASE s.k = "Label"
      <3> DEFINE ls == <<s.x>> \o labels
                 a == translate_rec(ls, fn, tail, s.ss[1])
      <3>1. a \in Code /\ <<>> \in Code
        <4>1. ls \in Labels_ /\ 1 \in DOMAIN s.ss
          <5>1. ls \in Labels_
            BY <2>1, Inside
          <5>2. Len(s.ss) = 1
            BY <2>1, <2>7 DEF Arity
          <5>3. 1 \in DOMAIN s.ss
            BY <2>1, <5>2
          <5> QED BY <5>1, <5>3
        <4> QED BY <2>2, <2>3, <4>1, PairedEmpty
      <3>2. is = <<Nested("block", 0, FALSE, a, <<>>)>>
        BY <2>7, Translation
      <3> HIDE DEF a, is
      <3>3. Nested("block", 0, FALSE, a, <<>>) \in Insts
        BY <3>1 DEF Nested, Insts, Numbered
      <3>4. Nested("block", 0, FALSE, a, <<>>).op = "block"
        BY DEF Nested
      <3> QED BY <3>2, <3>3, <3>4, PairedOne DEF is
    <2>8. CASE s.k = "Break"
      <3>1. is = BreakIndex(labels, s.x)
        BY <2>8, Translation
      <3> HIDE DEF is
      <3>2. PICK i \in Insts : /\ BreakIndex(labels, s.x) = <<i>>
                               /\ \/ i = Inst("panic", 0)
                                  \/ \E n \in Nat : i = Inst("br", n)
        BY BreakIs
      <3>3. i.op \in {"panic", "br"}
        BY <3>2 DEF Inst
      <3> QED BY <3>1, <3>2, <3>3, PairedOne DEF is
    <2>9. CASE s.k = "Return"
      <3> DEFINE e == Inst("gc_exit_fn", 0)
                 r == Inst("return", s.x)
      <3>1. e \in Insts /\ r \in Insts /\ e.op = "gc_exit_fn" /\ r.op = "return"
        BY <2>1 DEF Inst, Insts, Ops, Numbered, Grammar
      <3>2. is = <<e, r>>
        BY <2>9, Translation
      <3> HIDE DEF e, r, is
      <3>3. <<e, r>> \in Code
        BY <3>1 DEF Grammar
      <3>4. DOMAIN <<e, r>> = 1 .. 2 /\ <<e, r>>[1] = e /\ <<e, r>>[2] = r
        OBVIOUS
      <3>5. <<e, r>> \in Paired
        BY <3>1, <3>3, <3>4 DEF Paired
      <3> QED BY <3>2, <3>5 DEF is
    <2>10. CASE s.k = "Empty"
      <3>1. is = <<>>
        BY <2>10, Translation
      <3> QED BY <3>1, PairedEmpty
    <2>11. CASE s.k \in {"Expr", "SetTest", "SetFallthrough", "Panic"}
      <3>1. PICK op \in {"call", "SetTest", "SetFallthrough", "panic"}, n \in Data :
               is = <<Inst(op, n)>>
        <4>1. 0 \in Data /\ s.x \in Data
          BY <2>1 DEF Grammar
        <4>2. \/ is = <<Inst("call", s.x)>>
              \/ s.k \in {"SetTest", "SetFallthrough"} /\ is = <<Inst(s.k, s.x)>>
              \/ is = <<Inst("panic", 0)>>
          BY <2>11, Translation, ZenonT(60)
        <4> HIDE DEF is
        <4> QED BY <4>1, <4>2
      <3> HIDE DEF is
      <3>2. Inst(op, n) \in Insts /\ Inst(op, n).op \notin {"gc_exit_fn", "return"}
        BY DEF Inst, Insts, Ops, Numbered
      <3> QED BY <3>1, <3>2, PairedOne DEF is
    <2> QED
      BY <2>1, <2>4, <2>5, <2>6, <2>7, <2>8, <2>9, <2>10, <2>11 DEF NotWasmKinds
  <1>2. \A s \in NotWasm : (\A i \in DOMAIN s.ss : s.ss[i] \in T) => s \in T
    BY <1>1
  <1>3. NotWasm \subseteq T
    <2> HIDE DEF T
    <2> QED BY <1>2, Induct DEF Grammar
  <1> QED BY <1>3

\* Instructions that translate_rec emits under d enclosing blocks, and code made
\* of them and of the jump back at the end of a loop.
Emitted(d) ==
    {i \in Insts :
        \E labels \in Labels_, fn, tail \in BOOLEAN, s \in NotWasm :
            /\ Len(labels) = d
            /\ \E j \in DOMAIN translate_rec(labels, fn, tail, s) :
                  i = translate_rec(labels, fn, tail, s)[j]}

Again_ == Inst("br", 0)

Good(d) ==
    {is \in Paired :
        \A j \in DOMAIN is : is[j] \in Emitted(d) \/ (d > 0 /\ is[j] = Again_)}

\* Jumps stay inside the function.
InstOk(d, i) ==
    /\ i.op = "br" => i.n \in Nat /\ i.n < d
    /\ i.op \in {"block", "loop", "if"} => i.body \in Good(d + 1) /\ i.alt \in Good(d + 1)

LEMMA GoodEmpty ==
  ASSUME Grammar, NEW d
  PROVE  <<>> \in Good(d)
  BY PairedEmpty DEF Good

LEMMA GoodJoin ==
  ASSUME Grammar, NEW d, NEW a \in Good(d), NEW b \in Good(d)
  PROVE  a \o b \in Good(d)
  <1>1. a \in Paired /\ b \in Paired /\ a \in Seq(Insts) /\ b \in Seq(Insts)
    BY DEF Good, Paired, Grammar
  <1>2. a \o b \in Paired
    BY <1>1, PairedJoin
  <1>3. ASSUME NEW j \in DOMAIN (a \o b)
        PROVE  \/ j \in DOMAIN a /\ (a \o b)[j] = a[j]
               \/ \E h \in DOMAIN b : (a \o b)[j] = b[h]
    BY <1>1
  <1> QED BY <1>2, <1>3 DEF Good

LEMMA GoodTail ==
  ASSUME Grammar, NEW d, NEW is \in Good(d), is # <<>>
  PROVE  /\ Head(is) \in Insts
         /\ Head(is) \in Emitted(d) \/ (d > 0 /\ Head(is) = Again_)
         /\ Head(is).op # "return"
         /\ Head(is).op = "gc_exit_fn" => Tail(is) # <<>> /\ Head(Tail(is)).op = "return"
         /\ Head(is).op # "gc_exit_fn" => Tail(is) \in Good(d)
         /\ Tail(is) \in Code
  <1>1. is \in Paired /\ is \in Seq(Insts)
    BY DEF Good, Paired, Grammar
  <1>2. /\ 1 \in DOMAIN is /\ Head(is) = is[1] /\ Tail(is) \in Seq(Insts)
        /\ \A j \in DOMAIN Tail(is) : j + 1 \in DOMAIN is /\ Tail(is)[j] = is[j + 1]
    BY <1>1
  <1>3. Head(is) \in Insts /\ Tail(is) \in Code
    BY <1>1, <1>2 DEF Grammar
  <1>4. Head(is) \in Emitted(d) \/ (d > 0 /\ Head(is) = Again_)
    BY <1>2 DEF Good
  <1>5. Head(is).op # "return"
    BY <1>1, PairedTail
  <1>6. Head(is).op = "gc_exit_fn" => Tail(is) # <<>> /\ Head(Tail(is)).op = "return"
    BY <1>1, PairedExit
  <1>7. Head(is).op # "gc_exit_fn" => Tail(is) \in Good(d)
    <2> SUFFICES ASSUME Head(is).op # "gc_exit_fn" PROVE Tail(is) \in Good(d)
      OBVIOUS
    <2>1. Tail(is) \in Paired
      BY <1>1, PairedTail
    <2> QED BY <1>2, <2>1 DEF Good
  <1> QED BY <1>3, <1>4, <1>5, <1>6, <1>7

LEMMA EmitsGood ==
  ASSUME Grammar, Equations, NEW labels \in Labels_, NEW fn \in BOOLEAN, NEW tail \in BOOLEAN,
         NEW s \in NotWasm
  PROVE  translate_rec(labels, fn, tail, s) \in Good(Len(labels))
  <1> DEFINE is == translate_rec(labels, fn, tail, s)
  <1>1. is \in Paired
    BY EmitsPairs
  <1>2. is \in Seq(Insts)
    BY <1>1 DEF Paired, Grammar
  <1>3. ASSUME NEW j \in DOMAIN is PROVE is[j] \in Emitted(Len(labels))
    <2>1. is[j] \in Insts
      <3> HIDE DEF is
      <3> QED BY <1>2
    <2> QED BY <2>1 DEF Emitted
  <1> HIDE DEF is
  <1>4. is \in Good(Len(labels))
    BY <1>1, <1>3 DEF Good
  <1> QED BY <1>4 DEF is

LEMMA EmitsOk ==
  ASSUME Grammar, Equations
  PROVE  \A s \in NotWasm : \A labels \in Labels_, fn, tail \in BOOLEAN :
            \A j \in DOMAIN translate_rec(labels, fn, tail, s) :
                InstOk(Len(labels), translate_rec(labels, fn, tail, s)[j])
  <1> DEFINE Ok(d) == {is \in Code : \A j \in DOMAIN is : InstOk(d, is[j])}
             T == {s \in NotWasm : \A labels \in Labels_, fn, tail \in BOOLEAN :
                                      translate_rec(labels, fn, tail, s) \in Ok(Len(labels))}
  <1>0. \A d : \A i \in Insts : InstOk(d, i) => <<i>> \in Ok(d)
    BY DEF Grammar
  <1>1. ASSUME NEW s \in NotWasm, \A i \in DOMAIN s.ss : s.ss[i] \in T,
               NEW labels \in Labels_, NEW fn \in BOOLEAN, NEW tail \in BOOLEAN
        PROVE  translate_rec(labels, fn, tail, s) \in Ok(Len(labels))
    <2> DEFINE is == translate_rec(labels, fn, tail, s)
               d == Len(labels)
    <2>1. /\ s \in [k : NotWasmKinds, x : Data, ss : Seq(NotWasm)] /\ Arity(s)
          /\ DOMAIN s.ss = 1 .. Len(s.ss) /\ Len(s.ss) \in Nat /\ d \in Nat
          /\ \A i \in DOMAIN s.ss : s.ss[i] \in NotWasm
      BY Members DEF Grammar, Labels_
    <2>2. \A i \in DOMAIN s.ss : \A f, t \in BOOLEAN :
             translate_rec(labels, f, t, s.ss[i]) \in Ok(d)
      BY <1>1
    <2>3. \A l \in Data \cup {Unused} : \A i \in DOMAIN s.ss : \A f, t \in BOOLEAN :
             translate_rec(<<l>> \o labels, f, t, s.ss[i]) \in Good(d + 1)
      BY <2>1, Inside, EmitsGood
    <2>4. is \in Code
      BY EmitsPairs DEF Paired
    <2>5. CASE s.k = "Block"
      <3> DEFINE q == [i \in DOMAIN s.ss |->
                          translate_rec(labels, fn, tail /\ i = Len(s.ss), s.ss[i])]
      <3>1. q \in Seq(Ok(d))
        <4>1. ASSUME NEW i \in DOMAIN s.ss
              PROVE  translate_rec(labels, fn, tail /\ i = Len(s.ss), s.ss[i]) \in Ok(d)
          <5>1. (tail /\ i = Len(s.ss)) \in BOOLEAN
            OBVIOUS
          <5> QED BY <2>2, <5>1
        <4> HIDE DEF Ok
        <4> QED BY <2>1, <4>1
      <3>2. is = FlattenSeq(q)
        BY <2>5, Translation
      <3>3. Ok(d) \subseteq Seq(Insts) /\ <<>> \in Ok(d)
        BY DEF Grammar
      <3>4. ASSUME NEW a \in Ok(d), NEW b \in Ok(d) PROVE a \o b \in Ok(d)
        <4>1. a \in Seq(Insts) /\ b \in Seq(Insts)
          BY DEF Grammar
        <4>2. a \o b \in Code
          BY <4>1 DEF Grammar
        <4>3. ASSUME NEW j \in DOMAIN (a \o b)
              PROVE  \/ j \in DOMAIN a /\ (a \o b)[j] = a[j]
                     \/ \E h \in DOMAIN b : (a \o b)[j] = b[h]
          BY <4>1
        <4> QED BY <4>2, <4>3
      <3> HIDE DEF q, is, Ok
      <3>5. FlattenSeq(q) \in Ok(d)
        BY <3>1, <3>3, <3>4, FlattenClosed
      <3> QED BY <3>2, <3>5 DEF is
    <2>6. CASE s.k = "If"
      <3> DEFINE ls == <<Unused>> \o labels
                 a == translate_rec(ls, fn, tail, s.ss[1])
                 b == translate_rec(ls, fn, tail, s.ss[2])
                 i == Nested("if", s.x, tail /\ fn, a, b)
      <3>1. is = <<i>>
        BY <2>6, Translation
      <3>2. a \in Good(d + 1) /\ b \in Good(d + 1)
        <4>1. Len(s.ss) = 2
          BY <2>1, <2>6 DEF Arity
        <4>2. 1 \in DOMAIN s.ss /\ 2 \in DOMAIN s.ss
          BY <2>1, <4>1
        <4> QED BY <2>3, <4>2
      <3> HIDE DEF a, b
      <3>3. i.op = "if" /\ i.body = a /\ i.alt = b
        BY DEF Nested
      <3> HIDE DEF i, is
      <3> QED BY <2>4, <3>1, <3>2, <3>3 DEF is, InstOk
    <2>7. CASE s.k = "Loop"
      <3> DEFINE ls == <<Unused>> \o labels
                 a == translate_rec(ls, fn, FALSE, s.ss[1])
                 b == Append(a, Inst("br", 0))
                 i == Nested("loop", 0, FALSE, b, <<>>)
      <3>1. is = <<i>>
        BY <2>7, Translation
      <3>2. a \in Good(d + 1) /\ <<>> \in Good(d + 1)
        <4>1. Len(s.ss) = 1
          BY <2>1, <2>7 DEF Arity
        <4>2. 1 \in DOMAIN s.ss
          BY <2>1, <4>1
        <4> QED BY <2>3, <4>2, GoodEmpty
      <3> HIDE DEF a
      <3>3. b \in Good(d + 1)
        <4>1. Again_ \in Insts /\ Again_.op = "br"
          BY DEF Again_, Inst, Insts, Ops, Numbered
        <4>2. <<Again_>> \in Paired
          BY <4>1, PairedOne
        <4>3. d + 1 > 0
          BY <2>1
        <4>4. <<Again_>> \in Good(d + 1)
          BY <4>2, <4>3 DEF Good
        <4>5. b = a \o <<Again_>>
          <5>1. a \in Seq(Insts)
            BY <3>2 DEF Good, Paired, Grammar
          <5> QED BY <4>1, <5>1 DEF Again_
        <4> HIDE DEF b
        <4> QED BY <3>2, <4>4, <4>5, GoodJoin
      <3> HIDE DEF b
      <3>4. i.op = "loop" /\ i.body = b /\ i.alt = <<>>
        BY DEF Nested
      <3> HIDE DEF i, is
      <3> QED BY <2>4, <3>1, <3>2, <3>3, <3>4 DEF is, InstOk
    <2>8. CASE s.k = "Label"
      <3> DEFINE ls == <<s.x>> \o labels
                 a == translate_rec(ls, fn, tail, s.ss[1])
                 i == Nested("block", 0, FALSE, a, <<>>)
      <3>1. is = <<i>>
        BY <2>8, Translation
      <3>2. a \in Good(d + 1) /\ <<>> \in Good(d + 1)
        <4>1. Len(s.ss) = 1
          BY <2>1, <2>8 DEF Arity
        <4>2. 1 \in DOMAIN s.ss /\ s.x \in Data
          BY <2>1, <4>1
        <4> QED BY <2>3, <4>2, GoodEmpty
      <3> HIDE DEF a
      <3>3. i.op = "block" /\ i.body = a /\ i.alt = <<>>
        BY DEF Nested
      <3> HIDE DEF i, is
      <3> QED BY <2>4, <3>1, <3>2, <3>3 DEF is, InstOk
    <2>9. CASE s.k = "Break"
      <3>1. is = BreakIndex(labels, s.x)
        BY <2>9, Translation
      <3> HIDE DEF is
      <3>2. PICK i \in Insts : /\ BreakIndex(labels, s.x) = <<i>>
                               /\ \/ i = Inst("panic", 0)
                                  \/ \E n \in Nat : n < Len(labels) /\ i = Inst("br", n)
        BY BreakIs
      <3>3. InstOk(d, i)
        BY <3>2 DEF Inst, InstOk
      <3> QED BY <2>4, <3>1, <3>2, <3>3 DEF is
    <2>10. CASE s.k = "Return"
      <3>1. is = <<Inst("gc_exit_fn", 0), Inst("return", s.x)>>
        BY <2>10, Translation
      <3> HIDE DEF is
      <3>2. DOMAIN is = 1 .. 2 /\ is[1] = Inst("gc_exit_fn", 0) /\ is[2] = Inst("return", s.x)
        BY <3>1
      <3> QED BY <2>4, <3>2 DEF is, InstOk, Inst
    <2>11. CASE s.k = "Empty"
      <3>1. is = <<>>
        BY <2>11, Translation
      <3> HIDE DEF is
      <3> QED BY <2>4, <3>1 DEF is
    <2>12. CASE s.k \in {"Expr", "SetTest", "SetFallthrough", "Panic"}
      <3>1. PICK op \in {"call", "SetTest", "SetFallthrough", "panic"}, n \in Data :
               is = <<Inst(op, n)>>
        <4>1. 0 \in Data /\ s.x \in Data
          BY <2>1 DEF Grammar
        <4>2. \/ is = <<Inst("call", s.x)>>
              \/ s.k \in {"SetTest", "SetFallthrough"} /\ is = <<Inst(s.k, s.x)>>
              \/ is = <<Inst("panic", 0)>>
          BY <2>12, Translation, ZenonT(60)
        <4> HIDE DEF is
        <4> QED BY <4>1, <4>2
      <3> HIDE DEF is
      <3>2. InstOk(d, Inst(op, n))
        BY DEF Inst, InstOk
      <3> QED BY <2>4, <3>1, <3>2 DEF is
    <2> QED
      BY <2>1, <2>5, <2>6, <2>7, <2>8, <2>9, <2>10, <2>11, <2>12 DEF NotWasmKinds
  <1>2. \A s \in NotWasm : (\A i \in DOMAIN s.ss : s.ss[i] \in T) => s \in T
    BY <1>1
  <1>3. NotWasm \subseteq T
    <2> HIDE DEF T
    <2> QED BY <1>2, Induct DEF Grammar
  <1> QED BY <1>3

LEMMA EmittedOk ==
  ASSUME Grammar, Equations, NEW d \in Nat, NEW i,
         i \in Emitted(d) \/ (d > 0 /\ i = Again_)
  PROVE  InstOk(d, i)
  <1>1. CASE i \in Emitted(d)
    <2>1. PICK labels \in Labels_, fn \in BOOLEAN, tail \in BOOLEAN, s \in NotWasm :
             /\ Len(labels) = d
             /\ \E j \in DOMAIN translate_rec(labels, fn, tail, s) :
                   i = translate_rec(labels, fn, tail, s)[j]
      BY <1>1 DEF Emitted
    <2> QED BY <2>1, EmitsOk
  <1>2. CASE d > 0 /\ i = Again_
    BY <1>2 DEF InstOk, Again_, Inst
  <1> QED BY <1>1, <1>2

---------------------------------------------------------------------------
(* The shadow frame *)

\* What is left to run in the k-th of N frames: there are N - k blocks around it.
\* The outermost is the function, which ends with the gc_exit_fn of translate_func.
RestOk(rest, k, N) ==
    IF k < N THEN rest \in Good(N - k) ELSE \E r \in Good(0) : rest = EndOfFunc(r)

\* Frames below the cursor.
FramesOk ==
    LET N == Len(wasm)
    IN  /\ wasm \in Seq([inst : Insts \cup {Inst("func", 0)}, rest : Code])
        /\ \A k \in 1 .. N : wasm[k].inst.op = "loop" => k < N /\ wasm[k].inst.body \in Good(N - k)
        /\ \A k \in 2 .. N : RestOk(wasm[k].rest, k, N)

\* The frame is there until a gc_exit_fn, and then nothing but the way out.
AtCursor ==
    \/ frames = 1 /\ RestOk(wasm[1].rest, 1, Len(wasm))
    \/ frames = 0 /\ wasm[1].rest # <<>> /\ Head(wasm[1].rest).op = "return"
    \/ frames = 0 /\ Len(wasm) = 1 /\ wasm[1].rest = <<>>

ShadowInv == FramesOk /\ IF wasm = <<>> THEN frames = 0 ELSE AtCursor

LEMMA LoadShadow ==
  ASSUME Grammar, Equations, NEW c, NEW r \in Good(0), c.body = EndOfFunc(r), Load(c)
  PROVE  ShadowInv
  <1> DEFINE F == Frame(Inst("func", 0), c.body)
  <1>1. wasm = <<F>> /\ frames = 1
    BY DEF Load
  <1>2. F.inst = Inst("func", 0) /\ F.rest = EndOfFunc(r) /\ F.inst.op = "func"
    BY DEF Frame, Inst
  <1>3. EndOfFunc(r) \in Code
    <2>1. r \in Seq(Insts)
      BY DEF Good, Paired, Grammar
    <2>2. Inst("gc_exit_fn", 0) \in Insts
      BY DEF Inst, Insts, Ops, Numbered
    <2> QED BY <2>1, <2>2 DEF EndOfFunc, Grammar
  <1>4. F \in [inst : Insts \cup {Inst("func", 0)}, rest : Code]
    BY <1>3 DEF Frame
  <1> HIDE DEF F
  <1>5. Len(wasm) = 1 /\ wasm[1] = F /\ wasm # <<>>
    BY <1>1
  <1>6. wasm \in Seq([inst : Insts \cup {Inst("func", 0)}, rest : Code])
    BY <1>1, <1>4
  <1>7. RestOk(wasm[1].rest, 1, Len(wasm))
    BY <1>2, <1>5 DEF RestOk
  <1>8. FramesOk
    BY <1>2, <1>5, <1>6 DEF FramesOk
  <1> QED BY <1>1, <1>5, <1>7, <1>8 DEF ShadowInv, AtCursor

\* The instruction at the cursor, while the frame is there.
LEMMA AtHere ==
  ASSUME Grammar, Equations, FramesOk, wasm # <<>>, wasm[1].rest # <<>>,
         RestOk(wasm[1].rest, 1, Len(wasm))
  PROVE  LET rest == wasm[1].rest
             N == Len(wasm)
         IN  /\ Here.op # "return"
             /\ InstOk(N - 1, Here) /\ Here \in Insts
             /\ Here.op # "gc_exit_fn" => RestOk(Tail(rest), 1, N)
             /\ Here.op = "gc_exit_fn" =>
                  \/ Tail(rest) # <<>> /\ Head(Tail(rest)).op = "return"
                  \/ N = 1 /\ Tail(rest) = <<>>
             /\ Tail(rest) \in Code
  <1> DEFINE rest == wasm[1].rest
             N == Len(wasm)
  <1>1. N \in Nat /\ N >= 1 /\ Here = Head(rest)
    BY DEF FramesOk, Here
  <1>2. CASE N > 1
    <2>1. rest \in Good(N - 1) /\ N - 1 \in Nat
      BY <1>1, <1>2 DEF RestOk
    <2> HIDE DEF rest, N
    <2>2. /\ Head(rest) \in Insts /\ Head(rest).op # "return"
          /\ Head(rest) \in Emitted(N - 1) \/ (N - 1 > 0 /\ Head(rest) = Again_)
          /\ Head(rest).op = "gc_exit_fn" => Tail(rest) # <<>> /\ Head(Tail(rest)).op = "return"
          /\ Head(rest).op # "gc_exit_fn" => Tail(rest) \in Good(N - 1)
          /\ Tail(rest) \in Code
      BY <2>1, GoodTail DEF rest
    <2>3. InstOk(N - 1, Head(rest))
      BY <2>1, <2>2, EmittedOk
    <2> QED BY <1>1, <1>2, <2>2, <2>3 DEF RestOk, rest, N
  <1>3. CASE N = 1
    <2>1. PICK r \in Good(0) : rest = EndOfFunc(r)
      BY <1>3 DEF RestOk
    <2> DEFINE e == Inst("gc_exit_fn", 0)
    <2>2. r \in Seq(Insts) /\ rest = Append(r, e)
      BY <2>1 DEF EndOfFunc, Good, Paired, Grammar
    <2>3. e \in Insts /\ e.op = "gc_exit_fn"
      BY DEF Inst, Insts, Ops, Numbered
    <2> HIDE DEF rest, N, e
    <2>4. CASE r = <<>>
      <3>1. Head(rest) = e /\ Tail(rest) = <<>>
        BY <2>2, <2>3, <2>4
      <3>2. InstOk(N - 1, Head(rest))
        BY <2>3, <3>1 DEF InstOk
      <3> QED BY <1>1, <1>3, <2>3, <3>1, <3>2, GoodEmpty DEF rest, N, Good, Paired
    <2>5. CASE r # <<>>
      <3>1. Head(rest) = Head(r) /\ Tail(rest) = Append(Tail(r), e) /\ Tail(r) \in Seq(Insts)
        BY <2>2, <2>3, <2>5
      <3>2. /\ Head(r) \in Insts /\ Head(r).op # "return"
            /\ Head(r) \in Emitted(0) \/ (0 > 0 /\ Head(r) = Again_)
            /\ Head(r).op = "gc_exit_fn" => Tail(r) # <<>> /\ Head(Tail(r)).op = "return"
            /\ Head(r).op # "gc_exit_fn" => Tail(r) \in Good(0)
        BY <2>5, GoodTail
      <3>3. InstOk(N - 1, Head(rest))
        <4>1. N - 1 = 0 /\ 0 \in Nat
          BY <1>3
        <4>2. InstOk(0, Head(r))
          BY <3>2, <4>1, EmittedOk
        <4> QED BY <3>1, <4>1, <4>2
      <3>4. Tail(rest) \in Code
        <4>1. Append(Tail(r), e) \in Seq(Insts)
          BY <2>3, <3>1
        <4> QED BY <3>1, <4>1 DEF Grammar
      <3>5. Head(r).op # "gc_exit_fn" => RestOk(Tail(rest), 1, N)
        <4> SUFFICES ASSUME Head(r).op # "gc_exit_fn" PROVE RestOk(Tail(rest), 1, N)
          OBVIOUS
        <4>1. Tail(r) \in Good(0) /\ Tail(rest) = EndOfFunc(Tail(r))
          BY <3>1, <3>2 DEF EndOfFunc, e
        <4> QED BY <1>3, <4>1 DEF RestOk
      <3>6. Head(r).op = "gc_exit_fn" => Tail(rest) # <<>> /\ Head(Tail(rest)).op = "return"
        <4> SUFFICES ASSUME Head(r).op = "gc_exit_fn"
                     PROVE  Tail(rest) # <<>> /\ Head(Tail(rest)).op = "return"
          OBVIOUS
        <4>1. Tail(r) # <<>> /\ Head(Tail(r)).op = "return"
          BY <3>2
        <4>2. Append(Tail(r), e) # <<>> /\ Head(Append(Tail(r), e)) = Head(Tail(r))
          BY <2>3, <3>1, <4>1
        <4> QED BY <3>1, <4>1, <4>2
      <3> QED BY <1>1, <3>1, <3>2, <3>3, <3>4, <3>5, <3>6 DEF rest, N
    <2> QED BY <2>4, <2>5
  <1>4. N > 1 \/ N = 1
    <2> HIDE DEF N, rest
    <2> QED BY <1>1
  <1> QED BY <1>2, <1>3, <1>4, Zenon

\* Frames, once the cursor has moved or left blocks behind.
LEMMA MovesOn ==
  ASSUME Grammar, FramesOk, wasm # <<>>, wasm[1].rest # <<>>, Tail(wasm[1].rest) \in Code,
         wasm' = Past
  PROVE  /\ FramesOk' /\ wasm' # <<>> /\ Len(wasm') = Len(wasm)
         /\ wasm'[1].rest = Tail(wasm[1].rest)
  <1> DEFINE N == Len(wasm)
             R == [inst : Insts \cup {Inst("func", 0)}, rest : Code]
             f == [wasm[1] EXCEPT !.rest = Tail(@)]
  <1>1. wasm \in Seq(R) /\ N \in Nat /\ N >= 1 /\ wasm[1] \in R
    <2>1. wasm \in Seq(R)
      BY DEF FramesOk
    <2> HIDE DEF R
    <2> QED BY <2>1
  <1>2. f \in R /\ f.rest = Tail(wasm[1].rest) /\ f.inst = wasm[1].inst
    BY <1>1
  <1>3. wasm' = <<f>> \o Tail(wasm)
    BY DEF Past
  <1> HIDE DEF f
  <1>4. /\ wasm' \in Seq(R) /\ Len(wasm') = N /\ wasm'[1] = f /\ wasm' # <<>>
        /\ \A k \in 2 .. N : wasm'[k] = wasm[k]
    <2> HIDE DEF R
    <2> QED BY <1>1, <1>2, <1>3
  <1>5. ASSUME NEW k \in 1 .. N PROVE wasm'[k].inst = wasm[k].inst
    BY <1>1, <1>2, <1>4
  <1>6. FramesOk'
    BY <1>4, <1>5 DEF FramesOk
  <1> QED BY <1>2, <1>4, <1>6

LEMMA EntersBlock ==
  ASSUME Grammar, FramesOk, wasm # <<>>, wasm[1].rest # <<>>,
         RestOk(Tail(wasm[1].rest), 1, Len(wasm)), Tail(wasm[1].rest) \in Code,
         Here \in Insts, Here.op = "loop" => Here.body \in Good(Len(wasm)),
         NEW branch \in Good(Len(wasm)), wasm' = Enter(branch)
  PROVE  /\ FramesOk' /\ wasm' # <<>>
         /\ RestOk(wasm'[1].rest, 1, Len(wasm'))
  <1> DEFINE N == Len(wasm)
             R == [inst : Insts \cup {Inst("func", 0)}, rest : Code]
             f == [wasm[1] EXCEPT !.rest = Tail(@)]
             g == Frame(Here, branch)
  <1>1. wasm \in Seq(R) /\ N \in Nat /\ N >= 1 /\ wasm[1] \in R
    <2>1. wasm \in Seq(R)
      BY DEF FramesOk
    <2> HIDE DEF R
    <2> QED BY <2>1
  <1>2. f \in R /\ f.rest = Tail(wasm[1].rest) /\ f.inst = wasm[1].inst
    BY <1>1
  <1>3. branch \in Code
    BY DEF Good, Paired
  <1>4. g \in R /\ g.inst = Here /\ g.rest = branch
    BY <1>3 DEF Frame
  <1>5. wasm' = <<g>> \o (<<f>> \o Tail(wasm))
    BY DEF Past, Enter
  <1> HIDE DEF f, g
  <1>6. /\ wasm' \in Seq(R) /\ Len(wasm') = N + 1 /\ wasm'[1] = g /\ wasm'[2] = f /\ wasm' # <<>>
        /\ \A k \in 3 .. N + 1 : wasm'[k] = wasm[k - 1]
    <2> HIDE DEF R
    <2>1. /\ Tail(wasm) \in Seq(R) /\ Len(Tail(wasm)) = N - 1
          /\ \A k \in 1 .. N - 1 : Tail(wasm)[k] = wasm[k + 1]
      BY <1>1
    <2> DEFINE t == Tail(wasm)
    <2> HIDE DEF t
    <2>2. /\ t \in Seq(R) /\ Len(t) = N - 1
          /\ \A k \in 1 .. N - 1 : t[k] = wasm[k + 1]
      BY <2>1 DEF t
    <2>3. wasm' = <<g, f>> \o t
      BY <1>2, <1>4, <1>5, <2>2 DEF t
    <2>4. <<g, f>> \in Seq(R) /\ Len(<<g, f>>) = 2
      BY <1>2, <1>4
    <2>5. /\ wasm' \in Seq(R) /\ Len(wasm') = 2 + (N - 1) /\ wasm'[1] = g /\ wasm'[2] = f
          /\ \A k \in 1 .. N - 1 : wasm'[k + 2] = t[k]
      BY <1>1, <2>2, <2>3, <2>4
    <2>6. wasm' # <<>>
      BY <1>1, <2>5
    <2>7. ASSUME NEW k \in 3 .. N + 1 PROVE wasm'[k] = wasm[k - 1]
      <3>1. k - 2 \in 1 .. N - 1 /\ (k - 2) + 2 = k /\ (k - 2) + 1 = k - 1
        BY <1>1
      <3> QED BY <2>2, <2>5, <3>1
    <2> QED BY <1>1, <2>5, <2>6, <2>7
  <1>7. ASSUME NEW k \in 2 .. N + 1
        PROVE  k - 1 \in 1 .. N /\ wasm'[k].inst = wasm[k - 1].inst
               /\ RestOk(wasm'[k].rest, k, N + 1)
    <2>1. CASE k = 2
      <3>1. RestOk(f.rest, 2, N + 1)
        BY <1>1, <1>2 DEF RestOk
      <3>2. k - 1 = 1 /\ 1 \in 1 .. N
        BY <1>1, <2>1
      <3>3. wasm'[2].inst = wasm[1].inst /\ wasm'[2].rest = f.rest
        BY <1>2, <1>6
      <3> QED BY <2>1, <3>1, <3>2, <3>3
    <2>2. CASE k # 2
      <3>1. k \in 3 .. N + 1 /\ k - 1 \in 2 .. N
        BY <1>1, <2>2
      <3>2. wasm'[k] = wasm[k - 1] /\ RestOk(wasm[k - 1].rest, k - 1, N)
        BY <1>6, <3>1 DEF FramesOk
      <3>3. RestOk(wasm[k - 1].rest, k, N + 1)
        <4>1. (k - 1 < N <=> k < N + 1) /\ N - (k - 1) = (N + 1) - k
          BY <1>1, <3>1
        <4> QED BY <3>2, <4>1 DEF RestOk
      <3> QED BY <1>1, <3>1, <3>2, <3>3
    <2> QED BY <2>1, <2>2
  <1>8. ASSUME NEW k \in 1 .. N + 1, wasm'[k].inst.op = "loop"
        PROVE  k < N + 1 /\ wasm'[k].inst.body \in Good((N + 1) - k)
    <2>1. CASE k = 1
      <3>1. wasm'[k].inst = Here /\ (N + 1) - k = N /\ k < N + 1
        BY <1>1, <1>4, <1>6, <2>1
      <3> QED BY <1>8, <3>1
    <2>2. CASE k # 1
      <3>1. k \in 2 .. N + 1
        BY <1>1, <2>2
      <3>2. k - 1 \in 1 .. N /\ wasm'[k].inst = wasm[k - 1].inst
        BY <1>7, <3>1
      <3>3. k - 1 < N /\ wasm[k - 1].inst.body \in Good(N - (k - 1))
        BY <1>8, <3>2 DEF FramesOk
      <3>4. k < N + 1 /\ N - (k - 1) = (N + 1) - k
        BY <1>1, <3>1, <3>3
      <3> QED BY <3>2, <3>3, <3>4
    <2> QED BY <2>1, <2>2
  <1>9. FramesOk'
    BY <1>6, <1>7, <1>8 DEF FramesOk
  <1>10. RestOk(wasm'[1].rest, 1, N + 1)
    BY <1>1, <1>4, <1>6 DEF RestOk
  <1> QED BY <1>6, <1>9, <1>10

\* The frames from the i-th on.
LEMMA LeavesBlocks ==
  ASSUME FramesOk, NEW i \in 1 .. Len(wasm), NEW w, w = From(wasm, i + 1)
  PROVE  LET M == Len(wasm) - i
         IN  /\ w \in Seq([inst : Insts \cup {Inst("func", 0)}, rest : Code]) /\ Len(w) = M
             /\ \A k \in 1 .. M : /\ w[k].inst.op = "loop" => k < M /\ w[k].inst.body \in Good(M - k)
                                  /\ RestOk(w[k].rest, k, M)
  <1> DEFINE N == Len(wasm)
             R == [inst : Insts \cup {Inst("func", 0)}, rest : Code]
             M == N - i
  <1>1. wasm \in Seq(R) /\ N \in Nat /\ M \in Nat
    BY DEF FramesOk
  <1>2. w \in Seq(R) /\ Len(w) = M /\ \A k \in 1 .. M : w[k] = wasm[k + i]
    <2> HIDE DEF R
    <2>1. w = SubSeq(wasm, i + 1, N)
      BY DEF From
    <2>2. i + 1 \in Int /\ N \in Int /\ \A j \in (i + 1) .. N : wasm[j] \in R
      BY <1>1
    <2>3. /\ SubSeq(wasm, i + 1, N) \in Seq(R)
          /\ Len(SubSeq(wasm, i + 1, N)) = IF i + 1 <= N THEN N - (i + 1) + 1 ELSE 0
          /\ \A k \in 1 .. N - (i + 1) + 1 : SubSeq(wasm, i + 1, N)[k] = wasm[i + 1 + k - 1]
      BY <2>2, SubSeqProperties
    <2>4. /\ (IF i + 1 <= N THEN N - (i + 1) + 1 ELSE 0) = M
          /\ N - (i + 1) + 1 = M
          /\ \A k \in 1 .. M : i + 1 + k - 1 = k + i
      BY <1>1
    <2> HIDE DEF M, N
    <2> QED BY <2>1, <2>3, <2>4
  <1>3. ASSUME NEW k \in 1 .. M
        PROVE  /\ w[k].inst.op = "loop" => k < M /\ w[k].inst.body \in Good(M - k)
               /\ RestOk(w[k].rest, k, M)
    <2>1. /\ k + i \in 2 .. N /\ k + i \in 1 .. N /\ N - (k + i) = M - k
          /\ (k + i < N <=> k < M)
      BY <1>1
    <2>2. w[k] = wasm[k + i]
      BY <1>2
    <2>3. /\ wasm[k + i].inst.op = "loop" =>
                 k + i < N /\ wasm[k + i].inst.body \in Good(N - (k + i))
          /\ RestOk(wasm[k + i].rest, k + i, N)
      BY <2>1 DEF FramesOk
    <2>4. RestOk(wasm[k + i].rest, k, M)
      BY <2>1, <2>3 DEF RestOk
    <2> QED BY <2>1, <2>2, <2>3, <2>4
  <1> QED BY <1>2, <1>3

LEMMA StepShadow ==
  ASSUME Grammar, Equations, ShadowInv, Run \/ Seen
  PROVE  ShadowInv'
  <1> DEFINE N == Len(wasm)
             rest == wasm[1].rest
  <1>1. FramesOk /\ N \in Nat
    BY DEF ShadowInv, FramesOk
  <1>2. ASSUME wasm # <<>>, rest # <<>>, Here.op # "return"
        PROVE  /\ frames = 1 /\ InstOk(N - 1, Here) /\ Here \in Insts /\ N >= 1
               /\ Here.op # "gc_exit_fn" => RestOk(Tail(rest), 1, N)
               /\ Here.op = "gc_exit_fn" =>
                    \/ Tail(rest) # <<>> /\ Head(Tail(rest)).op = "return"
                    \/ N = 1 /\ Tail(rest) = <<>>
               /\ Tail(rest) \in Code
    <2>1. frames = 1 /\ RestOk(rest, 1, N)
      BY <1>2 DEF ShadowInv, AtCursor, Here
    <2>2. N >= 1
      BY <1>2 DEF ShadowInv, FramesOk
    <2> QED BY <1>1, <1>2, <2>1, <2>2, AtHere
  <1>3. ASSUME wasm # <<>>, rest # <<>>, Here.op \notin {"return", "gc_exit_fn"},
               wasm' = Past, frames' = frames
        PROVE  ShadowInv'
    <2>1. frames = 1 /\ RestOk(Tail(rest), 1, N) /\ Tail(rest) \in Code
      BY <1>2, <1>3
    <2>2. FramesOk' /\ wasm' # <<>> /\ Len(wasm') = N /\ wasm'[1].rest = Tail(rest)
      BY <1>1, <1>3, <2>1, MovesOn
    <2> QED BY <1>3, <2>1, <2>2 DEF ShadowInv, AtCursor
  <1>4. ASSUME wasm # <<>>, rest # <<>>, Here.op \in {"block", "loop", "if"},
               NEW branch \in {Here.body, Here.alt}, wasm' = Enter(branch), frames' = frames
        PROVE  ShadowInv'
    <2>1. /\ frames = 1 /\ InstOk(N - 1, Here) /\ Here \in Insts /\ N >= 1
          /\ RestOk(Tail(rest), 1, N) /\ Tail(rest) \in Code
      BY <1>2, <1>4
    <2>2. Here.body \in Good(N) /\ Here.alt \in Good(N)
      <3>1. (N - 1) + 1 = N
        BY <1>1
      <3>2. Here.body \in Good((N - 1) + 1) /\ Here.alt \in Good((N - 1) + 1)
        BY <1>4, <2>1 DEF InstOk
      <3> QED BY <3>1, <3>2
    <2>3. FramesOk' /\ wasm' # <<>> /\ RestOk(wasm'[1].rest, 1, Len(wasm'))
      BY <1>1, <1>4, <2>1, <2>2, EntersBlock
    <2> QED BY <1>4, <2>1, <2>3 DEF ShadowInv, AtCursor
  <1>5. CASE Call
    BY <1>3, <1>5 DEF Call, Running
  <1>6. CASE SetFlag
    BY <1>3, <1>6 DEF SetFlag, Running
  <1>7. CASE \E r \in Cases : Select(r)
    BY <1>3, <1>7 DEF Select, Running
  <1>8. CASE IfCase
    <2>1. /\ wasm # <<>> /\ rest # <<>> /\ Here.op = "if" /\ frames' = frames
          /\ wasm' = Enter(Here.body) \/ wasm' = Enter(Here.alt)
      BY <1>8 DEF IfCase, Running
    <2> QED BY <1>4, <2>1
  <1>9. CASE \E r \in {0, 1} : IfTest(r)
    <2>1. /\ wasm # <<>> /\ rest # <<>> /\ Here.op = "if" /\ frames' = frames
          /\ wasm' = Enter(Here.body) \/ wasm' = Enter(Here.alt)
      BY <1>9 DEF IfTest, Running
    <2> QED BY <1>4, <2>1
  <1>10. CASE EnterBlock
    <2>1. /\ wasm # <<>> /\ rest # <<>> /\ Here.op \in {"block", "loop"} /\ frames' = frames
          /\ wasm' = Enter(Here.body)
      BY <1>10 DEF EnterBlock, Running
    <2> QED BY <1>4, <2>1
  <1>11. CASE Br
    <2> DEFINE i == Here.n + 1
               target == wasm[i].inst
               w == From(wasm, i + 1)
               M == N - i
               R == [inst : Insts \cup {Inst("func", 0)}, rest : Code]
    <2>1. /\ wasm # <<>> /\ rest # <<>> /\ Here.op = "br" /\ frames' = frames
          /\ wasm' = IF target.op = "loop" THEN <<Frame(target, target.body)>> \o w ELSE w
      BY <1>11 DEF Br, Running
    <2>2. frames = 1 /\ Here.n \in Nat /\ Here.n < N - 1
      BY <1>2, <2>1 DEF InstOk
    <2>3. i \in 1 .. N /\ i < N /\ M \in Nat /\ M >= 1
      BY <1>1, <2>2
    <2> HIDE DEF i
    <2>4. /\ w \in Seq(R) /\ Len(w) = M
          /\ \A k \in 1 .. M : /\ w[k].inst.op = "loop" => k < M /\ w[k].inst.body \in Good(M - k)
                               /\ RestOk(w[k].rest, k, M)
      BY <1>1, <2>3, LeavesBlocks
    <2> HIDE DEF w
    <2>5. CASE target.op # "loop"
      <3>1. wasm' = w
        BY <2>1, <2>5
      <3> HIDE DEF M
      <3>2. w # <<>>
        BY <2>3, <2>4
      <3>3. FramesOk'
        <4>1. \A k \in 2 .. M : k \in 1 .. M
          BY <2>3
        <4> QED BY <2>4, <3>1, <4>1 DEF FramesOk
      <3>4. RestOk(wasm'[1].rest, 1, Len(wasm'))
        <4>1. 1 \in 1 .. M
          BY <2>3
        <4> QED BY <2>4, <3>1, <4>1
      <3> QED BY <2>1, <2>2, <3>1, <3>2, <3>3, <3>4 DEF ShadowInv, AtCursor
    <2>6. CASE target.op = "loop"
      <3> DEFINE f == Frame(target, target.body)
      <3>1. wasm' = <<f>> \o w
        BY <2>1, <2>6
      <3>2. target.body \in Good(M)
        BY <1>1, <2>3, <2>6 DEF FramesOk
      <3>3. target \in Insts \cup {Inst("func", 0)} /\ target.body \in Code
        <4>1. wasm \in Seq(R)
          BY <1>1 DEF FramesOk
        <4>2. wasm[i] \in R
          <5> HIDE DEF R
          <5> QED BY <2>3, <4>1
        <4>3. target.body \in Code
          BY <3>2 DEF Good, Paired
        <4> QED BY <4>2, <4>3
      <3> HIDE DEF target, M
      <3>4. f \in R /\ f.inst = target /\ f.rest = target.body
        BY <3>3 DEF Frame
      <3> HIDE DEF f, R
      <3>5. /\ wasm' \in Seq(R) /\ Len(wasm') = M + 1 /\ wasm'[1] = f /\ wasm' # <<>>
            /\ \A k \in 1 .. M : wasm'[k + 1] = w[k]
        BY <2>3, <2>4, <3>1, <3>4
      <3>6. ASSUME NEW k \in 2 .. M + 1
            PROVE  /\ wasm'[k].inst.op = "loop" =>
                        k < M + 1 /\ wasm'[k].inst.body \in Good((M + 1) - k)
                   /\ RestOk(wasm'[k].rest, k, M + 1)
        <4>1. /\ k - 1 \in 1 .. M /\ (k - 1) + 1 = k /\ M - (k - 1) = (M + 1) - k
              /\ (k - 1 < M <=> k < M + 1)
          BY <2>3
        <4>2. wasm'[k] = w[k - 1]
          BY <3>5, <4>1
        <4>3. /\ w[k - 1].inst.op = "loop" => k - 1 < M /\ w[k - 1].inst.body \in Good(M - (k - 1))
              /\ RestOk(w[k - 1].rest, k - 1, M)
          BY <2>4, <4>1
        <4>4. RestOk(w[k - 1].rest, k, M + 1)
          BY <4>1, <4>3 DEF RestOk
        <4> QED BY <4>1, <4>2, <4>3, <4>4
      <3>7. 1 < M + 1 /\ wasm'[1].inst.body \in Good((M + 1) - 1)
        <4>1. 1 < M + 1 /\ (M + 1) - 1 = M
          BY <2>3
        <4> QED BY <3>2, <3>4, <3>5, <4>1
      <3>8. \A k \in 1 .. M + 1 : wasm'[k].inst.op = "loop" =>
                k < M + 1 /\ wasm'[k].inst.body \in Good((M + 1) - k)
        <4>1. \A k \in 1 .. M + 1 : k = 1 \/ k \in 2 .. M + 1
          BY <2>3
        <4> QED BY <3>6, <3>7, <4>1
      <3>9. FramesOk'
        BY <3>5, <3>6, <3>8 DEF FramesOk, R
      <3>10. RestOk(wasm'[1].rest, 1, M + 1)
        <4>1. wasm'[1].rest \in Good((M + 1) - 1)
          BY <3>4, <3>5, <3>7
        <4> QED BY <3>7, <4>1 DEF RestOk
      <3> QED BY <2>1, <2>2, <3>5, <3>9, <3>10 DEF ShadowInv, AtCursor
    <2> QED BY <2>5, <2>6
  <1>12. CASE GcExitFn
    <2>1. wasm # <<>> /\ rest # <<>> /\ Here.op = "gc_exit_fn" /\ frames' = frames - 1 /\ wasm' = Past
      BY <1>12 DEF GcExitFn, Running
    <2>2. /\ frames = 1 /\ Tail(rest) \in Code
          /\ \/ Tail(rest) # <<>> /\ Head(Tail(rest)).op = "return"
             \/ N = 1 /\ Tail(rest) = <<>>
      BY <1>2, <2>1
    <2>3. FramesOk' /\ wasm' # <<>> /\ Len(wasm') = N /\ wasm'[1].rest = Tail(rest)
      BY <1>1, <2>1, <2>2, MovesOn
    <2>4. frames' = 0
      BY <2>1, <2>2
    <2> QED BY <2>2, <2>3, <2>4 DEF ShadowInv, AtCursor
  <1>13. CASE ReturnInst
    <2>1. wasm # <<>> /\ rest # <<>> /\ Here.op = "return" /\ frames' = frames /\ wasm' = <<>>
      BY <1>13 DEF ReturnInst, Running
    <2>2. frames = 0
      <3>1. CASE RestOk(rest, 1, N)
        BY <1>1, <2>1, <3>1, AtHere
      <3> QED BY <2>1, <3>1 DEF ShadowInv, AtCursor
    <2>3. FramesOk'
      BY <2>1 DEF FramesOk
    <2> QED BY <2>1, <2>2, <2>3 DEF ShadowInv
  <1>14. CASE Leave
    <2>1. wasm # <<>> /\ rest = <<>> /\ frames' = frames /\ wasm' = Tail(wasm)
      BY <1>14 DEF Leave
    <2>2. N >= 1 /\ 1 \in 1 .. N
      BY <2>1 DEF ShadowInv, FramesOk
    <2>3. Tail(wasm) = From(wasm, 1 + 1)
      <3>1. Tail(wasm) = SubSeq(wasm, 2, N)
        BY <2>1, TailIsSubSeq DEF ShadowInv, FramesOk
      <3> QED BY <3>1 DEF From
    <2> DEFINE M == N - 1
    <2>4. /\ wasm' \in Seq([inst : Insts \cup {Inst("func", 0)}, rest : Code]) /\ Len(wasm') = M
          /\ \A k \in 1 .. M :
                /\ wasm'[k].inst.op = "loop" => k < M /\ wasm'[k].inst.body \in Good(M - k)
                /\ RestOk(wasm'[k].rest, k, M)
      BY <1>1, <2>1, <2>2, <2>3, LeavesBlocks
    <2>5. M \in Nat
      BY <1>1, <2>2
    <2> HIDE DEF M
    <2>6. FramesOk'
      <3>1. \A k \in 2 .. M : k \in 1 .. M
        BY <2>5
      <3> QED BY <2>4, <3>1 DEF FramesOk
    <2>7. CASE M = 0
      <3>1. wasm' = <<>>
        BY <2>4, <2>7
      <3>2. frames = 0
        <4>1. N = 1
          BY <1>1, <2>7 DEF M
        <4>2. ~RestOk(rest, 1, N)
          <5> SUFFICES ASSUME NEW r \in Good(0), rest = EndOfFunc(r) PROVE FALSE
            BY <4>1 DEF RestOk
          <5>1. r \in Seq(Insts)
            BY DEF Good, Paired, Grammar
          <5>2. EndOfFunc(r) # <<>>
            BY <5>1 DEF EndOfFunc
          <5> QED BY <2>1, <5>2
        <4> QED BY <2>1, <4>2 DEF ShadowInv, AtCursor
      <3> QED BY <2>1, <2>6, <3>1, <3>2 DEF ShadowInv
    <2>8. CASE M # 0
      <3>1. 1 \in 1 .. M
        BY <2>5, <2>8
      <3>2. wasm' # <<>> /\ RestOk(wasm'[1].rest, 1, Len(wasm'))
        BY <2>4, <2>8, <3>1
      <3>3. frames = 1
        <4>1. N # 1
          BY <1>1, <2>8 DEF M
        <4> QED BY <2>1, <4>1 DEF ShadowInv, AtCursor
      <3> QED BY <2>1, <2>6, <3>2, <3>3 DEF ShadowInv, AtCursor
    <2> QED BY <2>7, <2>8
  <1>15. CASE Seen
    <2>1. UNCHANGED <<wasm, frames>>
      BY <1>15 DEF Seen
    <2> QED BY <2>1 DEF ShadowInv, FramesOk, AtCursor
  <1> QED
    BY <1>5, <1>6, <1>7, <1>8, <1>9, <1>10, <1>11, <1>12, <1>13, <1>14, <1>15 DEF Run

---------------------------------------------------------------------------
(* The passes before: insert_returns and compile_stmt give NotWasm.        *)

LEMMA Blocks ==
  ASSUME NEW S, NEW kinds, "Block" \in kinds, 0 \in Data, Statements(S, kinds), NEW ss \in Seq(S)
  PROVE  Block(ss) \in S /\ Block(ss).k = "Block" /\ Block(ss).ss = ss
  <1>1. Block(ss) \in [k : kinds, x : Data, ss : Seq(S)]
    BY DEF Block, Stmt
  <1>2. Block(ss).k = "Block" /\ Block(ss).ss = ss
    BY DEF Block, Stmt
  <1>3. Arity(Block(ss))
    BY <1>2 DEF Arity
  <1> QED BY <1>1, <1>2, <1>3, Makes

LEMMA InsertsReturns ==
  ASSUME Grammar, NEW fn \in BOOLEAN, NEW b \in Bodies
  PROVE  insert_returns(fn, b, returns(b)) \in Bodies
  <1>1. b \in Janky /\ b.k = "Block" /\ b.ss \in Seq(Janky)
    BY Members DEF Bodies, Grammar
  <1>2. Return(0) \in Janky
    <2>1. Return(0) \in [k : JankyKinds, x : Data, ss : Seq(Janky)]
      BY DEF Return, Stmt, Grammar, JankyKinds, NotWasmKinds
    <2>2. Arity(Return(0))
      BY DEF Return, Stmt, Arity
    <2> QED BY <2>1, <2>2, Makes DEF Grammar
  <1>3. Append(b.ss, Return(0)) \in Seq(Janky)
    BY <1>1, <1>2
  <1>4. Block(Append(b.ss, Return(0))) \in Bodies
    BY <1>3, Blocks DEF Grammar, JankyKinds, NotWasmKinds, Bodies
  <1> QED BY <1>1, <1>4 DEF insert_returns, Bodies

\* compile_stmt, statement by statement.
LEMMA Compilation ==
  ASSUME Grammar, Equations, NEW s \in Janky
  PROVE  LET c == compile_stmt(s)
         IN  /\ s.k = "Block" =>
                  c = <<Block(FlattenSeq([i \in DOMAIN s.ss |-> compile_stmt(s.ss[i])]))>>
             /\ s.k = "Throw" => c = <<>>
             /\ s.k \in {"If", "Loop", "Label"} =>
                  c = <<[s EXCEPT !.ss = [i \in DOMAIN s.ss |-> Block(compile_stmt(s.ss[i]))]]>>
             /\ s.k \notin {"Block", "Throw", "If", "Loop", "Label"} => c = <<s>>
  <1>1. compile_stmt(s) = CompileStmt(s, compile_stmt)
    BY DEF Equations, CompileEq
  <1> QED BY <1>1 DEF CompileStmt

LEMMA CompilesTo ==
  ASSUME Grammar, Equations
  PROVE  \A s \in Janky : compile_stmt(s) \in Seq(NotWasm)
  <1> DEFINE T == {s \in Janky : compile_stmt(s) \in Seq(NotWasm)}
  <1>1. ASSUME NEW s \in Janky, \A i \in DOMAIN s.ss : s.ss[i] \in T
        PROVE  compile_stmt(s) \in Seq(NotWasm)
    <2>1. /\ s \in [k : JankyKinds, x : Data, ss : Seq(Janky)] /\ Arity(s)
          /\ DOMAIN s.ss = 1 .. Len(s.ss) /\ Len(s.ss) \in Nat
      BY Members DEF Grammar
    <2>2. \A i \in DOMAIN s.ss : compile_stmt(s.ss[i]) \in Seq(NotWasm)
      BY <1>1
    <2>3. /\ 0 \in Data /\ Statements(NotWasm, NotWasmKinds) /\ "Block" \in NotWasmKinds
      BY DEF Grammar, NotWasmKinds
    <2>4. CASE s.k = "Block"
      <3> DEFINE q == [i \in DOMAIN s.ss |-> compile_stmt(s.ss[i])]
      <3>1. q \in Seq(Seq(NotWasm))
        BY <2>1, <2>2
      <3>2. compile_stmt(s) = <<Block(FlattenSeq(q))>>
        BY <2>4, Compilation
      <3> HIDE DEF q
      <3>3. FlattenSeq(q) \in Seq(NotWasm)
        <4> DEFINE C == Seq(NotWasm)
        <4>1. C \in SUBSET Seq(NotWasm) /\ <<>> \in C /\ \A a, b \in C : a \o b \in C
          OBVIOUS
        <4>2. q \in Seq(C)
          BY <3>1
        <4> HIDE DEF C
        <4>3. FlattenSeq(q) \in C
          BY <4>1, <4>2, FlattenClosed
        <4> QED BY <4>3 DEF C
      <3>4. Block(FlattenSeq(q)) \in NotWasm
        BY <2>3, <3>3, Blocks
      <3> QED BY <3>2, <3>4
    <2>5. CASE s.k = "Throw"
      <3>1. compile_stmt(s) = <<>>
        BY <2>5, Compilation
      <3> QED BY <3>1
    <2>6. CASE s.k \in {"If", "Loop", "Label"}
      <3> DEFINE q == [i \in DOMAIN s.ss |-> Block(compile_stmt(s.ss[i]))]
                 r == [s EXCEPT !.ss = q]
      <3>1. \A i \in DOMAIN s.ss : Block(compile_stmt(s.ss[i])) \in NotWasm
        BY <2>2, <2>3, Blocks
      <3>2. q \in Seq(NotWasm) /\ Len(q) = Len(s.ss)
        BY <2>1, <3>1
      <3>3. compile_stmt(s) = <<r>>
        BY <2>6, Compilation
      <3> HIDE DEF q
      <3>4. r \in [k : NotWasmKinds, x : Data, ss : Seq(NotWasm)] /\ r.k = s.k /\ r.ss = q
        BY <2>1, <2>6, <3>2 DEF NotWasmKinds
      <3> HIDE DEF r
      <3>5. Arity(r)
        BY <2>1, <2>6, <3>2, <3>4 DEF Arity
      <3>6. r \in NotWasm
        BY <2>3, <3>4, <3>5, Makes
      <3> QED BY <3>3, <3>6
    <2>7. CASE s.k \notin {"Block", "Throw", "If", "Loop", "Label"}
      <3>1. compile_stmt(s) = <<s>>
        BY <2>7, Compilation
      <3>2. Len(s.ss) = 0
        BY <2>1, <2>7 DEF Arity
      <3>3. s.ss = <<>> /\ s.ss \in Seq(NotWasm)
        BY <2>1, <3>2
      <3>4. s \in [k : NotWasmKinds, x : Data, ss : Seq(NotWasm)]
        BY <2>1, <2>7, <3>3 DEF JankyKinds, NotWasmKinds
      <3>5. s \in NotWasm
        BY <2>1, <2>3, <3>4, Makes
      <3> QED BY <3>1, <3>5
    <2> QED BY <2>4, <2>5, <2>6, <2>7
  <1>2. \A s \in Janky : (\A i \in DOMAIN s.ss : s.ss[i] \in T) => s \in T
    BY <1>1
  <1>3. Janky \subseteq T
    <2> HIDE DEF T
    <2> QED BY <1>2, Induct DEF Grammar
  <1> QED BY <1>3

\* In every function that the compiler makes from a JankyScript body, the shadow
\* frame that gc_enter_fn pushed is popped exactly once on every way out,
\* whatever its statements (a throw, which is compiled to nothing, included)
\* and whatever its tests answer.
THEOREM FrameBalanceHolds ==
  ASSUME Grammar, Equations
  PROVE  MachineSpec(Functions) => []FrameBalance
  <1>1. ASSUME NEW c \in Functions, Load(c) PROVE ShadowInv
    <2>1. PICK fn \in BOOLEAN, b \in Bodies : c = Function(fn, b)
      BY DEF Functions
    <2> DEFINE body == compile_stmt(insert_returns(fn, b, returns(b)))
               r == translate_rec(<<>>, fn, TRUE, Block(body))
    <2>2. body \in Seq(NotWasm)
      BY InsertsReturns, CompilesTo DEF Bodies
    <2>3. Block(body) \in NotWasm
      <3> HIDE DEF body
      <3> QED BY <2>2, Blocks DEF Grammar, NotWasmKinds
    <2>4. r \in Good(0)
      <3>1. <<>> \in Labels_ /\ Len(<<>>) = 0
        BY DEF Labels_
      <3> HIDE DEF body
      <3> QED BY <2>3, <3>1, EmitsGood
    <2>5. c.body = EndOfFunc(r)
      BY <2>1 DEF Function
    <2> HIDE DEF r
    <2> QED BY <1>1, <2>4, <2>5, LoadShadow
  <1>2. ShadowInv /\ [Run \/ Seen]_machine_vars => ShadowInv'
    <2> SUFFICES ASSUME ShadowInv, [Run \/ Seen]_machine_vars PROVE ShadowInv'
      OBVIOUS
    <2>1. CASE Run \/ Seen
      BY <2>1, StepShadow
    <2>2. CASE UNCHANGED machine_vars
      BY <2>2 DEF machine_vars, ShadowInv, FramesOk, AtCursor
    <2> QED BY <2>1, <2>2
  <1>3. ShadowInv => FrameBalance
    BY DEF ShadowInv, FrameBalance
  <1>4. (\E c \in Functions : Load(c)) => ShadowInv
    BY <1>1
  <1> QED BY <1>2, <1>3, <1>4, PTL DEF MachineSpec

---------------------------------------------------------------------------
(* Valid code.  The typing of instructions, by its equations.              *)

TypingEquations ==
    /\ \A is \in Code, result \in BOOLEAN :
          WellTyped(is, result) <=> Typed(is, result, WellTyped)
    /\ \A is \in Code : Compiled(is) <=> Finished(is, Compiled)

\* Bodies that compile: no throw (which is compiled to nothing), every break
\* inside the statement it names, no statement after one that returns.
Allowed(labels, s) ==
    /\ s.k \notin {"Throw", "Panic"}
    /\ s.k = "Break" => s.x \in labels
    /\ s.k = "Block" => \A i \in 1 .. Len(s.ss) - 1 : ~returns(s.ss[i])

Scope(labels, s) == IF s.k = "Label" THEN labels \cup {s.x} ELSE labels

LegalSet(W) ==
    \A w \in W : /\ Allowed(w[1], w[2])
                 /\ \A i \in DOMAIN w[2].ss : <<Scope(w[1], w[2]), w[2].ss[i]>> \in W

Legal(labels, s) ==
    \E W \in SUBSET ((SUBSET Data) \X Janky) : <<labels, s>> \in W /\ LegalSet(W)

LegalFunctions == {Function(fn, b) : fn \in BOOLEAN, b \in {b \in Bodies : Legal({}, b)}}

LEMMA Unfold ==
  ASSUME NEW labels, NEW s, Legal(labels, s)
  PROVE  /\ Allowed(labels, s) /\ labels \in SUBSET Data /\ s \in Janky
         /\ \A i \in DOMAIN s.ss : Legal(Scope(labels, s), s.ss[i])
  <1>1. PICK W \in SUBSET ((SUBSET Data) \X Janky) : <<labels, s>> \in W /\ LegalSet(W)
    BY DEF Legal
  <1>2. Allowed(labels, s) /\ \A i \in DOMAIN s.ss : <<Scope(labels, s), s.ss[i]>> \in W
    BY <1>1 DEF LegalSet
  <1>3. <<labels, s>> \in (SUBSET Data) \X Janky
    BY <1>1
  <1>4. labels \in SUBSET Data /\ s \in Janky
    BY <1>3
  <1>5. ASSUME NEW i \in DOMAIN s.ss PROVE Legal(Scope(labels, s), s.ss[i])
    BY <1>1, <1>2 DEF Legal
  <1> QED BY <1>2, <1>4, <1>5

LEMMA Fold ==
  ASSUME NEW labels \in SUBSET Data, NEW s \in Janky, Allowed(labels, s),
         \A i \in DOMAIN s.ss : Legal(Scope(labels, s), s.ss[i])
  PROVE  Legal(labels, s)
  <1> DEFINE P == (SUBSET Data) \X Janky
             L == {w \in P : Legal(w[1], w[2])}
             W == L \cup {<<labels, s>>}
  <1>0. <<labels, s>> \in P
    OBVIOUS
  <1>1. W \in SUBSET P /\ <<labels, s>> \in W
    <2> HIDE DEF P
    <2> QED BY <1>0
  <1>2. ASSUME NEW ls, NEW r, Legal(ls, r) PROVE <<ls, r>> \in W
    <2>1. ls \in SUBSET Data /\ r \in Janky
      BY <1>2, Unfold
    <2>2. <<ls, r>> \in P
      BY <2>1
    <2>3. <<ls, r>>[1] = ls /\ <<ls, r>>[2] = r
      OBVIOUS
    <2> HIDE DEF P
    <2> QED BY <1>2, <2>2, <2>3
  <1>3. ASSUME NEW w \in W
        PROVE  Allowed(w[1], w[2]) /\ \A i \in DOMAIN w[2].ss : <<Scope(w[1], w[2]), w[2].ss[i]>> \in W
    <2>1. CASE w = <<labels, s>>
      <3>1. w[1] = labels /\ w[2] = s
        BY <2>1
      <3> HIDE DEF W, L
      <3> QED BY <1>2, <3>1
    <2>2. CASE w \in L
      <3>1. /\ Allowed(w[1], w[2])
            /\ \A i \in DOMAIN w[2].ss : Legal(Scope(w[1], w[2]), w[2].ss[i])
        BY <2>2, Unfold
      <3> HIDE DEF W, L
      <3> QED BY <1>2, <3>1
    <2> QED BY <2>1, <2>2
  <1> HIDE DEF W, L
  <1>4. LegalSet(W)
    BY <1>3 DEF LegalSet
  <1> QED BY <1>1, <1>4 DEF Legal

\* returns, statement by statement.
LEMMA Returning ==
  ASSUME Grammar, Equations, NEW s \in Janky
  PROVE  /\ s.k = "Block" => (returns(s) <=> \E i \in DOMAIN s.ss : returns(s.ss[i]))
         /\ s.k = "If" => (returns(s) <=> returns(s.ss[1]) /\ returns(s.ss[2]))
         /\ s.k \in {"Throw", "Return"} => returns(s)
         /\ s.k \notin {"Block", "If", "Throw", "Return"} => ~returns(s)
  <1>1. returns(s) = Returns(s, returns)
    BY DEF Equations, ReturnsEq
  <1>2. CASE s.k = "Block"
    <2>1. Returns(s, returns) = \E i \in DOMAIN s.ss : returns(s.ss[i])
      BY <1>2 DEF Returns
    <2> QED BY <1>1, <1>2, <2>1
  <1>3. CASE s.k = "If"
    <2>1. Returns(s, returns) = (returns(s.ss[1]) /\ returns(s.ss[2]))
      BY <1>3 DEF Returns
    <2> QED BY <1>1, <1>3, <2>1
  <1>4. CASE s.k \in {"Throw", "Return"}
    <2>1. Returns(s, returns) = TRUE
      BY <1>4 DEF Returns
    <2> QED BY <1>1, <1>4, <2>1
  <1>5. CASE s.k \notin {"Block", "If", "Throw", "Return"}
    <2>1. Returns(s, returns) = FALSE
      BY <1>5 DEF Returns
    <2> QED BY <1>1, <1>5, <2>1
  <1> QED BY <1>2, <1>3, <1>4, <1>5

\* insert_returns: the body of a function returns, and stays legal.
LEMMA BodyReturns ==
  ASSUME Grammar, Equations, NEW fn \in BOOLEAN, NEW b \in Bodies, Legal({}, b)
  PROVE  LET c == insert_returns(fn, b, returns(b))
         IN  c \in Bodies /\ Legal({}, c) /\ (fn => returns(c))
  <1> DEFINE c == Block(Append(b.ss, Return(0)))
  <1>1. CASE ~fn \/ returns(b)
    BY <1>1 DEF insert_returns
  <1>2. CASE fn /\ ~returns(b)
    <2>1. insert_returns(fn, b, returns(b)) = c
      BY <1>2 DEF insert_returns
    <2>2. c \in Bodies
      BY <2>1, InsertsReturns
    <2>3. /\ b \in Janky /\ b.k = "Block" /\ b.ss \in Seq(Janky)
          /\ DOMAIN b.ss = 1 .. Len(b.ss) /\ Len(b.ss) \in Nat
      BY Members DEF Bodies, Grammar
    <2> DEFINE n == Len(b.ss)
               r == Return(0)
    <2>4. c.k = "Block" /\ c.ss = Append(b.ss, r)
      BY DEF Block, Stmt
    <2>5. r.k = "Return" /\ r.ss = <<>>
      BY DEF Return, Stmt
    <2> HIDE DEF c, r
    <2>6. /\ DOMAIN c.ss = 1 .. n + 1 /\ Len(c.ss) = n + 1
          /\ c.ss[n + 1] = r /\ \A i \in 1 .. n : c.ss[i] = b.ss[i]
      BY <2>3, <2>4
    <2>7. r \in Janky /\ c \in Janky
      <3>1. c \in Janky
        BY <2>2 DEF Bodies
      <3>2. n + 1 \in DOMAIN c.ss
        BY <2>3, <2>6
      <3>3. c.ss[n + 1] \in Janky
        BY <3>1, <3>2, Members DEF Grammar
      <3> QED BY <2>6, <3>1, <3>3
    <2>8. returns(r)
      BY <2>5, <2>7, Returning
    <2>9. returns(c)
      <3>1. n + 1 \in DOMAIN c.ss
        BY <2>3, <2>6
      <3>2. \E i \in DOMAIN c.ss : returns(c.ss[i])
        BY <2>6, <2>8, <3>1
      <3> QED BY <2>4, <2>7, <3>2, Returning
    <2>10. \A i \in 1 .. n : ~returns(b.ss[i])
      BY <1>2, <2>3, Returning
    <2>11. Legal({}, r)
      <3>1. Allowed({}, r)
        BY <2>5 DEF Allowed
      <3> QED BY <2>5, <2>7, <3>1, Fold
    <2>12. Legal({}, c)
      <3>1. Allowed({}, c)
        <4>1. \A i \in 1 .. Len(c.ss) - 1 : i \in 1 .. n
          BY <2>3, <2>6
        <4>2. \A i \in 1 .. Len(c.ss) - 1 : ~returns(c.ss[i])
          BY <2>6, <2>10, <4>1
        <4> QED BY <2>4, <4>2 DEF Allowed
      <3>2. \A i \in 1 .. n : Legal({}, b.ss[i])
        BY <2>3, Unfold DEF Scope
      <3>3. ASSUME NEW i \in DOMAIN c.ss PROVE Legal({}, c.ss[i])
        <4>1. i \in 1 .. n \/ i = n + 1
          BY <2>3, <2>6
        <4> QED BY <2>6, <2>11, <3>2, <4>1
      <3>4. Scope({}, c) = {}
        BY <2>4 DEF Scope
      <3> QED BY <2>7, <3>1, <3>3, <3>4, Fold
    <2> QED BY <2>1, <2>2, <2>9, <2>12
  <1> QED BY <1>1, <1>2

LEMMA NotWasmIsJanky ==
  ASSUME Grammar
  PROVE  NotWasm \subseteq Janky
  <1>1. ASSUME NEW s \in NotWasm, \A i \in DOMAIN s.ss : s.ss[i] \in Janky PROVE s \in Janky
    <2>1. s \in [k : NotWasmKinds, x : Data, ss : Seq(NotWasm)] /\ Arity(s)
      BY Members DEF Grammar
    <2>2. s.ss \in Seq(Janky)
      BY <1>1, <2>1
    <2>3. s \in [k : JankyKinds, x : Data, ss : Seq(Janky)]
      BY <2>1, <2>2 DEF JankyKinds
    <2> QED BY <2>1, <2>3, Makes DEF Grammar
  <1> QED BY <1>1, Induct DEF Grammar

LEMMA FlattenOnes ==
  ASSUME NEW X, NEW d \in Seq(X), NEW q, q = [i \in DOMAIN d |-> <<d[i]>>]
  PROVE  FlattenSeq(q) = d
  <1> DEFINE n == Len(d)
  <1>1. n \in Nat /\ DOMAIN d = 1 .. n
    OBVIOUS
  <1>2. q \in Seq(Seq(X)) /\ Len(q) = n /\ \A i \in 1 .. n : q[i] = <<d[i]>>
    BY <1>1
  <1>3. PICK f \in [0 .. n -> Seq(X)] : Joins(f, q, n) /\ FlattenSeq(q) = f[n]
    BY <1>2, FlattenJoins, ZenonT(60)
  <1> HIDE DEF n
  <1> DEFINE S == {m \in Nat : m \in 0 .. n =>
                     Len(f[m]) = m /\ \A i \in 1 .. m : f[m][i] = d[i]}
  <1>4. 0 \in S
    BY <1>3 DEF Joins
  <1>5. ASSUME NEW m \in Nat, m \in S PROVE m + 1 \in S
    <2> SUFFICES ASSUME m + 1 \in 0 .. n
                 PROVE  Len(f[m + 1]) = m + 1 /\ \A i \in 1 .. m + 1 : f[m + 1][i] = d[i]
      OBVIOUS
    <2>1. m + 1 \in 1 .. n /\ m \in 0 .. n /\ (m + 1) - 1 = m
      BY <1>1
    <2>2. f[m + 1] = f[m] \o <<d[m + 1]>> /\ f[m] \in Seq(X) /\ d[m + 1] \in X
      <3>1. f[m + 1] = f[m] \o q[m + 1]
        BY <1>3, <2>1 DEF Joins
      <3> QED BY <1>1, <1>2, <2>1, <3>1
    <2>3. Len(f[m]) = m /\ \A i \in 1 .. m : f[m][i] = d[i]
      BY <1>5, <2>1
    <2> DEFINE a == f[m]
               e == d[m + 1]
    <2>4. a \in Seq(X) /\ e \in X /\ Len(a) = m
      BY <2>2, <2>3
    <2> HIDE DEF a, e
    <2>5. Len(a \o <<e>>) = m + 1 /\ (a \o <<e>>)[m + 1] = e
          /\ \A i \in 1 .. m : (a \o <<e>>)[i] = a[i]
      BY <2>4
    <2>6. \A i \in 1 .. m + 1 : i \in 1 .. m \/ i = m + 1
      OBVIOUS
    <2> QED BY <2>2, <2>3, <2>5, <2>6 DEF a, e
  <1>6. Nat \subseteq S
    <2> HIDE DEF S
    <2> QED BY <1>4, <1>5, Numbers
  <1>7. n \in 0 .. n
    BY <1>1
  <1>8. Len(f[n]) = n /\ \A i \in 1 .. n : f[n][i] = d[i]
    BY <1>1, <1>6, <1>7
  <1>9. f[n] \in Seq(X)
    BY <1>3, <1>7
  <1>10. f[n] = d
    BY <1>1, <1>8, <1>9 DEF n
  <1> QED BY <1>3, <1>10

LEMMA WrapOne ==
  ASSUME Grammar, Equations, NEW ls, NEW d \in NotWasm, Legal(ls, d)
  PROVE  LET b == Block(<<d>>)
         IN  b \in NotWasm /\ Legal(ls, b) /\ (returns(b) <=> returns(d))
  <1> DEFINE b == Block(<<d>>)
  <1>1. b \in NotWasm /\ b.k = "Block" /\ b.ss = <<d>>
    <2>1. <<d>> \in Seq(NotWasm)
      OBVIOUS
    <2> QED BY <2>1, Blocks DEF Grammar, NotWasmKinds
  <1>2. b \in Janky /\ d \in Janky /\ ls \in SUBSET Data
    BY <1>1, NotWasmIsJanky, Unfold
  <1> HIDE DEF b
  <1>3. DOMAIN b.ss = {1} /\ b.ss[1] = d /\ Len(b.ss) = 1
    BY <1>1
  <1>4. returns(b) <=> returns(d)
    BY <1>1, <1>2, <1>3, Returning
  <1>5. Allowed(ls, b) /\ Scope(ls, b) = ls
    BY <1>1, <1>3 DEF Allowed, Scope
  <1>6. Legal(ls, b)
    BY <1>2, <1>3, <1>5, Fold
  <1> QED BY <1>1, <1>4, <1>6 DEF b

\* A legal statement is compiled to one statement, legal and returning alike.
LEMMA Lowered ==
  ASSUME Grammar, Equations
  PROVE  \A s \in Janky : \A ls : Legal(ls, s) =>
            \E d \in NotWasm : /\ compile_stmt(s) = <<d>> /\ Legal(ls, d)
                               /\ (returns(d) <=> returns(s))
  <1> DEFINE To(ls, s, d) == /\ compile_stmt(s) = <<d>> /\ Legal(ls, d)
                             /\ (returns(d) <=> returns(s))
             T == {s \in Janky : \A ls \in SUBSET Data :
                                   Legal(ls, s) => \E d \in NotWasm : To(ls, s, d)}
  <1>1. ASSUME NEW s \in Janky, \A i \in DOMAIN s.ss : s.ss[i] \in T,
               NEW ls \in SUBSET Data, Legal(ls, s)
        PROVE  \E d \in NotWasm : To(ls, s, d)
    <2>1. /\ s \in [k : JankyKinds, x : Data, ss : Seq(Janky)] /\ Arity(s)
          /\ DOMAIN s.ss = 1 .. Len(s.ss) /\ Len(s.ss) \in Nat
          /\ compile_stmt(s) \in Seq(NotWasm)
      BY Members, CompilesTo DEF Grammar
    <2>2. Allowed(ls, s) /\ \A i \in DOMAIN s.ss : Legal(Scope(ls, s), s.ss[i])
      BY <1>1, Unfold
    <2> DEFINE sc == Scope(ls, s)
               ds == [i \in DOMAIN s.ss |-> compile_stmt(s.ss[i])[1]]
    <2>3. sc \in SUBSET Data
      BY <2>1 DEF Scope
    <2> HIDE DEF sc
    <2>4. ASSUME NEW i \in DOMAIN s.ss
          PROVE  /\ ds[i] \in NotWasm /\ compile_stmt(s.ss[i]) = <<ds[i]>> /\ Legal(sc, ds[i])
                 /\ (returns(ds[i]) <=> returns(s.ss[i]))
      <3>1. PICK d \in NotWasm : To(sc, s.ss[i], d)
        BY <1>1, <2>2, <2>3 DEF sc
      <3>2. ds[i] = d
        BY <3>1
      <3> QED BY <3>1, <3>2
    <2>5. ds \in Seq(NotWasm) /\ DOMAIN ds = DOMAIN s.ss /\ Len(ds) = Len(s.ss)
      <3> HIDE DEF T, To
      <3> QED BY <2>1, <2>4
    <2>6. CASE s.k = "Block"
      <3> DEFINE q == [i \in DOMAIN s.ss |-> compile_stmt(s.ss[i])]
                 d == Block(ds)
      <3>1. q = [i \in DOMAIN ds |-> <<ds[i]>>]
        BY <2>4, <2>5
      <3>2. compile_stmt(s) = <<Block(FlattenSeq(q))>>
        BY <2>6, Compilation
      <3> HIDE DEF q, ds
      <3>3. FlattenSeq(q) = ds
        BY <2>5, <3>1, FlattenOnes
      <3>4. d \in NotWasm /\ d.k = "Block" /\ d.ss = ds
        BY <2>5, Blocks DEF Grammar, NotWasmKinds
      <3>5. compile_stmt(s) = <<d>>
        BY <3>2, <3>3
      <3> HIDE DEF d
      <3>6. d \in Janky
        BY <3>4, NotWasmIsJanky
      <3>7. returns(d) <=> returns(s)
        BY <2>4, <2>5, <2>6, <3>4, <3>6, Returning
      <3>8. sc = ls /\ Scope(ls, d) = ls
        BY <2>6, <3>4 DEF sc, Scope
      <3>9. Allowed(ls, d)
        <4>1. ASSUME NEW i \in 1 .. Len(ds) - 1 PROVE ~returns(ds[i])
          <5>1. i \in 1 .. Len(s.ss) - 1 /\ i \in DOMAIN s.ss
            BY <2>1, <2>5
          <5>2. ~returns(s.ss[i])
            BY <2>2, <2>6, <5>1 DEF Allowed
          <5> QED BY <2>4, <5>1, <5>2
        <4> QED BY <3>4, <4>1 DEF Allowed
      <3>10. Legal(ls, d)
        BY <2>4, <2>5, <3>4, <3>6, <3>8, <3>9, Fold
      <3> QED BY <3>4, <3>5, <3>7, <3>10
    <2>7. CASE s.k \in {"If", "Loop", "Label"}
      <3> DEFINE q == [i \in DOMAIN s.ss |-> Block(compile_stmt(s.ss[i]))]
                 d == [s EXCEPT !.ss = q]
      <3>1. ASSUME NEW i \in DOMAIN s.ss
            PROVE  q[i] \in NotWasm /\ Legal(sc, q[i]) /\ (returns(q[i]) <=> returns(s.ss[i]))
        <4>1. q[i] = Block(<<ds[i]>>)
          BY <2>4
        <4> HIDE DEF ds, q
        <4>2. Block(<<ds[i]>>) \in NotWasm /\ Legal(sc, Block(<<ds[i]>>))
              /\ (returns(Block(<<ds[i]>>)) <=> returns(ds[i]))
          BY <2>4, WrapOne
        <4> QED BY <2>4, <4>1, <4>2
      <3>2. compile_stmt(s) = <<d>>
        BY <2>7, Compilation
      <3>3. DOMAIN q = DOMAIN s.ss
        OBVIOUS
      <3> HIDE DEF q, ds
      <3>4. d.k = s.k /\ d.ss = q /\ d.x = s.x
        BY <2>1
      <3> HIDE DEF d
      <3>5. d \in NotWasm /\ d \in Janky
        BY <2>1, <3>2, NotWasmIsJanky
      <3>6. returns(d) <=> returns(s)
        <4>1. CASE s.k = "If"
          <5>1. Len(s.ss) = 2
            BY <2>1, <4>1 DEF Arity
          <5>2. 1 \in DOMAIN s.ss /\ 2 \in DOMAIN s.ss
            BY <2>1, <5>1
          <5>3. (returns(q[1]) <=> returns(s.ss[1])) /\ (returns(q[2]) <=> returns(s.ss[2]))
            BY <3>1, <5>2
          <5> QED BY <3>4, <3>5, <4>1, <5>3, Returning
        <4>2. CASE s.k # "If"
          BY <2>7, <3>4, <3>5, <4>2, Returning
        <4> QED BY <4>1, <4>2
      <3>7. Scope(ls, d) = sc /\ Allowed(ls, d)
        BY <2>7, <3>4 DEF Scope, sc, Allowed
      <3>8. Legal(ls, d)
        BY <3>1, <3>3, <3>4, <3>5, <3>7, Fold
      <3> QED BY <3>2, <3>5, <3>6, <3>8
    <2>8. CASE s.k \notin {"Block", "Throw", "If", "Loop", "Label"}
      <3>1. compile_stmt(s) = <<s>>
        BY <2>8, Compilation
      <3>2. s \in NotWasm
        BY <2>1, <3>1
      <3> QED BY <1>1, <3>1, <3>2
    <2> QED BY <2>2, <2>6, <2>7, <2>8 DEF Allowed
  <1>2. \A s \in Janky : (\A i \in DOMAIN s.ss : s.ss[i] \in T) => s \in T
    <2> HIDE DEF To
    <2> QED BY <1>1
  <1>3. Janky \subseteq T
    <2> HIDE DEF T
    <2> QED BY <1>2, Induct DEF Grammar
  <1>4. \A s : \A ls : Legal(ls, s) => ls \in SUBSET Data
    BY Unfold
  <1> QED BY <1>3, <1>4

\* Code whose blocks are valid: code without a value, code that leaves the result.
InstFine(i) ==
    /\ i.op # "panic"
    /\ i.op \in {"block", "loop"} => WellTyped(i.body, FALSE)
    /\ i.op = "if" => WellTyped(i.body, i.result) /\ WellTyped(i.alt, i.result)
    /\ i.op \in {"block", "loop", "if"} => Compiled(i.body) /\ Compiled(i.alt)

Fine == {is \in Code : \A j \in DOMAIN is : InstFine(is[j])}
Valued(i) == i.op = "if" /\ i.result
NoValue == {is \in Fine : \A j \in DOMAIN is : ~Valued(is[j])}
OneValue == {is \in Fine : LeavesResult(is, TRUE)}

LEMMA FineTyped ==
  ASSUME Grammar, TypingEquations, NEW is \in Fine
  PROVE  /\ Compiled(is)
         /\ \A result \in BOOLEAN : LeavesResult(is, result) => WellTyped(is, result)
  <1>1. is \in Code /\ \A j \in DOMAIN is : InstFine(is[j])
    BY DEF Fine
  <1>2. Finished(is, Compiled)
    BY <1>1 DEF Finished, InstFine
  <1>3. ASSUME NEW result \in BOOLEAN, LeavesResult(is, result)
        PROVE  Typed(is, result, WellTyped)
    BY <1>1, <1>3 DEF Typed, InstFine
  <1> QED BY <1>1, <1>2, <1>3 DEF TypingEquations

LEMMA NoValueTyped ==
  ASSUME Grammar, TypingEquations, NEW is \in NoValue
  PROVE  Compiled(is) /\ WellTyped(is, FALSE)
  <1>1. is \in Fine /\ \A j \in DOMAIN is : ~Valued(is[j])
    BY DEF NoValue
  <1>2. Values(is) = {}
    BY <1>1 DEF Values, Valued
  <1>3. LeavesResult(is, FALSE)
    BY <1>2 DEF LeavesResult
  <1> QED BY <1>1, <1>3, FineTyped

LEMMA OneValueTyped ==
  ASSUME Grammar, TypingEquations, NEW is \in OneValue
  PROVE  Compiled(is) /\ WellTyped(is, TRUE)
  BY FineTyped DEF OneValue

LEMMA FineJoin ==
  ASSUME Grammar, NEW a \in Fine, NEW b \in Fine
  PROVE  /\ a \o b \in Fine /\ a \in Seq(Insts) /\ b \in Seq(Insts)
         /\ \A j \in DOMAIN (a \o b) :
               \/ j \in DOMAIN a /\ (a \o b)[j] = a[j]
               \/ j - Len(a) \in DOMAIN b /\ (a \o b)[j] = b[j - Len(a)]
  <1>1. a \in Seq(Insts) /\ b \in Seq(Insts)
    BY DEF Fine, Grammar
  <1>2. a \o b \in Code
    BY <1>1 DEF Grammar
  <1>3. ASSUME NEW j \in DOMAIN (a \o b)
        PROVE  \/ j \in DOMAIN a /\ (a \o b)[j] = a[j]
               \/ j - Len(a) \in DOMAIN b /\ (a \o b)[j] = b[j - Len(a)]
    BY <1>1
  <1> QED BY <1>1, <1>2, <1>3 DEF Fine

LEMMA NoValueJoin ==
  ASSUME Grammar, NEW a \in NoValue, NEW b \in NoValue
  PROVE  a \o b \in NoValue
  BY FineJoin, ZenonT(60) DEF NoValue

LEMMA NoValueEmpty ==
  ASSUME Grammar
  PROVE  <<>> \in NoValue
  BY DEF NoValue, Fine, Grammar

LEMMA NoValueOne ==
  ASSUME Grammar, NEW i \in Insts, InstFine(i), ~Valued(i)
  PROVE  <<i>> \in NoValue
  BY DEF NoValue, Fine, Grammar

\* Code that leaves the result, after and before code without a value.
LEMMA ValueAfter ==
  ASSUME Grammar, NEW a \in NoValue, NEW b \in OneValue
  PROVE  a \o b \in OneValue
  <1> DEFINE c == a \o b
             n == Len(a)
  <1>1. a \in Fine /\ b \in Fine /\ LeavesResult(b, TRUE) /\ \A j \in DOMAIN a : ~Valued(a[j])
    BY DEF NoValue, OneValue
  <1>2. c \in Fine /\ a \in Seq(Insts) /\ b \in Seq(Insts)
    BY <1>1, FineJoin
  <1>3. /\ n \in Nat /\ Len(b) \in Nat /\ DOMAIN a = 1 .. n /\ DOMAIN b = 1 .. Len(b)
        /\ DOMAIN c = 1 .. (n + Len(b))
        /\ \A j \in 1 .. n : c[j] = a[j]
        /\ \A j \in 1 .. Len(b) : c[n + j] = b[j]
    BY <1>2, Joined
  <1> HIDE DEF c, n
  <1>4. \A j \in Jumping(b) : n + j \in Jumping(c)
    BY <1>3 DEF Jumping
  <1>5. ASSUME NEW i \in Values(c) PROVE i - n \in Values(b)
    <2>1. i \in DOMAIN c /\ c[i].op = "if" /\ c[i].result /\ \A j \in Jumping(c) : j < i
      BY DEF Values
    <2>2. i \notin 1 .. n
      BY <1>1, <1>3, <2>1 DEF Valued
    <2>3. i - n \in 1 .. Len(b) /\ n + (i - n) = i
      BY <1>3, <2>1, <2>2
    <2>4. c[i] = b[i - n]
      BY <1>3, <2>3
    <2>5. ASSUME NEW j \in Jumping(b) PROVE j < i - n
      <3>1. n + j < i /\ j \in 1 .. Len(b)
        BY <1>3, <1>4, <2>1 DEF Jumping
      <3> QED BY <1>3, <2>3, <3>1
    <2> QED BY <1>3, <2>1, <2>3, <2>4, <2>5 DEF Values
  <1>6. ASSUME NEW i \in Values(b), Jumping(c) = {} PROVE n + i \in Values(c)
    <2>1. i \in 1 .. Len(b) /\ b[i].op = "if" /\ b[i].result
      BY <1>3 DEF Values
    <2>2. n + i \in DOMAIN c /\ c[n + i] = b[i]
      BY <1>3, <2>1
    <2> QED BY <1>6, <2>1, <2>2 DEF Values
  <1>7. \A i, j \in Values(c) : i = j
    <2> SUFFICES ASSUME NEW i \in Values(c), NEW j \in Values(c) PROVE i = j
      OBVIOUS
    <2>1. i - n = j - n
      BY <1>1, <1>5 DEF LeavesResult
    <2>2. i \in DOMAIN c /\ j \in DOMAIN c
      BY DEF Values
    <2> QED BY <1>3, <2>1, <2>2
  <1>8. Jumping(c) = {} => Values(c) # {}
    <2> SUFFICES ASSUME Jumping(c) = {} PROVE Values(c) # {}
      OBVIOUS
    <2>1. Jumping(b) = {}
      BY <1>4
    <2>2. Values(b) # {}
      BY <1>1, <2>1 DEF LeavesResult
    <2> QED BY <1>6, <2>2
  <1>9. LeavesResult(c, TRUE)
    BY <1>7, <1>8 DEF LeavesResult
  <1> QED BY <1>2, <1>9 DEF c, OneValue

LEMMA ExitAfter ==
  ASSUME Grammar, NEW b, NEW fn \in BOOLEAN, b \in IF fn THEN OneValue ELSE NoValue
  PROVE  EndOfFunc(b) \in IF fn THEN OneValue ELSE NoValue
  <1> DEFINE e == Inst("gc_exit_fn", 0)
             c == Append(b, e)
             n == Len(b)
  <1>1. e \in Insts /\ e.op = "gc_exit_fn"
    BY DEF Inst, Insts, Ops, Numbered
  <1>2. EndOfFunc(b) = c
    BY DEF EndOfFunc
  <1> HIDE DEF e
  <1>3. <<e>> \in NoValue
    <2>1. InstFine(e) /\ ~Valued(e)
      BY <1>1 DEF InstFine, Valued
    <2> QED BY <1>1, <2>1, NoValueOne
  <1>4. b \in Fine /\ <<e>> \in Fine
    BY <1>3 DEF NoValue, OneValue
  <1>5. b \in Seq(Insts) /\ c = b \o <<e>>
    <2>1. b \in Seq(Insts)
      BY <1>4, FineJoin
    <2> QED BY <1>1, <2>1
  <1>6. CASE ~fn
    BY <1>2, <1>3, <1>5, <1>6, NoValueJoin
  <1>7. CASE fn
    <2>1. c \in Fine
      BY <1>4, <1>5, FineJoin
    <2>2. LeavesResult(b, TRUE)
      BY <1>7 DEF OneValue
    <2>3. /\ n \in Nat /\ DOMAIN b = 1 .. n /\ DOMAIN c = 1 .. n + 1 /\ c[n + 1] = e
          /\ \A j \in 1 .. n : c[j] = b[j]
      BY <1>1, <1>5
    <2> HIDE DEF c, n
    <2>4. Jumping(c) = Jumping(b)
      <3>1. \A j \in 1 .. n + 1 : j \in 1 .. n \/ j = n + 1
        BY <2>3
      <3>2. \A j \in 1 .. n : j \in 1 .. n + 1
        BY <2>3
      <3> QED BY <1>1, <2>3, <3>1, <3>2 DEF Jumping
    <2>5. Values(c) = Values(b)
      <3>1. \A j \in 1 .. n + 1 : j \in 1 .. n \/ j = n + 1
        BY <2>3
      <3>2. \A j \in 1 .. n : j \in 1 .. n + 1
        BY <2>3
      <3> QED BY <1>1, <2>3, <2>4, <3>1, <3>2 DEF Values
    <2>6. LeavesResult(c, TRUE)
      BY <2>2, <2>4, <2>5 DEF LeavesResult
    <2> QED BY <1>2, <1>7, <2>1, <2>6 DEF OneValue
  <1> QED BY <1>6, <1>7

\* Joining pieces, the last of them set apart.
LEMMA FlattenLast ==
  ASSUME NEW X, NEW C \in SUBSET Seq(X), <<>> \in C, \A a, b \in C : a \o b \in C,
         NEW q \in Seq(Seq(X)), NEW n \in Nat, Len(q) = n + 1, \A i \in 1 .. n : q[i] \in C
  PROVE  \E a \in C : FlattenSeq(q) = a \o q[n + 1]
  <1>1. PICK f \in [0 .. n + 1 -> Seq(X)] : Joins(f, q, n + 1) /\ FlattenSeq(q) = f[n + 1]
    BY FlattenJoins
  <1> DEFINE S == {m \in Nat : m \in 0 .. n => f[m] \in C}
  <1>2. 0 \in S
    BY <1>1 DEF Joins
  <1>3. ASSUME NEW m \in Nat, m \in S PROVE m + 1 \in S
    <2> SUFFICES ASSUME m + 1 \in 0 .. n PROVE f[m + 1] \in C
      OBVIOUS
    <2>1. m + 1 \in 1 .. n /\ m + 1 \in 1 .. n + 1 /\ (m + 1) - 1 = m /\ m \in 0 .. n
      OBVIOUS
    <2>2. f[m + 1] = f[m] \o q[m + 1]
      BY <1>1, <2>1 DEF Joins
    <2>3. f[m] \in C /\ q[m + 1] \in C
      BY <1>3, <2>1
    <2> QED BY <2>2, <2>3
  <1>4. Nat \subseteq S
    <2> HIDE DEF S
    <2> QED BY <1>2, <1>3, Numbers
  <1>5. n \in 0 .. n /\ n + 1 \in 1 .. n + 1 /\ (n + 1) - 1 = n
    OBVIOUS
  <1>6. f[n] \in C
    BY <1>4, <1>5
  <1>7. f[n + 1] = f[n] \o q[n + 1]
    BY <1>1, <1>5 DEF Joins
  <1> QED BY <1>1, <1>6, <1>7

\* The labels in scope are on the stack.
Covers(labels, ls) == \A l \in ls : \E j \in DOMAIN labels : labels[j] = l

Result(fn, tail) == IF fn /\ tail THEN OneValue ELSE NoValue

LEMMA CoversInside ==
  ASSUME NEW labels \in Labels_, NEW l \in Data \cup {Unused}, NEW ls, Covers(labels, ls)
  PROVE  Covers(<<l>> \o labels, ls) /\ Covers(<<l>> \o labels, ls \cup {l})
  <1> DEFINE m == <<l>> \o labels
  <1>1. m[1] = l /\ 1 \in DOMAIN m /\ \A j \in DOMAIN labels : j + 1 \in DOMAIN m /\ m[j + 1] = labels[j]
    BY DEF Labels_
  <1> HIDE DEF m
  <1>2. Covers(m, ls) /\ Covers(m, ls \cup {l})
    BY <1>1 DEF Covers
  <1> QED BY <1>2 DEF m

LEMMA ResultTyped ==
  ASSUME Grammar, TypingEquations, NEW fn \in BOOLEAN, NEW tail \in BOOLEAN, NEW is \in Result(fn, tail)
  PROVE  Compiled(is) /\ WellTyped(is, tail /\ fn)
  <1>1. CASE fn /\ tail
    <2>1. is \in OneValue /\ (tail /\ fn) = TRUE
      BY <1>1 DEF Result
    <2> QED BY <2>1, OneValueTyped
  <1>2. CASE ~(fn /\ tail)
    <2>1. is \in NoValue /\ (tail /\ fn) = FALSE
      BY <1>2 DEF Result
    <2> QED BY <2>1, NoValueTyped
  <1> QED BY <1>1, <1>2

\* The code of a legal statement is valid; in the tail of a function with a
\* result it leaves the result, if returns is right about the statement.
LEMMA EmitsTyped ==
  ASSUME Grammar, Equations, TypingEquations
  PROVE  \A s \in NotWasm : \A labels \in Labels_, fn, tail \in BOOLEAN, ls \in SUBSET Data :
            Legal(ls, s) /\ Covers(labels, ls) /\ (fn /\ tail => returns(s)) =>
                translate_rec(labels, fn, tail, s) \in Result(fn, tail)
  <1> DEFINE Ok(s, labels, fn, tail, ls) ==
                Legal(ls, s) /\ Covers(labels, ls) /\ (fn /\ tail => returns(s)) =>
                    translate_rec(labels, fn, tail, s) \in Result(fn, tail)
             T == {s \in NotWasm : \A labels \in Labels_, fn, tail \in BOOLEAN, ls \in SUBSET Data :
                                      Ok(s, labels, fn, tail, ls)}
  <1>1. ASSUME NEW s \in NotWasm, \A i \in DOMAIN s.ss : s.ss[i] \in T,
               NEW labels \in Labels_, NEW fn \in BOOLEAN, NEW tail \in BOOLEAN,
               NEW ls \in SUBSET Data, Legal(ls, s), Covers(labels, ls), fn /\ tail => returns(s)
        PROVE  translate_rec(labels, fn, tail, s) \in Result(fn, tail)
    <2> DEFINE is == translate_rec(labels, fn, tail, s)
    <2>1. /\ s \in [k : NotWasmKinds, x : Data, ss : Seq(NotWasm)] /\ Arity(s)
          /\ DOMAIN s.ss = 1 .. Len(s.ss) /\ Len(s.ss) \in Nat /\ s \in Janky
      BY Members, NotWasmIsJanky DEF Grammar
    <2>2. Allowed(ls, s) /\ \A i \in DOMAIN s.ss : Legal(Scope(ls, s), s.ss[i])
      BY <1>1, Unfold
    <2>3. Scope(ls, s) \in SUBSET Data
      BY <2>1 DEF Scope
    <2>4. ASSUME NEW i \in DOMAIN s.ss, NEW l \in Labels_, NEW t \in BOOLEAN,
                 Covers(l, Scope(ls, s)), fn /\ t => returns(s.ss[i])
          PROVE  translate_rec(l, fn, t, s.ss[i]) \in Result(fn, t)
      <3>1. Ok(s.ss[i], l, fn, t, Scope(ls, s))
        <4> HIDE DEF Ok
        <4> QED BY <1>1, <2>3
      <3> QED BY <2>2, <2>4, <3>1
    <2>5. is \in Code /\ is \in Seq(Insts)
      BY EmitsPairs DEF Paired, Grammar
    <2>6. ASSUME ~(fn /\ tail), is \in NoValue PROVE is \in Result(fn, tail)
      BY <2>6 DEF Result
    <2> HIDE DEF T
    <2>7. CASE s.k = "Block"
      <3> DEFINE N == Len(s.ss)
                 q == [i \in DOMAIN s.ss |-> translate_rec(labels, fn, tail /\ i = N, s.ss[i])]
      <3>1. is = FlattenSeq(q)
        BY <2>7, Translation
      <3>2. Scope(ls, s) = ls
        BY <2>7 DEF Scope
      <3>3. ASSUME NEW i \in DOMAIN s.ss, ~(fn /\ (tail /\ i = N)) PROVE q[i] \in NoValue
        <4>1. (tail /\ i = N) \in BOOLEAN
          OBVIOUS
        <4>2. translate_rec(labels, fn, tail /\ i = N, s.ss[i]) \in Result(fn, tail /\ i = N)
          BY <1>1, <2>4, <3>2, <3>3, <4>1
        <4> QED BY <3>3, <4>2 DEF Result
      <3>4. DOMAIN q = 1 .. N /\ N \in Nat
        BY <2>1
      <3>5. NoValue \in SUBSET Seq(Insts) /\ <<>> \in NoValue /\ \A a, b \in NoValue : a \o b \in NoValue
        BY NoValueEmpty, NoValueJoin DEF NoValue, Fine, Grammar
      <3>6. CASE ~(fn /\ tail)
        <4>1. \A i \in 1 .. N : q[i] \in NoValue
          BY <2>1, <3>3, <3>6
        <4>2. q = [i \in 1 .. N |-> q[i]]
          BY <2>1
        <4> HIDE DEF q, is, N
        <4>3. q \in Seq(NoValue)
          BY <3>4, <4>1, <4>2
        <4>4. FlattenSeq(q) \in NoValue
          BY <3>5, <4>3, FlattenClosed
        <4> QED BY <2>6, <3>1, <3>6, <4>4 DEF is
      <3>7. CASE fn /\ tail
        <4>1. PICK i \in DOMAIN s.ss : returns(s.ss[i])
          BY <1>1, <2>1, <2>7, <3>7, Returning
        <4>2. i = N
          <5>1. i \notin 1 .. N - 1
            BY <2>2, <2>7, <4>1 DEF Allowed
          <5> QED BY <2>1, <5>1
        <4> DEFINE n == N - 1
        <4>3. n \in Nat /\ N = n + 1 /\ N \in DOMAIN s.ss
          BY <2>1, <4>2
        <4>4. q[N] \in OneValue
          <5>1. (tail /\ N = N) = TRUE /\ fn = TRUE
            BY <3>7
          <5>2. translate_rec(labels, fn, TRUE, s.ss[N]) \in Result(fn, TRUE)
            BY <1>1, <2>4, <3>2, <4>1, <4>2
          <5>3. q[N] = translate_rec(labels, fn, TRUE, s.ss[N])
            BY <4>3, <5>1
          <5> HIDE DEF q, N
          <5> QED BY <5>1, <5>2, <5>3 DEF Result
        <4>5. ASSUME NEW j \in 1 .. n PROVE q[j] \in NoValue
          <5>1. j \in DOMAIN s.ss /\ j # N
            BY <2>1, <4>3
          <5> QED BY <3>3, <5>1
        <4>6. q \in Seq(Seq(Insts)) /\ Len(q) = n + 1
          <5>1. NoValue \subseteq Seq(Insts) /\ OneValue \subseteq Seq(Insts)
            BY DEF NoValue, OneValue, Fine, Grammar
          <5>2. q = [j \in 1 .. N |-> q[j]]
            BY <2>1
          <5>3. \A j \in 1 .. N : j = N \/ j \in 1 .. n
            BY <4>3
          <5> HIDE DEF q, N, n
          <5>4. \A j \in 1 .. N : q[j] \in Seq(Insts)
            BY <4>4, <4>5, <5>1, <5>3
          <5> QED BY <3>4, <4>3, <5>2, <5>4
        <4> HIDE DEF q, N, n, is
        <4>7. PICK a \in NoValue : FlattenSeq(q) = a \o q[n + 1]
          BY <3>5, <4>3, <4>5, <4>6, FlattenLast
        <4>8. FlattenSeq(q) \in OneValue
          BY <4>3, <4>4, <4>7, ValueAfter
        <4> QED BY <3>1, <3>7, <4>8 DEF is, Result
      <3> QED BY <3>6, <3>7
    <2>8. CASE s.k = "If"
      <3> DEFINE l == <<Unused>> \o labels
                 a == translate_rec(l, fn, tail, s.ss[1])
                 b == translate_rec(l, fn, tail, s.ss[2])
                 i == Nested("if", s.x, tail /\ fn, a, b)
      <3>1. is = <<i>>
        BY <2>8, Translation
      <3>2. 1 \in DOMAIN s.ss /\ 2 \in DOMAIN s.ss
        <4>1. Len(s.ss) = 2
          BY <2>1, <2>8 DEF Arity
        <4> QED BY <2>1, <4>1
      <3>3. l \in Labels_ /\ Covers(l, Scope(ls, s))
        <4>1. Scope(ls, s) = ls
          BY <2>8 DEF Scope
        <4>2. l \in Labels_ /\ Covers(l, ls)
          BY <1>1, Inside, CoversInside
        <4> QED BY <4>1, <4>2
      <3>4. fn /\ tail => returns(s.ss[1]) /\ returns(s.ss[2])
        BY <1>1, <2>1, <2>8, Returning
      <3>5. a \in Result(fn, tail) /\ b \in Result(fn, tail)
        BY <2>4, <3>2, <3>3, <3>4
      <3> HIDE DEF a, b, l
      <3>6. Compiled(a) /\ Compiled(b) /\ WellTyped(a, tail /\ fn) /\ WellTyped(b, tail /\ fn)
        BY <3>5, ResultTyped
      <3>7. i.op = "if" /\ i.result = (tail /\ fn) /\ i.body = a /\ i.alt = b
        BY DEF Nested
      <3> HIDE DEF i, is
      <3>8. InstFine(i) /\ i \in Insts
        <4>1. i \in Insts
          BY <2>5, <3>1
        <4> QED BY <3>6, <3>7, <4>1 DEF InstFine
      <3>9. CASE ~(fn /\ tail)
        <4>1. ~Valued(i)
          BY <3>7, <3>9 DEF Valued
        <4>2. <<i>> \in NoValue
          BY <3>8, <4>1, NoValueOne
        <4> QED BY <2>6, <3>1, <3>9, <4>2 DEF is
      <3>10. CASE fn /\ tail
        <4>1. DOMAIN is = {1} /\ is[1] = i
          BY <3>1
        <4>2. is \in Fine
          BY <2>5, <3>8, <4>1 DEF Fine
        <4>3. Jumping(is) = {}
          BY <3>7, <4>1 DEF Jumping
        <4>4. Values(is) = {1}
          BY <3>7, <3>10, <4>1, <4>3 DEF Values
        <4>5. LeavesResult(is, TRUE)
          BY <4>4 DEF LeavesResult
        <4> QED BY <3>10, <4>2, <4>5 DEF is, Result, OneValue
      <3> QED BY <3>9, <3>10
    <2>9. CASE s.k = "Loop"
      <3> DEFINE l == <<Unused>> \o labels
                 a == translate_rec(l, fn, FALSE, s.ss[1])
                 b == Append(a, Inst("br", 0))
                 i == Nested("loop", 0, FALSE, b, <<>>)
      <3>1. is = <<i>>
        BY <2>9, Translation
      <3>2. ~(fn /\ tail)
        BY <1>1, <2>1, <2>9, Returning
      <3>3. a \in NoValue
        <4>1. Len(s.ss) = 1
          BY <2>1, <2>9 DEF Arity
        <4>2. 1 \in DOMAIN s.ss
          BY <2>1, <4>1
        <4>3. Scope(ls, s) = ls
          BY <2>9 DEF Scope
        <4>4. l \in Labels_ /\ Covers(l, ls)
          BY <1>1, Inside, CoversInside
        <4>5. a \in Result(fn, FALSE)
          BY <2>4, <4>2, <4>3, <4>4
        <4> QED BY <4>5 DEF Result
      <3> HIDE DEF a
      <3>4. b \in NoValue
        <4> DEFINE e == Inst("br", 0)
        <4>1. e \in Insts /\ e.op = "br"
          BY DEF Inst, Insts, Ops, Numbered
        <4> HIDE DEF e
        <4>2. <<e>> \in NoValue
          BY <4>1, NoValueOne DEF InstFine, Valued
        <4>3. a \in Seq(Insts)
          BY <3>3 DEF NoValue, Fine, Grammar
        <4>4. b = a \o <<e>>
          BY <4>1, <4>3 DEF e
        <4> HIDE DEF b
        <4> QED BY <3>3, <4>2, <4>4, NoValueJoin
      <3> HIDE DEF b
      <3>5. Compiled(b) /\ WellTyped(b, FALSE) /\ Compiled(<<>>)
        BY <3>4, NoValueEmpty, NoValueTyped
      <3>6. i.op = "loop" /\ i.body = b /\ i.alt = <<>>
        BY DEF Nested
      <3> HIDE DEF i, is
      <3>7. i \in Insts
        BY <2>5, <3>1
      <3>8. InstFine(i) /\ ~Valued(i)
        BY <3>5, <3>6 DEF InstFine, Valued
      <3> QED BY <2>6, <3>1, <3>2, <3>7, <3>8, NoValueOne DEF is
    <2>10. CASE s.k = "Label"
      <3> DEFINE l == <<s.x>> \o labels
                 a == translate_rec(l, fn, tail, s.ss[1])
                 i == Nested("block", 0, FALSE, a, <<>>)
      <3>1. is = <<i>>
        BY <2>10, Translation
      <3>2. ~(fn /\ tail)
        BY <1>1, <2>1, <2>10, Returning
      <3>3. a \in NoValue
        <4>1. Len(s.ss) = 1
          BY <2>1, <2>10 DEF Arity
        <4>2. 1 \in DOMAIN s.ss /\ s.x \in Data
          BY <2>1, <4>1
        <4>3. Scope(ls, s) = ls \cup {s.x}
          BY <2>10 DEF Scope
        <4>4. l \in Labels_ /\ Covers(l, ls \cup {s.x})
          BY <1>1, <4>2, Inside, CoversInside
        <4>5. a \in Result(fn, tail)
          BY <2>4, <3>2, <4>2, <4>3, <4>4
        <4> QED BY <3>2, <4>5 DEF Result
      <3> HIDE DEF a
      <3>4. Compiled(a) /\ WellTyped(a, FALSE) /\ Compiled(<<>>)
        BY <3>3, NoValueEmpty, NoValueTyped
      <3>5. i.op = "block" /\ i.body = a /\ i.alt = <<>>
        BY DEF Nested
      <3> HIDE DEF i, is
      <3>6. i \in Insts
        BY <2>5, <3>1
      <3>7. InstFine(i) /\ ~Valued(i)
        BY <3>4, <3>5 DEF InstFine, Valued
      <3> QED BY <2>6, <3>1, <3>2, <3>6, <3>7, NoValueOne DEF is
    <2>11. CASE s.k = "Break"
      <3>1. is = BreakIndex(labels, s.x)
        BY <2>11, Translation
      <3>2. ~(fn /\ tail)
        BY <1>1, <2>1, <2>11, Returning
      <3> HIDE DEF is
      <3>3. \E j \in DOMAIN labels : labels[j] = s.x
        BY <1>1, <2>2, <2>11 DEF Allowed, Covers
      <3>4. PICK i \in Insts : /\ BreakIndex(labels, s.x) = <<i>>
                               /\ \E n \in Nat : i = Inst("br", n)
        BY <3>3, BreakIs
      <3>5. i.op = "br"
        BY <3>4 DEF Inst
      <3>6. InstFine(i) /\ ~Valued(i)
        BY <3>5 DEF InstFine, Valued
      <3> QED BY <2>6, <3>1, <3>2, <3>4, <3>6, NoValueOne DEF is
    <2>12. CASE s.k = "Return"
      <3>1. is = <<Inst("gc_exit_fn", 0), Inst("return", s.x)>>
        BY <2>12, Translation
      <3> HIDE DEF is
      <3>2. DOMAIN is = 1 .. 2 /\ is[1].op = "gc_exit_fn" /\ is[2].op = "return"
        BY <3>1 DEF Inst
      <3>3. \A j \in DOMAIN is : is[j].op \in {"gc_exit_fn", "return"}
        BY <3>2
      <3>4. is \in Fine
        BY <2>5, <3>3 DEF Fine, InstFine
      <3>5. Values(is) = {} /\ \A j \in DOMAIN is : ~Valued(is[j])
        BY <3>3 DEF Values, Valued
      <3>6. 2 \in Jumping(is)
        BY <3>2 DEF Jumping
      <3>7. LeavesResult(is, TRUE)
        BY <3>5, <3>6 DEF LeavesResult
      <3> QED BY <3>4, <3>5, <3>7 DEF is, Result, NoValue, OneValue
    <2>13. CASE s.k = "Empty"
      <3>1. is = <<>>
        BY <2>13, Translation
      <3>2. ~(fn /\ tail)
        BY <1>1, <2>1, <2>13, Returning
      <3> HIDE DEF is
      <3> QED BY <2>6, <3>1, <3>2, NoValueEmpty DEF is
    <2>14. CASE s.k \in {"Expr", "SetTest", "SetFallthrough"}
      <3>1. PICK op \in {"call", "SetTest", "SetFallthrough"} : is = <<Inst(op, s.x)>>
        <4>1. \/ is = <<Inst("call", s.x)>>
              \/ s.k \in {"SetTest", "SetFallthrough"} /\ is = <<Inst(s.k, s.x)>>
          BY <2>14, Translation, ZenonT(60)
        <4> HIDE DEF is
        <4> QED BY <4>1
      <3>2. ~(fn /\ tail)
        BY <1>1, <2>1, <2>14, Returning
      <3> HIDE DEF is
      <3>3. InstFine(Inst(op, s.x)) /\ ~Valued(Inst(op, s.x))
        BY DEF Inst, InstFine, Valued
      <3>4. Inst(op, s.x) \in Insts
        BY <2>5, <3>1
      <3> QED BY <2>6, <3>1, <3>2, <3>3, <3>4, NoValueOne DEF is
    <2> QED
      BY <2>1, <2>2, <2>7, <2>8, <2>9, <2>10, <2>11, <2>12, <2>13, <2>14
      DEF NotWasmKinds, Allowed
  <1>2. \A s \in NotWasm : (\A i \in DOMAIN s.ss : s.ss[i] \in T) => s \in T
    <2> SUFFICES ASSUME NEW s \in NotWasm, \A i \in DOMAIN s.ss : s.ss[i] \in T,
                        NEW labels \in Labels_, NEW fn \in BOOLEAN, NEW tail \in BOOLEAN,
                        NEW ls \in SUBSET Data
                 PROVE  Ok(s, labels, fn, tail, ls)
      OBVIOUS
    <2> HIDE DEF T
    <2> QED BY <1>1
  <1>3. NotWasm \subseteq T
    <2> HIDE DEF T
    <2> QED BY <1>2, Induct DEF Grammar
  <1> QED BY <1>3

\* Every legal JankyScript body is compiled without a panic and to valid
\* WebAssembly: the code of a function with a result leaves it on every way to
\* the end, because returns() and the tail position of translate_rec agree.
\* This holds for the code, and stays true while it runs.
THEOREM ValidatesHolds ==
  ASSUME Grammar, Equations, TypingEquations
  PROVE  MachineSpec(LegalFunctions) => []Validates
  <1>1. ASSUME NEW c \in LegalFunctions, Load(c) PROVE Validates
    <2>1. PICK fn \in BOOLEAN, b \in {b \in Bodies : Legal({}, b)} : c = Function(fn, b)
      BY DEF LegalFunctions
    <2> DEFINE j == insert_returns(fn, b, returns(b))
    <2>2. j \in Janky /\ Legal({}, j) /\ (fn => returns(j))
      BY BodyReturns DEF Bodies
    <2> HIDE DEF j
    <2>3. PICK d \in NotWasm : /\ compile_stmt(j) = <<d>> /\ Legal({}, d)
                               /\ (returns(d) <=> returns(j))
      BY <2>2, Lowered
    <2> DEFINE s == Block(<<d>>)
               r == translate_rec(<<>>, fn, TRUE, s)
    <2>4. s \in NotWasm /\ Legal({}, s) /\ (returns(s) <=> returns(d))
      BY <2>3, WrapOne
    <2> HIDE DEF s
    <2>5. r \in Result(fn, TRUE)
      <3>1. <<>> \in Labels_ /\ Covers(<<>>, {}) /\ {} \in SUBSET Data
        BY DEF Labels_, Covers
      <3>2. fn /\ TRUE => returns(s)
        BY <2>2, <2>3, <2>4
      <3> QED BY <2>4, <3>1, <3>2, EmitsTyped
    <2> HIDE DEF r
    <2>6. EndOfFunc(r) \in IF fn THEN OneValue ELSE NoValue
      BY <2>5, ExitAfter DEF Result
    <2>7. Compiled(EndOfFunc(r)) /\ WellTyped(EndOfFunc(r), fn)
      <3>1. CASE fn
        <4>1. fn = TRUE /\ EndOfFunc(r) \in OneValue
          BY <2>6, <3>1
        <4> QED BY <4>1, OneValueTyped
      <3>2. CASE ~fn
        <4>1. fn = FALSE /\ EndOfFunc(r) \in NoValue
          BY <2>6, <3>2
        <4> QED BY <4>1, NoValueTyped
      <3> QED BY <3>1, <3>2
    <2>8. code.fn = fn /\ code.body = EndOfFunc(r)
      BY <1>1, <2>1, <2>3 DEF Load, Function, j, s, r
    <2> QED BY <2>7, <2>8 DEF Validates
  <1>2. Validates /\ [Run \/ Seen]_machine_vars => Validates'
    <2> SUFFICES ASSUME Validates, [Run \/ Seen]_machine_vars PROVE Validates'
      OBVIOUS
    <2>1. code' = code
      BY DEF Run, Seen, machine_vars, Call, IfCase, SetFlag, EnterBlock, Br, GcExitFn,
             ReturnInst, Leave, IfTest, Select
    <2> QED BY <2>1 DEF Validates
  <1>3. (\E c \in LegalFunctions : Load(c)) => Validates
    BY <1>1
  <1> QED BY <1>2, <1>3, PTL DEF MachineSpec

---------------------------------------------------------------------------
(* The data segment.                                                       *)

Contents == {<<"string", str>> : str \in STRING} \cup {InlineCache}
Places == [what : Contents, at : Nat, size : Nat]

\* Places one after the other, aligned, and only caches more than once.
Apart(d) ==
    /\ d \in Seq(Places)
    /\ \A i \in 1 .. Len(d) : d[i].at % 4 = 0 /\ d[i].size % 4 = 0
    /\ \A i \in 1 .. Len(d) : \A j \in 1 .. (i - 1) :
          /\ d[j].at + d[j].size <= d[i].at
          /\ d[j].what = d[i].what => d[i].what[1] = "cache"

SegmentApart == Apart(data)

LEMMA Aligned4 ==
  ASSUME NEW a \in Nat, NEW b \in Nat, a % 4 = 0, b % 4 = 0
  PROVE  (a + b) % 4 = 0
  OBVIOUS

\* The padding of a string makes its size a multiple of four, and never less
\* than what it holds.
LEMMA PaddedString ==
  ASSUME NEW len \in Nat
  PROVE  /\ InMemory(len) \in Nat /\ InMemory(len) % 4 = 0
         /\ len + 8 <= InMemory(len) /\ InMemory(len) < len + 12
  BY DEF InMemory

\* The next place is behind all others.
LEMMA LengthBehind ==
  ASSUME NEW d, Apart(d)
  PROVE  /\ Length_(d) \in Nat /\ Length_(d) % 4 = 0
         /\ \A j \in 1 .. Len(d) : d[j].at + d[j].size <= Length_(d)
  <1>1. CASE d = <<>>
    BY <1>1 DEF Length_
  <1>2. CASE d # <<>>
    <2> DEFINE n == Len(d)
    <2>1. n \in Nat \ {0} /\ n \in 1 .. Len(d)
      BY <1>2 DEF Apart
    <2>2. \A i \in 1 .. Len(d) : d[i] \in Places
      BY DEF Apart
    <2>3. d[n].at \in Nat /\ d[n].size \in Nat
      BY <2>1, <2>2 DEF Places
    <2>4. Length_(d) = d[n].at + d[n].size
      BY <1>2 DEF Length_, Last
    <2>5. (d[n].at + d[n].size) % 4 = 0
      BY <2>1, <2>3, Aligned4 DEF Apart
    <2>6. ASSUME NEW j \in 1 .. Len(d) PROVE d[j].at + d[j].size <= Length_(d)
      <3>1. CASE j = n
        BY <2>3, <2>4, <3>1
      <3>2. CASE j # n
        <4>1. j \in 1 .. (n - 1)
          BY <2>1, <3>2
        <4>2. d[j].at + d[j].size <= d[n].at
          BY <2>1, <4>1 DEF Apart
        <4>3. d[j].at \in Nat /\ d[j].size \in Nat
          BY <2>2 DEF Places
        <4> QED BY <2>3, <2>4, <4>2, <4>3
      <3> QED BY <3>1, <3>2
    <2> QED BY <2>3, <2>4, <2>5, <2>6
  <1> QED BY <1>1, <1>2

LEMMA PlaceApart ==
  ASSUME NEW d, Apart(d), NEW what \in Contents,
         NEW size \in Nat, size % 4 = 0,
         \/ what[1] = "cache"
         \/ \A i \in 1 .. Len(d) : d[i].what # what
  PROVE  Apart(Place(d, what, size))
  <1> DEFINE p == [what |-> what, at |-> Length_(d), size |-> size]
             e == Append(d, p)
  <1>1. Place(d, what, size) = e
    BY DEF Place
  <1>2. p \in Places
    BY LengthBehind DEF Places
  <1>3. p.what = what /\ p.at = Length_(d) /\ p.size = size
    OBVIOUS
  <1>4. d \in Seq(Places) /\ Len(d) \in Nat
    BY DEF Apart
  <1> HIDE DEF p
  <1>5. /\ e \in Seq(Places) /\ Len(e) = Len(d) + 1
        /\ \A i \in 1 .. Len(d) : e[i] = d[i]
        /\ e[Len(d) + 1] = p
    BY <1>2, <1>4, AppendProperties
  <1> HIDE DEF e
  <1>6. ASSUME NEW i \in 1 .. Len(e)
        PROVE  /\ e[i].at % 4 = 0 /\ e[i].size % 4 = 0
               /\ \A j \in 1 .. (i - 1) : /\ e[j].at + e[j].size <= e[i].at
                                          /\ e[j].what = e[i].what => e[i].what[1] = "cache"
    <2>1. CASE i = Len(d) + 1
      <3>1. e[i] = p
        BY <1>5, <2>1
      <3>2. e[i].at % 4 = 0 /\ e[i].size % 4 = 0
        BY <1>3, <3>1, LengthBehind
      <3>3. ASSUME NEW j \in 1 .. (i - 1)
            PROVE  /\ e[j].at + e[j].size <= e[i].at
                   /\ e[j].what = e[i].what => e[i].what[1] = "cache"
        <4>1. j \in 1 .. Len(d) /\ e[j] = d[j]
          BY <1>4, <1>5, <2>1
        <4>2. d[j].at + d[j].size <= Length_(d)
          BY <4>1, LengthBehind
        <4> QED BY <1>3, <3>1, <4>1, <4>2
      <3> QED BY <3>2, <3>3
    <2>2. CASE i # Len(d) + 1
      <3>1. i \in 1 .. Len(d) /\ e[i] = d[i]
        BY <1>4, <1>5, <2>2
      <3>2. ASSUME NEW j \in 1 .. (i - 1) PROVE e[j] = d[j]
        BY <1>4, <1>5, <3>1
      <3> QED BY <3>1, <3>2 DEF Apart
    <2> QED BY <2>1, <2>2
  <1>7. Apart(e)
    BY <1>5, <1>6 DEF Apart
  <1> QED BY <1>1, <1>7

\* The length of a string, which is a sequence of characters.
Lengths == \A str \in STRING : Len(str) \in Nat

LEMMA InternApart ==
  ASSUME Lengths, NEW d, Apart(d), NEW str \in STRING
  PROVE  Apart(InternString(d, str))
  <1>1. DOMAIN d = 1 .. Len(d)
    BY DEF Apart
  <1>2. CASE \E i \in DOMAIN d : d[i].what = <<"string", str>>
    BY <1>2 DEF InternString
  <1>3. CASE ~ \E i \in DOMAIN d : d[i].what = <<"string", str>>
    <2>1. InMemory(Len(str)) \in Nat /\ InMemory(Len(str)) % 4 = 0
      BY PaddedString DEF Lengths
    <2>2. <<"string", str>> \in Contents
      BY DEF Contents
    <2>3. \A i \in 1 .. Len(d) : d[i].what # <<"string", str>>
      BY <1>1, <1>3
    <2>4. Apart(Place(d, <<"string", str>>, InMemory(Len(str))))
      BY <2>1, <2>2, <2>3, PlaceApart
    <2> QED BY <1>3, <2>4 DEF InternString
  <1> QED BY <1>2, <1>3

LEMMA CacheApart ==
  ASSUME NEW d, Apart(d)
  PROVE  Apart(Place(d, InlineCache, 4))
  <1>1. InlineCache \in Contents
    BY DEF Contents
  <1>3. InlineCache[1] = "cache"
    BY DEF InlineCache
  <1>2. 4 \in Nat /\ 4 % 4 = 0
    OBVIOUS
  <1> QED BY <1>1, <1>2, <1>3, PlaceApart

\* The last index of a set of indices.
LEMMA MaxIs ==
  ASSUME NEW m \in Nat, NEW s \in SUBSET (1 .. m), m \in s
  PROVE  Max(s) = m
  <1>1. \A x \in s : x \in Nat /\ m >= x
    OBVIOUS
  <1>2. \A x \in s : (\A y \in s : x >= y) => x = m
    BY <1>1
  <1> DEFINE x == CHOOSE x \in s : \A y \in s : x >= y
  <1>3. x \in s /\ \A y \in s : x >= y
    BY <1>1
  <1>4. x = m
    <2> HIDE DEF x
    <2> QED BY <1>2, <1>3
  <1> QED BY <1>4 DEF Max

\* The recursions that the two folds are defined by.
InternFold(texts, d, g, s) ==
    IF s = {} THEN d ELSE InternString(g[s \ {Max(s)}], texts[Max(s)])
CacheFold(d, g, s) ==
    IF s = {} THEN d ELSE Place(g[s \ {Max(s)}], InlineCache, 4)

LEMMA InternDef ==
  ASSUME NEW texts, NEW d
  PROVE  InternAll(texts, d) =
            (CHOOSE g : g = [s \in SUBSET DOMAIN texts |-> InternFold(texts, d, g, s)])
                [DOMAIN texts]
  BY DEF InternAll, FoldLeft, MapThenFoldSet, InternFold

LEMMA CacheDef ==
  ASSUME NEW accesses, NEW d
  PROVE  CacheAll(accesses, d) =
            (CHOOSE g : g = [s \in SUBSET DOMAIN accesses |-> CacheFold(d, g, s)])
                [DOMAIN accesses]
  BY DEF CacheAll, FoldLeft, MapThenFoldSet, CacheFold

LEMMA InternFolds ==
  ASSUME NEW texts, NEW d, NEW n \in Nat
  PROVE  \E g : g = [s \in SUBSET (1 .. n) |-> InternFold(texts, d, g, s)]
  <1> DEFINE Solved(m, g) == g = [s \in SUBSET (1 .. m) |-> InternFold(texts, d, g, s)]
             S == {m \in Nat : \E g : Solved(m, g)}
  <1>1. 0 \in S
    <2> DEFINE g == [s \in SUBSET (1 .. 0) |-> d]
    <2>1. \A s \in SUBSET (1 .. 0) : s = {}
      OBVIOUS
    <2>2. \A s \in SUBSET (1 .. 0) : InternFold(texts, d, g, s) = d
      BY <2>1 DEF InternFold
    <2>3. Solved(0, g)
      BY <2>2
    <2> QED BY <2>3
  <1>2. ASSUME NEW m \in Nat, m \in S PROVE m + 1 \in S
    <2>1. PICK g : Solved(m, g)
      BY <1>2
    <2> DEFINE h == [s \in SUBSET (1 .. (m + 1)) |->
                        IF m + 1 \in s THEN InternString(g[s \ {m + 1}], texts[m + 1])
                        ELSE g[s]]
    <2>2. ASSUME NEW s \in SUBSET (1 .. (m + 1)) PROVE h[s] = InternFold(texts, d, h, s)
      <3>1. CASE m + 1 \in s
        <4>1. Max(s) = m + 1 /\ s # {}
          BY <3>1, MaxIs
        <4>2. s \ {m + 1} \in SUBSET (1 .. (m + 1)) /\ m + 1 \notin s \ {m + 1}
          OBVIOUS
        <4>3. h[s \ {m + 1}] = g[s \ {m + 1}]
          BY <4>2
        <4>4. h[s] = InternString(g[s \ {m + 1}], texts[m + 1])
          BY <3>1
        <4> HIDE DEF h
        <4> QED BY <4>1, <4>3, <4>4 DEF InternFold
      <3>2. CASE m + 1 \notin s
        <4>1. s \in SUBSET (1 .. m) /\ h[s] = g[s]
          BY <3>2
        <4>2. g[s] = InternFold(texts, d, g, s)
          BY <2>1, <4>1
        <4>3. CASE s = {}
          BY <4>1, <4>2, <4>3 DEF InternFold
        <4>4. CASE s # {}
          <5>1. s \ {Max(s)} \in SUBSET (1 .. (m + 1)) /\ m + 1 \notin s \ {Max(s)}
            BY <3>2
          <5>2. h[s \ {Max(s)}] = g[s \ {Max(s)}]
            BY <5>1
          <5> HIDE DEF h
          <5> QED BY <4>1, <4>2, <4>4, <5>2 DEF InternFold
        <4> QED BY <4>3, <4>4
      <3> QED BY <3>1, <3>2
    <2>3. h = [s \in SUBSET (1 .. (m + 1)) |-> h[s]]
      OBVIOUS
    <2>4. Solved(m + 1, h)
      <3> HIDE DEF h
      <3> QED BY <2>2, <2>3
    <2> HIDE DEF h
    <2> QED BY <2>4
  <1>3. Nat \subseteq S
    <2> HIDE DEF S
    <2> QED BY <1>1, <1>2, Numbers
  <1> QED BY <1>3

LEMMA InternAllApart ==
  ASSUME Lengths, NEW texts \in Seq(STRING), NEW d, Apart(d)
  PROVE  Apart(InternAll(texts, d))
  <1> DEFINE n == Len(texts)
             g == CHOOSE g : g = [s \in SUBSET (1 .. n) |-> InternFold(texts, d, g, s)]
             S == {m \in Nat : m <= n => Apart(g[1 .. m])}
  <1>1. n \in Nat /\ DOMAIN texts = 1 .. n
    OBVIOUS
  <1>2. g = [s \in SUBSET (1 .. n) |-> InternFold(texts, d, g, s)]
    BY <1>1, InternFolds
  <1>3. InternAll(texts, d) = g[1 .. n]
    BY <1>1, InternDef
  <1> HIDE DEF g
  <1>4. \A s \in SUBSET (1 .. n) : g[s] = InternFold(texts, d, g, s)
    BY <1>2
  <1>5. 0 \in S
    <2>1. 1 .. 0 = {} /\ {} \in SUBSET (1 .. n)
      OBVIOUS
    <2>2. g[{}] = d
      BY <1>4, <2>1 DEF InternFold
    <2> QED BY <2>1, <2>2
  <1>6. ASSUME NEW m \in Nat, m \in S PROVE m + 1 \in S
    <2> SUFFICES ASSUME m + 1 <= n PROVE Apart(g[1 .. (m + 1)])
      OBVIOUS
    <2> DEFINE s == 1 .. (m + 1)
    <2>1. m <= n /\ Apart(g[1 .. m])
      BY <1>1, <1>6
    <2>2. s \in SUBSET (1 .. n) /\ s # {} /\ m + 1 \in s /\ s \ {m + 1} = 1 .. m
      <3>1. \A i : i \in s <=> i \in Nat /\ 1 <= i /\ i <= m + 1
        OBVIOUS
      <3>2. \A i : i \in 1 .. m <=> i \in Nat /\ 1 <= i /\ i <= m
        OBVIOUS
      <3> HIDE DEF s
      <3>3. m + 1 \in s
        BY <3>1
      <3>4. \A i : i \in s \ {m + 1} <=> i \in 1 .. m
        BY <3>1, <3>2
      <3>5. \A i \in s : i \in 1 .. n
        BY <1>1, <3>1
      <3>6. s \ {m + 1} = 1 .. m
        BY <3>4, Zenon
      <3> QED BY <3>3, <3>5, <3>6
    <2>3. Max(s) = m + 1
      <3>1. s \in SUBSET (1 .. (m + 1)) /\ m + 1 \in Nat
        OBVIOUS
      <3> HIDE DEF s
      <3> QED BY <2>2, <3>1, MaxIs
    <2>4. texts[m + 1] \in STRING
      BY <1>1
    <2> HIDE DEF s
    <2>5. g[s] = InternString(g[1 .. m], texts[m + 1])
      BY <1>4, <2>2, <2>3 DEF InternFold
    <2>6. Apart(g[s])
      BY <2>1, <2>4, <2>5, InternApart
    <2> QED BY <2>6 DEF s
  <1>7. Nat \subseteq S
    <2> HIDE DEF S
    <2> QED BY <1>5, <1>6, Numbers
  <1>8. Apart(g[1 .. n])
    BY <1>1, <1>7
  <1> QED BY <1>3, <1>8

LEMMA CacheFolds ==
  ASSUME NEW d, NEW n \in Nat
  PROVE  \E g : g = [s \in SUBSET (1 .. n) |-> CacheFold(d, g, s)]
  <1> DEFINE Solved(m, g) == g = [s \in SUBSET (1 .. m) |-> CacheFold(d, g, s)]
             S == {m \in Nat : \E g : Solved(m, g)}
  <1>1. 0 \in S
    <2> DEFINE g == [s \in SUBSET (1 .. 0) |-> d]
    <2>1. \A s \in SUBSET (1 .. 0) : s = {}
      OBVIOUS
    <2>2. \A s \in SUBSET (1 .. 0) : CacheFold(d, g, s) = d
      BY <2>1 DEF CacheFold
    <2>3. Solved(0, g)
      BY <2>2
    <2> QED BY <2>3
  <1>2. ASSUME NEW m \in Nat, m \in S PROVE m + 1 \in S
    <2>1. PICK g : Solved(m, g)
      BY <1>2
    <2> DEFINE h == [s \in SUBSET (1 .. (m + 1)) |->
                        IF m + 1 \in s THEN Place(g[s \ {m + 1}], InlineCache, 4)
                        ELSE g[s]]
    <2>2. ASSUME NEW s \in SUBSET (1 .. (m + 1)) PROVE h[s] = CacheFold(d, h, s)
      <3>1. CASE m + 1 \in s
        <4>1. Max(s) = m + 1 /\ s # {}
          BY <3>1, MaxIs
        <4>2. s \ {m + 1} \in SUBSET (1 .. (m + 1)) /\ m + 1 \notin s \ {m + 1}
          OBVIOUS
        <4>3. h[s \ {m + 1}] = g[s \ {m + 1}]
          BY <4>2
        <4>4. h[s] = Place(g[s \ {m + 1}], InlineCache, 4)
          BY <3>1
        <4> HIDE DEF h
        <4> QED BY <4>1, <4>3, <4>4 DEF CacheFold
      <3>2. CASE m + 1 \notin s
        <4>1. s \in SUBSET (1 .. m) /\ h[s] = g[s]
          BY <3>2
        <4>2. g[s] = CacheFold(d, g, s)
          BY <2>1, <4>1
        <4>3. CASE s = {}
          BY <4>1, <4>2, <4>3 DEF CacheFold
        <4>4. CASE s # {}
          <5>1. s \ {Max(s)} \in SUBSET (1 .. (m + 1)) /\ m + 1 \notin s \ {Max(s)}
            BY <3>2
          <5>2. h[s \ {Max(s)}] = g[s \ {Max(s)}]
            BY <5>1
          <5> HIDE DEF h
          <5> QED BY <4>1, <4>2, <4>4, <5>2 DEF CacheFold
        <4> QED BY <4>3, <4>4
      <3> QED BY <3>1, <3>2
    <2>3. h = [s \in SUBSET (1 .. (m + 1)) |-> h[s]]
      OBVIOUS
    <2>4. Solved(m + 1, h)
      <3> HIDE DEF h
      <3> QED BY <2>2, <2>3
    <2> HIDE DEF h
    <2> QED BY <2>4
  <1>3. Nat \subseteq S
    <2> HIDE DEF S
    <2> QED BY <1>1, <1>2, Numbers
  <1> QED BY <1>3

LEMMA CacheAllApart ==
  ASSUME NEW Accesses, NEW accesses \in Seq(Accesses), NEW d, Apart(d)
  PROVE  Apart(CacheAll(accesses, d))
  <1> DEFINE n == Len(accesses)
             g == CHOOSE g : g = [s \in SUBSET (1 .. n) |-> CacheFold(d, g, s)]
             S == {m \in Nat : m <= n => Apart(g[1 .. m])}
  <1>1. n \in Nat /\ DOMAIN accesses = 1 .. n
    OBVIOUS
  <1>2. g = [s \in SUBSET (1 .. n) |-> CacheFold(d, g, s)]
    BY <1>1, CacheFolds
  <1>3. CacheAll(accesses, d) = g[1 .. n]
    BY <1>1, CacheDef
  <1> HIDE DEF g
  <1>4. \A s \in SUBSET (1 .. n) : g[s] = CacheFold(d, g, s)
    BY <1>2
  <1>5. 0 \in S
    <2>1. 1 .. 0 = {} /\ {} \in SUBSET (1 .. n)
      OBVIOUS
    <2>2. g[{}] = d
      BY <1>4, <2>1 DEF CacheFold
    <2> QED BY <2>1, <2>2
  <1>6. ASSUME NEW m \in Nat, m \in S PROVE m + 1 \in S
    <2> SUFFICES ASSUME m + 1 <= n PROVE Apart(g[1 .. (m + 1)])
      OBVIOUS
    <2> DEFINE s == 1 .. (m + 1)
    <2>1. m <= n /\ Apart(g[1 .. m])
      BY <1>1, <1>6
    <2>2. s \in SUBSET (1 .. n) /\ s # {} /\ m + 1 \in s /\ s \ {m + 1} = 1 .. m
      <3>1. \A i : i \in s <=> i \in Nat /\ 1 <= i /\ i <= m + 1
        OBVIOUS
      <3>2. \A i : i \in 1 .. m <=> i \in Nat /\ 1 <= i /\ i <= m
        OBVIOUS
      <3> HIDE DEF s
      <3>3. m + 1 \in s
        BY <3>1
      <3>4. \A i : i \in s \ {m + 1} <=> i \in 1 .. m
        BY <3>1, <3>2
      <3>5. \A i \in s : i \in 1 .. n
        BY <1>1, <3>1
      <3>6. s \ {m + 1} = 1 .. m
        BY <3>4, Zenon
      <3> QED BY <3>3, <3>5, <3>6
    <2>3. Max(s) = m + 1
      <3>1. s \in SUBSET (1 .. (m + 1)) /\ m + 1 \in Nat
        OBVIOUS
      <3> HIDE DEF s
      <3> QED BY <2>2, <3>1, MaxIs
    <2> HIDE DEF s
    <2>5. g[s] = Place(g[1 .. m], InlineCache, 4)
      BY <1>4, <2>2, <2>3 DEF CacheFold
    <2>6. Apart(g[s])
      BY <2>1, <2>5, CacheApart
    <2> QED BY <2>6 DEF s
  <1>7. Nat \subseteq S
    <2> HIDE DEF S
    <2> QED BY <1>5, <1>6, Numbers
  <1>8. Apart(g[1 .. n])
    BY <1>1, <1>7
  <1> QED BY <1>3, <1>8

\* Whatever strings are interned and however many caches are reserved: the
\* places of the data segment do not overlap, are aligned, and a string has one
\* (intern_string and data_cache).
THEOREM DataApartHolds ==
  ASSUME Lengths, NEW CONSTANT Accesses
  PROVE  DataSpec(Accesses) => []DataApart
  <1>1. data = <<>> => SegmentApart
    BY DEF SegmentApart, Apart
  <1>2. SegmentApart /\ [DataNext(Accesses)]_data => SegmentApart'
    BY InternAllApart, CacheAllApart DEF SegmentApart, DataNext
  <1>3. SegmentApart => DataApart
    BY DEF SegmentApart, Apart, DataApart
  <1> QED BY <1>1, <1>2, <1>3, PTL DEF DataSpec
============================================================================
