------------------------------ MODULE MCCompiler ------------------------------
(***************************************************************************)
(* Families of JavaScript programs for the compiler.  A program is kept if *)
(* it means something: it runs to its end in JavaScript.                   *)
(***************************************************************************)
EXTENDS Compiler

MCBaseTypes == {AnyType, Int_, Bool, String, Float, DynObject, Array}
MCFunctionTypes == {Fun(<<AnyType, t>>, r) : t \in {AnyType, Int_}, r \in {AnyType, Int_}}

N(x) == Id(Named(x))
X == N("x")
Y == N("y")
A == N("a")
F == N("f")
O == N("o")
P == Dot(O, "p")
ShowIt(e) == Expr(Call(N("log_any"), <<e>>))
Let_(x, e) == VarDecl1(Named(x), e)
Set_(lv, e) == Expr(Assign(lv, e))
Plus(e1, e2) == Binary("Plus", e1, e2)
Fn(params, ss) == Func([i \in DOMAIN params |-> Named(params[i])], Block(ss))
FnStmt(f, params, ss) == FuncStmt(Named(f), [i \in DOMAIN params |-> Named(params[i])], Block(ss))

\* those that end without an error
Meaningful(ps) == {p \in ps : Outcome(p, "js").err = ""}

----------------------------------------------------------------------------

Atoms == {X, IntLit(3), FloatLit(5), StrLit(<<"b">>), BoolLit(TRUE)}
Operators == {"Plus", "Minus", "LessThan", "StrictEqual"}

Operations(as) ==
    {Binary(op, a, b) : op \in Operators, a \in as, b \in as}
    \cup {Unary(op, a) : op \in {"Not", "Minus"}, a \in as}
    \cup {Logical(op, a, b) : op \in {"And", "Or"}, a \in as, b \in as}

\* var x = a; log(e)
Expressions ==
    {Block(<<Let_("x", a), ShowIt(e)>>) : a \in {IntLit(0), StrLit(<<"a">>)}, e \in Operations(Atoms)}

\* the result of one operation is an operand of the next
Nested ==
    {Block(<<Let_("x", IntLit(2)), ShowIt(Binary(op1, Binary(op2, X, a), b))>>) :
        op1 \in Operators, op2 \in Operators, a \in {X, FloatLit(3)}, b \in {IntLit(1), StrLit(<<"a">>)}}

----------------------------------------------------------------------------
(* Functions: f(a) called twice, around a variable x that it may capture.  *)

Bodies ==
    {<<Return(A)>>, <<Return(Plus(A, X))>>, <<Set_(X, Plus(X, A))>>,
     <<Set_(A, Plus(A, IntLit(1))), Return(A)>>,
     <<If(A, Return(IntLit(1)), Empty)>>,
     <<If(A, Set_(X, A), Return(X)), Return(StrLit(<<"a">>))>>,
     <<Let_("x", A), If(A, Block(<<Let_("y", X), ShowIt(Y)>>), Empty), Return(X)>>,
     <<Return(Logical("Or", A, X))>>, <<Return(Cond(A, X, IntLit(7)))>>,
     <<Loop(Block(<<If(A, Return(X), Set_(A, IntLit(1)))>>))>>,
     <<Expr(UnaryAssign("PostInc", X)), Return(X)>>,
     <<Expr(AssignOp("Plus", X, A))>>}

Calls(fs) ==
    {Block(<<Let_("x", IntLit(5)), FnStmt("f", <<"a">>, b), ShowIt(Call(F, <<IntLit(2)>>)),
             ShowIt(Call(F, <<IntLit(0)>>)), ShowIt(X)>>) : b \in fs}

Functions == Calls(Bodies)

----------------------------------------------------------------------------
(* Closures that outlive the function that made them, and share or do not  *)
(* share what they capture.                                                *)

Made ==
    {Fn(<<>>, <<Return(A)>>),
     Fn(<<>>, <<Set_(A, Plus(A, IntLit(1))), Return(A)>>),
     Fn(<<>>, <<Return(Fn(<<>>, <<Set_(A, Plus(A, X)), Return(A)>>))>>),
     Fn(<<>>, <<Set_(X, Plus(X, A)), Return(X)>>)}

Closures ==
    {Block(<<Let_("x", IntLit(5)), FnStmt("f", <<"a">>, <<Return(m)>>),
             Let_("y", Call(F, <<IntLit(2)>>)), Let_("z", Call(F, <<IntLit(3)>>)),
             ShowIt(Call(Y, <<>>)), ShowIt(Call(N("z"), <<>>)), ShowIt(Call(Y, <<>>))>>) : m \in Made}

\* two closures over one parameter, which one of them assigns
Shared ==
    {Block(<<FnStmt("f", <<"a">>, <<Let_("o", Object(<<Prop("p", Fn(<<>>, <<Return(A)>>)),
                                                      Prop("m", Fn(<<"x">>, set))>>)), Return(O)>>),
             Let_("y", Call(F, <<IntLit(2)>>)), Let_("z", Call(F, <<IntLit(3)>>)),
             Expr(Call(Dot(Y, "m"), <<IntLit(5)>>)),
             ShowIt(Call(Dot(Y, "p"), <<>>)), ShowIt(Call(Dot(N("z"), "p"), <<>>))>>) :
        set \in {<<Set_(A, X)>>, <<Set_(A, Plus(A, X)), Return(A)>>}}

\* Functions that are passed to functions and kept in objects.  One that is
\* returned to where any is expected is left out: README, known deviations.
HigherOrder ==
    {Block(<<FnStmt("f", <<"g">>, b), ShowIt(Call(F, <<Fn(<<"a">>, r)>>))>>) :
        b \in {<<Return(Call(N("g"), <<IntLit(1)>>))>>,
               <<Let_("y", Call(N("g"), <<IntLit(1)>>)), Let_("o", Object(<<Prop("p", N("g"))>>)),
                 Return(Call(P, <<Y>>))>>,
               <<If(N("g"), Return(Call(N("g"), <<IntLit(0)>>)), Empty)>>},
        r \in {<<Return(A)>>, <<Return(Plus(A, IntLit(1)))>>, <<ShowIt(A)>>}}

----------------------------------------------------------------------------
(* Objects: fields, methods with their receiver, constructors.             *)

Q == Bracket(O, StrLit(<<"q">>))

Updates ==
    {Expr(AssignOp("Plus", P, IntLit(1))), Expr(UnaryAssign("PostInc", P)),
     Expr(UnaryAssign("PreDec", Q)), Set_(P, Plus(P, Q)), Set_(Q, StrLit(<<"a">>)),
     Set_(Dot(O, "r"), Binary("LessThan", P, Q)),
     Expr(AssignOp("Minus", Dot(Call(F, <<>>), "p"), IntLit(1))),
     Expr(UnaryAssign("PreInc", Dot(Call(F, <<>>), "p")))}

Fields ==
    {Block(<<Let_("o", Object(<<Prop("p", IntLit(1)), Prop("q", IntLit(4))>>)),
             FnStmt("f", <<>>, <<ShowIt(IntLit(9)), Return(O)>>), u,
             ShowIt(P), ShowIt(Q), ShowIt(Dot(O, "r"))>>) : u \in Updates}

\* Arrays, with an index in bounds: known deviations in the README.
Elements ==
    {Block(<<Let_("x", IntLit(1)), Let_("y", ArrayLit(<<IntLit(4), StrLit(<<"a">>)>>)), s,
             ShowIt(Bracket(Y, IntLit(0))), ShowIt(Bracket(Y, X)), ShowIt(Dot(Y, "length"))>>) :
        s \in {Set_(Bracket(Y, IntLit(0)), X), Set_(Bracket(Y, X), Bracket(Y, IntLit(0))),
               Expr(AssignOp("Plus", Bracket(Y, IntLit(0)), X)),
               Expr(UnaryAssign("PostInc", Bracket(Y, IntLit(0)))),
               ShowIt(Call(Dot(Y, "push"), <<X>>)),
               Set_(Y, Call(Dot(Y, "concat"), <<ArrayLit(<<X>>)>>)),
               Set_(X, Dot(Bracket(Y, X), "length")),
               Set_(X, Binary("Minus", Dot(Y, "length"), X))}}

MethodBodies ==
    {<<Return(Dot(This, "p"))>>, <<Set_(Dot(This, "p"), A)>>,
     <<Return(Fn(<<>>, <<Return(A)>>))>>,
     <<Return(Plus(Dot(This, "p"), A))>>,
     <<If(A, Return(Call(Dot(This, "m"), <<IntLit(0)>>)), Empty), Return(This)>>}

Methods_ ==
    {Block(<<Let_("o", Object(<<Prop("p", IntLit(1)), Prop("m", Fn(<<"a">>, b))>>)),
             ShowIt(Call(Dot(O, "m"), <<IntLit(2)>>)), ShowIt(P)>>) : b \in MethodBodies}

Constructors ==
    {Block(<<FnStmt("f", <<"a">>, <<Set_(Dot(This, "p"), A)>> \o b),
             Set_(Dot(Dot(F, "prototype"), "m"), Fn(<<>>, <<Return(Dot(This, "p"))>>)),
             Let_("o", New(F, <<IntLit(1)>>)), Let_("y", New(F, <<IntLit(2)>>)),
             ShowIt(Call(Dot(O, "m"), <<>>)), ShowIt(Dot(Y, "p")), ShowIt(O)>>) :
        b \in {<<>>, <<If(A, Return(Undefined), Empty)>>}}

----------------------------------------------------------------------------
(* Statements: labels, loops, early returns, blocks that declare.          *)

L_ == Named("L")

LoopBodies ==
    {<<ShowIt(X), If(Binary("LessThan", X, IntLit(2)), Expr(UnaryAssign("PreInc", X)), Break(L_))>>,
     <<Let_("y", X), Set_(X, Plus(X, IntLit(1))), If(Binary("GreaterThan", Y, IntLit(1)), Break(L_), ShowIt(Y))>>,
     <<Expr(AssignOp("Plus", X, IntLit(1))), Loop(Block(<<Break(L_)>>))>>,
     <<Expr(Seq_(<<Call(N("log_any"), <<IntLit(8)>>), Call(N("log_any"), <<X>>)>>)), Break(L_)>>}

Loops ==
    {Block(<<Let_("x", IntLit(0)), Label(L_, Loop(Block(b))), ShowIt(X)>>) : b \in LoopBodies}

Declarations ==
    {Block(<<VarDecl(<<Decl(Named("x"), a), Decl(Named("y"), X)>>), s, ShowIt(X), ShowIt(Y)>>) :
        a \in {IntLit(1), StrLit(<<"a">>)},
        s \in {Empty, If(X, VarDecl1(Named("x"), IntLit(3)), Empty),
               Block(<<VarDecl1(Named("y"), StrLit(<<"b">>))>>),
               ShowIt(Seq_(<<X, Y>>)), ShowIt(Call(Dot(Y, "concat"), <<X>>)),
               ShowIt(Dot(X, "length")), ShowIt(Plus(X, Plus(Y, X)))}}

MCPrograms ==
    Meaningful(Expressions \cup Nested \cup Functions \cup Closures \cup Shared
               \cup HigherOrder \cup Fields \cup Elements \cup Methods_ \cup Constructors
               \cup Loops \cup Declarations)

----------------------------------------------------------------------------
(* Two counters that one function makes, each with a variable of its own   *)
(* (collect_assigns.rs:3 needs it to be boxed), and a reader of it.        *)

Counters ==
    {Block(<<FnStmt("f", <<>>, <<Let_("x", IntLit(0)),
                                Return(Fn(<<>>, <<Set_(X, Plus(X, IntLit(1))), Return(X)>>))>>),
             Let_("y", Call(F, <<>>)), Let_("z", Call(F, <<>>)),
             ShowIt(Call(Y, <<>>)), ShowIt(Call(v, <<>>))>>) : v \in {Y, N("z")}}
============================================================================
