-------------------------------- MODULE Ast --------------------------------
(***************************************************************************)
(* The abstract syntax that the passes of the compiler work on: the        *)
(* JavaScript of javascript/syntax.rs, the JankyScript of jankyscript/     *)
(* syntax.rs and the NotWasm of notwasm/syntax.rs.  The three languages    *)
(* share most of their constructors, so one shape of node serves them all: *)
(*   k   the constructor                                                   *)
(*   x   its datum: an Id, an operator, a literal or a position            *)
(*   t   its type annotation, or its coercion                              *)
(*   c   its sub-terms, in the order of the Rust fields                    *)
(* Positions in the source text (Pos) are left out.                        *)
(***************************************************************************)
EXTENDS Naturals, Sequences, SequencesExt

\* Id::Named(x) is <<x, 0>>, Id::Generated(base, n) is <<base, n>>, n > 0.
Named(x) == <<x, 0>>

\* Type::Missing
Missing == <<"missing">>

Node(k, x, t, c) == [k |-> k, x |-> x, t |-> t, c |-> c]

NoDatum == Named("")

Term(k, c) == Node(k, NoDatum, Missing, c)

----------------------------------------------------------------------------
(* Expressions.                                                            *)

Lit(v) == Node("Lit", v, Missing, <<>>)
Undefined == Lit(<<"undefined", 0>>)
IntLit(n) == Lit(<<"int", n>>)
FloatLit(n) == Lit(<<"float", n>>)
BoolLit(b) == Lit(<<"bool", IF b THEN 1 ELSE 0>>)
StrLit(s) == Lit(<<"string", s>>)
Id(x) == Node("Id", x, Missing, <<>>)
This == Term("This", <<>>)
Dot(e, field) == Node("Dot", Named(field), Missing, <<e>>)
Bracket(e1, e2) == Term("Bracket", <<e1, e2>>)
Prop(key, e) == Node("Prop", Named(key), Missing, <<e>>)
Object(props) == Term("Object", props)
ArrayLit(es) == Term("Array", es)
Unary(op, e) == Node("Unary", Named(op), Missing, <<e>>)
Binary(op, e1, e2) == Node("Binary", Named(op), Missing, <<e1, e2>>)
\* BinOp::LogicalOp, op is And or Or
Logical(op, e1, e2) == Node("Logical", Named(op), Missing, <<e1, e2>>)
\* Expr::If, the ternary operator
Cond(e1, e2, e3) == Term("Cond", <<e1, e2, e3>>)
\* op is Equal or the operator of op=; an LValue has the constructors of Expr
AssignOp(op, lv, e) == Node("Assign", Named(op), Missing, <<lv, e>>)
Assign(lv, e) == AssignOp("Equal", lv, e)
UnaryAssign(op, lv) == Node("UnaryAssign", Named(op), Missing, <<lv>>)
Call(f, args) == Term("Call", <<f>> \o args)
New(f, args) == Term("New", <<f>> \o args)
MethodCall(obj, name, args) ==
    Node("MethodCall", name, Missing, <<Id(obj)>> \o args)
Seq_(es) == Term("Seq", es)
Param(x) == Node("Param", x, Missing, <<>>)
\* the body, then the parameters; t is the type of the result
Func(params, body) ==
    Term("Func", <<body>> \o [i \in DOMAIN params |-> Param(params[i])])

----------------------------------------------------------------------------
(* Statements.                                                             *)

Block(ss) == Term("Block", ss)
Empty == Term("Empty", <<>>)
Expr(e) == Term("Expr", <<e>>)
If(e, s1, s2) == Term("If", <<e, s1, s2>>)
\* while (true); Stmt::Loop of JankyScript
Loop(s) == Term("Loop", <<s>>)
Label(l, s) == Node("Label", l, Missing, <<s>>)
Break(l) == Node("Break", l, Missing, <<>>)
Return(e) == Term("Return", <<e>>)
Decl(x, e) == Node("Decl", x, Missing, <<e>>)
VarDecl(decls) == Term("VarDecl", decls)
VarDecl1(x, e) == VarDecl(<<Decl(x, e)>>)
FuncStmt(x, params, body) == [Func(params, body) EXCEPT !.k = "FuncStmt", !.x = x]
Var(x, t, e) == Node("Var", x, t, <<e>>)

----------------------------------------------------------------------------
(* Helpers.                                                                *)

Params(f) == Tail(f.c)
Body(f) == f.c[1]

IsUndefined(e) == e.k = "Lit" /\ e.x[1] = "undefined"

\* the indices of a sequence, in order
Indices(s) == [i \in DOMAIN s |-> i]

\* A fold, for TLC to compute each element once.
Map(Op(_), s) == FoldLeft(LAMBDA acc, x : Append(acc, Op(x)), <<>>, s)

\* Every node of a term.
RECURSIVE Nodes(_)
Nodes(n) == {n} \cup UNION {Nodes(n.c[i]) : i \in DOMAIN n.c}
============================================================================
