-------------------------------- MODULE Anf --------------------------------
(***************************************************************************)
(* notwasm/from_jankyscript.rs: A-normalization.  The Rust code passes     *)
(* contexts, which are functions; here an expression returns to its        *)
(* context instead:                                                        *)
(*   ss    the statements that come before                                 *)
(*   how   a: it sends an atom to its context (recv_a), e: an expression   *)
(*         (recv_e), none: it never calls its context                      *)
(*   n     the atom or expression                                          *)
(*   st    [names: how many were given, fns: the functions lifted]         *)
(* An atom is not evaluated where it is made but where it is used.         *)
(*                                                                         *)
(* The NotWasm syntax is written with the nodes of Ast: ToAny, FromAny,    *)
(* IntToFloat and FloatToInt are Coercions, ObjectGet and ObjectSet a Dot  *)
(* and an Assign to it.  The parameter env of a function is left out.      *)
(***************************************************************************)
EXTENDS Ast

Out(ss, how, n, st) == [ss |-> ss, how |-> how, n |-> n, st |-> st]

AnfName(st) == <<"anf", st.names + 1>>
AnfFresh(st) == [st EXCEPT !.names = @ + 1]

\* var x = e, for the context that gets x
NameIt(r) ==
    Out(Append(r.ss, Var(AnfName(r.st), Missing, r.n)), "a", Id(AnfName(r.st)), AnfFresh(r.st))

\* mutant: whatever the context expects, it gets
NotNamed(r) == r

\* C::Atom
AsAtom(r) == IF r.how = "e" THEN NameIt(r) ELSE r
\* C::Id
AsId(r) == IF r.how = "none" \/ (r.how = "a" /\ r.n.k = "Id") THEN r ELSE NameIt(r)

\* what becomes of an expression whose sub-expression gave r
After(r, how, n) == IF r.how = "none" THEN r ELSE Out(r.ss, how, n, r.st)

\* coercion_to_expr; a function coercion and a Meta are panics
RECURSIVE Compilable(_)
Compilable(c) ==
    CASE c[1] = "Seq" -> Compilable(c[2]) /\ Compilable(c[3])
      [] OTHER -> c[1] \notin {"Fun", "Meta"}

Panicked == Term("Panic", <<>>)

CoercionToExpr(c, a) ==
    IF Compilable(c) THEN Node("Coercion", NoDatum, c, <<a>>) ELSE Panicked

\* "non-array non-object index" and "bad bracket lvalue type" are panics
Indexable(lv) == lv.k = "Bracket" => lv.t \in {<<"array">>, <<"object">>}

----------------------------------------------------------------------------

RECURSIVE CompileExpr(_, _), CompileStmt(_, _)

\* Each expression has a context of its own, which pushes a name: one that is
\* never called pushes none.
PushId(acc, r) ==
    [ss |-> acc.ss \o r.ss, st |-> r.st,
     ids |-> IF r.how = "none" THEN acc.ids ELSE Append(acc.ids, r.n)]
CompileExprs(es, st) ==
    FoldLeft(LAMBDA acc, e : PushId(acc, AsId(CompileExpr(e, acc.st))),
             [ss |-> <<>>, ids |-> <<>>, st |-> st], es)

\* One atom after the other, each in the context of the one before; n holds
\* the node with the atoms in the place of its sub-terms.
PutAtom(acc, i, r) == Out(acc.ss \o r.ss, r.how, [acc.n EXCEPT !.c[i] = r.n], r.st)
CompileAtoms(n, from, st) ==
    FoldLeft(LAMBDA acc, i :
                 IF acc.how = "none" THEN acc
                 ELSE PutAtom(acc, i, AsAtom(CompileExpr(n.c[i], acc.st))),
             Out(<<>>, "a", n, st), SelectSeq(Indices(n.c), LAMBDA i : i >= from))

\* compile_function: the lifted function has the name that comes before those
\* of its body
Lift(f, name, body) ==
    [body.st EXCEPT !.fns = Append(@, [f EXCEPT !.x = name, !.c[1] = Block(body.ss)])]
CompileFunction(f, st) == Lift(f, AnfName(st), CompileStmt(Body(f), AnfFresh(st)))

CompileObject(e, r) ==
    LET obj == AnfName(r.st)
        set(i) == Expr(Assign(Dot(Id(obj), e.c[i].x[1]), r.ids[i]))
    IN  Out(r.ss \o <<Var(obj, Missing, Object(<<>>))>> \o [i \in DOMAIN r.ids |-> set(i)],
            "a", Id(obj), AnfFresh(r.st))

CompileArray(r) ==
    LET array == AnfName(r.st)
        prim(op, args) == Node("PrimCall", Named(op), Missing, args)
    IN  Out(r.ss \o <<Var(array, Missing, prim("array_new", <<>>))>>
                 \o [i \in DOMAIN r.ids |-> Expr(prim("array_push", <<Id(array), r.ids[i]>>))],
            "a", Id(array), AnfFresh(r.st))

\* The right-hand side comes first, and is used twice if the l-value is an Id.
AssignTo(lv, rhs) ==
    After([lv EXCEPT !.ss = rhs.ss \o @], "e",
          IF Indexable(lv.n) THEN Assign(lv.n, rhs.n) ELSE Panicked)
CompileAssign(e, rhs) ==
    IF rhs.how = "none" THEN rhs
    ELSE IF e.c[1].k = "Id"
    THEN Out(Append(rhs.ss, Expr(Assign(e.c[1], rhs.n))), "a", rhs.n, rhs.st)
    ELSE AssignTo(CompileAtoms(e.c[1], 1, rhs.st), rhs)

Close(name, env) == Out(env.ss, "e", [env.n EXCEPT !.c[1] = Id(name)], env.st)
CompileClosure(e, st) ==
    Close(AnfName(st), CompileAtoms(e, 2, CompileFunction(e.c[1], st)))

\* The context of a store is not called.
StoreInto(e, into, what) ==
    Out(into.ss \o what.ss
          \o (IF what.how = "none" THEN <<>> ELSE <<[e EXCEPT !.c = <<into.n, what.n>>]>>),
        "none", e, what.st)
CompileStore(e, into) == StoreInto(e, into, CompileExpr(e.c[2], into.st))

CallWithIds(e, ss, ids, r) == Out(ss \o r.ss, "e", [e EXCEPT !.c = ids \o r.ids], r.st)
CompileCall(e, f) ==
    IF f.how = "none" THEN f ELSE CallWithIds(e, f.ss, <<f.n>>, CompileExprs(Tail(e.c), f.st))

\* the expressions that are no more than their atoms
CompileNode(r) ==
    LET e == r.n
    IN  CASE e.k = "Bracket" -> After(r, "a", IF Indexable(e) THEN e ELSE Panicked)
          [] e.k = "Coercion" -> After(r, "a", CoercionToExpr(e.t, e.c[1]))
          [] e.k = "NewRef" -> After(r, "e", e)
          [] OTHER -> r

CompileLength(e, r) == After(r, "a", [e EXCEPT !.c[1] = r.n])

CompileExpr(e, st) ==
    CASE e.k \in {"Lit", "Id", "EnvGet"} -> Out(<<>>, "a", e, st)
      [] e.k \in {"Dot", "Bracket", "Unary", "Binary", "Deref", "Coercion", "NewRef"} ->
           CompileNode(CompileAtoms(e, 1, st))
      [] e.k = "Object" -> CompileObject(e, CompileExprs([i \in DOMAIN e.c |-> e.c[i].c[1]], st))
      [] e.k = "Array" -> CompileArray(CompileExprs(e.c, st))
      [] e.k = "Length" -> CompileLength(e, AsId(CompileExpr(e.c[1], st)))
      [] e.k = "PrimCall" -> CallWithIds(e, <<>>, <<>>, CompileExprs(e.c, st))
      [] e.k \in {"Call", "MethodCall"} -> CompileCall(e, AsId(CompileExpr(e.c[1], st)))
      [] e.k = "Assign" -> CompileAssign(e, AsAtom(CompileExpr(e.c[2], st)))
      [] e.k = "Store" -> CompileStore(e, AsId(CompileExpr(e.c[1], st)))
      [] e.k = "Closure" -> CompileClosure(e, st)
      [] OTHER -> Out(<<>>, "a", Panicked, st)

----------------------------------------------------------------------------

\* A Rope<Stmt>.
Rope(ss, st) == [ss |-> ss, st |-> st]

Then(acc, r) == Rope(acc.ss \o r.ss, r.st)
CompileBlock(ss, st) ==
    FoldLeft(LAMBDA acc, s : Then(acc, CompileStmt(s, acc.st)), Rope(<<>>, st), ss)

\* the statement that uses what r sends, if it sends anything
EndWith(r, s) == Rope(IF r.how = "none" THEN r.ss ELSE Append(r.ss, s), r.st)
CompileVar(s, r) == EndWith(r, [s EXCEPT !.c = <<r.n>>])
Discard(a) == Rope(a.ss, a.st)
CompileReturn(a) == EndWith(a, Return(a.n))

Branches(a, yes, no) == Rope(Append(a.ss, If(a.n, Block(yes.ss), Block(no.ss))), no.st)
ElseBranch(s, a, yes) == Branches(a, yes, CompileStmt(s.c[3], yes.st))
CompileIf(s, a) ==
    IF a.how = "none" THEN EndWith(a, s) ELSE ElseBranch(s, a, CompileStmt(s.c[2], a.st))

Enclose(s, b) == Rope(<<s>>, b.st)

CompileStmt(s, st) ==
    LET atom == AsAtom(CompileExpr(s.c[1], st))
        body == CompileStmt(s.c[1], st)
        block == CompileBlock(s.c, st)
    IN  CASE s.k = "Var" -> CompileVar(s, CompileExpr(s.c[1], st))
          [] s.k = "Block" -> Enclose(Block(block.ss), block)
          [] s.k = "Expr" -> Discard(atom)
          [] s.k = "If" -> CompileIf(s, atom)
          [] s.k \in {"Loop", "Label"} -> Enclose([s EXCEPT !.c[1] = Block(body.ss)], body)
          [] s.k = "Return" -> CompileReturn(atom)
          [] s.k \in {"Empty", "Break"} -> Rope(<<s>>, st)

Linked(main) ==
    Term("Program",
         Append(main.st.fns, [Func(<<>>, Block(main.ss)) EXCEPT !.x = Named("main")]))
FromJankyScript(prog) == Linked(CompileStmt(prog, [names |-> 0, fns |-> <<>>]))
============================================================================
