------------------------------ MODULE Desugar ------------------------------
(***************************************************************************)
(* The passes of javascript/desugar.rs that rewrite declarations, calls    *)
(* and expressions (switches and loops are in ControlFlow).  Each is a     *)
(* visitor of the walk of javascript/walk.rs, which rewrites a node after  *)
(* its sub-terms and may insert statements into an enclosing block.        *)
(*                                                                         *)
(* The state of a walk:                                                    *)
(*   blocks   one BlockContext [index, patches] per enclosing block        *)
(*   ng       the name generator: how many names each base has given       *)
(*   panic    a pass met something it cannot translate                     *)
(* The location of a node:                                                 *)
(*   ctx      the Context it is immediately in                             *)
(*   fn       the depth of body_of_enclosing_function_or_program           *)
(***************************************************************************)
EXTENDS Ast, TLC, FiniteSets

Start(ng) == [blocks |-> <<>>, ng |-> ng, panic |-> FALSE]

NoNames == <<>>

Count(ng, base) == IF base \in DOMAIN ng THEN ng[base] ELSE 0

\* NameGen::fresh: the name given next, and the generator after it.
FreshName(st, base) == <<base, Count(st.ng, base) + 1>>

\* mutant: the generator does not count
FreshStuck(st, base) == st

Fresh(st, base) ==
    [st EXCEPT !.ng = (base :> Count(st.ng, base) + 1) @@ st.ng]

Panic(st) == [st EXCEPT !.panic = TRUE]

\* insert statements at position i of the block at depth d
PatchAt(st, d, i, ss) ==
    [st EXCEPT !.blocks[d].patches = @ \o [j \in DOMAIN ss |-> <<i, ss[j]>>]]

\* ... at the current statement of the enclosing block
Insert(st, ss) ==
    IF st.blocks = <<>> THEN Panic(st)   \* "Block context expected"
    ELSE PatchAt(st, Len(st.blocks), Last(st.blocks).index, ss)

\* ... at the top of the enclosing function or program
InsertTop(st, loc, s) ==
    IF loc.fn = 0 THEN Panic(st) ELSE PatchAt(st, loc.fn, 1, <<s>>)

\* mutant: the patches of one position come out in reverse
PatchesReversed(ss, patches) ==
    FlattenSeq([i \in DOMAIN ss |->
        [j \in DOMAIN SelectSeq(patches, LAMBDA p : p[1] = i) |->
            Reverse(SelectSeq(patches, LAMBDA p : p[1] = i))[j][2]] \o <<ss[i]>>])

\* The patches for one position go before the statement there, in the order
\* they were added.
ApplyPatches(ss, patches) ==
    FlattenSeq([i \in DOMAIN ss |->
        [j \in DOMAIN SelectSeq(patches, LAMBDA p : p[1] = i) |->
            SelectSeq(patches, LAMBDA p : p[1] = i)[j][2]] \o <<ss[i]>>])

----------------------------------------------------------------------------
(* The visitors: what each does to a node whose sub-terms it has visited.  *)

Same(n, st) == [n |-> n, st |-> st]

FunctionStmts(n, loc, st) ==
    IF n.k = "FuncStmt"
    THEN Same(Empty,
              InsertTop(st, loc, VarDecl1(n.x, [n EXCEPT !.k = "Func", !.x = NoDatum])))
    ELSE Same(n, st)

\* the default arguments of parseInt and Error
NormalizeStdLibCalls(n, loc, st) ==
    LET is(f, lens) == n.c[1] = Id(Named(f)) /\ Len(n.c) - 1 \in lens
    IN  IF n.k \notin {"Call", "New"} THEN Same(n, st)
        ELSE IF is("parseInt", {1}) THEN Same([n EXCEPT !.c = Append(@, IntLit(10))], st)
        ELSE IF is("Error", {0}) THEN Same([n EXCEPT !.c = Append(@, StrLit(<<>>))], st)
        ELSE IF \/ n.c[1] = Id(Named("parseInt")) /\ Len(n.c) # 3
                \/ n.c[1] = Id(Named("Error")) /\ Len(n.c) # 2
             THEN Same(n, Panic(st))
        ELSE Same(n, st)

EnsureBlock(s) == IF s.k = "Block" THEN s ELSE Block(<<s>>)

AddBlocks(n, loc, st) ==
    CASE n.k = "If" ->
           Same([n EXCEPT !.c[2] = EnsureBlock(@), !.c[3] = EnsureBlock(@)], st)
      [] n.k \in {"Loop", "Label"} -> Same([n EXCEPT !.c[1] = EnsureBlock(@)], st)
      [] OTHER -> Same(n, st)

SeparateVarDecls(n, loc, st) ==
    IF n.k = "VarDecl" /\ Len(n.c) > 1
    THEN Same(VarDecl(<<Last(n.c)>>),
              Insert(st, [i \in DOMAIN Front(n.c) |-> VarDecl(<<n.c[i]>>)]))
    ELSE Same(n, st)

LiftVars(n, loc, st) ==
    IF n.k = "VarDecl"
    THEN LET d == n.c[1]
         IN  Same(Expr(Assign(Id(d.x), d.c[1])),
                  InsertTop(st, loc, VarDecl1(d.x, Undefined)))
    ELSE Same(n, st)

----------------------------------------------------------------------------
(* desugar_this: the receiver becomes the first argument.                  *)

ThisName == <<"this", 1>>

ThisCall(n, st) ==
    LET f == n.c[1]
        obj == FreshName(st, "obj4this")
    IN  IF f.k \in {"Dot", "Bracket"}
        THEN Same([n EXCEPT !.c = <<[f EXCEPT !.c[1] = Id(obj)], Id(obj)>> \o Tail(@)],
                  Insert(Fresh(st, "obj4this"), <<VarDecl1(obj, f.c[1])>>))
        ELSE Same([n EXCEPT !.c = <<f, Undefined>> \o Tail(@)], st)

ThisNew(n, st) ==
    LET f == FreshName(st, "new_constructor")
        obj == FreshName(st, "new_obj")
        create == Call(Dot(Id(Named("Object")), "create"),
                       <<Id(Named("Object")), Dot(Id(f), "prototype")>>)
    IN  Same(Id(obj),
             Insert(Fresh(Fresh(st, "new_constructor"), "new_obj"),
                    <<VarDecl1(f, n.c[1]), VarDecl1(obj, create),
                      Expr(Call(Id(f), <<Id(obj)>> \o Tail(n.c)))>>))

ThisParameter(n, loc, st) ==
    CASE n.k = "Call" -> ThisCall(n, st)
      [] n.k = "New" -> ThisNew(n, st)
      [] n.k = "Func" ->
           Same([n EXCEPT !.c = <<Body(n), Param(ThisName)>> \o Params(n)], st)
      [] n.k = "This" -> Same(Id(ThisName), st)
      [] OTHER -> Same(n, st)

----------------------------------------------------------------------------

\* The result of a call gets a name, unless it has one.
NameFunctionCalls(n, loc, st) ==
    LET name == FreshName(st, "f_call")
    IN  IF n.k = "Call" /\ loc.ctx \notin {"VarDeclRhs", "AssignRhsEqual"}
        THEN Same(Id(name), Insert(Fresh(st, "f_call"), <<VarDecl1(name, n)>>))
        ELSE Same(n, st)

\* &&, ||, ?: and the comma.
DesugarLogical(n, loc, st) ==
    LET left == FreshName(st, "left")
        base == IF n.k = "Cond" THEN "if_expr"
                ELSE IF n.x = Named("And") THEN "and" ELSE "or"
        result == FreshName(st, base)
        set(e) == Expr(Assign(Id(result), e))
        var == VarDecl1(result, Undefined)
    IN  CASE n.k = "Logical" ->
               LET cons == IF n.x = Named("And") THEN n.c[2] ELSE Id(left)
                   alt == IF n.x = Named("And") THEN Id(left) ELSE n.c[2]
               IN  Same(Id(result),
                     Insert(Fresh(Fresh(st, "left"), base),
                       <<var, VarDecl1(left, n.c[1]), If(Id(left), set(cons), set(alt))>>))
          [] n.k = "Cond" ->
               Same(Id(result),
                    Insert(Fresh(st, base), <<var, If(n.c[1], set(n.c[2]), set(n.c[3]))>>))
          [] n.k = "Seq" ->
               Same(Last(n.c), Insert(st, [i \in DOMAIN Front(n.c) |-> Expr(n.c[i])]))
          [] OTHER -> Same(n, st)

----------------------------------------------------------------------------
(* desugar_updates: op= and ++ and --.                                     *)

RECURSIVE IsEssentiallyAtom(_)
IsEssentiallyAtom(e) ==
    \/ e.k \in {"Lit", "This", "Id"}
    \/ e.k \in {"Dot", "Bracket"} /\ \A i \in DOMAIN e.c : IsEssentiallyAtom(e.c[i])

LiftToId(e, st) ==
    LET name == FreshName(st, "update_assign")
    IN  IF IsEssentiallyAtom(e) THEN Same(e, st)
        ELSE Same(Id(name), Insert(Fresh(st, "update_assign"), <<VarDecl1(name, e)>>))

\* the sub-terms of an l-value that is both read and written are named
LvalToExpr(lv, st) ==
    FoldLeft(LAMBDA acc, i :
                 LET r == LiftToId(acc.n.c[i], acc.st)
                 IN  Same([acc.n EXCEPT !.c[i] = r.n], r.st),
             Same(lv, st), Indices(lv.c))

\* mutant: ++ and -- are left as they are
UpdatesOfOp(n, loc, st) ==
    LET lv == LvalToExpr(n.c[1], st)
    IN  IF n.k = "Assign" /\ n.x # Named("Equal")
        THEN Same(Assign(lv.n, Binary(n.x[1], lv.n, n.c[2])), lv.st) ELSE Same(n, st)

DesugarFancyUpdates(n, loc, st) ==
    LET lv == LvalToExpr(n.c[1], st)
        prefix == n.x[1] \in {"PreInc", "PreDec"}
        inc == n.x[1] \in {"PreInc", "PostInc"}
        update == Binary(IF inc THEN "Plus" ELSE "Minus", lv.n, IntLit(1))
        undo == Binary(IF inc THEN "Minus" ELSE "Plus", lv.n, IntLit(1))
    IN  CASE n.k = "Assign" /\ n.x # Named("Equal") ->
               Same(Assign(lv.n, Binary(n.x[1], lv.n, n.c[2])), lv.st)
          [] n.k = "UnaryAssign" ->
               Same(IF prefix THEN lv.n ELSE undo,
                    Insert(lv.st, <<Expr(Assign(lv.n, update))>>))
          [] OTHER -> Same(n, st)

----------------------------------------------------------------------------

ToDot(e) ==
    IF e.k = "Bracket" /\ e.c[2].k = "Lit" /\ e.c[2].x[1] = "string"
    THEN Dot(e.c[1], e.c[2].x[2][1])
    ELSE e

BracketToDot(n, loc, st) ==
    CASE n.k = "Bracket" -> Same(ToDot(n), st)
      [] n.k = "Assign" -> Same([n EXCEPT !.c[1] = ToDot(@)], st)
      [] OTHER -> Same(n, st)

ResugarMethodCall(n, loc, st) ==
    LET f == n.c[1]
    IN  CASE n.k = "Call" /\ f.k = "Dot" /\ f.c[1].k = "Id" ->
               Same(MethodCall(f.c[1].x, f.x, Tail(n.c)), st)
          [] n.k = "Call" /\ f.k = "Dot" /\ f.c[1].k # "Id" -> Same(n, Panic(st))
          [] n.k = "Dot" /\ n.x = Named("length") ->
               Same(Term("Length", n.c), st)
          [] OTHER -> Same(n, st)

----------------------------------------------------------------------------
(* The walk.                                                               *)

Exit(pass, n, loc, st) ==
    CASE pass = "desugar_function_stmts" -> FunctionStmts(n, loc, st)
      [] pass = "normalize_std_lib_calls" -> NormalizeStdLibCalls(n, loc, st)
      [] pass = "add_blocks" -> AddBlocks(n, loc, st)
      [] pass = "desugar_vardecls" -> SeparateVarDecls(n, loc, st)
      [] pass = "lift_vars" -> LiftVars(n, loc, st)
      [] pass = "desugar_this" -> ThisParameter(n, loc, st)
      [] pass = "desugar_function_applications" -> NameFunctionCalls(n, loc, st)
      [] pass = "desugar_logical" -> DesugarLogical(n, loc, st)
      [] pass = "desugar_updates" -> DesugarFancyUpdates(n, loc, st)
      [] pass = "desugar_bracket_str" -> BracketToDot(n, loc, st)
      [] pass = "resugar_method_call" -> ResugarMethodCall(n, loc, st)

\* desugar, without desugar_switch and desugar_loops
DesugarPasses ==
    <<"desugar_function_stmts", "normalize_std_lib_calls", "add_blocks",
      "desugar_vardecls", "lift_vars", "desugar_this",
      "desugar_function_applications", "desugar_logical", "desugar_updates",
      "desugar_bracket_str", "resugar_method_call">>

\* nodes that are part of their parent in the Rust syntax, or that it matches
\* without visiting: the walk goes through them (declarations, properties) or
\* stops (parameters)
Transparent == {"Decl", "Prop"}

\* the Context of the i-th sub-term of n
ChildContext(n, i) ==
    CASE n.k \in {"Func", "FuncStmt"} -> "FunctionBody"
      [] n.k = "Decl" -> "VarDeclRhs"
      [] n.k = "Assign" /\ i = 1 -> "LValue"
      [] n.k = "Assign" /\ i = 2 -> IF n.x = Named("Equal") THEN "AssignRhsEqual" ELSE "AssignRhs"
      [] n.k = "UnaryAssign" -> "LValue"
      [] OTHER -> "Node"

\* an l-value is not visited as an expression: only what is below it is
IsLValue(loc) == loc.ctx = "LValue"

RECURSIVE Walk(_, _, _, _)
Walk(pass, n, loc, st) ==
    LET block == n.k = "Block"
        depth == Len(st.blocks) + 1
        fn == IF block /\ loc.ctx \in {"Top", "FunctionBody"} THEN depth ELSE loc.fn
        enter == IF block
                 THEN [st EXCEPT !.blocks = Append(@, [index |-> 1, patches |-> <<>>])]
                 ELSE st
        step(acc, i) ==
            LET at == IF block THEN [acc.st EXCEPT !.blocks[depth].index = i] ELSE acc.st
                r == Walk(pass, n.c[i], [ctx |-> ChildContext(n, i), fn |-> fn], at)
            IN  Same([acc.n EXCEPT !.c[i] = r.n], r.st)
        done == FoldLeft(step, Same(n, enter), Indices(n.c))
        left == [done.st EXCEPT !.blocks = Front(@)]
    IN  IF block
        THEN Exit(pass,
                  [n EXCEPT !.c = ApplyPatches(done.n.c, Last(done.st.blocks).patches)],
                  loc, left)
        ELSE IF n.k \in Transparent \cup {"Param"} \/ IsLValue(loc) THEN done
        ELSE Exit(pass, done.n, loc, done.st)

\* One pass over a program: the program after it and the final state.
Desugared(pass, prog, ng) ==
    LET st == Start(ng)
        named == IF pass = "desugar_this" THEN Fresh(st, "this") ELSE st
    IN  Walk(pass, prog, [ctx |-> "Top", fn |-> 0], named)
============================================================================
