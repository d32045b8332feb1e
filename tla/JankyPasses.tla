---------------------------- MODULE JankyPasses ----------------------------
(***************************************************************************)
(* The passes of jankyscript/compile.rs around type inference: from_js.rs, *)
(* insert_returns.rs, fv.rs, collect_assigns.rs, box_assigns.rs and        *)
(* closure_convert.rs.                                                     *)
(*                                                                         *)
(* Once free_vars has run, the datum of a Func is                          *)
(* <<"fn", free_vars, assigned_free_children>>: a function from Ids to     *)
(* types and a set of Ids.                                                 *)
(***************************************************************************)
EXTENDS Ast, TLC, FiniteSets

----------------------------------------------------------------------------
(* from_js.rs: what is left to desugar is unexpected.                      *)

Unexpected == Term("Panic", <<>>)

UnexpectedKinds ==
    {"This", "New", "Logical", "UnaryAssign", "Cond", "Seq", "FuncStmt", "Panic"}

RECURSIVE FromJs(_)
FromJs(n) ==
    LET c == Map(FromJs, n.c)
    IN  CASE n.k \in UnexpectedKinds -> Unexpected
          [] n.k \in {"Unary", "Binary"} -> [n EXCEPT !.k = "JsOp", !.c = c]
          [] n.k = "Assign" -> [n EXCEPT !.x = Named("Equal"), !.c = c]
          [] n.k = "VarDecl" ->
               IF Len(c) = 1 THEN [c[1] EXCEPT !.k = "Var"] ELSE Unexpected
          [] OTHER -> [n EXCEPT !.c = c]

----------------------------------------------------------------------------
(* insert_returns.rs                                                       *)

RECURSIVE Returns(_)
Returns(s) ==
    CASE s.k = "Block" -> \E i \in DOMAIN s.c : Returns(s.c[i])
      [] s.k = "If" -> Returns(s.c[2]) /\ Returns(s.c[3])
      [] OTHER -> s.k = "Return"

WithReturn(f) ==
    IF Returns(Body(f)) THEN f
    ELSE [f EXCEPT !.c[1].c = Append(@, Return(Undefined))]

RECURSIVE InsertReturns(_)
InsertReturns(n) ==
    LET m == [n EXCEPT !.c = Map(InsertReturns, n.c)]
    IN  IF n.k = "Func" THEN WithReturn(m) ELSE m

----------------------------------------------------------------------------
(* fv.rs                                                                   *)

NoIds == <<>>
Union_(maps) == FoldLeft(LAMBDA acc, m : acc @@ m, NoIds, maps)
Without(map, ids) == [x \in DOMAIN map \ ids |-> map[x]]

\* the variables that a body declares (var_summary)
RECURSIVE DeclaredIn(_)
DeclaredIn(n) ==
    CASE n.k = "Var" -> {n.x}
      [] n.k = "Func" -> {}
      [] OTHER -> UNION {DeclaredIn(n.c[i]) : i \in DOMAIN n.c}

RECURSIVE Referenced(_)
\* the free variables of a function
Fv(f) ==
    Without(Referenced(Body(f)),
            DeclaredIn(Body(f)) \cup {Params(f)[i].x : i \in DOMAIN Params(f)})

Referenced(n) ==
    CASE n.k = "Id" -> n.x :> n.t
      [] n.k = "Func" -> Fv(n)
      [] OTHER -> Union_(Map(Referenced, n.c))

RECURSIVE FreeVars(_)
FreeVars(n) ==
    LET m == [n EXCEPT !.c = Map(FreeVars, n.c)]
    IN  IF n.k = "Func" THEN [m EXCEPT !.x = <<"fn", Fv(n), {}>>] ELSE m

----------------------------------------------------------------------------
(* collect_assigns.rs                                                      *)

\* the variables that n assigns, in the functions within it too
RECURSIVE AssignedVars(_)
AssignedVars(n) ==
    (IF n.k = "Assign" /\ n.c[1].k = "Id" THEN {n.c[1].x} ELSE {})
    \cup UNION {AssignedVars(n.c[i]) : i \in DOMAIN n.c}

\* the variables that are free in a function created in n
RECURSIVE FreeChildren(_)
FreeChildren(n) ==
    IF n.k = "Func" THEN DOMAIN n.x[2]
    ELSE UNION {FreeChildren(n.c[i]) : i \in DOMAIN n.c}

\* mutant: only what the function itself assigns is boxed
AssignedHere(body) ==
    FreeChildren(body) \cap UNION {IF s.k = "Expr" THEN AssignedVars(s) ELSE {} : s \in Range(body.c)}

AssignedFreeChildren(body) == FreeChildren(body) \cap AssignedVars(body)

RECURSIVE CollectAssigns(_)
CollectAssigns(n) ==
    LET m == [n EXCEPT !.c = Map(CollectAssigns, n.c)]
    IN  IF n.k = "Func" THEN [m EXCEPT !.x[3] = AssignedFreeChildren(Body(m))] ELSE m

----------------------------------------------------------------------------
(* box_assigns.rs                                                          *)

Ref(t) == <<"ref", t>>
NewRef(e, t) == Node("NewRef", NoDatum, t, <<e>>)
Deref(e, t) == Node("Deref", NoDatum, t, <<e>>)
Store(x, e, t) == Node("Store", NoDatum, t, <<Node("Id", x, Ref(t), <<>>), e>>)
TypedId(x, t) == Node("Id", x, t, <<>>)

\* mutant: the original parameter is not copied into a box
ParamsKept(f, box, k) == [f |-> f, k |-> k]

\* Parameters that are boxed get a fresh name, and a variable of their own
\* name; k is the number of names given.
BoxParams(f, box, k) ==
    FoldLeft(LAMBDA acc, i :
                 LET p == acc.f.c[i]
                     fresh == <<"to_box", acc.k + 1>>
                 IN  IF i = 1 \/ p.x \notin box THEN acc
                     ELSE [f |-> [acc.f EXCEPT
                                   !.c[i].x = fresh,
                                   !.c[1] = Block(<<Var(p.x, p.t, TypedId(fresh, p.t)), @>>)],
                           k |-> acc.k + 1],
             [f |-> f, k |-> k], Indices(f.c))

EnterFn(f, box, k) ==
    LET fv == [x \in DOMAIN f.x[2] |-> IF x \in box THEN Ref(f.x[2][x]) ELSE f.x[2][x]]
    IN  BoxParams([f EXCEPT !.x[2] = fv], box, k)

BoxExit(n, box) ==
    CASE n.k = "Id" /\ n.x \in box -> Deref([n EXCEPT !.t = Ref(@)], n.t)
      [] n.k = "Assign" /\ n.c[1].k = "Id" /\ n.c[1].x \in box ->
           Store(n.c[1].x, n.c[2], n.c[1].t)
      [] n.k = "Var" /\ n.x \in box ->
           IF n.t # <<"any">> /\ IsUndefined(n.c[1])
           THEN [n EXCEPT !.t = Ref(@)]                     \* is_init
           ELSE Var(n.x, Ref(n.t), NewRef(n.c[1], n.t))
      [] OTHER -> n

RECURSIVE BoxWalk(_, _, _)
BoxWalk(n, box, k) ==
    LET inner == IF n.k = "Func" THEN box \cup n.x[3] ELSE box
        enter == IF n.k = "Func" THEN EnterFn(n, inner, k) ELSE [f |-> n, k |-> k]
        step(acc, i) ==
            LET r == BoxWalk(acc.n.c[i], inner, acc.k)
            IN  IF acc.n.k = "Assign" /\ i = 1 /\ acc.n.c[1].k = "Id" THEN acc
                ELSE [n |-> [acc.n EXCEPT !.c[i] = r.n], k |-> r.k]
        done == FoldLeft(step, [n |-> enter.f, k |-> enter.k], Indices(enter.f.c))
    IN  [done EXCEPT !.n = BoxExit(@, box)]

BoxAssigns(prog) == BoxWalk(prog, AssignedFreeChildren(prog), 0).n

----------------------------------------------------------------------------
(* closure_convert.rs                                                      *)

\* mutant: the environment is read from its end
CompileIdFromEnd(x, t, env) ==
    IF x \in Range(env)
    THEN Node("EnvGet", <<"env", CHOOSE i \in DOMAIN env : env[Len(env) + 1 - i] = x>>, t, <<>>)
    ELSE TypedId(x, t)

\* compile_id: env lists the free variables of the function around
CompileId(x, t, env) ==
    IF x \in Range(env)
    THEN Node("EnvGet", <<"env", CHOOSE i \in DOMAIN env : env[i] = x>>, t, <<>>)
    ELSE TypedId(x, t)

RECURSIVE Convert(_, _)
Convert(n, env) ==
    LET fv == n.x[2]
        own == SetToSeq(DOMAIN fv)
        convert(i) ==
            IF n.k = "Assign" /\ n.c[i].k = "Id" /\ i = 1 THEN n.c[i]
            ELSE Convert(n.c[i], IF n.k = "Func" THEN own ELSE env)
        c == Map(convert, Indices(n.c))
    IN  CASE n.k = "Id" -> CompileId(n.x, n.t, env)
          [] n.k = "Func" ->
               Term("Closure", <<[n EXCEPT !.c = c]>>
                               \o [i \in DOMAIN own |-> CompileId(own[i], fv[own[i]], env)])
          [] OTHER -> [n EXCEPT !.c = c]

ClosureConvert(prog) == Convert(prog, <<>>)
============================================================================
