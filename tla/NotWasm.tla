------------------------------ MODULE NotWasm ------------------------------
(***************************************************************************)
(* What notwasm/compile.rs does to a NotWasm program before it generates   *)
(* code: type_checking.rs, which also annotates declarations with their    *)
(* types, and intern.rs, which gives strings a place in the data segment;  *)
(* data_cache of translation.rs puts inline caches behind them             *)
(* (DataSegment).                                                          *)
(*                                                                         *)
(* Types are those of JankyScript; "fn" is the type of a function of the   *)
(* program, "fun" that of a closure.  Both take an environment first in    *)
(* NotWasm, which is left out.                                             *)
(***************************************************************************)
EXTENDS Typing, DataSegment

FnType(f) == <<"fn", Map(LAMBDA p : p.t, Params(f)), f.t>>

EnsureRef(t) == IF t[1] = "ref" THEN t[2] ELSE Error

\* assert_variant_of_any: what a tagged value may hold
VariantOfAny(t) == t[1] \notin {"any", "ref", "error"}

\* an atom of type t under the conversions of c
RECURSIVE CheckConverted(_, _)
CheckConverted(c, t) ==
    CASE t = Error -> Error
      [] c[1] = "Tag" -> IF VariantOfAny(t) THEN AnyType ELSE Error
      [] c[1] = "Untag" -> IF t = AnyType THEN c[2] ELSE Error
      [] c[1] = "FloatToInt" -> IF t = Float THEN Int_ ELSE Error
      [] c[1] = "IntToFloat" -> IF t = Int_ THEN Float ELSE Error
      [] c[1] = "Seq" -> CheckConverted(c[3], CheckConverted(c[2], t))
      [] OTHER -> t

\* type_check_call: as many arguments as parameters, and of their types
CheckCall(t, ts) == IF t[1] \in {"fun", "fn"} /\ t[2] = ts THEN t[3] ELSE Error

RECURSIVE CheckExpr(_, _)

\* ArraySet: what ensure says of the array and of the value is dropped
CheckArraySet(ts) == IF ts[2] = Int_ /\ Error \notin Range(ts) THEN AnyType ELSE Error

\* type_check_expr and type_check_atom; ts are the types of the sub-terms
CheckNode(e, ts, env) ==
    CASE e.k = "Lit" -> TypLit(e.x)
      [] e.k = "Id" -> Lookup(env, e.x)
      [] e.k = "EnvGet" -> e.t
      [] e.k = "Deref" -> Ensure(e.t, EnsureRef(ts[1]))
      [] e.k = "NewRef" -> IF ts[1] = e.t THEN <<"ref", e.t>> ELSE Error
      [] e.k = "Coercion" -> CheckConverted(e.t, ts[1])
      [] e.k = "Object" -> DynObject
      [] e.k = "Dot" -> IF ts[1] = DynObject THEN AnyType ELSE Error
      [] e.k = "Bracket" ->
           IF ts \in {<<DynObject, String>>, <<Array, Int_>>} THEN AnyType ELSE Error
      [] e.k = "Assign" /\ e.c[1].k = "Bracket" /\ e.c[1].t = Array ->
           CheckArraySet(Map(LAMBDA m : CheckExpr(m, env), Append(e.c[1].c, e.c[2])))
      [] e.k = "Assign" -> IF ts = <<AnyType, AnyType>> THEN AnyType ELSE Error
      [] e.k \in {"Length", "MethodCall"} ->
           IF \A i \in DOMAIN ts : ts[i] = AnyType THEN AnyType ELSE Error
      [] e.k \in {"Unary", "Binary", "PrimCall"} -> CheckCall(JankyTyp(e.x[1]), ts)
      [] e.k = "Call" -> IF IsFun(ts[1]) THEN CheckCall(ts[1], Tail(ts)) ELSE Error
      [] e.k = "Closure" -> IF ts[1][1] = "fn" THEN Fun(ts[1][2], ts[1][3]) ELSE Error
      [] OTHER -> Error

CheckExpr(e, env) == CheckNode(e, Map(LAMBDA m : CheckExpr(m, env), e.c), env)

\* The statement as it is annotated, and the environment after it.
Checked(ok, s, env) == [ok |-> ok, s |-> s, env |-> env]

\* a declaration of a type that holds undefined is an initialization
CheckVar(s, env) ==
    LET got == CheckExpr(s.c[1], env)
        t == IF IsUndefined(s.c[1]) /\ s.t # Missing THEN s.t ELSE got
    IN  Checked(got # Error /\ s.t \in {Missing, t}, [s EXCEPT !.t = t], (s.x :> t) @@ env)

RECURSIVE CheckStmt(_, _, _)

\* the parts of s from the i-th on, in the environment of s or one after the other
CheckParts(s, from, env, ret, scoped) ==
    FoldLeft(LAMBDA acc, i :
                 LET r == CheckStmt(s.c[i], IF scoped THEN env ELSE acc.env, ret)
                 IN  Checked(acc.ok /\ r.ok, [acc.s EXCEPT !.c[i] = r.s], r.env),
             Checked(TRUE, s, env), SelectSeq(Indices(s.c), LAMBDA i : i >= from))

\* type_check_stmt; ret is Missing for main
CheckStmt(s, env, ret) ==
    LET t == CheckExpr(s.c[1], env)
        e == s.c[1]
        scope(r) == [r EXCEPT !.env = env]
    IN  CASE s.k \in {"Empty", "Break"} -> Checked(TRUE, s, env)
          [] s.k = "Var" -> CheckVar(s, env)
          [] s.k = "Expr" /\ e.k = "Assign" /\ e.c[1].k = "Id" ->
               Checked(Lookup(env, e.c[1].x) = CheckExpr(e.c[2], env), s, env)
          [] s.k = "Expr" -> Checked(t # Error, s, env)
          [] s.k = "Store" -> Checked(EnsureRef(t) = CheckExpr(s.c[2], env), s, env)
          [] s.k = "If" ->
               LET r == CheckParts(s, 2, env, ret, TRUE) IN scope([r EXCEPT !.ok = @ /\ t = Bool])
          [] s.k \in {"Loop", "Label"} -> scope(CheckParts(s, 1, env, ret, TRUE))
          [] s.k = "Block" -> scope(CheckParts(s, 1, env, ret, FALSE))
          [] s.k = "Return" -> Checked(ret # Missing /\ t = ret, s, env)

\* type_check, of a Program
CheckProgram(prog) ==
    LET fns == FoldLeft(LAMBDA acc, f : (f.x :> FnType(f)) @@ acc, <<>>, prog.c)
        inside(f) == FoldLeft(LAMBDA acc, p : (p.x :> p.t) @@ acc, fns, Params(f))
        body(f) == CheckStmt(Body(f), inside(f), f.t)
        bodies == Map(body, prog.c)
        annotated(i) == [prog.c[i] EXCEPT !.c[1] = bodies[i].s]
    IN  [ok |-> /\ \A i \in DOMAIN bodies : bodies[i].ok
                /\ Cardinality(DOMAIN fns) = Len(prog.c),
         n |-> [prog EXCEPT !.c = Map(annotated, Indices(prog.c))]]

----------------------------------------------------------------------------
(* What of a program goes into the data segment.                           *)

\* the string that is a part of a node
Text(n) ==
    CASE n.k = "Lit" /\ n.x[1] = "string" -> <<IF n.x[2] = <<>> THEN "" ELSE n.x[2][1]>>
      [] n.k \in {"Dot", "MethodCall"} -> <<n.x[1]>>
      [] n.k = "Length" -> <<"length">>
      [] OTHER -> <<>>

\* the nodes of a term, in the order in which they are visited
RECURSIVE Visited(_)
Visited(n) == FoldLeft(LAMBDA acc, m : acc \o Visited(m), <<>>, n.c) \o <<n>>

\* intern: every string of the program
Intern(n, segment) ==
    InternAll(Map(LAMBDA m : Text(m)[1], SelectSeq(Visited(n), LAMBDA m : Text(m) # <<>>)),
              segment)

IsAccess(n) == n.k = "Dot" \/ (n.k = "Bracket" /\ n.t # Array)

\* data_cache: a cache for each object access
DataCaches(n, segment) == CacheAll(SelectSeq(Visited(n), IsAccess), segment)
============================================================================
