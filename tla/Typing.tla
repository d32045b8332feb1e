------------------------------- MODULE Typing -------------------------------
(***************************************************************************)
(* Types: jankyscript/typeinf.rs, operators.rs, select_method_call.rs,     *)
(* coercions.rs and type_checking.rs, with shared/types.rs, coercions.rs,  *)
(* methods.rs and std_lib.rs.                                              *)
(*                                                                         *)
(* Type inference gives every variable, parameter and result a             *)
(* metavariable, asks Z3 for types that meet all the constraints and miss  *)
(* as few weights as it can, and writes coercions where two types differ.  *)
(* Infer computes those solutions: a partial solution is                   *)
(*   n      the term, with its coercions                                   *)
(*   t      its type                                                       *)
(*   env    the metavariable of each variable in scope                     *)
(*   mv     the types of the metavariables that are known so far           *)
(*   cost   how many weights are false                                     *)
(* A metavariable is bound when its variable is first used.                *)
(*                                                                         *)
(* A type is a tuple.  While types are inferred, a function type           *)
(* <<"fun", args, result, must_ground>> has a flag, as in Z3Typ.           *)
(***************************************************************************)
EXTENDS Ast, TLC, FiniteSets

CONSTANTS
    BaseTypes,     \* what an unknown variable or parameter may be, functions aside
    FunctionTypes  \* the types of functions that it may have

AnyType == <<"any">>
Int_ == <<"int">>
Float == <<"float">>
Bool == <<"bool">>
String == <<"string">>
DynObject == <<"object">>
Array == <<"array">>

\* Type::Function
Fun(args, ret) == <<"fun", args, ret>>
IsFun(t) == t[1] = "fun"
Anys(n) == [i \in 1..n |-> AnyType]
GroundFunction(n) == Fun(Anys(n), AnyType)

\* Type::is_ground
IsGround(t) == IsFun(t) => t[3] = AnyType /\ \A i \in DOMAIN t[2] : t[2][i] = AnyType

Std == (Named("log_any") :> GroundFunction(2)) @@ (Named("Object") :> DynObject)

TypLit(lit) ==
    CASE lit[1] \in {"int", "float", "bool", "string"} -> <<lit[1]>>
      [] OTHER -> AnyType

----------------------------------------------------------------------------
(* operators.rs: each JavaScript operator has overloads, and at most one   *)
(* that any operand may be coerced to.                                     *)

Overload(args, ret, op, k) == [t |-> Fun(args, ret), op |-> op, k |-> k]
Arith(f64, i32, rts) ==
    {Overload(<<Float, Float>>, Float, f64, "Binary"),
     Overload(<<Int_, Int_>>, Int_, i32, "Binary"),
     Overload(<<AnyType, AnyType>>, AnyType, rts, "PrimCall")}
Compare(i32) == {Overload(<<Int_, Int_>>, Bool, i32, "Binary")}

Overloads(op, arity) ==
    CASE op = "Plus" /\ arity = 2 ->
           {Overload(<<Int_, Int_>>, Int_, "I32Add", "Binary"),
            Overload(<<String, String>>, String, "string_concat", "PrimCall"),
            Overload(<<AnyType, AnyType>>, AnyType, "jnks_plus", "PrimCall")}
      [] op = "Minus" /\ arity = 2 -> Arith("F64Sub", "I32Sub", "janky_minus")
      [] op = "Times" -> Arith("F64Mul", "I32Mul", "janky_times")
      [] op = "StrictEqual" ->
           {Overload(<<Int_, Int_>>, Bool, "I32Eq", "Binary"),
            Overload(<<Float, Float>>, Bool, "F64Eq", "Binary"),
            Overload(<<AnyType, AnyType>>, Bool, "janky_strict_equal", "PrimCall")}
      [] op = "LessThan" -> Compare("I32LT")
      [] op = "GreaterThan" -> Compare("I32GT")
      [] op = "Minus" /\ arity = 1 ->
           {Overload(<<Int_>>, Int_, "I32Neg", "Unary"),
            Overload(<<Float>>, Float, "F64Neg", "Unary"),
            Overload(<<AnyType>>, AnyType, "janky_neg", "PrimCall")}
      [] op = "Plus" /\ arity = 1 -> {Overload(<<Int_>>, Int_, "Nop", "Unary")}
      [] OTHER -> {}

Coercible(op, arity) ==
    CASE op = "LessThan" -> {Overload(<<Float, Float>>, Bool, "F64LT", "Binary")}
      [] op = "GreaterThan" -> {Overload(<<Float, Float>>, Bool, "F64GT", "Binary")}
      [] op = "Or" -> {Overload(<<Int_, Int_>>, Int_, "I32Or", "Binary")}
      [] op = "Not" -> {Overload(<<Bool>>, Bool, "Eqz", "Unary")}
      [] op = "Plus" /\ arity = 1 -> {Overload(<<Float>>, Float, "Nop", "Unary")}
      [] OTHER -> {}

\* janky_typ: the types that the type checker knows the operators by
JankyTyp(op) ==
    CASE op \in {"I32Add", "I32Sub", "I32Mul", "I32Or"} -> Fun(<<Int_, Int_>>, Int_)
      [] op \in {"F64Sub", "F64Mul"} -> Fun(<<Float, Float>>, Float)
      [] op \in {"I32Eq", "I32LT", "I32GT"} -> Fun(<<Int_, Int_>>, Bool)
      [] op \in {"F64Eq", "F64LT", "F64GT"} -> Fun(<<Float, Float>>, Bool)
      [] op \in {"I32Neg", "Nop"} -> Fun(<<Int_>>, Int_)
      [] op = "F64Neg" -> Fun(<<Float>>, Float)
      [] op = "Eqz" -> Fun(<<Bool>>, Bool)
      [] op \in {"jnks_plus", "janky_minus", "janky_times"} -> Fun(<<AnyType, AnyType>>, AnyType)
      [] op = "janky_strict_equal" -> Fun(<<AnyType, AnyType>>, Bool)
      [] op = "janky_neg" -> Fun(<<AnyType>>, AnyType)
      [] op = "string_concat" -> Fun(<<String, String>>, String)
      [] op = "string_length" -> Fun(<<String>>, Int_)
      [] op = "array_new" -> Fun(<<>>, Array)
      [] op = "array_push" -> Fun(<<Array, AnyType>>, Int_)
      [] op = "array_concat" -> Fun(<<Array, Array>>, Array)
      [] op = "array_length" -> Fun(<<Array>>, Int_)

----------------------------------------------------------------------------
(* Partial solutions.                                                      *)

Free == <<"free">>
Meta(t1, t2) == <<"Meta", t1, t2>>
CoercionOf(c, e) == Node("Coercion", NoDatum, c, <<e>>)

\* the must_ground flag is no part of the type that is written
RECURSIVE Erase(_)
Erase(t) ==
    CASE t[1] = "fun" -> Fun([i \in DOMAIN t[2] |-> Erase(t[2][i])], Erase(t[3]))
      [] t[1] = "Meta" -> Meta(Erase(t[2]), Erase(t[3]))
      [] OTHER -> t

\* coerce, and the visitor that drops the coercions between equal types
Coerce(src, dst, e) ==
    IF Erase(src) = Erase(dst) THEN e ELSE CoercionOf(Meta(Erase(src), Erase(dst)), e)

\* the type of a function as zfun builds it
FunZ(args, ret, mustGround) == <<"fun", args, ret, mustGround>>
Typeinf_is_ground(t) == IsFun(t) => t[4]

\* Of the solutions that agree on what the rest of the program can see, the
\* ones that miss the fewest weights.
Best(ps) ==
    {p \in ps : \A q \in ps : q.cost < p.cost => q.t # p.t \/ q.mv # p.mv}

UnknownTypes ==
    BaseTypes \cup {FunZ(f[2], f[3], g) : f \in FunctionTypes, g \in BOOLEAN}

\* the solutions in which metavariable m has one of the given types
Solve(p, m, ts) ==
    IF p.mv[m] = Free THEN {[p EXCEPT !.mv[m] = t] : t \in ts}
    ELSE IF p.mv[m] \in ts THEN {p} ELSE {}

AnyMv(p, m) == IF p.mv[m] = Free THEN {[p EXCEPT !.mv[m] = t] : t \in UnknownTypes} ELSE {p}

\* a fresh metavariable for x
Declare(p, x) == [p EXCEPT !.mv = Append(@, Free), !.env = (x :> Len(p.mv) + 1) @@ @]

Is(p, n, t, cost) == [p EXCEPT !.n = n, !.t = t, !.cost = @ + cost]

\* mutant: whatever the type, it may become any
WobblyAnything(ps) ==
    ps \cup {Is(p, Coerce(p.t, AnyType, p.n), AnyType, 1) : p \in {q \in ps : q.t # AnyType}}

\* wobbly: the type, or any for the price of a weight
Wobbly(ps) ==
    ps \cup {Is(p, Coerce(p.t, AnyType, p.n), AnyType, 1) :
                p \in {q \in ps : q.t # AnyType /\ Typeinf_is_ground(q.t)}}

----------------------------------------------------------------------------
(* cgen_expr and cgen_stmt.                                                *)

RECURSIVE InferExpr(_, _), InferStmt(_, _)

\* several expressions: n and t are sequences
InferExprs(es, p) ==
    FoldLeft(LAMBDA acc, e :
                 UNION {{[q EXCEPT !.n = Append(a.n, @), !.t = Append(a.t, @)] :
                            q \in InferExpr(e, a)} : a \in acc},
             {Is(p, <<>>, <<>>, 0)}, es)

CoerceAll(es, from, to) == [i \in DOMAIN es |-> Coerce(from[i], to[i], es[i])]

InferId(e, p) ==
    LET typed(q, t) == Is(q, [e EXCEPT !.t = Erase(t)], t, 0)
        m == p.env[e.x]
        std == Std[e.x]
    IN  IF e.x \in DOMAIN p.env THEN Wobbly({typed(q, q.mv[m]) : q \in AnyMv(p, m)})
        ELSE IF e.x \notin DOMAIN Std THEN {}                  \* "Poorly scoped"
        ELSE IF ~IsFun(std) THEN Wobbly({typed(p, std)})
        ELSE Wobbly({typed(p, FunZ(std[2], std[3], g)) : g \in BOOLEAN})

\* cgen_dot: e is the container of type q.t
InferDot(e, p) ==
    {Is(q, [e EXCEPT !.c = <<Coerce(q.t, DynObject, q.n)>>], AnyType,
        IF q.t = DynObject THEN 0 ELSE 1) :
        q \in {r \in InferExpr(e.c[1], p) : r.t \in {DynObject, AnyType}}}

\* cgen_bracket: the final types of container and field, and what they cost
BracketTypes(ot, ft) ==
    {[o |-> k[1], f |-> k[2], cost |-> IF ot = k[1] /\ ft = k[2] THEN 0 ELSE 1] :
        k \in {j \in {<<DynObject, String>>, <<Array, Int_>>} :
                  \/ ot = j[1] /\ ft \in {j[2], AnyType}
                  \/ ft = j[2] /\ ot \in {j[1], AnyType}}}
    \cup (IF ot = AnyType /\ ft = AnyType
          THEN {[o |-> AnyType, f |-> AnyType, cost |-> 1]} ELSE {})

InferBracket(e, p) ==
    UNION {{Is(q, [e EXCEPT !.t = b.o, !.c = CoerceAll(q.n, q.t, <<b.o, b.f>>)], AnyType, b.cost) :
               b \in BracketTypes(q.t[1], q.t[2])} : q \in InferExprs(e.c, p)}

InferJsOp(e, p) ==
    LET arity == Len(e.c)
        apply(q, o, cost) ==
            Is(q, Node(o.k, Named(o.op), Missing, CoerceAll(q.n, q.t, o.t[2])), o.t[3], cost)
        fits(q, o) == \A i \in 1..arity : q.t[i] \in {o.t[2][i], AnyType}
    IN  Wobbly(UNION {{apply(q, o, 0) : o \in {x \in Overloads(e.x[1], arity) : x.t[2] = q.t}}
                      \cup {apply(q, o, IF o.t[2] = q.t THEN 0 ELSE 1) :
                                o \in {x \in Coercible(e.x[1], arity) : fits(q, x)}} :
                     q \in InferExprs(e.c, p)})

\* METHODS_TABLE: the types of the methods of strings and arrays
Methods(name, arity) ==
    CASE name = "concat" /\ arity = 2 -> {Fun(<<Array, Array>>, Array), Fun(<<String, String>>, String)}
      [] name = "push" /\ arity = 2 -> {Fun(<<Array, AnyType>>, Int_)}
      [] name = "slice" /\ arity = 3 ->
           {Fun(<<String, Int_, Int_>>, String), Fun(<<Array, Int_, Int_>>, Array)}
      [] OTHER -> {}

\* cgen_method_call: the object's type and the method's
PossibleTypes(name, arity) ==
    {<<t[2][1], t>> : t \in Methods(name, arity)}
    \cup {<<DynObject, GroundFunction(arity)>>}
    \cup {<<AnyType, t>> : t \in IF Methods(name, arity) = {} THEN {} ELSE {GroundFunction(arity)}}

InferMethodCall(e, p) ==
    LET arity == Len(e.c) - 1
        prim == Methods(e.x[1], arity) # {}
        objOk(ot, k) == ot = k[1] \/ (~prim /\ ot = AnyType)
        argsOk(ts, k) == \A i \in DOMAIN ts : ts[i] \in {k[2][2][i], AnyType}
        cost(ot, ts, k) == (IF ot = k[1] THEN 0 ELSE 1)
                           + Cardinality({i \in DOMAIN ts : ts[i] # k[2][2][i]})
    IN  Wobbly(UNION {{Is(q, [e EXCEPT !.t = k[1],
                                       !.c = CoerceAll(q.n, q.t, <<k[1]>> \o k[2][2])],
                         k[2][3], cost(q.t[1], Tail(q.t), k)) :
                          k \in {x \in PossibleTypes(e.x[1], arity) :
                                    objOk(q.t[1], x) /\ argsOk(Tail(q.t), x)}} :
                     q \in InferExprs(e.c, p)})

InferLength(e, p) ==
    LET of(t) == IF t \in {String, Array} THEN Int_ ELSE AnyType
    IN  Wobbly({Is(q, [e EXCEPT !.t = q.t, !.c = <<q.n>>], of(q.t), 0) :
                   q \in {r \in InferExpr(e.c[1], p) : r.t \in {String, Array, DynObject, AnyType}}})

InferAssign(e, p) ==
    LET lv == e.c[1]
        rhs == InferExpr(e.c[2], p)
    IN  IF lv.k = "Id"
        THEN UNION {{Is(r, [e EXCEPT !.c = <<[lv EXCEPT !.t = Erase(q.t)], q.n>>], q.t, 0) :
                        r \in Solve(q, p.env[lv.x], {q.t})} : q \in rhs}
        ELSE UNION {{Is(r, [e EXCEPT !.c = <<r.n, q.n>>], AnyType, 0) :
                        r \in IF lv.k = "Dot" THEN InferDot(lv, q) ELSE InferBracket(lv, q)} :
                    q \in {s \in rhs : s.t = AnyType}}

\* The function has the type of the call, or everything is any.  The result
\* may become any in turn.
InferCall(e, p) ==
    LET call(q) ==
            LET f == q.t[1]
                args == Tail(q.t)
                beta == IF IsFun(f) THEN f[3] ELSE AnyType
                to == Fun(args, beta)
                n == [e EXCEPT !.c = <<Coerce(f, to, q.n[1])>> \o Tail(q.n)]
                ok == IF IsFun(f) THEN f[2] = args
                      ELSE f = AnyType /\ \A i \in DOMAIN args : args[i] = AnyType
            IN  IF ok THEN {Is(q, n, beta, IF IsFun(f) THEN 0 ELSE 1)} ELSE {}
        plain == UNION {call(q) : q \in InferExprs(e.c, p)}
    IN  plain \cup {Is(q, Coerce(q.t, AnyType, q.n), AnyType, 1) : q \in {r \in plain : r.t # AnyType}}

\* the key of the type of the result in an environment
Result == Named("return")

\* Every call passes an any for the receiver.
Receiver == <<"this", 1>>

InferFunc(e, p) ==
    LET params == Params(e)
        bind(acc, x) == Declare(acc, x)
        inside == Declare(FoldLeft(bind, p, [i \in DOMAIN params |-> params[i].x]), Result)
        mvs == [i \in DOMAIN params |-> inside.env[params[i].x]]
        enter == [inside EXCEPT !.mv =
                     [m \in DOMAIN @ |-> IF Receiver \in DOMAIN inside.env
                                            /\ m = inside.env[Receiver] /\ @[m] = Free
                                         THEN AnyType ELSE @[m]]]
        known(ps, m) == UNION {AnyMv(q, m) : q \in ps}
        ends == FoldLeft(known, InferStmt(Body(e), enter), Append(mvs, inside.env[Result]))
        func(q) ==
            LET args == [i \in DOMAIN mvs |-> q.mv[mvs[i]]]
                ret == q.mv[inside.env[Result]]
                n == [e EXCEPT !.t = Erase(ret),
                               !.c = <<q.n>> \o [i \in DOMAIN params |->
                                                   [params[i] EXCEPT !.t = Erase(args[i])]]]
                out == [q EXCEPT !.env = p.env]
            IN  {Is(out, n, FunZ(args, ret, FALSE), 0)}
                \cup IF IsGround(Fun(args, ret))
                     THEN {Is(out, Coerce(Fun(args, ret), AnyType, n), AnyType, 1)} ELSE {}
    IN  UNION {func(q) : q \in ends}

InferExpr(e, p) ==
    Best(CASE e.k = "Lit" -> Wobbly({Is(p, e, TypLit(e.x), 0)})
           [] e.k = "Id" -> InferId(e, p)
           [] e.k \in {"Object", "Array"} ->
                Wobbly({Is(q, [e EXCEPT !.c = q.n], IF e.k = "Object" THEN DynObject ELSE Array, 0) :
                           q \in {r \in InferExprs(e.c, p) : \A i \in DOMAIN r.t : r.t[i] = AnyType}})
           [] e.k = "Prop" -> {[q EXCEPT !.n = [e EXCEPT !.c = <<q.n>>]] : q \in InferExpr(e.c[1], p)}
           [] e.k = "Dot" -> InferDot(e, p)
           [] e.k = "Bracket" -> InferBracket(e, p)
           [] e.k = "JsOp" -> InferJsOp(e, p)
           [] e.k = "MethodCall" -> InferMethodCall(e, p)
           [] e.k = "Length" -> InferLength(e, p)
           [] e.k = "Assign" -> InferAssign(e, p)
           [] e.k = "Call" -> InferCall(e, p)
           [] e.k = "Func" -> InferFunc(e, p))

InferVar(s, p) ==
    LET q == Declare(p, s.x)
        m == q.env[s.x]
        n(e) == [s EXCEPT !.t = <<"metavar", m>>, !.c = <<e>>]
    IN  IF IsUndefined(s.c[1]) THEN {Is(q, n(s.c[1]), AnyType, 0)}
        ELSE UNION {{Is(r, n(r.n), AnyType, 0) : r \in Solve(d, m, {d.t})} :
                       d \in InferExpr(s.c[1], q)}

InferReturn(s, p) ==
    LET m == p.env[Result]
        return(q, t, cost) ==
            {Is(r, [s EXCEPT !.c = <<Coerce(q.t, t, q.n)>>], AnyType, cost) : r \in Solve(q, m, {t})}
    IN  UNION {return(q, q.t, 0)
               \cup IF q.t # AnyType /\ Typeinf_is_ground(q.t) THEN return(q, AnyType, 1) ELSE {} :
               q \in InferExpr(s.c[1], p)}

InferIf(s, p) ==
    LET test == {q \in InferExpr(s.c[1], p) : q.t \in {Bool, AnyType}}
        price(q) == IF q.t = Bool THEN 0 ELSE 1
        yes(q) == InferStmt(s.c[2], q)
        no(q) == InferStmt(s.c[3], q)
    IN  UNION {UNION {{Is(c, If(Coerce(a.t, Bool, a.n), b.n, c.n), AnyType, price(a)) :
                          c \in no(b)} : b \in yes(a)} : a \in test}

InferBlock(s, p) ==
    LET step(acc, t) == Best(UNION {{Is(q, Append(a.n, q.n), AnyType, 0) : q \in InferStmt(t, a)} :
                                       a \in acc})
    IN  {Is(q, Block(q.n), AnyType, 0) : q \in FoldLeft(step, {Is(p, <<>>, AnyType, 0)}, s.c)}

InferStmt(s, p) ==
    Best(CASE s.k = "Var" -> InferVar(s, p)
           [] s.k = "Expr" -> {Is(q, Expr(q.n), AnyType, 0) : q \in InferExpr(s.c[1], p)}
           [] s.k = "Block" -> InferBlock(s, p)
           [] s.k \in {"Loop", "Label"} ->
                {Is(q, [s EXCEPT !.c = <<q.n>>], AnyType, 0) : q \in InferStmt(s.c[1], p)}
           [] s.k = "Return" -> InferReturn(s, p)
           [] s.k = "If" -> InferIf(s, p)
           [] s.k \in {"Empty", "Break"} -> {Is(p, s, AnyType, 0)})

\* SubtMetavarVisitor; a variable that nothing constrains may have any type
RECURSIVE SubstMetavars(_, _)
SubstMetavars(n, mv) ==
    LET t == IF n.t[1] # "metavar" THEN n.t
             ELSE IF mv[n.t[2]] = Free THEN AnyType ELSE Erase(mv[n.t[2]])
    IN  [n EXCEPT !.t = t, !.c = Map(LAMBDA m : SubstMetavars(m, mv), n.c)]

\* The typed programs that Z3 may come up with: none if the constraints have
\* no solution.
Typeinf(prog) ==
    LET ps == InferStmt(prog, [n |-> <<>>, t |-> AnyType, env |-> <<>>, mv |-> <<>>, cost |-> 0])
    IN  {SubstMetavars(p.n, p.mv) : p \in {q \in ps : \A r \in ps : q.cost <= r.cost}}

----------------------------------------------------------------------------
(* select_method_call.rs                                                   *)

\* get_type_by_prefix
TypeByPrefix(name, arity, prefix) ==
    IF prefix \in {DynObject, AnyType} THEN GroundFunction(arity)
    ELSE CHOOSE t \in Methods(name, arity) : t[2][1] = prefix

\* the names of RTSFunction::Method
RtsMethod ==
    [string |-> [concat |-> "string_concat", slice |-> "string_slice", length |-> "string_length"],
     array |-> [concat |-> "array_concat", slice |-> "array_slice", length |-> "array_length",
                push |-> "array_push"]]

SelectExit(n) ==
    LET obj == n.c[1]
        args == Tail(n.c)
        to == TypeByPrefix(n.x[1], Len(args), n.t)
    IN  CASE n.k = "MethodCall" /\ n.t = DynObject ->
               Call(CoercionOf(Meta(AnyType, to), Dot(obj, n.x[1])), args)
          [] n.k = "MethodCall" /\ n.t \notin {DynObject, AnyType} ->
               Node("PrimCall", Named(RtsMethod[n.t[1]][n.x[1]]), Missing, args)
          [] n.k = "Length" /\ n.t = DynObject -> Dot(obj, "length")
          [] n.k = "Length" /\ n.t \notin {DynObject, AnyType} ->
               Node("PrimCall", Named(RtsMethod[n.t[1]].length), Missing, n.c)
          [] OTHER -> n

RECURSIVE SelectMethodCall(_)
SelectMethodCall(n) ==
    SelectExit([n EXCEPT !.c = Map(SelectMethodCall, n.c)])

----------------------------------------------------------------------------
(* coercions.rs                                                            *)

IdC(t) == <<"Id", t>>
FunC(args, ret) == <<"Fun", args, ret>>

RECURSIVE SeqC(_, _)
SeqC(c1, c2) ==
    CASE "Panic" \in {c1[1], c2[1]} -> <<"Panic">>
      [] c2[1] = "Id" -> c1
      [] c1[1] = "Id" -> c2
      [] c1[1] = "Fun" /\ c2[1] = "Fun" ->
           FunC([i \in DOMAIN c1[2] |-> SeqC(c2[2][i], c1[2][i])], SeqC(c1[3], c2[3]))
      [] OTHER -> <<"Seq", c1, c2>>

\* Coercion::fun: the identity if all its parts are
FunCoercion(args, ret) ==
    IF "Panic" \in {ret[1]} \cup {args[i][1] : i \in DOMAIN args} THEN <<"Panic">>
    ELSE IF ret[1] = "Id" /\ \A i \in DOMAIN args : args[i][1] = "Id"
    THEN IdC(Fun([i \in DOMAIN args |-> args[i][2]], ret[2]))
    ELSE FunC(args, ret)

RECURSIVE CoercionNew(_, _)

\* Coercion::new
CoercionNew(t1, t2) ==
    CASE t1 = t2 -> IdC(t1)
      [] t1 = AnyType /\ IsGround(t2) -> <<"Untag", t2>>
      [] t2 = AnyType /\ IsGround(t1) -> <<"Tag", t1>>
      [] t2 = AnyType /\ ~IsGround(t1) -> <<"Panic">>          \* "non-ground to any"
      [] t1 = AnyType /\ ~IsGround(t2) ->
           LET gf == GroundFunction(Len(t2[2]))
           IN  SeqC(CoercionNew(AnyType, gf), CoercionNew(gf, t2))
      [] IsFun(t1) /\ IsFun(t2) ->
           IF Len(t1[2]) # Len(t2[2]) THEN <<"Panic">>         \* "Coercing between arities"
           ELSE FunCoercion([i \in DOMAIN t1[2] |-> CoercionNew(t2[2][i], t1[2][i])],
                            CoercionNew(t1[3], t2[3]))
      [] t1 = Int_ /\ t2 = Float -> <<"IntToFloat">>
      [] t1 = Float /\ t2 = Int_ -> <<"FloatToInt">>
      [] OTHER -> SeqC(CoercionNew(t1, AnyType), CoercionNew(AnyType, t2))

RECURSIVE ReifyCoercions(_)
ReifyCoercions(n) ==
    LET m == [n EXCEPT !.c = Map(ReifyCoercions, n.c)]
    IN  IF n.k = "Coercion" /\ n.t[1] = "Meta"
        THEN [m EXCEPT !.t = CoercionNew(n.t[2], n.t[3])] ELSE m

----------------------------------------------------------------------------
(* type_checking.rs.  An error is the type that no term has.               *)

Error == <<"error">>

Ensure(expected, got) == IF expected = got THEN got ELSE Error

\* The types of what a coercion takes and gives.
RECURSIVE TypeCheckCoercion(_)
TypeCheckCoercion(c) ==
    CASE c[1] = "Meta" -> <<c[2], c[3]>>
      [] c[1] = "FloatToInt" -> <<Float, Int_>>
      [] c[1] = "IntToFloat" -> <<Int_, Float>>
      [] c[1] = "Tag" -> <<c[2], AnyType>>
      [] c[1] = "Untag" -> <<AnyType, c[2]>>
      [] c[1] = "Id" -> <<c[2], c[2]>>
      [] c[1] = "Fun" ->
           LET args == [i \in DOMAIN c[2] |-> TypeCheckCoercion(c[2][i])]
               ret == TypeCheckCoercion(c[3])
           IN  [j \in 1..2 |-> Fun([i \in DOMAIN args |-> args[i][j]], ret[j])]
      [] c[1] = "Seq" ->
           LET c1 == TypeCheckCoercion(c[2])
               c2 == TypeCheckCoercion(c[3])
           IN  IF c1[2] = c2[1] THEN <<c1[1], c2[2]>> ELSE <<Error, Error>>
      [] OTHER -> <<Error, Error>>

\* arguments that have no parameter are not looked at
TypeCheckFunCall(t, ts) ==
    IF ~IsFun(t) THEN Error
    ELSE IF \E i \in DOMAIN ts \cap DOMAIN t[2] : ts[i] # t[2][i] THEN Error
    ELSE t[3]

Lookup(env, x) ==
    IF x \in DOMAIN env THEN env[x] ELSE IF x \in DOMAIN Std THEN Std[x] ELSE Error

RECURSIVE TypeCheckExpr(_, _), TypeCheckStmt(_, _, _)

TypeCheckFunc(f, env) ==
    LET params == Params(f)
        inside == FoldLeft(LAMBDA acc, q : (q.x :> q.t) @@ acc, env, params)
    IN  IF TypeCheckStmt(Body(f), inside, f.t).ok
        THEN Fun([i \in DOMAIN params |-> params[i].t], f.t) ELSE Error

TypeCheckAssign(e, env) ==
    LET lv == e.c[1]
        t == TypeCheckExpr(e.c[2], env)
        below == [i \in DOMAIN lv.c |-> TypeCheckExpr(lv.c[i], env)]
    IN  CASE lv.k = "Id" -> IF lv.t = Lookup(env, lv.x) THEN Ensure(lv.t, t) ELSE Error
          [] lv.k = "Dot" -> IF below[1] = Error THEN Error ELSE t
          [] lv.k = "Bracket" ->
               IF below[1] # lv.t \/ below[2] = Error THEN Error ELSE t

\* ts are the types of the sub-terms
TypeCheckNode(e, ts, env) ==
    CASE e.k = "Lit" -> TypLit(e.x)
      [] e.k = "Id" -> Ensure(e.t, Lookup(env, e.x))
      [] e.k = "EnvGet" -> e.t
      [] e.k = "Func" -> TypeCheckFunc(e, env)
      [] e.k = "Closure" ->
           IF \E i \in 2..Len(e.c) : ts[i] # e.c[i].t THEN Error ELSE TypeCheckFunc(e.c[1], env)
      [] e.k = "Object" -> IF Error \in Range(ts) THEN Error ELSE DynObject
      [] e.k = "Array" -> IF Error \in Range(ts) THEN Error ELSE Array
      [] e.k = "Prop" -> ts[1]
      [] e.k = "Dot" -> IF ts[1] = Error THEN Error ELSE AnyType
      [] e.k = "Bracket" ->
           IF /\ ts[1] = e.t /\ e.t \in {DynObject, Array, String, AnyType}
              /\ ts[2] \in {String, Int_, AnyType}
           THEN AnyType ELSE Error
      [] e.k = "Assign" -> TypeCheckAssign(e, env)
      [] e.k = "Call" -> TypeCheckFunCall(ts[1], Tail(ts))
      [] e.k = "MethodCall" ->
           IF ts[1] # e.t THEN Error
           ELSE TypeCheckFunCall(TypeByPrefix(e.x[1], Len(e.c) - 1, e.t), Tail(ts))
      [] e.k = "Length" ->
           IF ts[1] # e.t THEN Error ELSE IF e.t \in {DynObject, Array} THEN Int_ ELSE AnyType
      [] e.k = "Coercion" ->
           LET c == TypeCheckCoercion(e.t) IN IF c[1] = ts[1] THEN c[2] ELSE Error
      [] e.k \in {"PrimCall", "Unary", "Binary"} -> TypeCheckFunCall(JankyTyp(e.x[1]), ts)
      [] e.k = "NewRef" -> IF ts[1] = e.t THEN <<"ref", e.t>> ELSE Error
      [] e.k = "Deref" -> IF ts[1] = <<"ref", e.t>> THEN e.t ELSE Error
      [] e.k = "Store" -> IF ts[1] = <<"ref", e.t>> /\ ts[2] = e.t THEN e.t ELSE Error
      [] OTHER -> Error

TypeCheckExpr(e, env) ==
    TypeCheckNode(e, Map(LAMBDA m : TypeCheckExpr(m, env), e.c), env)

\* ret is the type of the result, Missing at the top
TypeCheckStmt(s, env, ret) ==
    LET t == TypeCheckExpr(s.c[1], env)
        ok(b, env2) == [ok |-> b, env |-> env2]
        step(acc, u) ==
            IF acc.ok THEN TypeCheckStmt(u, acc.env, ret) ELSE acc
    IN  CASE s.k \in {"Empty", "Break"} -> ok(TRUE, env)
          [] s.k = "Expr" -> ok(t # Error, env)
          [] s.k = "Var" -> ok(IsUndefined(s.c[1]) \/ s.t = t, (s.x :> s.t) @@ env)
          [] s.k = "Block" -> [FoldLeft(step, ok(TRUE, env), s.c) EXCEPT !.env = env]
          [] s.k \in {"Loop", "Label"} -> [TypeCheckStmt(s.c[1], env, ret) EXCEPT !.env = env]
          [] s.k = "If" ->
               ok(t = Bool /\ \A i \in 2..3 : TypeCheckStmt(s.c[i], env, ret).ok, env)
          [] s.k = "Return" -> ok(ret # Missing /\ t = ret, env)

\* type_check succeeds
TypeCheck(prog) == TypeCheckStmt(prog, <<>>, Missing).ok
============================================================================
