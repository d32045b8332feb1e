----------------------------- MODULE Evaluator -----------------------------
(***************************************************************************)
(* What a program of Ast shows to the outside: the values it logs, and     *)
(* whether it stops early.  One evaluator serves the three languages, so   *)
(* that a program can be compared with what each pass makes of it.  It has *)
(* three modes:                                                            *)
(*   js     JavaScript: the receiver of a call is not an argument          *)
(*   this   after desugar_this: it is the first argument                   *)
(*   wasm   the typed program: a local that is declared without a value    *)
(*          holds the zero of its type, an indirect call with the wrong    *)
(*          number of arguments traps and a function returns a value       *)
(*                                                                         *)
(* A value is <<kind, payload>>; the payload of a float counts halves, and *)
(* a literal that is a float is not integral (parse_num).  What is         *)
(* allocated when the typed program runs has an address as well: a float   *)
(* that is tagged and a string that is made.                               *)
(*                                                                         *)
(* The store of a run:                                                     *)
(*   fr    frames [b: bindings, up: the frame around it, env: captures]    *)
(*   fn    closures [f: Func node, up, env, proto]                         *)
(*   ob    objects [p: properties, proto: value];  ar arrays               *)
(*   rf    heap-allocated boxes, nil the words at the null address         *)
(*   made  how many addresses were given                                   *)
(*   out   what was logged;  err the reason why it stopped, if any         *)
(*   mode and prog (the functions of a NotWasm program)                    *)
(***************************************************************************)
EXTENDS Ast, Integers, TLC

Undef == <<"undefined", 0>>
IntV(n) == <<"int", n>>
FloatV(n) == <<"float", n>>
BoolV(b) == <<"bool", IF b THEN 1 ELSE 0>>

IsNum(v) == v[1] \in {"int", "float"}

\* the halves of a number, and an integer of its integral part
Halves(v) == IF v[1] = "float" THEN v[2] ELSE 2 * v[2]
Truncated(h) == IntV(IF h >= 0 THEN h \div 2 ELSE 0 - ((0 - h) \div 2))

Truthy(v) ==
    CASE v[1] \in {"int", "float", "bool"} -> v[2] # 0
      [] v[1] = "string" -> v[2] # <<>>
      [] OTHER -> v[1] \in {"fun", "obj", "arr"}

\* what log shows of a value: JavaScript has one kind of number, and neither
\* functions nor objects show their identity
Shown(v) ==
    CASE IsNum(v) -> <<"number", Halves(v)>>
      [] v[1] \in {"fun", "obj", "arr"} -> <<v[1], 0>>
      [] OTHER -> <<v[1], v[2]>>

Log == <<"fun", -1>>
Create == <<"fun", -2>>
Concat == <<"fun", -3>>
Push == <<"fun", -4>>
GlobalObject == <<"obj", 1>>

Globals == (Named("log_any") :> Log) @@ (Named("Object") :> GlobalObject)

\* how many calls and iterations a run may make
Fuel == 12

Begin(mode, prog) ==
    [fr |-> <<>>, fn |-> <<>>, ob |-> <<[p |-> ("create" :> Create), proto |-> Undef]>>,
     ar |-> <<>>, rf |-> <<>>, nil |-> Undef, made |-> 0, out |-> <<>>, err |-> "", fuel |-> Fuel,
     mode |-> mode, prog |-> prog]

Trap == <<"trap", 0>>

Res(v, s) == [v |-> v, s |-> s]
\* the first reason to stop is the one that counts
Stop(why, s) == Res(Undef, IF s.err = "" THEN [s EXCEPT !.err = why] ELSE s)
ValueOr(v, s) == IF v = Trap THEN Stop("trap", s) ELSE Res(v, s)

----------------------------------------------------------------------------
(* Operators.                                                              *)

\* the JavaScript operators of the NotWasm ones, by the kind they work on
I32Ops == [I32Add |-> "Plus", I32Sub |-> "Minus", I32Mul |-> "Times",
           I32LT |-> "LessThan", I32GT |-> "GreaterThan", I32Eq |-> "StrictEqual",
           I32Neg |-> "Neg", I32Or |-> "Or"]
F64Ops == [F64Sub |-> "Minus", F64Mul |-> "Times", F64LT |-> "LessThan",
           F64GT |-> "GreaterThan", F64Eq |-> "StrictEqual", F64Neg |-> "Neg"]
BoolOps == [Eqz |-> "Not"]
StrOps == [string_concat |-> "Plus", string_length |-> "Length"]
RtsOps == [jnks_plus |-> "Plus", janky_minus |-> "Minus", janky_times |-> "Times",
           janky_neg |-> "Neg"]

\* integers stay integers, and are made floats where one operand is a float
JsArith(op, vs) ==
    LET n == [i \in DOMAIN vs |-> Halves(vs[i])]
        num(h) == IF \A i \in DOMAIN vs : vs[i][1] = "int" THEN Truncated(h) ELSE FloatV(h)
    IN  CASE op = "Plus" -> num(n[1] + n[2])
          [] op = "Minus" -> num(n[1] - n[2])
          [] op = "Times" /\ (n[1] * n[2]) % 2 = 0 -> num((n[1] * n[2]) \div 2)
          [] op = "LessThan" -> BoolV(n[1] < n[2])
          [] op = "GreaterThan" -> BoolV(n[1] > n[2])
          [] op = "StrictEqual" -> BoolV(n[1] = n[2])
          [] op = "Or" /\ n[2] = 0 -> Truncated(n[1])     \* e | 0
          [] op = "Neg" -> num(0 - n[1])
          [] op = "Pos" -> vs[1]
          [] OTHER -> Trap

JsOpValue(op, vs) ==
    CASE op = "Not" -> BoolV(~Truthy(vs[1]))
      [] \A i \in DOMAIN vs : IsNum(vs[i]) -> JsArith(op, vs)
      [] op = "Plus" /\ vs[1][1] = "string" /\ vs[2][1] = "string" ->
           <<"string", vs[1][2] \o vs[2][2]>>
      [] op = "StrictEqual" -> BoolV(vs[1] = vs[2])
      [] op = "Length" /\ vs[1][1] = "string" -> IntV(Len(vs[1][2]))
      [] OTHER -> Trap

\* janky_strict_equal: floats and strings are equal if their addresses are,
\* and an integer is no float
AnyEqual(a, b) == BoolV(a = b)

OpValue(op, vs) ==
    LET all(kind) == \A i \in DOMAIN vs : vs[i][1] = kind
    IN  CASE op = "Nop" -> vs[1]
          [] op \in DOMAIN I32Ops -> IF all("int") THEN JsOpValue(I32Ops[op], vs) ELSE Trap
          [] op \in DOMAIN F64Ops -> IF all("float") THEN JsOpValue(F64Ops[op], vs) ELSE Trap
          [] op \in DOMAIN BoolOps -> IF all("bool") THEN JsOpValue(BoolOps[op], vs) ELSE Trap
          [] op \in DOMAIN StrOps -> IF all("string") THEN JsOpValue(StrOps[op], vs) ELSE Trap
          [] op = "janky_strict_equal" -> AnyEqual(vs[1], vs[2])
          [] op \in DOMAIN RtsOps -> JsOpValue(RtsOps[op], vs)
          [] op = "Minus" /\ Len(vs) = 1 -> JsOpValue("Neg", vs)
          [] op = "Plus" /\ Len(vs) = 1 -> JsOpValue("Pos", vs)
          [] OTHER -> JsOpValue(op, vs)

\* f64_to_any and alloc_str: v at an address of its own
Allocated(v, s) ==
    IF s.mode # "wasm" \/ v[1] \notin {"float", "string"} THEN ValueOr(v, s)
    ELSE Res(<<v[1], v[2], s.made + 1>>, [s EXCEPT !.made = @ + 1])

\* any_to_i32, any_to_f64, any_to_bool, any_to_closure, any_to_ptr
\* (no value of the model is null, which is 0 here, or a number in a string; what
\* any_to_f64 makes a NaN is a trap)
Untagged(t, v) ==
    CASE t[1] = "int" -> IF IsNum(v) \/ v[1] = "bool" THEN Truncated(Halves(v)) ELSE Trap
      [] t[1] = "float" -> IF IsNum(v) \/ v[1] = "bool" THEN FloatV(Halves(v)) ELSE Trap
      [] t[1] = "bool" -> BoolV(Truthy(v))
      [] t[1] = "fun" -> IF v[1] = "fun" THEN v ELSE Trap
      [] OTHER -> IF v[1] \in {"fun", "obj", "arr", "string"} THEN v ELSE Trap

\* A coercion that coercion_to_expr accepts, applied; v must be what it is from.
RECURSIVE Coerced(_, _)
Coerced(c, v) ==
    CASE c[1] \in {"Tag", "Id"} -> v
      [] c[1] = "Untag" -> Untagged(c[2], v)
      [] c[1] = "IntToFloat" -> IF v[1] = "int" THEN FloatV(Halves(v)) ELSE Trap
      [] c[1] = "FloatToInt" -> IF v[1] = "float" THEN Truncated(v[2]) ELSE Trap
      [] c[1] = "Seq" -> Coerced(c[3], Coerced(c[2], v))
      [] c[1] = "Meta" -> IF c[2] = <<"any">> THEN Untagged(c[3], v) ELSE v
      [] OTHER -> Trap

\* a float is allocated when it is tagged
Converted(c, v, s) ==
    IF v[1] = "float" /\ (c[1] = "Tag" \/ (c[1] = "Meta" /\ c[3] = <<"any">>))
    THEN Allocated(v, s) ELSE ValueOr(Coerced(c, v), s)

\* WebAssembly initializes a local with zero
Zero(t) ==
    CASE t[1] = "int" -> IntV(0)
      [] t[1] = "float" -> FloatV(0)
      [] t[1] = "bool" -> BoolV(FALSE)
      [] t[1] = "ref" -> <<"ref", 0>>
      [] t[1] \in {"any", "missing"} -> Undef
      [] OTHER -> <<"null", 0>>

----------------------------------------------------------------------------
(* Variables and properties.                                               *)

\* the declarations of a function body, in JavaScript's scope
RECURSIVE Declared(_)
Declared(n) ==
    CASE n.k \in {"Decl", "Var", "FuncStmt"} -> <<n>>
      [] n.k \in {"Func", "Closure"} -> <<>>
      [] OTHER -> FlattenSeq(Map(Declared, n.c))

\* the frame that binds x, 0 if none does
RECURSIVE Binder(_, _, _)
Binder(x, f, s) ==
    IF f = 0 THEN 0 ELSE IF x \in DOMAIN s.fr[f].b THEN f ELSE Binder(x, s.fr[f].up, s)

Read(x, f, s) ==
    LET b == Binder(x, f, s)
    IN  IF b # 0 THEN Res(s.fr[b].b[x], s)
        ELSE IF x \in DOMAIN Globals THEN Res(Globals[x], s)
        ELSE Stop("unbound", s)

Write(x, v, f, s) ==
    LET b == Binder(x, f, s)
    IN  IF b # 0 /\ s.err = "" THEN Res(v, [s EXCEPT !.fr[b].b[x] = v])
        ELSE Stop("unbound", s)

Bind(x, v, f, s) == [s EXCEPT !.fr[f].b = (x :> v) @@ @]

NewObject(p, proto, s) ==
    Res(<<"obj", Len(s.ob) + 1>>, [s EXCEPT !.ob = Append(@, [p |-> p, proto |-> proto])])

\* a closure and the object that is its prototype property
NewClosure(func, up, env, s) ==
    LET o == NewObject(<<>>, Undef, s)
        c == [f |-> func, up |-> up, env |-> env, proto |-> o.v]
    IN  Res(<<"fun", Len(s.fn) + 1>>, [o.s EXCEPT !.fn = Append(@, c)])

RECURSIVE Get(_, _, _)
Get(o, key, s) ==
    CASE o[1] = "fun" /\ o[2] > 0 /\ key = "prototype" -> Res(s.fn[o[2]].proto, s)
      [] o[1] = "obj" /\ key \in DOMAIN s.ob[o[2]].p -> Res(s.ob[o[2]].p[key], s)
      [] o[1] = "obj" /\ s.ob[o[2]].proto # Undef -> Get(s.ob[o[2]].proto, key, s)
      [] o[1] = "obj" -> Res(Undef, s)
      [] o[1] \in {"string", "arr"} /\ key = "concat" -> Res(Concat, s)
      [] o[1] = "arr" /\ key = "push" -> Res(Push, s)
      [] o[1] = "arr" /\ key = "length" -> Res(IntV(Len(s.ar[o[2]])), s)
      [] o[1] = "string" /\ key = "length" -> Res(IntV(Len(o[2])), s)
      [] OTHER -> Stop("not an object", s)

Set(o, key, v, s) ==
    IF o[1] = "obj" /\ s.err = "" THEN Res(v, [s EXCEPT !.ob[o[2]].p = (key :> v) @@ @])
    ELSE Stop("not an object", s)

NewArray(vs, s) == Res(<<"arr", Len(s.ar) + 1>>, [s EXCEPT !.ar = Append(@, vs)])

\* Elements: in WebAssembly an index that is out of bounds is a panic.
HasElement(a, i, s) == i[1] = "int" /\ i[2] + 1 \in DOMAIN s.ar[a[2]]
Element(a, i, s) ==
    IF HasElement(a, i, s) THEN Res(s.ar[a[2]][i[2] + 1], s)
    ELSE IF s.mode = "wasm" THEN Stop("trap", s) ELSE Res(Undef, s)
SetElement(a, i, v, s) ==
    IF HasElement(a, i, s) THEN Res(v, [s EXCEPT !.ar[a[2]][i[2] + 1] = v])
    ELSE Stop("out of bounds", s)

\* the methods of arrays and strings
PushOn(a, v, s) ==
    Res(IntV(Len(s.ar[a[2]]) + 1), [s EXCEPT !.ar[a[2]] = Append(@, v)])
ConcatOf(a, b, s) ==
    IF a[1] = "arr" /\ b[1] = "arr" THEN NewArray(s.ar[a[2]] \o s.ar[b[2]], s)
    ELSE Allocated(JsOpValue("Plus", <<a, b>>), s)

Prim(op, vs, s) ==
    CASE op = "array_new" -> NewArray(<<>>, s)
      [] op = "array_push" -> PushOn(vs[1], vs[2], s)
      [] op = "array_concat" -> ConcatOf(vs[1], vs[2], s)
      [] op = "array_length" -> Get(vs[1], "length", s)
      [] op \in DOMAIN RtsOps \cup {"string_concat"} -> Allocated(OpValue(op, vs), s)
      [] OTHER -> ValueOr(OpValue(op, vs), s)

\* Refs: address 0 is null, and stores through it all hit the same word.
Fetch(r, s) == Res(IF r[2] = 0 THEN s.nil ELSE s.rf[r[2]], s)
StoreRef(r, v, s) ==
    Res(v, IF r[2] = 0 THEN [s EXCEPT !.nil = v] ELSE [s EXCEPT !.rf[r[2]] = v])

\* the word that an l-value whose sub-terms have the values vs names
Key(lv, vs) == IF lv.k = "Dot" THEN lv.x[1] ELSE vs[2][2][1]
GetRef(lv, vs, f, s) ==
    CASE lv.k = "Id" -> Read(lv.x, f, s)
      [] lv.k = "Bracket" /\ vs[1][1] = "arr" -> Element(vs[1], vs[2], s)
      [] OTHER -> Get(vs[1], Key(lv, vs), s)
SetRef(lv, vs, v, f, s) ==
    CASE s.err # "" -> Res(Undef, s)
      [] lv.k = "Id" -> Write(lv.x, v, f, s)
      [] lv.k = "Bracket" /\ vs[1][1] = "arr" -> SetElement(vs[1], vs[2], v, s)
      [] OTHER -> Set(vs[1], Key(lv, vs), v, s)

\* Declarations hold undefined, or the zero of their type, until they are
\* executed; function statements are executed first.
Hoist(body, f, s) ==
    FoldLeft(LAMBDA acc, d :
                 IF d.k = "FuncStmt"
                 THEN LET r == NewClosure([d EXCEPT !.k = "Func"], f, <<>>, acc)
                      IN  Bind(d.x, r.v, f, r.s)
                 ELSE IF d.x \in DOMAIN acc.fr[f].b THEN acc
                 ELSE Bind(d.x, Zero(d.t), f, acc),
             s, Declared(body))

Enter(b, up, env, this, s) ==
    [s EXCEPT !.fr = Append(@, [b |-> b, up |-> up, env |-> env, this |-> this])]

Spend(s) == IF s.fuel = 0 THEN Stop("fuel", s).s ELSE [s EXCEPT !.fuel = @ - 1]

\* a completion: next, return or break
Done(k, x, r) == [k |-> k, x |-> x, v |-> r.v, s |-> r.s]
Next_(r) == Done("next", NoDatum, r)

Arg(args, i) == IF i \in DOMAIN args THEN args[i] ELSE Undef

----------------------------------------------------------------------------
(* Expressions, statements and calls.                                      *)

RECURSIVE Ev(_, _, _), Ex(_, _, _), Apply(_, _, _, _)

\* the values of several expressions, from left to right
EvAll(es, f, s) ==
    FoldLeft(LAMBDA acc, e : LET r == Ev(e, f, acc.s)
                             IN  [vs |-> Append(acc.vs, r.v), s |-> r.s],
             [vs |-> <<>>, s |-> s], es)

ApplyTo(fun, this, args) == Apply(fun, this, args.vs, args.s)
CallWith(callee, this, es, f) == ApplyTo(callee.v, this, EvAll(es, f, callee.s))

CallMethod(e, base, f) ==
    CallWith(GetRef(e.c[1], base.vs, f, base.s), base.vs[1], Tail(e.c), f)

\* JavaScript: the object a function is taken from is its receiver
EvCall(e, f, s) ==
    IF e.c[1].k \in {"Dot", "Bracket"} /\ s.mode = "js"
    THEN CallMethod(e, EvAll(e.c[1].c, f, s), f)
    ELSE CallWith(Ev(e.c[1], f, s), Undef, Tail(e.c), f)

\* new: the new object, unless the constructor returns another
Constructed(obj, res) == Res(IF res.v[1] \in {"obj", "fun"} THEN res.v ELSE obj, res.s)
Construct(fun, obj, args) == Constructed(obj.v, Apply(fun, obj.v, args, obj.s))
Instance_(proto) == NewObject(<<>>, proto.v, proto.s)
EvNew(r) == Construct(r.vs[1], Instance_(Get(r.vs[1], "prototype", r.s)), Tail(r.vs))

\* assignments: base is what the l-value is a part of, old what it holds
Combined(op, old, r) == ValueOr(JsOpValue(op, <<old.v, r.v>>), r.s)
NewValue(e, base, old, f) ==
    CASE e.x[1] \in {"PreInc", "PostInc"} -> Combined("Plus", old, Res(IntV(1), old.s))
      [] e.x[1] \in {"PreDec", "PostDec"} -> Combined("Minus", old, Res(IntV(1), old.s))
      [] e.x = Named("Equal") -> Ev(e.c[2], f, base.s)
      [] OTHER -> Combined(e.x[1], old, Ev(e.c[2], f, old.s))
Assigned(e, base, old, new, f) ==
    Res(IF e.x[1] \in {"PostInc", "PostDec"} THEN old.v ELSE new.v,
        SetRef(e.c[1], base.vs, new.v, f, new.s).s)
Update(e, base, old, f) == Assigned(e, base, old, NewValue(e, base, old, f), f)
EvAssign(e, base, f) == Update(e, base, GetRef(e.c[1], base.vs, f, base.s), f)

CallMember(r, m) == Apply(m.v, Undef, Tail(r.vs), m.s)

CloseOver(e, env) ==
    NewClosure(IF e.c[1].k = "Func" THEN e.c[1]
               ELSE CHOOSE g \in Range(env.s.prog) : g.x = e.c[1].x, 0, env.vs, env.s)

Ev(e, f, s) ==
    LET r == EvAll(e.c, f, s)
        first == Ev(e.c[1], f, s)
    IN  CASE s.err # "" -> Res(Undef, s)
          [] e.k = "Lit" -> Res(e.x, s)
          [] e.k = "Id" -> Read(e.x, f, s)
          [] e.k = "This" -> Res(s.fr[f].this, s)
          [] e.k = "Func" -> NewClosure(e, f, <<>>, s)
          [] e.k = "Prop" -> first
          [] e.k = "Object" ->
               NewObject(FoldLeft(LAMBDA p, i : (e.c[i].x[1] :> r.vs[i]) @@ p, <<>>, Indices(e.c)),
                         Undef, r.s)
          [] e.k = "Array" -> NewArray(r.vs, r.s)
          [] e.k \in {"Dot", "Bracket"} -> GetRef(e, r.vs, f, r.s)
          [] e.k \in {"Unary", "Binary", "JsOp", "PrimCall"} ->
               IF r.s.err # "" THEN Res(Undef, r.s) ELSE Prim(e.x[1], r.vs, r.s)
          [] e.k = "Length" ->
               IF first.s.err # "" THEN first ELSE Get(first.v, "length", first.s)
          [] e.k = "Logical" ->
               IF Truthy(first.v) <=> e.x = Named("And") THEN Ev(e.c[2], f, first.s) ELSE first
          [] e.k = "Cond" -> Ev(IF Truthy(first.v) THEN e.c[2] ELSE e.c[3], f, first.s)
          [] e.k = "Seq" -> Res(Last(r.vs), r.s)
          [] e.k \in {"Assign", "UnaryAssign"} -> EvAssign(e, EvAll(e.c[1].c, f, s), f)
          [] e.k = "Call" -> EvCall(e, f, s)
          [] e.k = "New" -> EvNew(r)
          [] e.k = "MethodCall" -> CallMember(r, Get(r.vs[1], e.x[1], r.s))
          [] e.k = "Coercion" ->
               IF first.s.err # "" THEN first ELSE Converted(e.t, first.v, first.s)
          [] e.k = "NewRef" ->
               Res(<<"ref", Len(first.s.rf) + 1>>, [first.s EXCEPT !.rf = Append(@, first.v)])
          [] e.k = "Deref" -> IF first.s.err # "" THEN first ELSE Fetch(first.v, first.s)
          [] e.k = "Store" -> IF r.s.err # "" THEN Res(Undef, r.s) ELSE StoreRef(r.vs[1], r.vs[2], r.s)
          [] e.k = "EnvGet" ->
               IF e.t = <<"float">> THEN Stop("invalid", s) ELSE Res(s.fr[f].env[e.x[2]], s)
          [] e.k = "Closure" -> CloseOver(e, EvAll(Tail(e.c), f, s))

\* a statement that begins with an expression, of which r is the result
ExAfter(n, f, r) ==
    CASE n.k \in {"Expr", "Store"} -> Next_(r)
      [] n.k = "If" -> Ex(IF Truthy(r.v) THEN n.c[2] ELSE n.c[3], f, r.s)
      [] n.k = "Return" -> Done("return", NoDatum, r)
      [] n.k = "Var" ->
           IF IsUndefined(n.c[1]) /\ n.t \notin {Missing, <<"any">>}
           THEN Next_(r) ELSE Next_(Write(n.x, r.v, f, r.s))

Repeated(n, f, body) == IF body.k = "next" THEN Ex(n, f, Spend(body.s)) ELSE body
Labelled(n, body) == IF body.k = "break" /\ body.x = n.x THEN Next_(body) ELSE body
Initialized(x, f, r) == Write(x, r.v, f, r.s)

Ex(n, f, s) ==
    CASE s.err # "" \/ n.k \in {"Empty", "FuncStmt"} -> Next_(Res(Undef, s))
      [] n.k = "Block" ->
           FoldLeft(LAMBDA acc, t : IF acc.k = "next" THEN Ex(t, f, acc.s) ELSE acc,
                    Next_(Res(Undef, s)), n.c)
      [] n.k \in {"Expr", "If", "Return", "Var", "Store"} ->
           ExAfter(n, f, Ev(IF n.k = "Store" THEN n ELSE n.c[1], f, s))
      [] n.k = "Loop" -> Repeated(n, f, Ex(n.c[1], f, s))
      [] n.k = "Label" -> Labelled(n, Ex(n.c[1], f, s))
      [] n.k = "Break" -> Done("break", n.x, Res(Undef, s))
      [] n.k = "VarDecl" ->
           Next_(FoldLeft(LAMBDA acc, d : Initialized(d.x, f, Ev(d.c[1], f, acc.s)),
                          Res(Undef, s), n.c))

\* a WebAssembly function whose body ends without a value is not valid
Returned(r) ==
    IF r.k = "next" /\ r.s.mode = "wasm" THEN Stop("invalid", r.s)
    ELSE Res(IF r.k = "return" THEN r.v ELSE Undef, r.s)

Apply(fun, this, args, s) ==
    LET c == s.fn[fun[2]]
        params == Params(c.f)
        b == [x \in {params[i].x : i \in DOMAIN params} |->
                 Arg(args, CHOOSE i \in DOMAIN params : params[i].x = x)]
        fr == Len(s.fr) + 1
        inside == Hoist(Body(c.f), fr, Enter(b, c.up, c.env, this, Spend(s)))
        i == IF s.mode = "js" THEN 1 ELSE 2
    IN  CASE s.err # "" -> Res(Undef, s)
          [] fun[1] # "fun" -> Stop("not a function", s)
          [] fun = Log -> Res(Undef, [s EXCEPT !.out = Append(@, Shown(Arg(args, i)))])
          [] fun = Create -> NewObject(<<>>, Arg(args, i), s)
          [] fun = Concat ->
               ConcatOf(IF i = 1 THEN this ELSE args[1], Arg(args, i), s)
          [] fun = Push -> PushOn(IF i = 1 THEN this ELSE args[1], Arg(args, i), s)
          [] s.mode = "wasm" /\ Len(args) # Len(params) -> Stop("trap", s)
          [] OTHER -> Returned(Ex(Body(c.f), fr, inside))

\* What a program shows: the values it logs and why it stopped, if it did.
Observed(s) == [out |-> s.out, err |-> s.err]
Outcome(prog, mode) ==
    LET main == IF prog.k = "Program" THEN Body(Last(prog.c)) ELSE prog
        begin == Hoist(main, 1, Enter(<<>>, 0, <<>>, Undef, Begin(mode, prog.c)))
    IN  Observed(Ex(main, 1, begin).s)
============================================================================
