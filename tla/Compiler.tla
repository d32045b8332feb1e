------------------------------ MODULE Compiler ------------------------------
(***************************************************************************)
(* The compiler as a machine that runs one pass after the other: desugar   *)
(* (javascript/desugar.rs), from_javascript, the passes of                 *)
(* jankyscript/compile.rs, from_jankyscript, and those of                  *)
(* notwasm/compile.rs up to the layout of the data segment.  Type          *)
(* inference is the one pass that has a choice, when several typings miss  *)
(* the same number of weights.                                             *)
(***************************************************************************)
EXTENDS Desugar, JankyPasses, Typing, Anf, NotWasm, Evaluator

CONSTANT Programs   \* the JavaScript programs that are compiled

VARIABLES
    prog,     \* the program as the last pass left it
    passes,   \* the passes that are left
    ng,       \* the NameGen of desugar
    status,   \* running, panic (of a pass) or error (of a type checker)
    shows     \* what the source program shows when it runs

vars == <<prog, passes, ng, data, status, shows>>

JankyCompile ==
    <<"insert_returns", "typeinf", "select_method_call", "reify_coercions", "type_check",
      "free_vars", "collect_assigns", "box_assigns", "closure_convert", "type_check">>

NotWasmCompile == <<"from_jankyscript", "check_notwasm", "intern", "data_caches">>

Passes == DesugarPasses \o <<"from_javascript">> \o JankyCompile \o NotWasmCompile

Init ==
    /\ prog \in Programs
    /\ passes = Passes
    /\ ng = NoNames
    /\ data = <<>>
    /\ status = "running"
    /\ shows = Outcome(prog, "js")

\* the next pass is p
At(p) == status = "running" /\ passes # <<>> /\ Head(passes) = p

HasPanicked(n) == \E m \in Nodes(n) : m.k = "Panic" \/ (m.k = "Coercion" /\ m.t = <<"Panic">>)

\* a pass has turned the program into n
Turn(n) ==
    /\ prog' = n
    /\ passes' = Tail(passes)
    /\ status' = IF HasPanicked(n) THEN "panic" ELSE status
    /\ UNCHANGED <<data, shows>>

\* a pass of desugar has returned d
DesugarTo(d) ==
    /\ prog' = d.n
    /\ ng' = d.st.ng
    /\ status' = IF d.st.panic THEN "panic" ELSE status
    /\ passes' = Tail(passes)
    /\ UNCHANGED <<data, shows>>

DesugarStep == \E p \in Range(DesugarPasses) : At(p) /\ DesugarTo(Desugared(p, prog, ng))

FromJavascript == At("from_javascript") /\ Turn(FromJs(prog)) /\ UNCHANGED ng

InsertReturnsStep == At("insert_returns") /\ Turn(InsertReturns(prog)) /\ UNCHANGED ng

\* "type inference failed (unsat)" is a panic
SomeTyping(ns) == IF ns = {} THEN {Unexpected} ELSE ns
TypeinfStep == At("typeinf") /\ (\E n \in SomeTyping(Typeinf(prog)) : Turn(n)) /\ UNCHANGED ng

SelectMethodCallStep ==
    At("select_method_call") /\ Turn(SelectMethodCall(prog)) /\ UNCHANGED ng

ReifyCoercionsStep == At("reify_coercions") /\ Turn(ReifyCoercions(prog)) /\ UNCHANGED ng

TypeCheckStep ==
    /\ At("type_check")
    /\ passes' = Tail(passes)
    /\ status' = IF TypeCheck(prog) THEN status ELSE "error"
    /\ UNCHANGED <<prog, ng, data, shows>>

FreeVarsStep == At("free_vars") /\ Turn(FreeVars(prog)) /\ UNCHANGED ng

CollectAssignsStep == At("collect_assigns") /\ Turn(CollectAssigns(prog)) /\ UNCHANGED ng

BoxAssignsStep == At("box_assigns") /\ Turn(BoxAssigns(prog)) /\ UNCHANGED ng

ClosureConvertStep == At("closure_convert") /\ Turn(ClosureConvert(prog)) /\ UNCHANGED ng

FromJankyScriptStep ==
    At("from_jankyscript") /\ Turn(FromJankyScript(prog)) /\ UNCHANGED ng

\* the checker of NotWasm has returned r
CheckedAs(r) ==
    /\ prog' = r.n
    /\ status' = IF r.ok THEN status ELSE "error"
    /\ passes' = Tail(passes)
    /\ UNCHANGED <<ng, data, shows>>

CheckNotWasmStep == At("check_notwasm") /\ CheckedAs(CheckProgram(prog))

InternStep ==
    /\ At("intern")
    /\ data' = Intern(prog, data)
    /\ passes' = Tail(passes)
    /\ UNCHANGED <<prog, ng, status, shows>>

DataCachesStep ==
    /\ At("data_caches")
    /\ data' = DataCaches(prog, data)
    /\ passes' = Tail(passes)
    /\ UNCHANGED <<prog, ng, status, shows>>

Next ==
    \/ DesugarStep \/ FromJavascript \/ InsertReturnsStep \/ TypeinfStep
    \/ SelectMethodCallStep \/ ReifyCoercionsStep \/ TypeCheckStep \/ FreeVarsStep
    \/ CollectAssignsStep \/ BoxAssignsStep \/ ClosureConvertStep \/ FromJankyScriptStep
    \/ CheckNotWasmStep \/ InternStep \/ DataCachesStep

Spec == Init /\ [][Next]_vars

----------------------------------------------------------------------------

\* the pass p is behind us
Done_(p) == p \notin Range(passes)

Mode ==
    IF Done_("typeinf") THEN "wasm" ELSE IF Done_("desugar_this") THEN "this" ELSE "js"

\* the constructors that the later passes take to be gone after a pass
RemovedBy ==
    [desugar_function_stmts |-> {"FuncStmt"}, desugar_this |-> {"This", "New"},
     desugar_logical |-> {"Logical", "Cond", "Seq"}, desugar_updates |-> {"UnaryAssign"},
     from_javascript |-> {"VarDecl", "Decl"}, typeinf |-> {"JsOp"},
     from_jankyscript |-> {"Prop", "Array"}]

(* The types of the variables; the program is in the language of the pass   *)
(* that is next: what a pass removes, no later pass brings back.            *)
TypeOK ==
    /\ \E i \in 0..Len(Passes) : passes = SubSeq(Passes, i + 1, Len(Passes))
    /\ status \in {"running", "panic", "error"}
    /\ \A i \in DOMAIN data : data[i].at \in Nat /\ data[i].size \in Nat
    /\ status = "running" =>
          \A p \in DOMAIN RemovedBy : Done_(p) => \A n \in Nodes(prog) : n.k \notin RemovedBy[p]

(* Every pass keeps what the program does: run before and after each pass,  *)
(* it logs the same values and stops for the same reason                    *)
(* (javascript/testing.rs:50, for the passes of desugar).                   *)
SameMeaning == status = "running" => Outcome(prog, Mode) = shows

(* Type checking succeeds after every phase (jankyscript/compile.rs:28):    *)
(* from the moment coercions are written until the code leaves JankyScript, *)
(* though the compiler runs the checker only twice.                         *)
TypeChecks ==
    status = "running" /\ Done_("reify_coercions") /\ ~Done_("from_jankyscript") => TypeCheck(prog)

(* The compiler accepts what it made itself: no pass meets what the passes  *)
(* before it should have removed (the panics of from_js.rs and              *)
(* from_jankyscript.rs), inference finds a typing, no coercion to any       *)
(* starts from a type that is not ground, and neither type checker rejects  *)
(* the code.                                                                *)
Compiles == status = "running"

\* the functions that from_jankyscript has lifted
Lifted == IF prog.k = "Program" THEN {prog.c[i].x : i \in DOMAIN prog.c} ELSE {}

\* the variables that a function uses and does not declare, its environment aside
Unbound(f) == DOMAIN Fv(f) \ (DOMAIN Globals \cup Lifted)

(* After closure conversion no function reads or writes a variable of the   *)
(* functions around it, except through its environment: what is captured is *)
(* in the environment and what is captured and assigned is in a box, which  *)
(* is all that lets from_jankyscript lift the functions out                 *)
(* (closure_convert.rs: "assigns should have been boxed so they will never  *)
(* be assigned to free").  The type checker does not see this: it checks a  *)
(* closure in the environment around it.                                    *)
Closed ==
    status = "running" /\ Done_("closure_convert") =>
        \A f \in {n \in Nodes(prog) : n.k = "Func"} : Unbound(f) = {}

(* A closure is made with an environment that its function can read: each   *)
(* EnvGet has the type of what the site that makes the closure puts there.  *)
(* Both type checkers take the type of an EnvGet on trust, and the second   *)
(* that of an environment (notwasm/type_checking.rs:413, "get away with     *)
(* pretending").                                                            *)
EnvTyped ==
    status = "running" /\ prog.k = "Program" =>
        \A c \in {n \in Nodes(prog) : n.k = "Closure"} :
            \A g \in {f \in Range(prog.c) : f.x = c.c[1].x} :
                \A e \in {n \in Nodes(g) : n.k = "EnvGet"} : e.t = c.c[e.x[2] + 1].t

\* the names that a function declares, once for each declaration
DeclaredNames(f) == [i \in DOMAIN Declared(Body(f)) |-> Declared(Body(f))[i].x]

(* Names that the compiler makes up are declared once in a function, though *)
(* nine passes and three name generators give them out.                     *)
NamesAreFresh ==
    LET made(f) == SelectSeq(DeclaredNames(f), LAMBDA x : x[2] > 0)
    IN  \A f \in {n \in Nodes(prog) : n.k \in {"Func", "FuncStmt"}} \cup {Func(<<>>, prog)} :
            IsInjective(made(f))

(* NotWasm code is in A-normal form: the arguments of calls are names and   *)
(* what is allocated or called is named first (translation.rs takes the Ids *)
(* of PrimCall, Call and ClosureCall to be in its environment).             *)
ANormal ==
    status = "running" /\ prog.k = "Program" =>
        \A n \in Nodes(prog) :
            n.k \in {"Call", "PrimCall", "MethodCall", "Length"} =>
                \A i \in DOMAIN n.c : n.c[i].k = "Id"
============================================================================
