------------------------------ MODULE Codegen ------------------------------
(***************************************************************************)
(* From a function body to WebAssembly: jankyscript/insert_returns.rs,     *)
(* compile_stmt of notwasm/from_jankyscript.rs and translate_rec and       *)
(* translate_func of notwasm/translation.rs, as far as control flow goes,  *)
(* and a machine that runs the code.                                       *)
(*                                                                         *)
(* A function that calls itself in the Rust code is written here as one    *)
(* step with the recursive call as a parameter; ControlFlow ties the       *)
(* knots.  What is proved of these functions uses nothing else of them     *)
(* than that they satisfy their equations.                                 *)
(***************************************************************************)
EXTENDS JsSemantics, TLC, SequencesExt

CONSTANTS
    WellTyped(_, _),    \* the solution of WellTyped(is, r) = Typed(is, r, WellTyped)
    Compiled(_)         \* the solution of Compiled(is) = Finished(is, Compiled)

VARIABLES
    code,       \* the instructions of the compiled function
    wasm,       \* its control stack, the innermost frame first
    locals,     \* the locals test and fallthrough of each switch
    frames,     \* frames on the shadow stack
    event       \* what the compiled program did and nobody has seen yet

machine_vars == <<code, wasm, locals, frames, event>>

---------------------------------------------------------------------------
(* jankyscript: insert_returns.rs *)

Returns(s, returns(_)) ==
    CASE s.k = "Block" -> \E i \in DOMAIN s.ss : returns(s.ss[i])
      [] s.k = "If" -> returns(s.ss[1]) /\ returns(s.ss[2])
      [] s.k \in {"Throw", "Return"} -> TRUE
      [] OTHER -> FALSE

\* applies to functions, not to the main program
insert_returns(fn, body, body_returns) ==
    IF fn /\ ~body_returns THEN Block(Append(body.ss, Return(0))) ELSE body

---------------------------------------------------------------------------
(* notwasm: from_jankyscript.rs and translation.rs *)

\* A Rope<Stmt>.  A throw is no statement at all.
CompileStmt(s, compile_stmt(_)) ==
    CASE s.k = "Block" ->
            <<Block(FlattenSeq([i \in DOMAIN s.ss |-> compile_stmt(s.ss[i])]))>>
      [] s.k = "Throw" -> <<>>
      [] s.k \in {"If", "Loop", "Label"} ->
            <<[s EXCEPT !.ss = [i \in DOMAIN s.ss |-> Block(compile_stmt(s.ss[i]))]]>>
      [] OTHER -> <<s>>

\* Instructions.  br i leaves or repeats the i-th enclosing block, if or loop.
Inst(op, n) == [op |-> op, n |-> n]
Nested(op, n, result, body, alt) ==
    [op |-> op, n |-> n, result |-> result, body |-> body, alt |-> alt]

\* labels is env.labels, innermost first
Unused == <<"unused">>

BreakIndex(labels, l) ==
    IF \E i \in DOMAIN labels : labels[i] = l
    THEN <<Inst("br", First(labels, LAMBDA i : labels[i] = l) - 1)>>
    ELSE <<Inst("panic", 0)>>

\* fn says whether the function has a result type
TranslateStmt(labels, fn, tail_position, s, translate(_, _, _)) ==
    CASE s.k = "Empty" -> <<>>
      [] s.k = "Block" ->
            FlattenSeq([i \in DOMAIN s.ss |->
                          translate(labels, tail_position /\ i = Len(s.ss), s.ss[i])])
      [] s.k = "Expr" -> <<Inst("call", s.x)>>
      [] s.k \in {"SetTest", "SetFallthrough"} -> <<Inst(s.k, s.x)>>
      [] s.k = "If" ->
            LET ls == <<Unused>> \o labels
            IN  <<Nested("if", s.x, tail_position /\ fn,
                         translate(ls, tail_position, s.ss[1]),
                         translate(ls, tail_position, s.ss[2]))>>
      [] s.k = "Loop" ->
            <<Nested("loop", 0, FALSE,
                     Append(translate(<<Unused>> \o labels, FALSE, s.ss[1]), Inst("br", 0)),
                     <<>>)>>
      [] s.k = "Label" ->
            <<Nested("block", 0, FALSE,
                     translate(<<s.x>> \o labels, tail_position, s.ss[1]), <<>>)>>
      [] s.k = "Break" -> BreakIndex(labels, s.x)
      [] s.k = "Return" -> <<Inst("gc_exit_fn", 0), Inst("return", s.x)>>
      [] s.k = "Panic" -> <<Inst("panic", 0)>>

\* mutant: only a return pops the shadow frame
NoExitAtEnd(translated) == translated

\* translate_func, once the body is translated
EndOfFunc(translated) == Append(translated, Inst("gc_exit_fn", 0))

---------------------------------------------------------------------------
(* The machine that runs the code: external, a WebAssembly engine.          *)

Frame(i, is) == [inst |-> i, rest |-> is]

Shown(e, n, r) == [e |-> e, n |-> n, r |-> r]
NoEvent == Shown("none", 0, 0)

Load(c) ==
    /\ code = c
    /\ wasm = <<Frame(Inst("func", 0), c.body)>>
    /\ locals = <<>>
    /\ frames = 1
    /\ event = NoEvent

\* The instruction at the cursor, the frames once it is behind the cursor.
Here == Head(wasm[1].rest)
Past == <<[wasm[1] EXCEPT !.rest = Tail(@)]>> \o Tail(wasm)

Running(op) == event = NoEvent /\ wasm # <<>> /\ wasm[1].rest # <<>> /\ Here.op = op

\* call: the effect of an expression statement
Call ==
    /\ Running("call")
    /\ wasm' = Past
    /\ event' = Shown("effect", Here.n, 0)
    /\ UNCHANGED <<code, locals, frames>>

Enter(branch) == <<Frame(Here, branch)>> \o Past

\* a condition of the program: any outcome
IfTest(r) ==
    /\ Running("if") /\ Here.n.t = "test"
    /\ wasm' = Enter(IF r = 1 THEN Here.body ELSE Here.alt)
    /\ event' = Shown("test", Here.n.n, r)
    /\ UNCHANGED <<code, locals, frames>>

\* a condition that desugar_switch made, on its own two variables
IfCase ==
    /\ Running("if") /\ Here.n.t = "case"
    /\ LET l == locals[Here.n.v]
       IN  wasm' = Enter(IF l.test = Here.n.i \/ l.fallthrough
                         THEN Here.body ELSE Here.alt)
    /\ UNCHANGED <<code, locals, frames, event>>

\* the discriminant: equal to the literal of case r, or to none
Select(r) ==
    /\ Running("SetTest")
    /\ locals' = [locals EXCEPT ![Here.n.v].test = r]
    /\ wasm' = Past
    /\ event' = Shown("select", Here.n.e, r)
    /\ UNCHANGED <<code, frames>>

SetFlag ==
    /\ Running("SetFallthrough")
    /\ locals' = (Here.n.v :> [test |-> IF Here.n.v \in DOMAIN locals
                                        THEN locals[Here.n.v].test ELSE 0,
                               fallthrough |-> Here.n.b]) @@ locals
    /\ wasm' = Past
    /\ UNCHANGED <<code, frames, event>>

EnterBlock ==
    /\ Running("block") \/ Running("loop")
    /\ wasm' = Enter(Here.body)
    /\ UNCHANGED <<code, locals, frames, event>>

\* a branch to a loop repeats it, to another frame leaves it
Br ==
    /\ Running("br")
    /\ LET i == Here.n + 1
           target == wasm[i].inst
       IN  wasm' = IF target.op = "loop"
                   THEN <<Frame(target, target.body)>> \o From(wasm, i + 1)
                   ELSE From(wasm, i + 1)
    /\ UNCHANGED <<code, locals, frames, event>>

GcExitFn ==
    /\ Running("gc_exit_fn")
    /\ frames' = frames - 1
    /\ wasm' = Past
    /\ UNCHANGED <<code, locals, event>>

ReturnInst ==
    /\ Running("return")
    /\ wasm' = <<>>
    /\ event' = Shown("return", Here.n, 0)
    /\ UNCHANGED <<code, locals, frames>>

\* the end of a block, of the function
Leave ==
    /\ event = NoEvent /\ wasm # <<>> /\ wasm[1].rest = <<>>
    /\ wasm' = Tail(wasm)
    /\ event' = IF Len(wasm) = 1 THEN Shown("end", 0, 0) ELSE NoEvent
    /\ UNCHANGED <<code, locals, frames>>

\* Somebody has seen what the program did.
Seen ==
    /\ event # NoEvent
    /\ event' = NoEvent
    /\ UNCHANGED <<code, wasm, locals, frames>>

\* a test has two outcomes, a discriminant equals one of two literals or none
Cases == 0 .. 2

Run ==
    \/ Call \/ IfCase \/ SetFlag \/ EnterBlock \/ Br \/ GcExitFn \/ ReturnInst \/ Leave
    \/ \E r \in {0, 1} : IfTest(r)
    \/ \E r \in Cases : Select(r)

\* The machine on any of the given functions.
MachineSpec(functions) ==
    (\E c \in functions : Load(c)) /\ [][Run \/ Seen]_machine_vars

---------------------------------------------------------------------------
(* Properties *)

\* The frame gc_enter_fn pushed is popped once on every way out of a function:
\* by a return, by the end of the body, from inside any number of blocks.
FrameBalance == wasm = <<>> => frames = 0

\* WebAssembly's typing of a sequence of instructions: what it leaves on the
\* operand stack.  Only an if in tail position leaves a value, and after an
\* unconditional jump the stack may have any values below.
Jumping(is) == {i \in DOMAIN is : is[i].op \in {"br", "return"}}
Values(is) ==
    {i \in DOMAIN is :
        is[i].op = "if" /\ is[i].result /\ \A j \in Jumping(is) : j < i}

LeavesResult(is, result) ==
    /\ \A i, j \in Values(is) : i = j
    /\ IF result THEN Jumping(is) = {} => Values(is) # {} ELSE Values(is) = {}

Typed(is, result, typed(_, _)) ==
    /\ LeavesResult(is, result)
    /\ \A i \in DOMAIN is :
          /\ is[i].op \in {"block", "loop"} => typed(is[i].body, FALSE)
          /\ is[i].op = "if" => /\ typed(is[i].body, is[i].result)
                                /\ typed(is[i].alt, is[i].result)

\* no instruction stands for a panic of the compiler
Finished(is, finished(_)) ==
    \A i \in DOMAIN is :
        /\ is[i].op # "panic"
        /\ is[i].op \in {"block", "loop", "if"} => finished(is[i].body) /\ finished(is[i].alt)

\* The compiler does not panic and its output is a valid module: what returns()
\* believes about the end of a function is what translate_func relies on.
Validates ==
    /\ Compiled(code.body)
    /\ WellTyped(code.body, code.fn)
=============================================================================
