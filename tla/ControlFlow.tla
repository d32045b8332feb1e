---------------------------- MODULE ControlFlow ----------------------------
(***************************************************************************)
(* The compilation of control flow: javascript/desugar_switch.rs and       *)
(* desugar_loops.rs, jankyscript/from_js.rs and insert_returns.rs,         *)
(* notwasm/from_jankyscript.rs and translation.rs, as functions from trees *)
(* to trees, and a machine that runs the WebAssembly code they produce.    *)
(*                                                                         *)
(* The compiled program runs ahead by one event, and the JavaScript        *)
(* machine of JsSemantics follows it: it must be able to do the same.      *)
(* Fresh names (NameGen) are a prefix and the path of the statement they   *)
(* are made for.  A panic of the compiler is a statement of its own.       *)
(***************************************************************************)
EXTENDS Codegen

CONSTANT Programs   \* function bodies, [fn |-> BOOLEAN, body |-> Block(...)]

VARIABLE js         \* the continuation of the JavaScript program

vars == <<machine_vars, js>>

Panic == Stmt("Panic", 0, <<>>)

---------------------------------------------------------------------------
(* desugar_switch.rs *)

\* `test === e_i || fallthrough` of the switch at path v
CaseTest(v, i) == [t |-> "case", v |-> v, i |-> i]
\* var test = e, var fallthrough = b
SetTest(v, e) == Stmt("SetTest", [v |-> v, e |-> e], <<>>)
SetFallthrough(v, b) == Stmt("SetFallthrough", [v |-> v, b |-> b], <<>>)

\* exit_stmt; sw is the name of the switch whose block this is in, if it is
\* in one (in_switch_block)
SwitchToIfExit(s, p, sw) ==
    LET cases == Front(s.ss)
        default == Last(s.ss)
    IN  CASE s.k = "Break" /\ s.x = NoLabel /\ sw # NoLabel -> Break(sw)
          [] s.k = "Switch" ->
                Label(<<"sw", p>>,
                  Block(<<SetFallthrough(p, FALSE), SetTest(p, s.x)>>
                        \o [i \in DOMAIN cases |->
                              If(CaseTest(p, i),
                                 Block(<<cases[i], SetFallthrough(p, TRUE)>>),
                                 Empty)]
                        \o default.ss))
          [] OTHER -> s

RECURSIVE SwitchToIf(_, _, _)
SwitchToIf(s, p, sw) ==
    LET in_switch == CASE s.k = "Switch" -> <<"sw", p>>
                       [] s.k \in Loops -> NoLabel
                       [] OTHER -> sw
        walked == [i \in DOMAIN s.ss |-> SwitchToIf(s.ss[i], Append(p, i), in_switch)]
    IN  SwitchToIfExit([s EXCEPT !.ss = walked], p, sw)

---------------------------------------------------------------------------
(* desugar_loops.rs *)

\* mutant: a while loop loses its condition
ExplicitBreaksNoTest(s) ==
    CASE s.k = "While" -> While(TRUE_, Block(<<s.ss[1]>>))
      [] s.k = "For" ->
            For(s.x[1], TRUE_, s.x[3], Block(<<If(s.x[2], s.ss[1], Break(NoLabel))>>))
      [] s.k = "DoWhile" ->
            While(TRUE_, Block(<<s.ss[1], If(s.x, Empty, Break(NoLabel))>>))
      [] OTHER -> s

ExplicitBreaksExit(s) ==
    CASE s.k = "While" ->
            While(TRUE_, Block(<<If(s.x, s.ss[1], Break(NoLabel))>>))
      [] s.k = "For" ->
            For(s.x[1], TRUE_, s.x[3], Block(<<If(s.x[2], s.ss[1], Break(NoLabel))>>))
      [] s.k = "DoWhile" ->
            While(TRUE_, Block(<<s.ss[1], If(s.x, Empty, Break(NoLabel))>>))
      [] OTHER -> s

RECURSIVE ExplicitBreaks(_)
ExplicitBreaks(s) ==
    ExplicitBreaksExit([s EXCEPT !.ss = [i \in DOMAIN s.ss |-> ExplicitBreaks(s.ss[i])]])

\* mutant: a labelled continue continues the innermost loop
ContinueInnermost(s, brk, conts) ==
    CASE s.k = "Break" /\ s.x = NoLabel ->
            IF brk = NoLabel THEN Panic ELSE Break(brk)
      [] s.k = "Continue" ->
            IF brk \in DOMAIN conts THEN Break(conts[brk]) ELSE Panic
      [] OTHER -> s

\* exit_stmt of LabelLoops on jumps: brk is the top of breaks_stack, conts is
\* breaks_for_conts
JumpToBreak(s, brk, conts) ==
    CASE s.k = "Break" /\ s.x = NoLabel ->
            IF brk = NoLabel THEN Panic ELSE Break(brk)
      [] s.k = "Continue" ->
            LET of == IF s.x = NoLabel THEN brk ELSE s.x
            IN  IF of \in DOMAIN conts THEN Break(conts[of]) ELSE Panic
      [] OTHER -> s

RECURSIVE LabelLoops(_, _, _, _)
LabelLoops(s, p, brk, conts) ==
    LET \* enter_stmt removes the label of a labelled loop ...
        labelled == s.k = "Label" /\ s.ss[1].k \in Loops
        loop == IF labelled THEN s.ss[1] ELSE s
        break_name == IF labelled THEN s.x ELSE <<"break", p>>
        cont_name == <<"cont", p>>
        body == LabelLoops(loop.ss[1], Append(p, 1), break_name,
                           (break_name :> cont_name) @@ conts)
        walked == [i \in DOMAIN s.ss |-> LabelLoops(s.ss[i], Append(p, i), brk, conts)]
    IN  \* ... and exit_stmt of the loop adds it again
        IF loop.k \in Loops
        THEN Label(break_name, [loop EXCEPT !.ss = <<Label(cont_name, body)>>])
        ELSE JumpToBreak([s EXCEPT !.ss = walked], brk, conts)

ForToWhileEnter(s) ==
    IF s.k = "For"
    THEN Block(<<Expr(s.x[1]), While(s.x[2], Block(<<s.ss[1], Expr(s.x[3])>>))>>)
    ELSE s

RECURSIVE ForToWhile(_)
ForToWhile(s) ==
    LET t == ForToWhileEnter(s)
    IN  [t EXCEPT !.ss = [i \in DOMAIN t.ss |-> ForToWhile(t.ss[i])]]

desugar_loops(s) ==
    ForToWhile(LabelLoops(ExplicitBreaks(s), <<>>, NoLabel, <<>>))

---------------------------------------------------------------------------
(* jankyscript: from_js.rs *)

RECURSIVE from_javascript(_)
from_javascript(s) ==
    LET ss == [i \in DOMAIN s.ss |-> from_javascript(s.ss[i])]
    IN  CASE s.k = "While" /\ s.x = TRUE_ -> Stmt("Loop", 0, ss)
          [] s.k = "Break" /\ s.x # NoLabel -> s
          [] s.k \in {"Block", "Empty", "Expr", "If", "Label", "Throw", "Return",
                      "SetTest", "SetFallthrough"} -> [s EXCEPT !.ss = ss]
          [] OTHER -> Panic

---------------------------------------------------------------------------
(* The functions of Codegen, which call themselves. *)

RECURSIVE returns(_)
\* mutant: a label returns if its body does, though a break may leave it
ReturnsThroughLabels(s) == Returns(s, returns) \/ (s.k = "Label" /\ returns(s.ss[1]))

returns(s) == Returns(s, returns)

RECURSIVE compile_stmt(_)
compile_stmt(s) == CompileStmt(s, compile_stmt)

RECURSIVE translate_rec(_, _, _, _)
translate_rec(labels, fn, tail_position, s) ==
    TranslateStmt(labels, fn, tail_position, s,
                  LAMBDA ls, tail, t : translate_rec(ls, fn, tail, t))

translate_func(fn, body) == EndOfFunc(translate_rec(<<>>, fn, TRUE, body))

compile(prog) ==
    LET desugared == desugar_loops(SwitchToIf(prog.body, <<>>, NoLabel))
        body == from_javascript(desugared)
        janky == insert_returns(prog.fn, body, returns(body))
    IN  translate_func(prog.fn, Block(compile_stmt(janky)))

---------------------------------------------------------------------------
(* JavaScript follows the machine. *)

Init ==
    \E prog \in Programs :
        /\ Load([fn |-> prog.fn, body |-> compile(prog)])
        /\ js = <<prog.body, IF prog.fn THEN Return(0) ELSE End>>

JsStep ==
    /\ event # NoEvent /\ js # <<>> /\ JsSilent(js)
    /\ js' = JsQuiet(js)
    /\ UNCHANGED machine_vars

SameEvent == js # <<>> /\ JsEvent(js) = Event(event.e, event.n)

JsDoes ==
    /\ Seen
    /\ js # <<>> /\ ~JsSilent(js)
    /\ SameEvent
    /\ js' = JsAfter(js, event.r)

Next == (Run /\ UNCHANGED js) \/ JsStep \/ JsDoes

Spec == Init /\ [][Next]_vars /\ WF_vars(Next)

---------------------------------------------------------------------------
(* Properties *)

\* The compiled program shows what the JavaScript program shows, in the same
\* order and with the same answers: every jump through the label stacks of
\* LabelLoops, the switch names of SwitchToIf and the indices that
\* translate_rec computes lands where JavaScript says.
SameEvents ==
    event # NoEvent /\ (js # <<>> => ~JsSilent(js)) => SameEvent

\* WellTyped and Compiled of Codegen.
RECURSIVE well_typed(_, _)
well_typed(is, result) == Typed(is, result, well_typed)

RECURSIVE compiled(_)
compiled(is) == Finished(is, compiled)

\* The compiled program never spins without showing anything: every loop of
\* these programs tests its condition in every iteration.
Progress == []<>(event # NoEvent \/ wasm = <<>>)
=============================================================================
