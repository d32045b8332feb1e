---------------------------- MODULE JsSemantics ----------------------------
(***************************************************************************)
(* Statements of the JavaScript front end (javascript/syntax.rs, Stmt) and *)
(* what JavaScript says their control flow is.  A statement is a record    *)
(*   k   its constructor                                                   *)
(*   x   its label, condition, case list or effect                         *)
(*   ss  its sub-statements                                                *)
(* Expressions are abstract: an expression statement is an effect n, a     *)
(* condition is a test n whose outcome the environment decides, and so is  *)
(* the case a switch selects.                                              *)
(*                                                                         *)
(* The semantics is a machine on a continuation: the sequence of the       *)
(* statements still to run, with marks where a jump can land.              *)
(***************************************************************************)
EXTENDS Naturals, Sequences

NoLabel == <<>>

Stmt(k, x, ss) == [k |-> k, x |-> x, ss |-> ss]

Empty == Stmt("Empty", 0, <<>>)
Expr(n) == Stmt("Expr", n, <<>>)
Block(ss) == Stmt("Block", 0, ss)
If(c, s, t) == Stmt("If", c, <<s, t>>)
While(c, s) == Stmt("While", c, <<s>>)
DoWhile(s, c) == Stmt("DoWhile", c, <<s>>)
For(init, c, advance, s) == Stmt("For", <<init, c, advance>>, <<s>>)
\* the last of ss is the default case, Empty if there is none
Switch(e, cases, default) == Stmt("Switch", e, Append(cases, default))
Label(l, s) == Stmt("Label", l, <<s>>)
Break(l) == Stmt("Break", l, <<>>)
Continue(l) == Stmt("Continue", l, <<>>)
Return(n) == Stmt("Return", n, <<>>)
Throw == Stmt("Throw", 0, <<>>)

Loops == {"For", "DoWhile", "While"}

\* conditions: a test of the program, true, and what desugar_switch puts there
Test(n) == [t |-> "test", n |-> n]
TRUE_ == [t |-> "true"]

(***************************************************************************)
(* What a run shows to the outside: [e, n], and the answer r it got.       *)
(***************************************************************************)
Event(e, n) == [e |-> e, n |-> n]

\* marks: the end of a labelled statement, of a switch, the next iteration of
\* a loop and the test of a for loop, the end of the main program
EndLabel(l) == Stmt("EndLabel", l, <<>>)
EndSwitch == Stmt("EndSwitch", 0, <<>>)
Again(loop) == Stmt("Again", 0, <<loop>>)
ForTest(loop) == Stmt("ForTest", 0, <<loop>>)
End == Stmt("End", 0, <<>>)

\* The first position of a continuation that satisfies T, which exists in a
\* program without syntax errors.
First(ks, T(_)) ==
    CHOOSE i \in DOMAIN ks : T(i) /\ \A j \in 1 .. i - 1 : ~T(j)

From(ks, i) == SubSeq(ks, i, Len(ks))

\* l labels the loop whose next iteration is at i: only label marks between
Labels(ks, i, l) ==
    \E j \in i + 1 .. Len(ks) :
        /\ ks[j].k = "EndLabel" /\ ks[j].x = l
        /\ \A m \in i + 1 .. j : ks[m].k = "EndLabel"

JsBreak(ks, l) ==
    IF l = NoLabel
    THEN From(ks, First(ks, LAMBDA i : ks[i].k \in {"Again", "EndSwitch"}) + 1)
    ELSE From(ks, First(ks, LAMBDA i : ks[i].k = "EndLabel" /\ ks[i].x = l) + 1)

JsContinue(ks, l) ==
    IF l = NoLabel
    THEN From(ks, First(ks, LAMBDA i : ks[i].k = "Again"))
    ELSE From(ks, First(ks, LAMBDA i : ks[i].k = "Again" /\ Labels(ks, i, l)))

JsSilent(ks) ==
    Head(ks).k \in {"Empty", "Block", "Label", "Break", "Continue", "DoWhile",
                    "EndLabel", "EndSwitch"}

\* A step that shows nothing.
JsQuiet(ks) ==
    LET s == Head(ks)
        r == Tail(ks)
    IN  CASE s.k \in {"Empty", "EndLabel", "EndSwitch"} -> r
          [] s.k = "Block" -> s.ss \o r
          [] s.k = "Label" -> <<s.ss[1], EndLabel(s.x)>> \o r
          [] s.k = "Break" -> JsBreak(r, s.x)
          [] s.k = "Continue" -> JsContinue(r, s.x)
          [] s.k = "DoWhile" -> <<s.ss[1], Again(s)>> \o r

\* What the statement at the head shows.
JsEvent(ks) ==
    LET s == Head(ks)
        loop == s.ss[1]
    IN  CASE s.k = "Expr" -> Event("effect", s.x)
          [] s.k \in {"If", "While"} -> Event("test", s.x.n)
          [] s.k = "For" -> Event("effect", s.x[1])
          [] s.k = "ForTest" -> Event("test", loop.x[2].n)
          [] s.k = "Again" /\ loop.k = "For" -> Event("effect", loop.x[3])
          [] s.k = "Again" /\ loop.k # "For" -> Event("test", loop.x.n)
          [] s.k = "Switch" -> Event("select", s.x)
          [] s.k = "Return" -> Event("return", s.x)
          [] s.k = "Throw" -> Event("throw", 0)
          [] s.k = "End" -> Event("end", 0)

\* The continuation after that event, with the answer r: 1 or 0 for a test,
\* the number of the matching case for a switch, if there is one.
JsAfter(ks, r) ==
    LET s == Head(ks)
        rest == Tail(ks)
        iterate(loop) == IF r = 1 THEN <<loop.ss[1], Again(loop)>> \o rest ELSE rest
    IN  CASE s.k = "Expr" -> rest
          [] s.k = "If" -> <<s.ss[IF r = 1 THEN 1 ELSE 2]>> \o rest
          [] s.k = "While" -> iterate(s)
          [] s.k = "For" -> <<ForTest(s)>> \o rest
          [] s.k = "ForTest" -> iterate(s.ss[1])
          [] s.k = "Again" /\ s.ss[1].k = "For" -> <<ForTest(s.ss[1])>> \o rest
          [] s.k = "Again" /\ s.ss[1].k # "For" -> iterate(s.ss[1])
          [] s.k = "Switch" ->
                From(s.ss, IF r \in 1 .. Len(s.ss) THEN r ELSE Len(s.ss)) \o <<EndSwitch>> \o rest
          [] s.k \in {"Return", "Throw", "End"} -> <<>>
=============================================================================
