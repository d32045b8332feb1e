--------------------------- MODULE MCControlFlow ---------------------------
(***************************************************************************)
(* Programs for ControlFlow: a statement that contains a statement that    *)
(* contains jumps, with effects after each, so that a jump that lands in   *)
(* the wrong place shows.                                                  *)
(***************************************************************************)
EXTENDS ControlFlow

L == <<"user", "L">>   \* of the outer statement
M == <<"user", "M">>   \* of the inner one

Jumps == {Break(NoLabel), Continue(NoLabel), Break(L), Continue(L), Break(M),
          Continue(M), Return(1)}

\* A statement with number n around bodies a, b
Around(n, a, b) ==
    {If(Test(n), a, b), While(Test(n), a), DoWhile(a, Test(n)),
     For(n, Test(n), n + 1, a),
     Switch(n, <<Block(<<a>>), Block(<<b>>)>>, Block(<<Expr(n + 2)>>)),
     Switch(n, <<Block(<<Expr(n + 2)>>), Block(<<a>>)>>, Empty)}

Labelled(l, S) == S \cup {Label(l, s) : s \in S}

Leaves(n) == Jumps \cup {Expr(n)}

Inner(n) ==
    UNION {Labelled(M, Around(n, a, b)) : a \in Leaves(n + 3), b \in {Empty, Return(2)}}

Bodies ==
    {Block(<<o, Expr(30)>>) : o \in UNION {
        Labelled(L, Around(10, Block(<<i, Expr(26)>>), Expr(27))) : i \in Inner(20)}}

\* functions whose last statement is in tail position all the way down
TailBodies ==
    {Block(<<o>>) : o \in UNION {
        Labelled(L, Around(10, Block(<<i>>), Return(3))) : i \in Inner(20)}}

\* What the parser accepts.  loop, sw: in a loop, in a switch; labs, loops:
\* the labels in scope, and those of loops.
RECURSIVE Legal(_, _, _, _, _)
Legal(s, loop, sw, labs, loops) ==
    LET here == s.k \in Loops
        isloop == s.k = "Label" /\ s.ss[1].k \in Loops
    IN  /\ s.k = "Break" => IF s.x = NoLabel THEN loop \/ sw ELSE s.x \in labs
        /\ s.k = "Continue" => IF s.x = NoLabel THEN loop ELSE s.x \in loops
        /\ \A i \in DOMAIN s.ss :
             Legal(s.ss[i], loop \/ here, sw \/ s.k = "Switch",
                   IF s.k = "Label" THEN labs \cup {s.x} ELSE labs,
                   IF isloop THEN loops \cup {s.x} ELSE loops)

\* a continue of a do-while loop: of the innermost one (do), of a labelled one
RECURSIVE ContinuesDo(_, _, _)
ContinuesDo(s, do, dos) ==
    \/ s.k = "Continue" /\ IF s.x = NoLabel THEN do ELSE s.x \in dos
    \/ \E i \in DOMAIN s.ss :
         ContinuesDo(s.ss[i],
                     IF s.k \in Loops THEN s.k = "DoWhile" ELSE do,
                     IF s.k = "Label" /\ s.ss[1].k = "DoWhile"
                     THEN dos \cup {s.x} ELSE dos)

\* no statement follows one that certainly returns
RECURSIVE NoDeadCode(_)
NoDeadCode(s) ==
    /\ s.k = "Block" => \A i \in 1 .. Len(s.ss) - 1 : ~returns(s.ss[i])
    /\ \A i \in DOMAIN s.ss : NoDeadCode(s.ss[i])

RECURSIVE Has(_, _)
Has(s, k) == s.k = k \/ \E i \in DOMAIN s.ss : Has(s.ss[i], k)

LegalBodies ==
    {s \in Bodies \cup TailBodies : Legal(s, FALSE, FALSE, {}, {}) /\ NoDeadCode(s)}

As(fn, S) == {[fn |-> fn, body |-> s] : s \in S}

MCPrograms ==
    LET S == {s \in LegalBodies : ~ContinuesDo(s, FALSE, {})}
    IN  As(TRUE, S) \cup As(FALSE, {s \in S : ~Has(s, "Return")})

DoWhilePrograms ==
    As(FALSE, {s \in LegalBodies : ContinuesDo(s, FALSE, {}) /\ ~Has(s, "Return")})

ThrowPrograms ==
    As(TRUE, {Block(<<s>>) : s \in Around(10, Throw, Return(1)) \cup {Throw}})
=============================================================================
