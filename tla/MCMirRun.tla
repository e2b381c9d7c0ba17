------------------------------ MODULE MCMirRun ------------------------------
(* Small programs: two variables that are printed at the end, and between,  *)
(* one or two constructs around the statements that disturb them.           *)
EXTENDS MirRun

Lit(v) == [kind |-> "lit", value |-> v]
Var(x) == [kind |-> "var", name |-> x]
Bin(op, l, r) == [kind |-> "binary", op |-> op, lhs |-> l, rhs |-> r]
Plus(e, n) == Bin("add", e, Lit(Num(n)))
Below(e, n) == Bin("lt", e, Lit(Num(n)))
Is(e, n) == Bin("eq", e, Lit(Num(n)))
Ask(e) == [kind |-> "call", callee |-> "helper", arg |-> e]

Put(x, e) == [kind |-> "set", var |-> x, expr |-> e]
Show(e) == [kind |-> "call", callee |-> "print", arg |-> e]
Panic(v) == [kind |-> "panic", expr |-> Lit(v)]
Break == [kind |-> "break"]
Continue == [kind |-> "continue"]
Leave(e) == [kind |-> "return", expr |-> e]
IfElse(c, a, b) == [kind |-> "if", cond |-> c, then |-> a, elseifs |-> << >>, else |-> b]
ElseIf(c, a, d, b, else) ==
  [kind |-> "if", cond |-> c, then |-> a, elseifs |-> <<[cond |-> d, body |-> b]>>, else |-> else]
Check(e, arms) == [kind |-> "check", on |-> e, arms |-> arms]
Arm(p, body) == [pattern |-> p, body |-> body]
WhileDo(c, body) == [kind |-> "while", cond |-> c, body |-> body]
ForIn(vs, body) ==
  [kind |-> "for", binding |-> "i", over |-> [kind |-> "list", values |-> vs], body |-> body]
Try(body, catches, otherwise, finally) ==
  [kind |-> "attempt", body |-> body, catches |-> catches, otherwise |-> otherwise,
   finally |-> finally]
Clause(type, body) == [type |-> type, binding |-> "e", body |-> body]

X == Var("x")
Y == Var("y")
Swap == <<Put("t", X), Put("x", Y), Put("y", Var("t"))>>

\* What a branch or an arm does: goes on, leaves the loop or the function, fails.
Quiet == {<< >>, <<Put("x", Plus(X, 1))>>, Swap}
Asking == {<<Put("y", Ask(X))>>, <<Put("t", Ask(Y)), Put("y", Var("t"))>>}
Leaving == {<<Break>>, <<Put("x", Plus(Y, 2)), Break>>, <<Put("y", X), Continue>>,
            <<Put("x", Y), Leave(X)>>}

Branches(blocks, cond) == {IfElse(cond, a, b) : a \in blocks, b \in blocks}
Selections(blocks, on) ==
  {ElseIf(Is(on, 0), a, Is(on, 1), b, <<Show(Y)>>) : a \in blocks, b \in blocks}
  \cup {Check(on, <<Arm(Lit(Num(0)), a), Arm(Wildcard, b), Arm(Lit(Num(1)), << >>)>>) :
          a \in blocks, b \in blocks}
  \cup {Check(on, <<Arm(Lit(Num(2)), a), Arm(Lit(Num(1)), b)>>) : a \in blocks, b \in blocks}

\* No clause, one for everything, one that fits some errors only.
Clauses(blocks) ==
  {<< >>} \cup {<<Clause(Untyped, a)>> : a \in blocks}
  \cup {<<Clause("string", a)>> : a \in blocks}
  \cup {<<Clause("string", a), Clause("integer", <<Show(Var("e"))>>)>> : a \in blocks}
Attempts(bodies, clauses, otherwise, after) ==
  {Try(a, c, o, f) : a \in bodies, c \in clauses, o \in otherwise,
                     f \in {<< >>, <<Show(Lit(Cleanup))>> \o after}}

Trying ==
  {<<Try(<<IfElse(Is(X, 0), <<Panic(Num(7))>>, << >>)>>, <<Clause(Untyped, Swap)>>, b,
         <<Show(Lit(Cleanup))>>)>> : b \in {<< >>, <<Put("x", Plus(Y, 1))>>}}
  \cup {<<Try(<<Panic(Str("s"))>>, <<Clause("string", a)>>, << >>, << >>)>> :
          a \in {<<Put("x", Plus(Y, 2)), Break>>, <<Put("y", X), Continue>>}}

\* Loops around choices that may leave them, and loops in loops.
Two == <<Num(0), Num(1)>>
Three == <<Num(0), Num(1), Num(2)>>
Loops(blocks) ==
  {ForIn(Three, <<s>> \o rest) :
     s \in Selections(blocks, Var("i")), rest \in {<< >>, <<Put("y", Plus(X, 1))>>}}
  \cup {ForIn(Two, <<ForIn(Two, <<s>>), Put("y", Plus(X, 1))>>) :
          s \in Branches(blocks, Is(Var("i"), 0))}
  \cup {WhileDo(Bin("and", Below(X, 3), Below(Var("n"), 2)), <<Put("n", Plus(Var("n"), 1)), s>>) :
          s \in Branches(blocks, Bin("or", Is(X, 0), Is(Y, 2)))}

Failing == {<<Panic(Num(7))>>, <<IfElse(Is(X, 0), <<Panic(Str("s"))>>, << >>)>>,
            <<ForIn(Two, <<IfElse(Is(Var("i"), 0), <<Continue>>, <<Panic(Num(7))>>)>>)>>}
Working == {<<Show(X)>>, <<Leave(Y)>>, <<Put("x", Plus(X, 1))>>}
Outer(bodies) ==
  Attempts(bodies, Clauses({<<Show(Var("e")), Put("x", Y)>>}), {<< >>}, <<Put("y", X)>>)
Inner == Attempts({<<Panic(Num(7))>>, <<Show(X)>>}, Clauses({<<Panic(Str("s"))>>, <<Show(Y)>>}),
                  {<< >>}, << >>)
Repeated ==
  {ForIn(Two, <<a, Put("y", Plus(Y, 1))>>) :
     a \in Attempts({<<IfElse(Is(Var("i"), 1), <<Panic(Num(7))>>, <<Show(Y)>>)>>, <<Break>>},
                    Clauses({Swap} \cup Leaving), {<< >>, <<Put("x", Plus(Y, 2)), Break>>},
                    <<Put("x", Plus(X, 1))>>)}

Whole(s) == <<Put("x", Lit(Num(0))), Put("y", Lit(Num(1))), Put("n", Lit(Num(0))), s,
              Show(X), Show(Y)>>
N == Var("v")
Plainest == [param |-> "v", body |-> <<Leave(N)>>]
Helpers ==
  {[param |-> "v", body |-> b] : b \in
     {<<Leave(Plus(N, 1))>>,
      <<Put("v", Plus(N, 1)), Show(N), Leave(N)>>,
      <<[kind |-> "call", callee |-> "raise", arg |-> N]>>,
      <<IfElse(Below(N, 1), <<Panic(Str("low"))>>, << >>), Leave(N)>>,
      <<Try(<<Panic(Num(3))>>, <<Clause(Untyped, <<Leave(Var("e"))>>)>>, << >>, << >>)>>}}

ThePrograms ==
  {[body |-> Whole(s), helper |-> Plainest] :
     s \in Selections(Quiet, X) \cup Loops(Leaving \cup Quiet \cup Trying)
           \cup Attempts(Failing \cup Working, Clauses({Swap, <<Put("x", Y), Panic(Str("s"))>>}),
                         {<< >>, Swap}, <<Show(X), Put("y", X)>>)
           \cup Outer({<<a>> : a \in Inner})}
  \cup {[body |-> Whole(s) \o rest, helper |-> Plainest] :
          s \in Repeated, rest \in {<< >>, <<Panic(Num(7))>>}}
  \cup {[body |-> Whole(s), helper |-> h] :
          h \in Helpers,
          s \in Selections(Asking, X)
                \cup Attempts({<<Put("t", Ask(Y)), Show(Var("t"))>>, <<Show(Y)>>},
                              Clauses(Asking), Asking, << >>)}
=============================================================================
