------------------------------- MODULE Meaning -------------------------------
(***************************************************************************)
(* What a program means, statement by statement, without blocks, locals or *)
(* handlers: the language as its README and tests describe it.  The reader *)
(* of a program has a state:                                               *)
(*   vars    the value of each variable                                    *)
(*   out     what has been printed                                         *)
(*   how     how the last statement ended: "next" when it went on to the   *)
(*           next one, or "break", "continue", "return", "threw"           *)
(*   value   the value of the last expression, or what was returned or     *)
(*           thrown                                                        *)
(*   helper  the program's other function                                  *)
(*   kept    no attempt has been run yet in a way that the lowering is     *)
(*           known to lose: see Keeps                                      *)
(***************************************************************************)
EXTENDS Lowering

\* The error of an operation that fails, as a clause that catches it sees it.
Error == Str("error")

\* The operators that are modelled, and the values they take.
Takes(op, a, b) == op = "eq" \/ {TypeName(a), TypeName(b)} = {"integer"}

Apply(op, a, b) ==
  CASE op = "add" -> Num(a[2] + b[2])
    [] op = "lt" -> Bool(a[2] < b[2])
    [] op = "eq" -> Bool(a = b)

Goes(s) == s.how = "next"
Throws(s, v) == [s EXCEPT !.how = "threw", !.value = v]
Bind(s, x, v) ==
  [s EXCEPT !.vars = [y \in DOMAIN @ \cup {x} |-> IF y = x THEN v ELSE @[y]]]

RECURSIVE Run(_, _)
RECURSIVE Eval(_, _)

\* A call of a builtin or of the helper, whose argument is the value of s.
Enter(s, callee) ==
  LET inside == Run([s EXCEPT !.vars = [x \in {s.helper.param} |-> s.value]], s.helper.body) IN
  CASE callee = "print" -> [s EXCEPT !.out = Append(@, s.value), !.value = Nothing]
    [] callee = "raise" -> Throws(s, Error)
    [] callee = "helper" ->
         [inside EXCEPT !.vars = s.vars,
                        !.how = IF @ = "threw" THEN "threw" ELSE "next",
                        !.value = IF inside.how = "next" THEN Nothing ELSE @]

Eval(s, e) ==
  CASE e.kind = "lit" -> [s EXCEPT !.value = e.value]
    [] e.kind = "list" -> [s EXCEPT !.value = List(e.values)]
    [] e.kind = "var" -> [s EXCEPT !.value = s.vars[e.name]]
    [] e.kind = "call" ->
         LET arg == Eval(s, e.arg) IN IF Goes(arg) THEN Enter(arg, e.callee) ELSE arg
    [] e.kind = "binary" ->
         LET lhs == Eval(s, e.lhs)
             rhs == Eval(lhs, e.rhs) IN
         IF ~Goes(lhs) THEN lhs
         ELSE IF e.op \in {"and", "or"} /\ Truthy(lhs.value) = (e.op = "or") THEN lhs
         ELSE IF ~Goes(rhs) \/ e.op \in {"and", "or"} THEN rhs
         ELSE IF Takes(e.op, lhs.value, rhs.value)
              THEN [rhs EXCEPT !.value = Apply(e.op, lhs.value, @)]
              ELSE Throws(rhs, Error)

\* The first alternative whose condition holds.
RECURSIVE Choice(_, _, _)
Choice(s, alternatives, else) ==
  IF alternatives = << >> THEN Run(s, else)
  ELSE LET test == Eval(s, alternatives[1].cond) IN
       IF ~Goes(test) THEN test
       ELSE IF Truthy(test.value) THEN Run(test, alternatives[1].body)
       ELSE Choice(test, Tail(alternatives), else)

\* The first arm whose pattern is the value.
RECURSIVE Match(_, _, _)
Match(s, v, arms) ==
  IF arms = << >> THEN s
  ELSE IF arms[1].pattern.kind = "wildcard" \/ arms[1].pattern.value = v THEN Run(s, arms[1].body)
  ELSE Match(s, v, Tail(arms))

\* A loop is left by break and goes on after continue.
AfterBody(s) ==
  IF s.how = "continue" THEN [s EXCEPT !.how = "next"] ELSE s
Left(s) == IF s.how = "break" THEN [s EXCEPT !.how = "next"] ELSE s

RECURSIVE While(_, _)
While(s, loop) ==
  LET test == Eval(s, loop.cond)
      body == AfterBody(Run(test, loop.body)) IN
  IF ~Goes(test) \/ ~Truthy(test.value) THEN test
  ELSE IF Goes(body) THEN While(body, loop)
  ELSE Left(body)

RECURSIVE For(_, _, _)
For(s, loop, items) ==
  IF items = << >> THEN s
  ELSE LET body == AfterBody(Run(Bind(s, loop.binding, Head(items)), loop.body)) IN
       IF Goes(body) THEN For(body, loop, Tail(items)) ELSE Left(body)

\* The clauses are looked at in order; none may fit.
RECURSIVE Catch(_, _)
Catch(s, catches) ==
  IF catches = << >> THEN s
  ELSE IF catches[1].type \in {Untyped, TypeName(s.value)}
       THEN Run(Bind([s EXCEPT !.how = "next"], catches[1].binding, s.value), catches[1].body)
       ELSE Catch(s, Tail(catches))

\* The finally always runs; what it does not change stays as it was before it.
Finally(s, finally) ==
  LET end == Run([s EXCEPT !.how = "next"], finally) IN
  IF Goes(end) THEN [end EXCEPT !.how = s.how, !.value = s.value] ELSE end

\* The runs of an attempt that its blocks do as they are written: its body leaves the
\* variables alone, stays inside the attempt or returns, and throws only where there is
\* a clause; and when there is a finally, the parts before it end or are thrown out of
\* by a clause that leaves the variables alone.
Keeps(s, a, body, handled) ==
  LET fits == {k \in DOMAIN a.catches : a.catches[k].type \in {Untyped, TypeName(body.value)}} IN
  /\ Assigned(a.body) \cap DOMAIN s.vars = {}
  /\ body.how \notin {"break", "continue"}
  /\ body.how = "threw" => a.catches # << >>
  /\ a.finally # << >> =>
       \/ Goes(handled)
       \/ /\ body.how = "threw" /\ handled.how = "threw" /\ fits # {}
          /\ Assigned(a.catches[Min(fits)].body) \cap DOMAIN s.vars = {}

Attempt(s, a) ==
  LET body == Run(s, a.body)
      handled == IF body.how = "threw" THEN Catch(body, a.catches)
                 ELSE IF Goes(body) THEN Run(body, a.otherwise)
                 ELSE body IN
  [Finally(handled, a.finally) EXCEPT !.kept = @ /\ Keeps(s, a, body, handled)]

Statement(s, t) ==
  CASE t.kind = "set" -> LET e == Eval(s, t.expr) IN IF Goes(e) THEN Bind(e, t.var, e.value) ELSE e
    [] t.kind = "call" -> Eval(s, t)
    [] t.kind = "panic" -> LET e == Eval(s, t.expr) IN IF Goes(e) THEN Throws(e, e.value) ELSE e
    [] t.kind = "return" -> LET e == Eval(s, t.expr) IN
                            IF Goes(e) THEN [e EXCEPT !.how = "return"] ELSE e
    [] t.kind \in {"break", "continue"} -> [s EXCEPT !.how = t.kind]
    [] t.kind = "if" -> Choice(s, <<[cond |-> t.cond, body |-> t.then]>> \o t.elseifs, t.else)
    [] t.kind = "check" -> LET on == Eval(s, t.on) IN IF Goes(on) THEN Match(on, on.value, t.arms) ELSE on
    [] t.kind = "while" -> While(s, t)
    [] t.kind = "for" -> LET over == Eval(s, t.over) IN
                         IF Goes(over) THEN For(over, t, over.value[2]) ELSE over
    [] t.kind = "attempt" -> Attempt(s, t)

Run(s, stmts) ==
  IF stmts = << >> \/ ~Goes(s) THEN s ELSE Run(Statement(s, Head(stmts)), Tail(stmts))

\* What the main function of a program prints, whether it throws, and whether that is
\* also what its blocks are to do.
Outcome(program) ==
  LET s == Run([helper |-> program.helper, vars |-> [x \in {} |-> Nothing], out |-> << >>,
                how |-> "next", value |-> Nothing, kept |-> TRUE], program.body) IN
  [kept |-> s.kept,
   out |-> s.out,
   end |-> IF s.how = "threw" THEN [how |-> "threw", value |-> s.value]
           ELSE [how |-> "returned", value |-> Nothing]]
==============================================================================
