------------------------------ MODULE Lowering ------------------------------
(***************************************************************************)
(* From the typed tree of a function to basic blocks in SSA form (lower.rs *)
(* of fidan-mir).  A builder is threaded through the statements:           *)
(*   blocks  the blocks made so far                                        *)
(*   locals  how many locals have been made                                *)
(*   cur     the block that instructions are added to                      *)
(*   done    the current block has its terminator: nothing is added to it  *)
(*   env     variable -> the local that holds its current value            *)
(*   loops   the open loops, innermost last: where continue and break go   *)
(*   jumps   every break and continue: from which block, to which, with    *)
(*           which env                                                     *)
(*                                                                         *)
(* Statements are records with a kind.  A part that the program does not   *)
(* have (otherwise, finally, else) is the empty sequence.                  *)
(***************************************************************************)
EXTENDS Mir

NoVariables == [x \in {} |-> NoLocal]

\* The pattern `_` of a check, and the type of a clause that catches everything.
Wildcard == [kind |-> "wildcard"]
Untyped == "any"

-----------------------------------------------------------------------------
(* The builder.                                                            *)

NewLocals(b, n) == [b EXCEPT !.locals = @ + n]
NewBlocks(b, n) == [b EXCEPT !.blocks = @ \o [k \in 1 .. n |-> EmptyBlock]]
SwitchTo(b, block) == [b EXCEPT !.cur = block, !.done = FALSE]
Define(b, x, l) == [b EXCEPT !.env = [y \in DOMAIN @ \cup {x} |-> IF y = x THEN l ELSE @[y]]]

Emit(b, instr) ==
  IF b.done THEN b ELSE [b EXCEPT !.blocks[b.cur].code = Append(@, instr)]

Terminate(b, term) ==
  IF b.done THEN b ELSE [b EXCEPT !.blocks[b.cur].term = term, !.done = TRUE]

AddPhi(b, block, dest, from) ==
  [b EXCEPT !.blocks[block].phis = Append(@, Phi(dest, from))]

Live(env) == Range(env)

\* The variables whose local differs, those of after only included.
EnvDiff(before, after) ==
  {x \in DOMAIN after : x \notin DOMAIN before \/ before[x] # after[x]}

\* One phi in the current block for each of the variables; from[x] are its operands.
Merge(b, xs, from) ==
  FoldLeft(LAMBDA acc, x : Define(AddPhi(NewLocals(acc, 1), b.cur, acc.locals + 1, from[x]),
                                  x, acc.locals + 1),
           b, SetToSeq(xs))

\* What a variable holds at the end of a branch.
ValueIn(env, before, x) ==
  IF x \in DOMAIN env THEN Local(env[x])
  ELSE IF x \in DOMAIN before THEN Local(before[x])
  ELSE Const(Nothing)

\* The phis of a join: ends are pairs <<block, env>>, of the branches that go there
\* and of those that do not.
Join(b, before, ends) ==
  LET changed == UNION {EnvDiff(before, end[2]) : end \in ToSet(ends)} IN
  Merge([b EXCEPT !.env = before], changed,
        [x \in changed |-> [k \in DOMAIN ends |-> <<ends[k][1], ValueIn(ends[k][2], before, x)>>]])

-----------------------------------------------------------------------------
(* Expressions: the builder afterwards, and the operand.                   *)

RECURSIVE LowerExpr(_, _)

\* A new local for the value of rhs.
Computed(b, rhs) ==
  [b |-> Emit(NewLocals(b, 1), Assign(b.locals + 1, rhs)), of |-> Local(b.locals + 1)]

\* An operator evaluates both sides, then itself.
LowerSecond(lhs, e) ==
  LET rhs == LowerExpr(lhs.b, e.rhs) IN Computed(rhs.b, Binary(e.op, lhs.of, rhs.of))

LowerBinary(b, e) == LowerSecond(LowerExpr(b, e.lhs), e)

\* `and`, `or`: the right side in a block of its own.  Double negation is the check
\* that an operand is a Boolean.
JoinRight(isAnd, keep, join, rhs) ==
  LET inverted == rhs.b.locals + 1
      checked == inverted + 1
      dest == checked + 1
      joined == Terminate(Emit(Emit(NewLocals(rhs.b, 3), Assign(inverted, Negation(rhs.of))),
                               Assign(checked, Negation(Local(inverted)))), Goto(join)) IN
  [b |-> AddPhi(SwitchTo(joined, join), join, dest,
                <<<<keep, Const(Bool(~isAnd))>>, <<rhs.b.cur, Local(checked)>>>>),
   of |-> Local(dest)]

EvaluateRight(lhs, e) ==
  LET cond == lhs.b.locals + 1
      evaluate == Len(lhs.b.blocks) + 1
      join == evaluate + 1
      isAnd == e.op = "and"
      branched == Terminate(NewBlocks(Emit(NewLocals(lhs.b, 1), Assign(cond, Negation(lhs.of))), 2),
                    Branch(Local(cond), IF isAnd THEN join ELSE evaluate,
                                        IF isAnd THEN evaluate ELSE join)) IN
  JoinRight(isAnd, lhs.b.cur, join, LowerExpr(SwitchTo(branched, evaluate), e.rhs))

LowerShortCircuit(b, e) == EvaluateRight(LowerExpr(b, e.lhs), e)

\* A list of constants.
LowerList(b, e) == Computed(b, ListOf([k \in DOMAIN e.values |-> Const(e.values[k])]))

\* A call with one argument, to a function or a builtin.
LowerCall(b, e) ==
  LET arg == LowerExpr(b, e.arg)
      dest == arg.b.locals + 1 IN
  [b |-> Emit(NewLocals(arg.b, 1), Call(dest, e.callee, <<arg.of>>)), of |-> Local(dest)]

LowerExpr(b, e) ==
  CASE e.kind = "lit" -> [b |-> b, of |-> Const(e.value)]
    [] e.kind = "var" -> [b |-> b, of |-> ValueIn(b.env, NoVariables, e.name)]
    [] e.kind = "binary" /\ e.op \in {"and", "or"} -> LowerShortCircuit(b, e)
    [] e.kind = "binary" /\ e.op \notin {"and", "or"} -> LowerBinary(b, e)
    [] e.kind = "list" -> LowerList(b, e)
    [] e.kind = "call" -> LowerCall(b, e)

-----------------------------------------------------------------------------
(* Statements.                                                             *)

RECURSIVE LowerStmts(_, _)
RECURSIVE Assigned(_)

\* collect_assigned_vars
Assigned(stmts) ==
  UNION {CASE s.kind = "set" -> {s.var}
           [] s.kind = "if" -> Assigned(s.then) \cup Assigned(s.else)
                               \cup UNION {Assigned(ei.body) : ei \in ToSet(s.elseifs)}
           [] s.kind \in {"while", "for"} -> Assigned(s.body)
           [] s.kind = "check" -> UNION {Assigned(arm.body) : arm \in ToSet(s.arms)}
           [] s.kind = "attempt" -> Assigned(s.body) \cup Assigned(s.otherwise)
                                    \cup Assigned(s.finally)
                                    \cup UNION {Assigned(c.body) : c \in ToSet(s.catches)}
           [] OTHER -> {} : s \in ToSet(stmts)}

\* A declaration or an assignment: a new local, and from now on it is the variable.
AssignTo(b, x, operand) ==
  Define(Emit(NewLocals(b, 1), Assign(b.locals + 1, Use(operand))), x, b.locals + 1)

LowerSet(b, s) ==
  LET value == LowerExpr(b, s.expr) IN AssignTo(value.b, s.var, value.of)

\* A call whose result nobody wants.
LowerCallStmt(b, s) ==
  LET arg == LowerExpr(b, s.arg) IN Emit(arg.b, Call(NoLocal, s.callee, <<arg.of>>))

LowerReturn(b, s) ==
  LET value == LowerExpr(b, s.expr) IN Terminate(value.b, Return(value.of))

LowerPanic(b, s) ==
  LET value == LowerExpr(b, s.expr) IN Terminate(value.b, Throw(value.of))

\* Mutant: the values that the jump carries are those of the loop's head.
JumpKeepsNothing(b, target) ==
  Terminate([b EXCEPT !.jumps = Append(@, [from |-> b.cur, to |-> target, env |-> NoVariables])],
            Goto(target))

Jump(b, target) ==
  Terminate([b EXCEPT !.jumps = Append(@, [from |-> b.cur, to |-> target, env |-> b.env])],
            Goto(target))

RECURSIVE LowerIf(_, _, _, _, _)

\* Both branches, once the condition is evaluated.
LowerBranches(test, then, elseifs, else) ==
  LET first == Len(test.b.blocks) + 1          \* then, else, join
      before == test.b.env
      thenEnd == LowerStmts(SwitchTo(Terminate(NewBlocks(test.b, 3),
                                               Branch(test.of, first, first + 1)), first), then)
      elseStart == SwitchTo([Terminate(thenEnd, Goto(first + 2)) EXCEPT !.env = before], first + 1)
      elseEnd == IF elseifs = << >> THEN LowerStmts(elseStart, else)
                 ELSE LowerIf(elseStart, elseifs[1].cond, elseifs[1].body, Tail(elseifs), else) IN
  Join(SwitchTo(Terminate(elseEnd, Goto(first + 2)), first + 2), before,
       <<<<thenEnd.cur, thenEnd.env>>, <<elseEnd.cur, elseEnd.env>>>>)

LowerIf(b, cond, then, elseifs, else) == LowerBranches(LowerExpr(b, cond), then, elseifs, else)

\* The arms of a check that are tried: none after the first wildcard.
TriedArms(arms) ==
  LET wild == {k \in DOMAIN arms : arms[k].pattern = Wildcard} IN
  IF wild = {} THEN arms ELSE SubSeq(arms, 1, Min(wild))

\* The comparison of the value with a pattern; the arm is block at.
TestArm(b, pattern, on, at) ==
  LET value == LowerExpr(b, pattern)
      cmp == Computed(value.b, Binary("eq", on, value.of)) IN
  IF pattern = Wildcard THEN Terminate(b, Goto(at)) ELSE Terminate(cmp.b, Branch(cmp.of, at, at + 1))

\* The state of a check between two arms: the builder, the ends of the arms so far,
\* and the blocks among them that go on to the join.
EndArm(acc, end, next, before) ==
  [b |-> SwitchTo([end EXCEPT !.env = before], next),
   ends |-> Append(acc.ends, <<end.cur, end.env>>),
   exits |-> IF end.done THEN acc.exits ELSE acc.exits \cup {end.cur}]

LowerArm(acc, arm, on, before) ==
  LET at == Len(acc.b.blocks) + 1              \* the arm, the next test
      tested == TestArm(NewBlocks(acc.b, 2), arm.pattern, on, at) IN
  EndArm(acc, LowerStmts(SwitchTo([tested EXCEPT !.env = before], at), arm.body), at + 1, before)

LowerArms(on, arms) ==
  FoldLeft(LAMBDA acc, arm : LowerArm(acc, arm, on.of, on.b.env),
           [b |-> on.b, ends |-> << >>, exits |-> {}], TriedArms(arms))

\* Behind the arms: all that have not left go on here, and so does the last test.
JoinArms(before, arms) ==
  LET join == Len(arms.b.blocks) + 1
      exits == arms.exits \cup {arms.b.cur} IN
  Join(SwitchTo([NewBlocks(arms.b, 1) EXCEPT
                   !.blocks = [k \in DOMAIN @ |-> IF k \in exits
                                                  THEN [@[k] EXCEPT !.term = Goto(join)]
                                                  ELSE @[k]]], join),
       before, Append(arms.ends, <<arms.b.cur, before>>))

LowerCheckOn(on, arms) == JoinArms(on.b.env, LowerArms(on, arms))

LowerCheck(b, s) == LowerCheckOn(LowerExpr(b, s.on), s.arms)

-----------------------------------------------------------------------------
(* Loops.  The variables that the body assigns get a phi in the head, whose  *)
(* second operands are known only after the body.                          *)

\* The value of x on a jump, or else another.
OnEdge(edge, x, other) == Local(IF x \in DOMAIN edge.env THEN edge.env[x] ELSE other[x])

JumpsTo(b, block) == SelectSeq(b.jumps, LAMBDA jump : jump.to = block)

\* The edge of a body that runs to its end.
FallsThrough(b) == IF b.done THEN << >> ELSE <<[from |-> b.cur, to |-> b.cur, env |-> b.env]>>

\* The head's phis get operands more[k].
BackPatch(b, head, more) ==
  [b EXCEPT !.blocks[head].phis =
     [k \in DOMAIN @ |-> Phi(@[k].dest, @[k].from \o more[k])]]

\* last is the block that ends the condition; a break carries the values at its edge.
FinishLoopExit(b, exit, last, xs, head) ==
  LET breaks == JumpsTo(b, exit) IN
  IF breaks = << >>
  THEN [SwitchTo(b, exit) EXCEPT !.env = [x \in DOMAIN @ |-> IF x \in xs THEN head[x] ELSE @[x]]]
  ELSE Merge(SwitchTo(b, exit), xs,
             [x \in xs |-> <<<<last, Local(head[x])>>>> \o
                [k \in DOMAIN breaks |-> <<breaks[k].from, OnEdge(breaks[k], x, head)>>]])

\* The body of a loop; continue and break know where to go while it is lowered.
LowerBody(b, continue, exit, body) ==
  LET end == LowerStmts([b EXCEPT !.loops = Append(@, <<continue, exit>>)], body) IN
  [end EXCEPT !.loops = Front(@)]

LowerWhile(b, s) ==
  LET head == Len(b.blocks) + 1                \* head, body, exit
      before == b.env
      xs == Assigned(s.body) \cap DOMAIN before
      order == SetToSeq(xs)
      headed == Merge(SwitchTo(Terminate(NewBlocks(b, 3), Goto(head)), head), xs,
                      [x \in xs |-> <<<<b.cur, Local(before[x])>>>>])
      cond == LowerExpr(headed, s.cond)
      end == LowerBody(SwitchTo(Terminate(cond.b, Branch(cond.of, head + 1, head + 2)), head + 1),
                       head, head + 2, s.body)
      back == JumpsTo(end, head) \o FallsThrough(end)
      closed == BackPatch(Terminate(end, Goto(head)), head,
                  [k \in DOMAIN order |->
                     [j \in DOMAIN back |-> <<back[j].from, OnEdge(back[j], order[k], before)>>]])
  IN FinishLoopExit([closed EXCEPT !.env = before], head + 2, cond.b.cur, xs, headed.env)

\* The value with which each variable goes round: a phi only where edges meet.
StepValues(b, order, edges, before) ==
  IF Len(edges) > 1
  THEN [k \in DOMAIN order |-> Local(b.locals + k)]
  ELSE [k \in DOMAIN order |-> IF edges = << >> THEN Local(before[order[k]])
                               ELSE OnEdge(edges[1], order[k], before)]

StepPhis(b, order, edges, before) ==
  IF Len(edges) <= 1 THEN b
  ELSE FoldLeft(LAMBDA acc, x :
         AddPhi(NewLocals(acc, 1), b.cur, acc.locals + 1,
                [j \in DOMAIN edges |-> <<edges[j].from, OnEdge(edges[j], x, before)>>]),
         b, order)

\* The step of a for: where the body and continue meet, and the index is counted.
\* at is the loop: its head, its index, and its variables before and in the head.
CloseFor(at, order, merged, values) ==
  LET idxNext == merged.locals + 1
      counted == Terminate(Emit(NewLocals(merged, 1),
                                Assign(idxNext, Binary("add", Local(at.idx), Const(Num(1))))),
                           Goto(at.head)) IN
  BackPatch(counted, at.head,
            [k \in 1 .. Len(order) + 1 |->
               <<<<at.head + 2, IF k <= Len(order) THEN values[k] ELSE Local(idxNext)>>>>])

StepFor(at, order, end) ==
  LET step == at.head + 2
      edges == FallsThrough(end) \o JumpsTo(end, step)
      stepped == SwitchTo(Terminate(end, Goto(step)), step)
      closed == CloseFor(at, order, StepPhis(stepped, order, edges, at.before),
                         StepValues(stepped, order, edges, at.before)) IN
  FinishLoopExit([closed EXCEPT !.env = at.before], at.head + 3, at.head, ToSet(order), at.env)

\* The head, which tests the index, and the body, which begins with the element.
LowerForBody(b, s, at, order, list, len, entry) ==
  LET cond == at.idx + 1
      elem == cond + 1
      tested == Terminate(Emit(AddPhi(NewLocals(b, 2), at.head, at.idx, <<entry>>),
                               Assign(cond, Binary("lt", Local(at.idx), Local(len)))),
                          Branch(Local(cond), at.head + 1, at.head + 3))
      bound == AssignTo(Emit(NewLocals(SwitchTo(tested, at.head + 1), 1),
                             GetIndex(elem, list, Local(at.idx))),
                        s.binding, Local(elem)) IN
  StepFor(at, order, LowerBody(bound, at.head + 2, at.head + 3, s.body))

\* A for counts an index up to the length; continue goes to the step that counts.
LowerForOver(over, s) ==
  LET idx0 == over.b.locals + 1
      len == idx0 + 1
      entered == Emit(Emit(NewLocals(over.b, 2), Assign(idx0, Literal(Num(0)))),
                      Call(len, "len", <<over.of>>))
      head == Len(over.b.blocks) + 1           \* head, body, step, exit
      before == over.b.env
      xs == Assigned(s.body) \cap DOMAIN before
      headed == Merge(SwitchTo(Terminate(NewBlocks(entered, 4), Goto(head)), head), xs,
                      [x \in xs |-> <<<<over.b.cur, Local(before[x])>>>>]) IN
  LowerForBody(headed, s,
               [head |-> head, idx |-> headed.locals + 1, before |-> before, env |-> headed.env],
               SetToSeq(xs), over.of, len, <<over.b.cur, Local(idx0)>>)

LowerFor(b, s) == LowerForOver(LowerExpr(b, s.over), s)

-----------------------------------------------------------------------------
(* attempt: its body runs with a handler pushed, which is the dispatch to  *)
(* the clauses.  Where there is a finally, the clauses run with a handler  *)
(* too, that runs the finally and throws on.                               *)

\* The test of a typed clause: type(error) = its type.
LowerTypeTest(b, err, type, clause, noMatch) ==
  LET name == b.locals + 1 IN
  Terminate(Emit(Emit(Emit(NewLocals(b, 3),
      Call(name, "type", <<Local(err)>>)),
      Assign(name + 1, Literal(Str(type)))),
      Assign(name + 2, Binary("eq", Local(name), Local(name + 1)))),
    Branch(Local(name + 2), clause, noMatch))

\* One clause; acc is the builder and the ends <<block, env>> of the parts that go on
\* to the finally.  Nothing after the last clause catches: the error is thrown on.
LowerClause(acc, c, isLast, err, guarded, before, finally) ==
  LET at == Len(acc.b.blocks) + 1              \* the clause, the next test
      start == NewBlocks(acc.b, 2)
      tested == IF c.type = Untyped THEN Terminate(start, Goto(at))
                ELSE LowerTypeTest(start, err, c.type, at, at + 1)
      body == LowerStmts(Define(SwitchTo([tested EXCEPT !.env = before], at), c.binding, err), c.body)
      end == IF guarded THEN Emit(body, PopCatch) ELSE body
      next == SwitchTo([Terminate(end, Goto(finally)) EXCEPT !.env = before], at + 1) IN
  [b |-> IF isLast
         THEN Terminate(IF guarded THEN Emit(next, PopCatch) ELSE next, Throw(Local(err)))
         ELSE next,
   arms |-> IF end.done THEN acc.arms ELSE Append(acc.arms, <<end.cur, end.env>>)]

\* Mutant: the clauses of an attempt without a handler of its own.
NoGuard(b, guarded, rethrow) == b

\* The handler of the clauses.
Guard(b, guarded, rethrow) == IF guarded THEN Emit(b, PushCatch(rethrow)) ELSE b

\* What runs when a clause throws: the finally, then the new error goes on.
LowerRethrow(b, s, rethrow, before) ==
  LET err == b.locals + 1
      start == Emit(NewLocals(SwitchTo([b EXCEPT !.env = before], rethrow), 1),
                    Assign(err, CatchException)) IN
  Terminate(LowerStmts(start, s.finally), Throw(Local(err)))

\* The variables of before, merged where the finally begins.
JoinEnds(b, before, arms) ==
  LET changed == UNION {EnvDiff(before, arm[2]) : arm \in ToSet(arms)} \cap DOMAIN before
      start == [b EXCEPT !.env = before] IN
  IF Len(arms) = 1
  THEN [start EXCEPT !.env = [x \in DOMAIN @ |-> IF x \in changed THEN arms[1][2][x] ELSE @[x]]]
  ELSE Merge(start, changed,
             [x \in changed |-> [k \in DOMAIN arms |-> <<arms[k][1], Local(arms[k][2][x])>>]])

LowerAttempt(b, s) ==
  LET dispatch == Len(b.blocks) + 1            \* dispatch, otherwise, finally, join
      otherwise == dispatch + 1
      finally == dispatch + 2
      before == b.env
      guarded == s.finally # << >>
      body == LowerStmts(Emit(NewBlocks(b, 4), PushCatch(dispatch)), s.body)
      err == body.locals + 1
      caught == Emit(NewLocals(SwitchTo([Terminate(Emit(body, PopCatch), Goto(otherwise))
                                           EXCEPT !.env = before], dispatch), 1),
                     Assign(err, CatchException))
      rethrow == Len(caught.blocks) + 1
      guard == Guard(IF guarded THEN NewBlocks(caught, 1) ELSE caught, guarded, rethrow)
      clauses == FoldLeft(
        LAMBDA acc, k : LowerClause(acc, s.catches[k], k = Len(s.catches), err, guarded, before, finally),
        [b |-> guard, arms |-> << >>], [k \in DOMAIN s.catches |-> k])
      landed == IF guarded THEN LowerRethrow(clauses.b, s, rethrow, before) ELSE clauses.b
      success == LowerStmts(SwitchTo([landed EXCEPT !.env = before], otherwise), s.otherwise)
      arms == IF success.done THEN clauses.arms
              ELSE Append(clauses.arms, <<success.cur, success.env>>)
      last == LowerStmts(JoinEnds(SwitchTo(Terminate(success, Goto(finally)), finally), before, arms),
                         s.finally)
  IN SwitchTo(Terminate(last, Goto(dispatch + 3)), dispatch + 3)

-----------------------------------------------------------------------------
(* One statement, and then the end of its temporaries and of the values it *)
(* has replaced: unless the block has ended, each is dropped.              *)

LowerKind(b, s) ==
  CASE s.kind = "set" -> LowerSet(b, s)
    [] s.kind = "call" -> LowerCallStmt(b, s)
    [] s.kind = "return" -> LowerReturn(b, s)
    [] s.kind = "panic" -> LowerPanic(b, s)
    [] s.kind = "continue" -> Jump(b, Last(b.loops)[1])
    [] s.kind = "break" -> Jump(b, Last(b.loops)[2])
    [] s.kind = "if" -> LowerIf(b, s.cond, s.then, s.elseifs, s.else)
    [] s.kind = "check" -> LowerCheck(b, s)
    [] s.kind = "while" -> LowerWhile(b, s)
    [] s.kind = "for" -> LowerFor(b, s)
    [] s.kind = "attempt" -> LowerAttempt(b, s)

\* Mutant: every local that was live before is dropped, the current ones too.
AllBefore(b, after) == Live(b.env) \cup (b.locals + 1 .. after.locals)

\* What is dead after a statement: values it replaced, and its own temporaries.
DeadLocals(b, after) == (Live(b.env) \cup (b.locals + 1 .. after.locals)) \ Live(after.env)

EndStmt(b, after) ==
  LET dead == DeadLocals(b, after)
      locals == [k \in 1 .. after.locals |-> after.locals + 1 - k]
      dying == SelectSeq(locals, LAMBDA l : l \in dead) IN
  IF after.done THEN after
  ELSE [after EXCEPT !.blocks[after.cur].code = @ \o [k \in DOMAIN dying |-> Drop(dying[k])]]

LowerStmt(b, s) == EndStmt(b, LowerKind(b, s))

LowerStmts(b, stmts) ==
  IF stmts = << >> \/ b.done THEN b ELSE LowerStmts(LowerStmt(b, Head(stmts)), Tail(stmts))

\* A function: its parameters are its first locals; a body that ends returns nothing.
BuiltFunction(n, end) == [params |-> n, locals |-> end.locals, blocks |-> end.blocks]

LowerFunction(params, body) ==
  LET n == Len(params)
      start == [blocks |-> <<EmptyBlock>>, locals |-> n, cur |-> 1, done |-> FALSE,
                env |-> [x \in ToSet(params) |-> CHOOSE k \in 1 .. n : params[k] = x],
                loops |-> << >>, jumps |-> << >>] IN
  BuiltFunction(n, Terminate(LowerStmts(start, body), Return(Const(Nothing))))
==============================================================================
