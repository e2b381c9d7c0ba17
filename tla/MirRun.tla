------------------------------- MODULE MirRun -------------------------------
(***************************************************************************)
(* From a program to what it does: the program is lowered (Lowering),      *)
(* perhaps optimised (Passes), and interpreted.  The interpreter is        *)
(* run_function and exec_instr of mir_interp.rs, one action per kind of    *)
(* instruction and terminator.                                             *)
(***************************************************************************)
EXTENDS Lowering, Passes, Meaning

CONSTANT Programs   \* the programs that are tried: [body, helper], trees of statements

VARIABLES
  program,   \* the one that is tried
  code,      \* its functions, lowered: "main" and "helper"
  build,     \* "tree", "lowered", "optimised": what has been made of the program
  frames,    \* the calls, innermost last
  out,       \* what has been printed
  end        \* how the run has ended

vars == <<program, code, build, frames, out, end>>

Ready == [how |-> "ready", value |-> Nothing]
Running == [how |-> "running", value |-> Nothing]
Ended == end \notin {Ready, Running}

-----------------------------------------------------------------------------
(* Frames: the block and the place in it (0: its phis, one more than its   *)
(* instructions: its terminator), the block before, the locals, the stack  *)
(* of handlers, and the error that has been caught and not yet read.       *)

Frame(fn, args) ==
  [fn |-> fn, bb |-> 1, pc |-> 0, prev |-> 0, handlers |-> << >>, exc |-> Nothing,
   locals |-> [l \in 1 .. code[fn].locals |-> IF l <= Len(args) THEN args[l] ELSE Nothing]]

Init ==
  /\ program \in Programs
  /\ code = [f \in {} |-> EmptyBlock]
  /\ build = "tree"
  /\ frames = << >>
  /\ out = << >>
  /\ end = Ready

\* lower_program
Lower ==
  /\ build = "tree"
  /\ build' = "lowered"
  /\ code' = [f \in {"main", "helper"} |->
                IF f = "main" THEN LowerFunction(<< >>, program.body)
                ELSE LowerFunction(<<program.helper.param>>, program.helper.body)]
  /\ UNCHANGED <<program, frames, out, end>>

\* fidan_passes::run_all, or without inlining when the run is to be traced.
Optimise ==
  /\ build = "lowered"
  /\ end = Ready
  /\ build' = "optimised"
  /\ code' \in {RunAll(code), RunPreservingCallFrames(code)}
  /\ UNCHANGED <<program, frames, out, end>>

\* The interpreter enters the main function.
Execute ==
  /\ build # "tree"
  /\ end = Ready
  /\ end' = Running
  /\ frames' = <<Frame("main", << >>)>>
  /\ UNCHANGED <<program, code, build, out>>

Top == Last(frames)
Block(f) == code[f.fn].blocks[f.bb]
Busy == frames # << >>

\* The instruction on turn.
At(op) == Busy /\ Top.pc \in DOMAIN Block(Top).code /\ Block(Top).code[Top.pc].op = op
Instr == Block(Top).code[Top.pc]

\* The terminator on turn.
AtTerm(op) == Busy /\ Top.pc = Len(Block(Top).code) + 1 /\ Block(Top).term.op = op
Term == Block(Top).term

Value(operand) == IF IsLocal(operand) THEN Top.locals[operand.local] ELSE operand.const

Became(f) == frames' = [frames EXCEPT ![Len(frames)] = f]

\* The same frame at its next instruction, with v in local dest, if there is one.
Stored(f, dest, v) ==
  [f EXCEPT !.pc = @ + 1,
            !.locals = [l \in DOMAIN @ |-> IF l = dest THEN v ELSE @[l]]]

\* The same frame at the phis of a block.
Jumped(f, block) == [f EXCEPT !.prev = f.bb, !.bb = block, !.pc = 0]

Same == UNCHANGED <<program, code, build>>

\* route_signal_to_catch, from the innermost frame outwards: the error goes to the
\* handler on top of the first stack of handlers that has one, which is popped.
Caught(f, v) ==
  [Jumped(f, Last(f.handlers)) EXCEPT !.handlers = Front(@), !.exc = v]

Raise(v) ==
  LET able == {k \in DOMAIN frames : frames[k].handlers # << >>} IN
  IF able = {}
  THEN /\ frames' = << >>
       /\ end' = [how |-> "threw", value |-> v]
  ELSE /\ frames' = Append(SubSeq(frames, 1, Max(able) - 1), Caught(frames[Max(able)], v))
       /\ UNCHANGED end

-----------------------------------------------------------------------------
(* Instructions.                                                           *)

\* The phis of a block read the values of the block before, all at once.
PhiValue(f, phi) ==
  LET from == SelectSeq(phi.from, LAMBDA pair : pair[1] = f.prev) IN
  IF from = << >> THEN Nothing ELSE Value(from[1][2])

EnterBlock ==
  LET phis == Block(Top).phis IN
  /\ Busy
  /\ Top.pc = 0
  /\ Became([Top EXCEPT !.pc = 1, !.locals =
       [l \in DOMAIN @ |->
          LET at == {k \in DOMAIN phis : phis[k].dest = l} IN
          IF at = {} THEN @[l] ELSE PhiValue(Top, phis[Max(at)])]])
  /\ Same /\ UNCHANGED <<out, end>>

\* eval_rvalue: operators want operands of their types.
Fails(rhs) ==
  \/ rhs.kind = "binary" /\ ~Takes(rhs.op, Value(rhs.lhs), Value(rhs.rhs))
  \/ rhs.kind = "not" /\ TypeName(Value(rhs.of)) # "boolean"

Result(rhs) ==
  CASE rhs.kind = "use" -> Value(rhs.of)
    [] rhs.kind = "literal" -> rhs.value
    [] rhs.kind = "list" -> List([k \in DOMAIN rhs.of |-> Value(rhs.of[k])])
    [] rhs.kind = "binary" -> Apply(rhs.op, Value(rhs.lhs), Value(rhs.rhs))
    [] rhs.kind = "not" -> Bool(~Truthy(Value(rhs.of)))
    [] rhs.kind = "exception" -> Top.exc

ExecAssign ==
  /\ At("assign")
  /\ IF Fails(Instr.rhs) THEN Raise(Error)
     ELSE /\ Became([Stored(Top, Instr.dest, Result(Instr.rhs)) EXCEPT
                       !.exc = IF Instr.rhs.kind = "exception" THEN Nothing ELSE @])
          /\ UNCHANGED end
  /\ Same /\ UNCHANGED out

\* dispatch_call of a builtin
ExecBuiltin ==
  LET arg == Value(Instr.args[1]) IN
  /\ At("call")
  /\ Instr.callee \notin DOMAIN code
  /\ IF Instr.callee = "raise" THEN Raise(Error)
     ELSE /\ Became(Stored(Top, Instr.dest,
                 CASE Instr.callee = "print" -> Nothing
                   [] Instr.callee = "len" -> Num(Len(arg[2]))
                   [] Instr.callee = "type" -> Str(TypeName(arg))))
          /\ UNCHANGED end
  /\ out' = IF Instr.callee = "print" THEN Append(out, arg) ELSE out
  /\ Same

\* call_function: the caller stays at its instruction.
ExecCall ==
  /\ At("call")
  /\ Instr.callee \in DOMAIN code
  /\ Same /\ UNCHANGED <<out, end>>
  /\ frames' = Append(frames, Frame(Instr.callee, [k \in DOMAIN Instr.args |-> Value(Instr.args[k])]))

ExecGetIndex ==
  /\ At("index")
  /\ Became(Stored(Top, Instr.dest, Value(Instr.object)[2][Value(Instr.index)[2] + 1]))
  /\ Same /\ UNCHANGED <<out, end>>

ExecDrop ==
  /\ At("drop")
  /\ Became(Stored(Top, Instr.local, Nothing))
  /\ Same /\ UNCHANGED <<out, end>>

ExecPushCatch ==
  /\ At("push")
  /\ Became([Top EXCEPT !.pc = @ + 1, !.handlers = Append(@, Instr.handler)])
  /\ Same /\ UNCHANGED <<out, end>>

\* A stack without handlers stays as it is.
ExecPopCatch ==
  /\ At("pop")
  /\ Became([Top EXCEPT !.pc = @ + 1, !.handlers = IF @ = << >> THEN @ ELSE Front(@)])
  /\ Same /\ UNCHANGED <<out, end>>

-----------------------------------------------------------------------------
(* Terminators.                                                            *)

\* The result goes to the call of the frame below, or the run is over.
TermReturn ==
  /\ AtTerm("return")
  /\ IF Len(frames) = 1
     THEN /\ frames' = << >>
          /\ end' = [how |-> "returned", value |-> Nothing]
     ELSE LET caller == frames[Len(frames) - 1] IN
          /\ frames' = Append(SubSeq(frames, 1, Len(frames) - 2),
                 Stored(caller, Block(caller).code[caller.pc].dest, Value(Term.value)))
          /\ UNCHANGED end
  /\ Same /\ UNCHANGED out

TermGoto ==
  /\ AtTerm("goto")
  /\ Became(Jumped(Top, Term.target))
  /\ Same /\ UNCHANGED <<out, end>>

TermBranch ==
  /\ AtTerm("branch")
  /\ Became(Jumped(Top, IF Truthy(Value(Term.cond)) THEN Term.then ELSE Term.else))
  /\ Same /\ UNCHANGED <<out, end>>

TermThrow ==
  /\ AtTerm("throw")
  /\ Raise(Value(Term.value))
  /\ Same /\ UNCHANGED out

\* An internal error, which no handler takes.
TermUnreachable ==
  /\ AtTerm("unreachable")
  /\ frames' = << >>
  /\ end' = [how |-> "unreachable", value |-> Nothing]
  /\ Same /\ UNCHANGED out

Finished == Ended /\ UNCHANGED vars

Next ==
  \/ Lower \/ Optimise \/ Execute
  \/ EnterBlock \/ ExecAssign \/ ExecBuiltin \/ ExecCall \/ ExecGetIndex
  \/ ExecDrop \/ ExecPushCatch \/ ExecPopCatch
  \/ TermReturn \/ TermGoto \/ TermBranch \/ TermThrow \/ TermUnreachable
  \/ Finished

Spec == Init /\ [][Next]_vars

-----------------------------------------------------------------------------
(* Properties.                                                             *)

\* A program does, before and after optimisation, what its statements say: every
\* assignment reaches every later read over branches, arms, breaks, continues and
\* clauses, no value is dropped while it is needed, and an error goes to the nearest
\* clause that takes it.  Where attempts are lowered with a loss, nothing is claimed.
\* (lower.rs; fidan_passes::run_all)
RunsAsWritten ==
  Ended => LET meant == Outcome(program) IN
           meant.kept => out = meant.out /\ end = meant.end

\* A program that is over has run the finally of each attempt it has entered.  Those
\* of the programs print Cleanup.  (test/syntax.fdn: "Always runs, error or not")
Cleanup == Str("cleanup")
Cleanups(printed) == Cardinality({k \in DOMAIN printed : printed[k] = Cleanup})
FinallyRuns == Ended => Cleanups(out) = Cleanups(Outcome(program).out)
=============================================================================
