------------------------------- MODULE Passes -------------------------------
(***************************************************************************)
(* The optimisations of fidan-passes, in the order of run_all: folding of  *)
(* constants, inlining, folding again, copy propagation, dead code,        *)
(* unreachable blocks.  Code is a function from names to Mir functions.    *)
(* NullableRepresentation, which only changes types, is left out.          *)
(***************************************************************************)
EXTENDS Mir

\* Applies F to every block, or to every instruction, of a function.
MapBlocks(fn, F(_)) == [fn EXCEPT !.blocks = [k \in DOMAIN @ |-> F(@[k])]]

-----------------------------------------------------------------------------
(* ConstantFolding.  A type is known of a local that is never dropped and  *)
(* is given a constant or a copy of such a local.                          *)

Unknown == "unknown"

TypeOf(operand, known) ==
  IF IsLocal(operand)
  THEN IF operand.local \in DOMAIN known THEN known[operand.local] ELSE Unknown
  ELSE IF TypeName(operand.const) \in {"integer", "boolean"} THEN TypeName(operand.const)
  ELSE Unknown

\* fold_binary, for the operators that are modelled
FoldBinary(rhs) ==
  LET a == rhs.lhs.const
      b == rhs.rhs.const IN
  IF TypeName(a) # TypeName(b) THEN rhs
  ELSE IF TypeName(a) = "integer"
       THEN Literal(CASE rhs.op = "add" -> Num(a[2] + b[2])
                      [] rhs.op = "lt" -> Bool(a[2] < b[2])
                      [] rhs.op = "eq" -> Bool(a[2] = b[2]))
  ELSE IF TypeName(a) \in {"string", "boolean"} /\ rhs.op = "eq" THEN Literal(Bool(a[2] = b[2]))
  ELSE rhs

IsZero(operand) == ~IsLocal(operand) /\ operand.const = Num(0)

\* strength_reduce: x + 0 and 0 + x, if both are known to be integers
StrengthReduce(rhs, known) ==
  IF rhs.op # "add" \/ {TypeOf(rhs.lhs, known), TypeOf(rhs.rhs, known)} # {"integer"} THEN rhs
  ELSE IF IsZero(rhs.rhs) THEN Use(rhs.lhs)
  ELSE IF IsZero(rhs.lhs) THEN Use(rhs.rhs)
  ELSE rhs

Reduce(rhs, known) ==
  CASE rhs.kind = "binary" /\ ~IsLocal(rhs.lhs) /\ ~IsLocal(rhs.rhs) -> FoldBinary(rhs)
    [] rhs.kind = "binary" /\ (IsLocal(rhs.lhs) \/ IsLocal(rhs.rhs)) -> StrengthReduce(rhs, known)
    [] rhs.kind = "not" /\ ~IsLocal(rhs.of) -> Literal(Bool(~rhs.of.const[2]))
    [] OTHER -> rhs

KnownType(rhs, known) ==
  IF rhs.kind = "literal" THEN TypeOf(Const(rhs.value), known)
  ELSE IF rhs.kind = "use" THEN TypeOf(rhs.of, known)
  ELSE Unknown

\* One instruction: acc.code is what has been folded of the block.
FoldInstr(acc, i, dropped) ==
  IF i.op # "assign" THEN [acc EXCEPT !.code = Append(@, i)]
  ELSE LET rhs == Reduce(i.rhs, acc.known)
           type == KnownType(rhs, acc.known) IN
       [code |-> Append(acc.code, Assign(i.dest, rhs)),
        known |-> IF type = Unknown \/ i.dest \in dropped THEN acc.known
                  ELSE [l \in DOMAIN acc.known \cup {i.dest} |->
                          IF l = i.dest THEN type ELSE acc.known[l]]]

FoldBlock(acc, block, dropped) ==
  LET folded == FoldLeft(LAMBDA a, i : FoldInstr(a, i, dropped),
                         [code |-> << >>, known |-> acc.known], block.code) IN
  [blocks |-> Append(acc.blocks, [block EXCEPT !.code = folded.code]), known |-> folded.known]

ConstantFolding(fn) ==
  LET dropped == Dropped(fn) IN
  [fn EXCEPT !.blocks =
     FoldLeft(LAMBDA acc, block : FoldBlock(acc, block, dropped),
              [blocks |-> << >>, known |-> [l \in {} |-> Unknown]], @).blocks]

-----------------------------------------------------------------------------
(* Inlining of functions that are one block and do not call themselves.    *)

InlineThreshold == 15

IsInlinable(fn, name) ==
  /\ Len(fn.blocks) = 1
  /\ Len(fn.blocks[1].code) <= InlineThreshold
  /\ fn.blocks[1].term.op = "return"
  /\ \A i \in ToSet(fn.blocks[1].code) : i.op \notin {"push", "pop"} /\ ~(i.op = "call" /\ i.callee = name)

\* A parameter is the argument itself, any other local a new one of the caller.
Remap(operand, callee, args, offset) ==
  IF ~IsLocal(operand) THEN operand
  ELSE IF operand.local <= callee.params THEN args[operand.local]
  ELSE Local(operand.local + offset)

\* Locals that are written or dropped are new ones in any case.
RemapInstr(i, callee, args, offset) ==
  LET j == MapInstr(i, LAMBDA operand : Remap(operand, callee, args, offset)) IN
  CASE j.op \in {"assign", "index"} \/ (j.op = "call" /\ j.dest # NoLocal) ->
         [j EXCEPT !.dest = @ + offset]
    [] j.op = "drop" -> [j EXCEPT !.local = @ + offset]
    [] OTHER -> j

\* The callee's instructions in place of the call, then its result.
Inlined(i, callee, locals) ==
  LET body == callee.blocks[1] IN
  [k \in DOMAIN body.code |-> RemapInstr(body.code[k], callee, i.args, locals)]
  \o IF i.dest = NoLocal THEN << >>
     ELSE <<Assign(i.dest, Use(Remap(body.term.value, callee, i.args, locals)))>>

InlineInstr(acc, i, code, inlinable) ==
  IF i.op = "call" /\ i.callee \in inlinable
  THEN [code |-> acc.code \o Inlined(i, code[i.callee], acc.locals),
        locals |-> acc.locals + code[i.callee].locals]
  ELSE [acc EXCEPT !.code = Append(@, i)]

InlineBlock(acc, block, code, inlinable) ==
  LET new == FoldLeft(LAMBDA a, i : InlineInstr(a, i, code, inlinable),
                      [code |-> << >>, locals |-> acc.locals], block.code) IN
  [blocks |-> Append(acc.blocks, [block EXCEPT !.code = new.code]), locals |-> new.locals]

InlineInto(code, name, inlinable) ==
  LET new == FoldLeft(LAMBDA acc, block : InlineBlock(acc, block, code, inlinable),
                      [blocks |-> << >>, locals |-> code[name].locals], code[name].blocks) IN
  [code EXCEPT ![name].locals = new.locals, ![name].blocks = new.blocks]

\* The last function goes first, so that a callee has its own calls replaced when it
\* is inlined; which ones may be inlined was decided before.
Inlining(code) ==
  LET inlinable == {f \in DOMAIN code : IsInlinable(code[f], f)} IN
  FoldLeft(LAMBDA done, name : InlineInto(done, name, inlinable \ {name}),
           code, <<"helper", "main">>)

-----------------------------------------------------------------------------
(* CopyPropagation                                                         *)

\* Mutant: copies of locals that are dropped somewhere are forwarded too.
AnyCopy(dropped, operand) == TRUE

\* A copy of a local that is dropped somewhere is left alone.
Forwards(dropped, operand) == ~IsLocal(operand) \/ operand.local \notin dropped

Instrs(fn) == UNION {ToSet(block.code) : block \in ToSet(fn.blocks)}

CopyMap(fn) ==
  LET dropped == Dropped(fn)
      copies == {i \in Instrs(fn) :
                   i.op = "assign" /\ i.rhs.kind = "use" /\ Forwards(dropped, i.rhs.of)} IN
  [l \in {i.dest : i \in copies} |-> (CHOOSE i \in copies : i.dest = l).rhs.of]

MaxHops == 8

Resolve(operand, copies) ==
  FoldLeft(LAMBDA o, n : IF IsLocal(o) /\ o.local \in DOMAIN copies THEN copies[o.local] ELSE o,
           operand, [n \in 1 .. MaxHops |-> n])

SubstBlock(block, copies) ==
  LET R(operand) == Resolve(operand, copies) IN
  [phis |-> [k \in DOMAIN block.phis |->
               Phi(block.phis[k].dest,
                   [j \in DOMAIN block.phis[k].from |->
                      <<block.phis[k].from[j][1], R(block.phis[k].from[j][2])>>])],
   code |-> [k \in DOMAIN block.code |-> MapInstr(block.code[k], R)],
   term |-> MapTerm(block.term, R)]

CopyPropagation(fn) ==
  LET copies == CopyMap(fn) IN MapBlocks(fn, LAMBDA block : SubstBlock(block, copies))

-----------------------------------------------------------------------------
(* DeadCodeElimination and UnreachablePruning                              *)

RhsReads(rhs) ==
  CASE rhs.kind \in {"use", "not"} -> {rhs.of}
    [] rhs.kind = "binary" -> {rhs.lhs, rhs.rhs}
    [] rhs.kind = "list" -> ToSet(rhs.of)
    [] OTHER -> {}

\* A drop is a read.
InstrReads(i) ==
  CASE i.op = "assign" -> RhsReads(i.rhs)
    [] i.op = "call" -> ToSet(i.args)
    [] i.op = "index" -> {i.object, i.index}
    [] i.op = "drop" -> {Local(i.local)}
    [] OTHER -> {}

TermReads(term) ==
  CASE term.op \in {"return", "throw"} -> {term.value}
    [] term.op = "branch" -> {term.cond}
    [] OTHER -> {}

PhiReads(phi) == {phi.from[k][2] : k \in DOMAIN phi.from}

\* count_uses
Reads(fn) ==
  UNION {TermReads(block.term) \cup UNION {InstrReads(i) : i \in ToSet(block.code)}
         \cup UNION {PhiReads(phi) : phi \in ToSet(block.phis)} : block \in ToSet(fn.blocks)}

\* Operators may fail, which can be observed.
IsPure(rhs) == rhs.kind \in {"use", "literal", "list", "exception"}

DeadCodeElimination(fn) ==
  LET reads == Reads(fn) IN
  MapBlocks(fn, LAMBDA block :
    [block EXCEPT !.code = SelectSeq(@, LAMBDA i :
       i.op # "assign" \/ Local(i.dest) \in reads \/ ~IsPure(i.rhs))])

Targets(block) ==
  {i.handler : i \in {j \in ToSet(block.code) : j.op = "push"}}
  \cup CASE block.term.op = "goto" -> {block.term.target}
         [] block.term.op = "branch" -> {block.term.then, block.term.else}
         [] OTHER -> {}

\* Handlers are reachable from where they are pushed.
Reachable(fn) ==
  FoldLeft(LAMBDA live, n : live \cup UNION {Targets(fn.blocks[k]) : k \in live},
           {1}, [n \in DOMAIN fn.blocks |-> n])

UnreachablePruning(fn) ==
  LET live == Reachable(fn) IN
  [fn EXCEPT !.blocks = [k \in DOMAIN @ |-> IF k \in live THEN @[k] ELSE EmptyBlock]]

-----------------------------------------------------------------------------
Cleaned(fn) == UnreachablePruning(DeadCodeElimination(CopyPropagation(fn)))

\* run_all
RunAll(code) ==
  LET folded == [f \in DOMAIN code |-> ConstantFolding(code[f])]
      inlined == Inlining(folded) IN
  [f \in DOMAIN code |-> Cleaned(ConstantFolding(inlined[f]))]

\* run_preserving_call_frames, for traces that show every call
RunPreservingCallFrames(code) ==
  [f \in DOMAIN code |-> Cleaned(ConstantFolding(code[f]))]
=============================================================================
