--------------------------------- MODULE Mir ---------------------------------
(***************************************************************************)
(* The mid-level representation of a program: functions of basic blocks,   *)
(* with phi nodes at joins and a stack of handlers per call (fidan-mir,    *)
(* mir.rs).  Lowering makes it, Passes rewrites it, MirRun runs it.        *)
(***************************************************************************)
EXTENDS Integers, Sequences, SequencesExt, FiniteSets, FiniteSetsExt, Functions

\* A value is a pair of its type's name, as type(v) gives it, and its contents.
Num(n) == <<"integer", n>>
Str(s) == <<"string", s>>
Bool(b) == <<"boolean", b>>
List(vs) == <<"list", vs>>
Nothing == <<"nothing", 0>>

TypeName(v) == v[1]
Truthy(v) == v = Bool(TRUE)

\* An operand is a local or a constant; 0 is no local.
Local(l) == [local |-> l]
Const(v) == [const |-> v]
IsLocal(operand) == "local" \in DOMAIN operand
NoLocal == 0

-----------------------------------------------------------------------------
(* Right-hand sides.                                                       *)

Use(operand) == [kind |-> "use", of |-> operand]
Literal(v) == [kind |-> "literal", value |-> v]
Binary(op, lhs, rhs) == [kind |-> "binary", op |-> op, lhs |-> lhs, rhs |-> rhs]
Negation(operand) == [kind |-> "not", of |-> operand]
ListOf(operands) == [kind |-> "list", of |-> operands]
CatchException == [kind |-> "exception"]

-----------------------------------------------------------------------------
(* Instructions, terminators and phi nodes.  A block is named by its place *)
(* in the function, the first is the entry.  Return(None) returns nothing. *)

Assign(dest, rhs) == [op |-> "assign", dest |-> dest, rhs |-> rhs]
Call(dest, callee, args) == [op |-> "call", dest |-> dest, callee |-> callee, args |-> args]
GetIndex(dest, object, index) ==
  [op |-> "index", dest |-> dest, object |-> object, index |-> index]
Drop(l) == [op |-> "drop", local |-> l]
PushCatch(block) == [op |-> "push", handler |-> block]
PopCatch == [op |-> "pop"]

Return(operand) == [op |-> "return", value |-> operand]
Goto(block) == [op |-> "goto", target |-> block]
Branch(cond, then, else) == [op |-> "branch", cond |-> cond, then |-> then, else |-> else]
Throw(operand) == [op |-> "throw", value |-> operand]
Unreachable == [op |-> "unreachable"]

\* from: the operand for each predecessor, as pairs <<block, operand>>.
Phi(dest, from) == [dest |-> dest, from |-> from]

EmptyBlock == [phis |-> << >>, code |-> << >>, term |-> Unreachable]

\* What a right-hand side, an instruction and a terminator read, with each operand
\* replaced by its image.
MapRhs(rhs, F(_)) ==
  CASE rhs.kind \in {"use", "not"} -> [rhs EXCEPT !.of = F(@)]
    [] rhs.kind = "binary" -> [rhs EXCEPT !.lhs = F(@), !.rhs = F(@)]
    [] rhs.kind = "list" -> [rhs EXCEPT !.of = [k \in DOMAIN @ |-> F(@[k])]]
    [] OTHER -> rhs

MapInstr(i, F(_)) ==
  CASE i.op = "assign" -> [i EXCEPT !.rhs = MapRhs(@, F)]
    [] i.op = "call" -> [i EXCEPT !.args = [k \in DOMAIN @ |-> F(@[k])]]
    [] i.op = "index" -> [i EXCEPT !.object = F(@), !.index = F(@)]
    [] OTHER -> i

MapTerm(term, F(_)) ==
  CASE term.op \in {"return", "throw"} -> [term EXCEPT !.value = F(@)]
    [] term.op = "branch" -> [term EXCEPT !.cond = F(@)]
    [] OTHER -> term

\* The locals that some instruction of the function drops.
Dropped(fn) ==
  UNION {{i.local : i \in {j \in ToSet(block.code) : j.op = "drop"}} :
         block \in ToSet(fn.blocks)}
==============================================================================
