------------------------------ MODULE JitTiering ------------------------------
(***************************************************************************)
(* Calls of the interpreter (fidan-interp/src/mir_interp.rs): functions    *)
(* are counted, compiled at a threshold and then called natively, while    *)
(* the workers of parallel loops, machines of their own on threads of      *)
(* their own, share counters, compiled functions and flags.  An error      *)
(* travels as a result through interpreted frames and as a pending         *)
(* exception of the thread through native ones.  Function bodies are       *)
(* abstract: any sequence of calls, errors, writes and loops.              *)
(***************************************************************************)
EXTENDS Naturals, Sequences, FiniteSets, SequencesExt

CONSTANTS
  Fn,            \* functions
  Compilable,    \* those that the JIT can compile: no attempt, no loop over workers
  Precompiled,   \* those that are marked @precompile
  Thresholds,    \* thresholds to try; 0 turns the JIT off
  Thread, Main,
  Value,         \* values of the globals
  MaxDepth,      \* MAX_CALL_DEPTH
  MaxOps,        \* how much a program does: calls, errors, writes and loops
  Placeholder,   \* the exception that stands for an error of the machine
  None

ASSUME JitAssumption ==
  /\ Compilable \subseteq Fn /\ Precompiled \subseteq Fn /\ Thresholds \subseteq Nat
  /\ Main \in Thread /\ MaxDepth \in Nat /\ MaxOps \in Nat
  /\ None \notin Fn /\ None \notin Value

\* What is raised, and where.  Internal errors and failures of tasks cannot be caught.
Error == [in : Fn, fatal : BOOLEAN]
Catchable == {e \in Error : ~e.fatal}

ASSUME NoErrorAssumption ==
  /\ None \notin Error /\ Placeholder \notin Error
  /\ None # Placeholder

VARIABLES
  threshold,
  counters, fns, flags,   \* shared by all machines
  stack,      \* of each thread: open calls and how far each has come
  out,        \* the Err that an interpreted frame is given, or that ended the thread
  signal,     \* jit_signal of the thread's machine
  exn,        \* the pending exception of the thread
  globals, frozen,
  loop,       \* the parallel loop that a thread is in
  ended,      \* workers that have ended
  failures,   \* history: errors of the workers of a loop, in the order they came
  ops

shared == <<counters, fns, flags>>
errs == <<out, signal, exn>>
data == <<globals, frozen>>
loops == <<loop, ended, failures>>
vars == <<threshold, shared, stack, errs, data, loops, ops>>

Frame(f, at) == [fn |-> f, at |-> at]
Top(t) == Last(stack[t])
At(t, places) == stack[t] # <<>> /\ Top(t).at \in places
GoesTo(t, at) == stack' = [stack EXCEPT ![t] = Append(Front(@), Frame(Last(@).fn, at))]

NoLoop == [left |-> 0, body |-> None, kids |-> {}, slot |-> None]

-----------------------------------------------------------------------------
(* Start: a machine with its threshold, about to call the entry function.  *)

PreWarmed(f, n) == IF f \in Precompiled /\ n > 0 THEN n - 1 ELSE 0

\* Where a call begins: without the JIT in the interpreter.
Entered == IF threshold = 0 THEN "interp" ELSE "flag"

Init ==
  /\ threshold \in Thresholds
  /\ counters = [f \in Fn |-> PreWarmed(f, threshold)]
  /\ fns = [f \in Fn |-> "none"] /\ flags = [f \in Fn |-> FALSE]
  /\ \E f \in Fn \ Compilable :
       stack = [t \in Thread |-> IF t = Main THEN <<Frame(f, Entered)>> ELSE <<>>]
  /\ out = [t \in Thread |-> None]
  /\ signal = [t \in Thread |-> None] /\ exn = [t \in Thread |-> None]
  /\ \E v \in Value : globals = [t \in Thread |-> v]
  /\ frozen = [t \in Thread |-> None]
  /\ loop = [t \in Thread |-> NoLoop] /\ ended = {}
  /\ failures = [t \in Thread |-> <<>>]
  /\ ops = 0

-----------------------------------------------------------------------------
(* call_function_on_stack: which tier a call runs in.                      *)

ReadFlag(t) ==
  /\ At(t, {"flag"})
  /\ GoesTo(t, IF flags[Top(t).fn] THEN "lookup" ELSE "count")
  /\ UNCHANGED <<threshold, shared, errs, data, loops, ops>>

\* Mutant: a call waits for the native entry.
LookupAgain(t) ==
  /\ At(t, {"lookup"})
  /\ GoesTo(t, IF fns[Top(t).fn] = "native" THEN "native" ELSE "flag")
  /\ UNCHANGED <<threshold, shared, errs, data, loops, ops>>

\* The entry as it is found under the read lock; without one, or with one that is
\* not native, the call is interpreted.
Lookup(t) ==
  /\ At(t, {"lookup"})
  /\ GoesTo(t, IF fns[Top(t).fn] = "native" THEN "native" ELSE "interp")
  /\ UNCHANGED <<threshold, shared, errs, data, loops, ops>>

Reached(prev) == prev = threshold - 1

Count(t) ==
  /\ At(t, {"count"})
  /\ LET f == Top(t).fn
     IN /\ counters' = [counters EXCEPT ![f] = @ + 1]
        /\ GoesTo(t, IF Reached(counters[f]) THEN "compile" ELSE "interp")
  /\ UNCHANGED <<threshold, fns, flags, errs, data, loops, ops>>

\* Mutant: the flag is set before the entry is there.
FlagFirst(t) ==
  \/ At(t, {"compile"}) /\ GoesTo(t, "publish") /\ UNCHANGED fns
     /\ flags' = [flags EXCEPT ![Top(t).fn] = TRUE]
  \/ At(t, {"publish"}) /\ UNCHANGED flags
     /\ fns' = [fns EXCEPT ![Top(t).fn] = IF Top(t).fn \in Compilable THEN "native" ELSE "fallback"]
     /\ GoesTo(t, IF Top(t).fn \in Compilable THEN "native" ELSE "interp")

\* The function is compiled and stored, and then flagged; this very call runs in
\* the new tier.
StoreAndFlag(t) ==
  \/ /\ At(t, {"compile"})
     /\ fns' = [fns EXCEPT ![Top(t).fn] = IF Top(t).fn \in Compilable THEN "native" ELSE "fallback"]
     /\ GoesTo(t, "publish")
     /\ UNCHANGED flags
  \/ /\ At(t, {"publish"})
     /\ flags' = [flags EXCEPT ![Top(t).fn] = TRUE]
     /\ GoesTo(t, IF fns[Top(t).fn] = "native" THEN "native" ELSE "interp")
     /\ UNCHANGED fns

Compile(t) ==
  /\ StoreAndFlag(t)
  /\ UNCHANGED <<threshold, counters, errs, data, loops, ops>>

-----------------------------------------------------------------------------
(* Errors.  The bridge from native code to the machine keeps the error in  *)
(* jit_signal and makes a placeholder pending, so that native code stops.  *)

\* Mutant: jit_signal is read and not taken.
SignalKept(t) == signal

SignalTaken(t) == [signal EXCEPT ![t] = None]

\* A call of thread t ended with error e, and `rest` are the calls below it.
Fails(t, rest, e) ==
  IF rest # <<>> /\ Last(rest).at = "native"
  THEN /\ signal' = [signal EXCEPT ![t] = e]
       /\ exn' = [exn EXCEPT ![t] = Placeholder]
       /\ out' = [out EXCEPT ![t] = None]
  ELSE /\ out' = [out EXCEPT ![t] = e]
       /\ signal' = SignalTaken(t)
       /\ exn' = [exn EXCEPT ![t] = None]

\* Code of a body runs in t: emitted code looks at the pending exception after every
\* call and operation that may fail.
Runs(t, places) ==
  /\ At(t, places) /\ out[t] = None /\ exn[t] = None
  /\ ops < MaxOps
  /\ ops' = ops + 1

Call(t, f) ==
  /\ Runs(t, {"interp", "native"})
  /\ IF Len(stack[t]) < MaxDepth
     THEN stack' = [stack EXCEPT ![t] = Append(@, Frame(f, Entered))] /\ UNCHANGED errs
     ELSE Fails(t, stack[t], [in |-> f, fatal |-> FALSE]) /\ UNCHANGED stack
  /\ UNCHANGED <<threshold, shared, data, loops>>

\* Interpreted code throws or fails; an operation of native code fails.
Raise(t) ==
  /\ \/ /\ Runs(t, {"interp"})
        /\ \E fatal \in BOOLEAN : out' = [out EXCEPT ![t] = [in |-> Top(t).fn, fatal |-> fatal]]
        /\ UNCHANGED <<signal, exn>>
     \/ /\ Runs(t, {"native"})
        /\ exn' = [exn EXCEPT ![t] = [in |-> Top(t).fn, fatal |-> FALSE]]
        /\ UNCHANGED <<out, signal>>
  /\ UNCHANGED <<threshold, shared, stack, data, loops>>

\* An attempt around the failing instruction, which only interpreted code has.
Catch(t) ==
  /\ At(t, {"interp"}) /\ Top(t).fn \notin Compilable
  /\ out[t] \in Catchable
  /\ out' = [out EXCEPT ![t] = None]
  /\ UNCHANGED <<threshold, shared, stack, signal, exn, data, loops, ops>>

\* An interpreted call ends.
Return(t) ==
  /\ At(t, {"interp"})
  /\ stack' = [stack EXCEPT ![t] = Front(@)]
  /\ IF out[t] = None THEN UNCHANGED errs ELSE Fails(t, Front(stack[t]), out[t])
  /\ UNCHANGED <<threshold, shared, data, loops, ops>>

\* A native call ends (call_native_jit): with the error behind the placeholder, with
\* the exception itself, or well.
NativeReturn(t) ==
  /\ At(t, {"native"})
  /\ stack' = [stack EXCEPT ![t] = Front(@)]
  /\ IF exn[t] = None THEN UNCHANGED errs
     ELSE Fails(t, Front(stack[t]), IF signal[t] # None THEN signal[t] ELSE exn[t])
  /\ UNCHANGED <<threshold, shared, data, loops, ops>>

-----------------------------------------------------------------------------
(* Globals: a worker reads the frozen snapshot that it was given, until it *)
(* stores something itself.                                                *)

Seen(t) == IF frozen[t] # None THEN frozen[t] ELSE globals[t]

Thawed(t) == [frozen EXCEPT ![t] = None]

StoreGlobal(t, v) ==
  /\ Runs(t, {"interp", "native"})
  /\ v # Seen(t)
  /\ globals' = [globals EXCEPT ![t] = v]
  /\ frozen' = Thawed(t)
  /\ UNCHANGED <<threshold, shared, stack, errs, loops>>

-----------------------------------------------------------------------------
(* Parallel loops (ParallelIter): one worker per item, joined by the scope. *)

Unused == {t \in Thread \ {Main} :
             stack[t] = <<>> /\ t \notin ended /\ \A u \in Thread : t \notin loop[u].kids}
Promised == {u \in Thread : loop[u].left > 0}

ParallelIter(t, n, body) ==
  /\ Runs(t, {"interp"}) /\ Top(t).fn \notin Compilable
  /\ Promised = {} /\ n <= Cardinality(Unused)
  /\ GoesTo(t, "loop")
  /\ loop' = [loop EXCEPT ![t] = [left |-> n, body |-> body, kids |-> {}, slot |-> None]]
  /\ failures' = [failures EXCEPT ![t] = <<>>]
  /\ UNCHANGED <<threshold, shared, errs, data, ended>>

SpawnWorker(t) ==
  /\ At(t, {"loop"}) /\ loop[t].left > 0
  /\ LET u == CHOOSE w \in Unused : TRUE
     IN /\ u \in Unused
        /\ stack' = [stack EXCEPT ![u] = <<Frame(loop[t].body, Entered)>>]
        /\ globals' = [globals EXCEPT ![u] = Seen(t)]
        /\ frozen' = [frozen EXCEPT ![u] = Seen(t)]
        /\ loop' = [loop EXCEPT ![t].left = @ - 1, ![t].kids = @ \cup {u}]
  /\ UNCHANGED <<threshold, shared, errs, ended, failures, ops>>

\* Mutant: the last error stays.
LastOne(old, e) == e

\* What the slot holds after another error.
Kept(old, e) == IF old = None THEN e ELSE old

\* A worker's call has ended; its error goes to the slot under the slot's lock.
WorkerEnds(u) ==
  /\ u # Main /\ stack[u] = <<>> /\ u \notin ended
  /\ \E t \in Thread :
       /\ u \in loop[t].kids
       /\ IF out[u] = None THEN UNCHANGED <<loop, failures>>
          ELSE /\ loop' = [loop EXCEPT ![t].slot = Kept(@, out[u])]
               /\ failures' = [failures EXCEPT ![t] = Append(@, out[u])]
  /\ ended' = ended \cup {u}
  /\ UNCHANGED <<threshold, shared, stack, errs, data, ops>>

AllJoined(t) == loop[t].kids \subseteq ended

LoopEnds(t) ==
  /\ At(t, {"loop"}) /\ loop[t].left = 0 /\ AllJoined(t)
  /\ GoesTo(t, "interp")
  /\ out' = [out EXCEPT ![t] = loop[t].slot]
  /\ loop' = [loop EXCEPT ![t] = NoLoop]
  /\ UNCHANGED <<threshold, shared, signal, exn, data, ended, failures, ops>>

-----------------------------------------------------------------------------
ThreadStep(t) ==
  \/ ReadFlag(t) \/ Lookup(t) \/ Count(t) \/ Compile(t)
  \/ \E f \in Fn : Call(t, f)
  \/ Raise(t) \/ Catch(t) \/ Return(t) \/ NativeReturn(t)
  \/ \E v \in Value : StoreGlobal(t, v)
  \/ \E n \in 1 .. Cardinality(Thread), f \in Fn : ParallelIter(t, n, f)
  \/ SpawnWorker(t) \/ WorkerEnds(t) \/ LoopEnds(t)

Done == stack[Main] = <<>>
Terminated == Done /\ UNCHANGED vars

Next == (\E t \in Thread : ThreadStep(t)) \/ Terminated

Spec == Init /\ [][Next]_vars
FairSpec == Spec /\ \A t \in Thread : WF_vars(ThreadStep(t))

-----------------------------------------------------------------------------
(* Properties.                                                             *)

Places == {"flag", "lookup", "count", "compile", "publish", "interp", "native", "loop"}

\* Every variable has its type; native frames are of functions that were compiled.
TypeOK ==
  /\ threshold \in Thresholds
  /\ counters \in [Fn -> Nat] /\ fns \in [Fn -> {"none", "native", "fallback"}]
  /\ flags \in [Fn -> BOOLEAN]
  /\ stack \in [Thread -> Seq([fn : Fn, at : Places])]
  /\ \A t \in Thread : \A k \in DOMAIN stack[t] :
       stack[t][k].at = "native" => fns[stack[t][k].fn] = "native"
  /\ out \in [Thread -> Error \cup {None}] /\ signal \in [Thread -> Error \cup {None}]
  /\ exn \in [Thread -> Error \cup {None, Placeholder}]
  /\ globals \in [Thread -> Value] /\ frozen \in [Thread -> Value \cup {None}]
  /\ loop \in [Thread -> [left : Nat, body : Fn \cup {None}, kids : SUBSET Thread,
                          slot : Error \cup {None}]]
  /\ \A t \in Thread : loop[t].left > 0 => loop[t].body \in Fn
  /\ ended \subseteq Thread \ {Main}
  /\ failures \in [Thread -> Seq(Error)]
  /\ ops \in 0 .. MaxOps

Compiling(f) ==
  {t \in Thread : stack[t] # <<>> /\ Top(t).fn = f /\ Top(t).at \in {"compile", "publish"}}

\* A function is compiled by one thread and once, however many reach its threshold
\* together.  (call_counters.fetch_add)
OneCompiler ==
  \A f \in Fn :
    /\ \A t, u \in Compiling(f) : t = u
    /\ flags[f] => Compiling(f) = {}

\* Whoever sees the flag finds the entry.  ("Publish the compiled flag AFTER the
\* function is stored")
FlaggedIsStored == \A f \in Fn : flags[f] => fns[f] # "none"

\* No function that is called often enough is left to the interpreter for ever: at
\* its threshold it is compiled, or being compiled.  (jit_threshold: "Number of calls
\* after which the JIT kicks in")
HotIsCompiled ==
  \A f \in Fn : threshold > 0 /\ counters[f] >= threshold => flags[f] \/ Compiling(f) # {}

\* A worker runs only while its parent waits in the loop.  ("Scope joins all threads
\* implicitly on drop")
WorkersAreJoined ==
  \A u \in Thread \ {Main} :
    stack[u] # <<>> => \E t \in Thread : At(t, {"loop"}) /\ u \in loop[t].kids

\* Tables, flags, stacks and loops tell one story, whichever workers share them.
Consistent ==
  TypeOK /\ OneCompiler /\ FlaggedIsStored /\ HotIsCompiled /\ WorkersAreJoined

\* A loop ends with the first error that any of its workers had, if any had one.
\* ("Collect the first error from any iteration")
FirstErrorIsRaised ==
  [][\A t \in Thread : At(t, {"loop"}) /\ ~At(t, {"loop"})' =>
       out'[t] = IF failures[t] = <<>> THEN None ELSE Head(failures[t])]_vars

\* In every tier and across tiers a program behaves as one that is interpreted: each
\* error unwinds as it was raised and leaves nothing behind when it is caught, and
\* each read of a global sees the thread's own last write.
FnsOf(calls) == [k \in DOMAIN calls |-> calls[k].fn]
openCalls == [t \in Thread |-> FnsOf(stack[t])]
failing == [t \in Thread |-> IF out[t] # None THEN out[t]
                             ELSE IF signal[t] # None THEN signal[t] ELSE exn[t]]
seen == [t \in Thread |-> Seen(t)]
waiting == [t \in Thread |-> loop[t].kids]

C == INSTANCE Calls WITH
       frames <- openCalls, failing <- failing, global <- seen, waits <- waiting
ActsAsInterpreter == C!Spec

\* Every program of finitely many steps ends, with all its workers.
Ends == <>Done
=============================================================================
