-------------------------------- MODULE Calls --------------------------------
(***************************************************************************)
(* What a program sees of calls, errors, globals and parallel loops,       *)
(* whatever tier its functions run in: a call begins and ends, an error    *)
(* unwinds unchanged until it is caught, a write is seen by the next read, *)
(* a worker starts from its parent's globals and is joined.                *)
(***************************************************************************)
EXTENDS Naturals, Sequences

CONSTANTS
  Thread, Main,    \* threads, and the one that runs the program
  Fn, Value,       \* functions, values of the globals
  Error,           \* errors
  Catchable,       \* those that an attempt may catch
  MaxDepth,        \* how many calls may be open in a thread
  None

VARIABLES
  frames,     \* open calls of each thread
  failing,    \* the error that unwinds, or ended, each thread
  global,     \* the globals as each thread sees them
  waits       \* workers of the parallel loop that a thread is in

vars == <<frames, failing, global, waits>>

Active(t) == frames[t] # <<>> /\ waits[t] = {}

Init ==
  /\ \E f \in Fn, v \in Value :
       /\ frames = [t \in Thread |-> IF t = Main THEN <<f>> ELSE <<>>]
       /\ global = [t \in Thread |-> v]
  /\ failing = [t \in Thread |-> None]
  /\ waits = [t \in Thread |-> {}]

Call(t, f) ==
  /\ Active(t) /\ failing[t] = None /\ Len(frames[t]) < MaxDepth
  /\ frames' = [frames EXCEPT ![t] = Append(@, f)]
  /\ UNCHANGED <<failing, global, waits>>

Leave(t) ==
  /\ Active(t)
  /\ frames' = [frames EXCEPT ![t] = SubSeq(@, 1, Len(@) - 1)]
  /\ UNCHANGED <<failing, global, waits>>

Raise(t, e) ==
  /\ Active(t) /\ failing[t] = None
  /\ failing' = [failing EXCEPT ![t] = e]
  /\ UNCHANGED <<frames, global, waits>>

Catch(t) ==
  /\ Active(t) /\ failing[t] \in Catchable
  /\ failing' = [failing EXCEPT ![t] = None]
  /\ UNCHANGED <<frames, global, waits>>

Write(t, v) ==
  /\ Active(t) /\ failing[t] = None
  /\ global' = [global EXCEPT ![t] = v]
  /\ UNCHANGED <<frames, failing, waits>>

\* A parallel loop makes its workers one by one, while the first ones run.
Fork(t, u, f) ==
  /\ frames[t] # <<>> /\ failing[t] = None
  /\ u # t /\ frames[u] = <<>> /\ failing[u] = None
  /\ frames' = [frames EXCEPT ![u] = <<f>>]
  /\ global' = [global EXCEPT ![u] = global[t]]
  /\ waits' = [waits EXCEPT ![t] = @ \cup {u}]
  /\ UNCHANGED failing

\* It ends when they have, with an error if any of them failed.
Join(t) ==
  /\ frames[t] # <<>> /\ waits[t] # {} /\ \A u \in waits[t] : frames[u] = <<>>
  /\ LET errors == {failing[u] : u \in waits[t]} \ {None}
     IN \/ errors = {} /\ UNCHANGED failing
        \/ \E e \in errors : failing' = [failing EXCEPT ![t] = e]
  /\ waits' = [waits EXCEPT ![t] = {}]
  /\ UNCHANGED <<frames, global>>

Next ==
  \E t \in Thread :
    \/ \E f \in Fn : Call(t, f)
    \/ Leave(t)
    \/ \E e \in Error : Raise(t, e)
    \/ Catch(t)
    \/ \E v \in Value : Write(t, v)
    \/ \E u \in Thread, f \in Fn : Fork(t, u, f)
    \/ Join(t)

Spec == Init /\ [][Next]_vars
=============================================================================
