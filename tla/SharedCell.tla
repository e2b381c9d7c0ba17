------------------------------ MODULE SharedCell ------------------------------
(***************************************************************************)
(* Shared values (fidan-runtime, shared_ref.rs): a mutex per cell, and a   *)
(* list per thread of the cells it holds, by which a recursive access is   *)
(* refused where the mutex would block for ever.                           *)
(*                                                                         *)
(* update(callback) holds the cell while user code runs, which may access  *)
(* other cells, await other tasks of the thread, fail, or panic.  get, set *)
(* and the printing of a cell take the same lock.  A cell's value is the   *)
(* number of updates committed since it was last set.                      *)
(***************************************************************************)
EXTENDS Integers, Sequences, FiniteSets

CONSTANTS
  Threads,     \* the threads of a parallel block
  Cells,       \* the Shared values, numbered
  NoThread,    \* nobody holds the lock
  MaxAccesses  \* bound on the accesses of each thread

ASSUME ConstantsAssumption ==
  /\ Cells \subseteq Nat
  /\ NoThread \notin Threads
  /\ MaxAccesses \in Nat

\* update, get, set, and the display of a value that contains the cell.
Accesses == {"update", "get", "set", "show"}

VARIABLES
  val,       \* cell -> the committed value
  lock,      \* cell -> the thread that holds its mutex, or NoThread
  poisoned,  \* the cells whose mutex is poisoned
  want,      \* thread -> the access it is waiting for, [op, cell], or NoAccess
  inside,    \* thread -> its open callbacks, innermost last: [op, cell, copy]
  accesses,  \* thread -> accesses it has made
  crashed,   \* the threads that have panicked
  done       \* history: cell -> updates committed since it was last set

cellVars == <<val, lock, poisoned, want, inside, accesses, crashed, done>>

NoAccess == [op |-> "none", cell |-> 0]

\* HELD_SHARED of thread t.
Held(t) == {inside[t][k].cell : k \in DOMAIN inside[t]}

InUserCode(t) == want[t] = NoAccess /\ t \notin crashed
Innermost(t) == inside[t][Len(inside[t])]
Outer(t) == SubSeq(inside[t], 1, Len(inside[t]) - 1)

CellsInit ==
  /\ val = [c \in Cells |-> 0]
  /\ lock = [c \in Cells |-> NoThread]
  /\ poisoned = {}
  /\ want = [t \in Threads |-> NoAccess]
  /\ inside = [t \in Threads |-> << >>]
  /\ accesses = [t \in Threads |-> 0]
  /\ crashed = {}
  /\ done = [c \in Cells |-> 0]

\* Mutants: the thread's own list is not consulted; the lock is not waited for.
AskedAnyway(t, c) == FALSE
NoMutex(t, c) == TRUE

\* HELD_SHARED.contains
Recursive(t, c) == c \in Held(t)

\* User code of t, perhaps inside a callback, accesses cell c.  A recursive
\* access is refused with R0001 and changes nothing.
Access(t, op, c) ==
  /\ InUserCode(t)
  /\ accesses[t] < MaxAccesses
  /\ accesses' = [accesses EXCEPT ![t] = @ + 1]
  /\ want' = [want EXCEPT ![t] = IF Recursive(t, c) THEN NoAccess ELSE [op |-> op, cell |-> c]]
  /\ UNCHANGED <<val, lock, poisoned, inside, crashed, done>>

\* Mutex::lock succeeds.
IsFree(t, c) == lock[c] = NoThread

\* get and set: lock, read or write, unlock.
Visit(t) ==
  LET c == want[t].cell IN
  /\ want[t].op \in {"get", "set"}
  /\ IsFree(t, c)
  /\ want' = [want EXCEPT ![t] = NoAccess]
  /\ IF want[t].op = "set" /\ c \notin poisoned
     THEN val' = [val EXCEPT ![c] = 0] /\ done' = [done EXCEPT ![c] = 0]
     ELSE UNCHANGED <<val, done>>
  /\ UNCHANGED <<lock, poisoned, inside, accesses, crashed>>

\* update and display: lock and enter, with a snapshot of the value.  A poisoned
\* lock is an error, and the guard inside it is dropped.
Enter(t) ==
  LET c == want[t].cell IN
  /\ want[t].op \in {"update", "show"}
  /\ IsFree(t, c)
  /\ want' = [want EXCEPT ![t] = NoAccess]
  /\ IF c \in poisoned
     THEN UNCHANGED <<lock, inside>>
     ELSE /\ lock' = [lock EXCEPT ![c] = t]
          /\ inside' = [inside EXCEPT ![t] =
                         Append(@, [op |-> want[t].op, cell |-> c, copy |-> val[c]])]
  /\ UNCHANGED <<val, poisoned, accesses, crashed, done>>

\* The callback's result is stored only if it succeeded.
Commits(ok) == ok

\* The callback returns, or fails with a half-made result: SharedGuard is dropped.
Leave(t, ok) ==
  /\ InUserCode(t)
  /\ inside[t] # << >>
  /\ LET c == Innermost(t).cell
         new == Innermost(t).copy + (IF ok THEN 1 ELSE -1) IN
     /\ IF Innermost(t).op = "update" /\ Commits(ok)
        THEN /\ val' = [val EXCEPT ![c] = new]
             /\ done' = [done EXCEPT ![c] = @ + 1]
        ELSE UNCHANGED <<val, done>>
     /\ lock' = [lock EXCEPT ![c] = NoThread]
  /\ inside' = [inside EXCEPT ![t] = Outer(t)]
  /\ UNCHANGED <<poisoned, want, accesses, crashed>>

\* Mutant: only the innermost guard is dropped by the unwinding.
InnermostOnly(t) == {Innermost(t).cell}

\* The cells whose guards unwinding drops.
Unwound(t) == Held(t)

\* Rust code panics under user code of t: the guards are dropped while
\* panicking, which poisons their locks, and the thread ends.
Panic(t) ==
  /\ InUserCode(t)
  /\ inside[t] # << >>
  /\ poisoned' = poisoned \cup Unwound(t)
  /\ lock' = [c \in Cells |-> IF c \in Unwound(t) THEN NoThread ELSE lock[c]]
  /\ inside' = [inside EXCEPT ![t] = << >>]
  /\ crashed' = crashed \cup {t}
  /\ UNCHANGED <<val, want, accesses, done>>

CellsNext ==
  \E t \in Threads :
    \/ \E op \in Accesses, c \in Cells : Access(t, op, c)
    \/ Visit(t) \/ Enter(t) \/ Panic(t)
    \/ \E ok \in BOOLEAN : Leave(t, ok)

CellsSpec == CellsInit /\ [][CellsNext]_cellVars

\* Fairness: a thread that waits for a lock that stays free gets it (the mutex
\* promises no more), and callbacks end.
CellsFairness ==
  \A t \in Threads :
    /\ WF_cellVars(Visit(t)) /\ WF_cellVars(Enter(t))
    /\ WF_cellVars(\E ok \in BOOLEAN : Leave(t, ok))

FairCellsSpec == CellsSpec /\ CellsFairness

-----------------------------------------------------------------------------
(* Properties.                                                             *)

Callbacks == [op : {"update", "show"}, cell : Cells, copy : Nat]

\* Every variable has its type.  (SharedRef, HELD_SHARED)
CellsTyped ==
  /\ val \in [Cells -> Nat]
  /\ lock \in [Cells -> Threads \cup {NoThread}]
  /\ poisoned \in SUBSET Cells
  /\ want \in [Threads -> [op : Accesses, cell : Cells] \cup {NoAccess}]
  /\ inside \in [Threads -> Seq(Callbacks)]
  /\ accesses \in [Threads -> 0 .. MaxAccesses]
  /\ crashed \in SUBSET Threads
  /\ done \in [Cells -> Nat]

\* The list of held cells and the mutexes agree, each cell is held once, and a
\* cell that is held is not poisoned: what HELD_SHARED refuses is exactly what
\* would block.  (SharedGuard, lock and drop)
HeldIsLocked ==
  /\ \A t \in Threads, c \in Cells : lock[c] = t <=> c \in Held(t)
  /\ \A t \in Threads : \A j, k \in DOMAIN inside[t] :
       inside[t][j].cell = inside[t][k].cell => j = k

\* No thread waits for a lock that it holds itself, however deep callbacks and
\* the tasks they await are nested.  (SharedRef::lock: "recursive access")
NeverWaitsForItself ==
  \A t \in Threads : want[t] # NoAccess => lock[want[t].cell] # t

\* The snapshot that a callback was given is still the cell's value when the
\* callback returns: nothing is committed under an open update.  (transform)
SnapshotIsCurrent ==
  \A t \in Threads : \A k \in DOMAIN inside[t] :
    inside[t][k].copy = val[inside[t][k].cell]

\* Mutexes, lists of held cells, waits and snapshots agree on every thread.
CellsConsistent == CellsTyped /\ HeldIsLocked /\ NeverWaitsForItself /\ SnapshotIsCurrent

\* No update is lost and a failed one leaves no trace: the value is the number
\* of updates that succeeded.  (README: "A failed callback leaves the committed
\* value unchanged"; "2, after both tasks join")
NoLostUpdate == \A c \in Cells : val[c] = done[c]

\* A thread asks for no cell that comes before one it holds.
InOrder == \A t \in Threads : want[t] # NoAccess => \A d \in Held(t) : d < want[t].cell

\* If the program nests its accesses in one order, every access that was begun
\* ends, also when other threads fail or panic inside their callbacks.
\* (README: "use a consistent lock order")
AccessesEnd ==
  []InOrder =>
    \A t \in Threads : want[t] # NoAccess ~> (want[t] = NoAccess \/ t \in crashed)
==============================================================================
