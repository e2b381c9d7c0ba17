---------------------------- MODULE MirScheduler ----------------------------
(***************************************************************************)
(* The interpreter's same-thread task scheduler (fidan-interp, MirMachine):*)
(* `spawn`, `concurrent` blocks, `await` and the std.async combinators.    *)
(*                                                                         *)
(* There is one thread.  An await does not suspend its caller: it runs     *)
(* other tasks on top of the caller's own call stack until the awaited     *)
(* handle is settled.  The state is therefore the task table, the ready    *)
(* queue and a stack of activities, of which only the top one can move.    *)
(* A program is any sequence of spawns, awaits and blocks by the activity  *)
(* on top; handles live in shared mutable values, so every activity may    *)
(* know every handle, except those of a block, which the compiler hides.   *)
(*                                                                         *)
(* Task handles are 1..MaxTasks in creation order (next_pending_task_id).  *)
(* Timers are the FidanPending values of std.async.sleep.                  *)
(***************************************************************************)
EXTENDS Integers, Sequences, FiniteSets

CONSTANTS
  MaxTasks,    \* bound on the tasks a run creates
  MaxTimers,   \* bound on the timers a run creates
  MaxList,     \* bound on the handles given to gather, waitAny or a block
  Kinds        \* the kinds of task a run may create

ASSUME BoundsAssumption ==
  MaxTasks \in Nat /\ MaxTimers \in Nat /\ MaxList \in Nat

\* DeferredTask: StaticSpawn and DynamicSpawn are "spawn", Concurrent "block".
AllKinds == {"spawn", "block", "ready", "gather", "any", "timeout"}

ASSUME KindsAssumption == Kinds \subseteq AllKinds

Tasks == 1 .. MaxTasks
Timers == (MaxTasks + 1) .. (MaxTasks + MaxTimers)
Handles == Tasks \cup Timers
Main == 0
NoOne == -1

\* How a computation ends.  A throw can be caught by the program; a panic
\* cannot (catchable_signal_value), nor can a block's ParallelFail.
Results == {"ok", "throw", "panic"}

VARIABLES
  st,       \* task -> "absent", "queued", "running", "ready"  (pending_tasks)
  body,     \* task -> what it does, [kind, args], and which activity made it
  result,   \* task -> how it ended, while st is "ready"
  queue,    \* pending_ready
  next,     \* next_pending_task_id
  timer,    \* timer -> "unborn", "asleep", "elapsed", "taken"
  stack,    \* activities, innermost last: [task, op, on, exc]
  answer    \* history: the last answer an await got, [on, val]

vars == <<st, body, result, queue, next, timer, stack, answer>>

-----------------------------------------------------------------------------
(* Activities.  op says what an activity is doing:                         *)
(*   "code"    running user code       "await"    inside AwaitPending      *)
(*   "join"    inside JoinAll          "finish"   returning or unwinding   *)
(*   "gather", "any", "timeout"        inside a combinator task            *)
(* on is the sequence of handles still to be resolved; exc the exception   *)
(* that propagates, or that a join has yet to raise.                       *)

Ops == {"code", "await", "join", "gather", "any", "timeout", "finish"}

Activity(i, op, on) == [task |-> i, op |-> op, on |-> on, exc |-> "ok"]

Running == stack # << >>
Top == stack[Len(stack)]
InCode == Running /\ Top.op = "code"

\* The activity on top goes on with op over these handles.
Become(op, on, exc) ==
  stack' = [stack EXCEPT ![Len(stack)] =
             [task |-> @.task, op |-> op, on |-> on, exc |-> exc]]

Lists(S) == UNION {[1 .. n -> S] : n \in 0 .. MaxList}

\* The handles a program can name: its own spawns, combinators and timers.
Visible == {i \in Tasks : i < next /\ body[i].kind # "block"}
             \cup {t \in Timers : timer[t] # "unborn"}

\* Mutant: a task that runs counts as answered.
AvailableOnceStarted(h) == h \in Timers \/ st[h] # "queued"

\* try_take_async_value_now: is there an answer without waiting?  A task that
\* is no longer in the table has been consumed, and answers `nothing`.
Available(h) ==
  IF h \in Tasks THEN st[h] \in {"ready", "absent"}
                 ELSE timer[h] \in {"elapsed", "taken"}

ValueOf(h) ==
  IF h \in Tasks THEN IF st[h] = "ready" THEN result[h] ELSE "nothing"
                 ELSE IF timer[h] = "elapsed" THEN "ok" ELSE "nothing"

\* Mutant: the answer is read and left in the table.
LeftInTable(h) == st' = st /\ timer' = timer

\* The value leaves the table, or the FidanPending slot.
Removed(h) ==
  /\ st' = IF h \in Tasks THEN [st EXCEPT ![h] = "absent"] ELSE st
  /\ timer' = IF h \in Timers THEN [timer EXCEPT ![h] = "taken"] ELSE timer

Take(h) ==
  /\ answer' = [on |-> h, val |-> ValueOf(h)]
  /\ Removed(h)
  /\ UNCHANGED <<body, result, queue, next>>

-----------------------------------------------------------------------------
Init ==
  /\ st = [i \in Tasks |-> "absent"]
  /\ body = [i \in Tasks |-> [kind |-> "spawn", args |-> << >>, by |-> Main]]
  /\ result = [i \in Tasks |-> "ok"]
  /\ queue = << >>
  /\ next = 1
  /\ timer = [t \in Timers |-> "unborn"]
  /\ stack = <<Activity(Main, "code", << >>)>>
  /\ answer = [on |-> NoOne, val |-> "none"]

PushBack(new) == queue' = queue \o new
FreshIds(n) == [k \in 1 .. n |-> next + k - 1]

\* queue_pending_task, n times over: fresh ids, entered in the table and at the
\* end of the queue in creation order.
QueueTasks(n, kind, args) ==
  LET new == {FreshIds(n)[k] : k \in 1 .. n} IN
  /\ next + n - 1 <= MaxTasks
  /\ kind \in Kinds
  /\ st' = [i \in Tasks |-> IF i \in new THEN "queued" ELSE st[i]]
  /\ body' = [i \in Tasks |->
               IF i \in new THEN [kind |-> kind, args |-> args, by |-> Top.task]
                            ELSE body[i]]
  /\ PushBack(FreshIds(n))
  /\ next' = next + n
  /\ UNCHANGED <<result, timer, answer>>

\* `spawn f()` and `spawn obj.m()`.
Spawn ==
  /\ InCode
  /\ QueueTasks(1, "spawn", << >>)
  /\ UNCHANGED stack

\* std.async.ready, gather, waitAny and timeout, given existing handles.
Combine ==
  /\ InCode
  /\ \/ QueueTasks(1, "ready", << >>)
     \/ \E kind \in {"gather", "any"}, hs \in Lists(Visible) :
          QueueTasks(1, kind, hs)
     \/ \E h \in Visible : QueueTasks(1, "timeout", <<h>>)
  /\ UNCHANGED stack

\* A `concurrent` block: SpawnConcurrent for each task, then JoinAll.  No user
\* code runs between them.
Block ==
  /\ InCode
  /\ \E n \in 1 .. MaxList :
       /\ QueueTasks(n, "block", << >>)
       /\ Become("join", FreshIds(n), "ok")

\* std.async.sleep
Sleep ==
  /\ InCode
  /\ \E t \in Timers :
       /\ timer[t] = "unborn"
       /\ \A u \in Timers : u < t => timer[u] # "unborn"
       /\ timer' = [timer EXCEPT ![t] = "asleep"]
  /\ UNCHANGED <<st, body, result, queue, next, stack, answer>>

\* A deadline passes; deadlines are arbitrary, so timers elapse in any order.
TimerFires ==
  /\ \E t \in Timers :
       /\ timer[t] = "asleep"
       /\ timer' = [timer EXCEPT ![t] = "elapsed"]
  /\ UNCHANGED <<st, body, result, queue, next, stack, answer>>

\* Instr::AwaitPending
Await ==
  /\ InCode
  /\ \E h \in Visible : Become("await", <<h>>, "ok")
  /\ UNCHANGED <<st, body, result, queue, next, timer, answer>>

\* User code returns, throws, or panics.
CodeEnds ==
  /\ InCode
  /\ \E v \in Results : Become("finish", << >>, v)
  /\ UNCHANGED <<st, body, result, queue, next, timer, answer>>

-----------------------------------------------------------------------------
(* run_next_same_thread_task: pop the ready queue until a queued task      *)
(* turns up, mark it running and run it on top of the stack.               *)

QueuedAt == {k \in DOMAIN queue : st[queue[k]] = "queued"}

\* What the body of a task starts with.
Opening(i) ==
  IF body[i].kind \in {"spawn", "block"} THEN Activity(i, "code", << >>)
  ELSE IF body[i].kind = "ready" THEN Activity(i, "finish", << >>)
  ELSE Activity(i, body[i].kind, body[i].args)

\* Mutant: pop_back.
IsLast(k) == \A j \in QueuedAt : j <= k

IsFirst(k) == \A j \in QueuedAt : k <= j

RunNext ==
  \E k \in QueuedAt :
    /\ IsFirst(k)
    /\ queue' = SubSeq(queue, k + 1, Len(queue))
    /\ st' = [st EXCEPT ![queue[k]] = "running"]
    /\ stack' = Append(stack, Opening(queue[k]))
    /\ UNCHANGED <<body, result, next, timer, answer>>

\* ... and, when that call returns, store its result.  The program's own
\* activity just ends, and with it the program.
Finish ==
  /\ Running
  /\ Top.op = "finish"
  /\ stack' = SubSeq(stack, 1, Len(stack) - 1)
  /\ IF Top.task = Main
     THEN UNCHANGED <<st, result>>
     ELSE /\ st' = [st EXCEPT ![Top.task] = "ready"]
          /\ result' = [result EXCEPT ![Top.task] = Top.exc]
  /\ UNCHANGED <<body, queue, next, timer, answer>>

-----------------------------------------------------------------------------
(* What the activity on top does with an answer.                           *)

Failures == {"throw", "panic", "deadlock"}

\* Mutants: a join leaves at the first failure; an await that was refused tries again.
FailFast(v) == IF v \in Failures THEN << >> ELSE Tail(Top.on)
AwaitRetries(v) ==
  IF v = "deadlock" THEN Become("await", Top.on, "ok")
                    ELSE Become("code", << >>, "ok")

\* The panic of a scheduler that gives up is a panic like any other.
Raised(v) == IF v = "throw" THEN "throw" ELSE "panic"

\* A join goes on with the remaining tasks, whatever came of this one.
StillToJoin(v) == Tail(Top.on)

\* A value, or a throw that the code catches (if it does not, CodeEnds
\* follows); a panic is not to be caught.
AwaitReceives(v) ==
  IF v \in {"panic", "deadlock"} THEN Become("finish", << >>, "panic")
                                 ELSE Become("code", << >>, "ok")

Receive(v) ==
  \/ Top.op = "await" /\ AwaitReceives(v)
  \/ /\ Top.op = "join"
     /\ Become("join", StillToJoin(v), IF v \in Failures THEN "panic" ELSE Top.exc)
  \/ Top.op = "gather" /\ v \notin Failures /\ Become("gather", Tail(Top.on), "ok")
  \/ Top.op \in {"any", "timeout"} /\ v \notin Failures /\ Become("finish", << >>, "ok")
  \/ /\ Top.op \in {"gather", "any", "timeout"}
     /\ v \in Failures
     /\ Become("finish", << >>, Raised(v))

Resolving == Running /\ Top.op \in {"await", "join", "gather"} /\ Top.on # << >>
Polling == Running /\ Top.op \in {"any", "timeout"}

\* One turn of resolve_same_thread_pending or resolve_pending_with_yield.
Resolve ==
  /\ Resolving
  /\ IF Available(Head(Top.on))
     THEN Take(Head(Top.on)) /\ Receive(ValueOf(Head(Top.on)))
     ELSE RunNext

\* Mutant: gives up without looking for other tasks to run.
AnyQueue == TRUE

NothingToRun == QueuedAt = {}

\* Nothing is left to run and the awaited task is not ready: it is itself on
\* the stack, and resolve_same_thread_pending gives up.
GiveUp ==
  /\ Resolving
  /\ Head(Top.on) \in Tasks
  /\ ~Available(Head(Top.on))
  /\ NothingToRun
  /\ queue' = << >>
  /\ answer' = [on |-> Head(Top.on), val |-> "deadlock"]
  /\ Receive("deadlock")
  /\ UNCHANGED <<st, body, result, next, timer>>

\* JoinAll and gather after their last handle.
AllResolved ==
  /\ Running
  /\ Top.on = << >>
  /\ \/ Top.op = "join" /\ Top.exc = "ok" /\ Become("code", << >>, "ok")
     \/ Top.op = "join" /\ Top.exc # "ok" /\ Become("finish", << >>, Top.exc)
     \/ Top.op = "gather" /\ Become("finish", << >>, "ok")
  /\ UNCHANGED <<st, body, result, queue, next, timer, answer>>

\* One turn of wait_any_async or timeout_async: take the first available
\* handle in list order, else run a queued task.
Poll ==
  LET ready == {k \in DOMAIN Top.on : Available(Top.on[k])} IN
  /\ Polling
  /\ \/ \E k \in ready :
          /\ \A j \in ready : k <= j
          /\ Take(Top.on[k])
          /\ Receive(ValueOf(Top.on[k]))
     \/ /\ ready = {} /\ Top.on # << >>
        /\ RunNext
     \/ /\ Top.on = << >>                    \* waitAny([])
        /\ Become("finish", << >>, "ok")
        /\ UNCHANGED <<st, body, result, queue, next, timer, answer>>

\* timeout_async: the deadline has passed and the handle is not available.
TimeoutExpires ==
  /\ Running
  /\ Top.op = "timeout"
  /\ ~Available(Head(Top.on))
  /\ Become("finish", << >>, "ok")
  /\ UNCHANGED <<st, body, result, queue, next, timer, answer>>

\* Waiting for time to pass: sleep one millisecond and look again.
Idle ==
  /\ QueuedAt = {}
  /\ \/ Resolving /\ Head(Top.on) \in Timers /\ ~Available(Head(Top.on))
     \/ Polling /\ Top.on # << >> /\ \A k \in DOMAIN Top.on : ~Available(Top.on[k])
  /\ queue' = << >>
  /\ UNCHANGED <<st, body, result, next, timer, stack, answer>>

Terminated == ~Running /\ UNCHANGED vars

Scheduling ==
  Finish \/ Resolve \/ GiveUp \/ AllResolved \/ Poll \/ TimeoutExpires

Next ==
  \/ Spawn \/ Combine \/ Block \/ Sleep \/ Await \/ CodeEnds
  \/ Scheduling \/ TimerFires \/ Idle \/ Terminated

Spec == Init /\ [][Next]_vars

\* Fairness: the thread keeps running, deadlines pass, and user code that keeps
\* being scheduled does not run forever (an assumption on programs).
Fairness ==
  /\ WF_vars(Scheduling)
  /\ WF_vars(TimerFires)
  /\ SF_vars(CodeEnds)

FairSpec == Spec /\ Fairness

-----------------------------------------------------------------------------
(* Properties.                                                             *)

\* The tasks an activity has made in its `concurrent` blocks.
BlockTasks(a) ==
  {i \in Tasks : i < next /\ body[i].kind = "block" /\ body[i].by = a.task}

\* Every variable has its type.  (MirMachine's task table, queue and stack.)
TypeOK ==
  /\ st \in [Tasks -> {"absent", "queued", "running", "ready"}]
  /\ body \in [Tasks -> [kind : AllKinds, args : Seq(Handles), by : Tasks \cup {Main}]]
  /\ result \in [Tasks -> Results]
  /\ queue \in Seq(Tasks)
  /\ next \in 1 .. MaxTasks + 1
  /\ timer \in [Timers -> {"unborn", "asleep", "elapsed", "taken"}]
  /\ stack \in Seq([task : Tasks \cup {Main}, op : Ops, on : Seq(Handles),
                    exc : Results])
  /\ answer \in [on : Handles \cup {NoOne},
                  val : Results \cup {"nothing", "deadlock", "none"}]

\* The ready queue lists exactly the queued tasks, oldest first: no task is
\* lost or queued twice, whatever runs while another one is being awaited.
\* (queue_pending_task, run_next_same_thread_task)
QueueIsExact ==
  /\ \A j, k \in DOMAIN queue : j < k => queue[j] < queue[k]
  /\ \A k \in DOMAIN queue : queue[k] < next
  /\ \A i \in Tasks : st[i] = "queued" <=> \E k \in DOMAIN queue : queue[k] = i

\* A running task has exactly one activation on the stack: it was started
\* once, and nothing that happened above it has stored its result.
\* (PendingTaskState::Running)
RunningIsOnStack ==
  /\ \A j, k \in DOMAIN stack : stack[j].task = stack[k].task => j = k
  /\ \A i \in Tasks :
       st[i] = "running" <=> \E k \in DOMAIN stack : stack[k].task = i

\* While a task runs, the activity that created it is below it on the stack,
\* or has ended: an activity is never suspended above its own task.
CreatorIsBelow ==
  \A j, k \in DOMAIN stack :
    stack[k].task # Main /\ body[stack[k].task].by = stack[j].task => j < k

\* A combinator that polls never waits for a task nobody has started: all the
\* handles it was given are older, and older tasks have been started first.
\* The AOT engine's waitAny and timeout, which never run a queued task
\* themselves, depend on it.  (wait_any_async, timeout_async)
PolledTasksAreStarted ==
  \A k \in DOMAIN stack :
    stack[k].op \in {"any", "timeout"} =>
      \A n \in DOMAIN stack[k].on :
        stack[k].on[n] \in Tasks => st[stack[k].on[n]] # "queued"

\* What the invariants above rest on: ids are handed out once, a task is older
\* than what it makes, a combinator than nothing it was given, and nobody
\* waits for a handle that does not exist.  (queue_pending_task)
HistoryIsOrdered ==
  /\ \A i \in Tasks : i >= next => st[i] = "absent"
  /\ \A i \in Tasks : i < next =>
       /\ body[i].by < i
       /\ body[i].by \in Tasks => st[body[i].by] # "queued"
       /\ \A n \in DOMAIN body[i].args : body[i].args[n] \in Tasks => body[i].args[n] < i
  /\ \A k \in DOMAIN stack : stack[k].op \in {"any", "timeout"} =>
       \A n \in DOMAIN stack[k].on : stack[k].on[n] \in Tasks => stack[k].on[n] < next

\* What an activity may be waiting for: handles a program can name, or, in a join,
\* tasks of its own block, each of them once and none of them answered yet.
WaitsForVisible(a) ==
  a.op # "join" => \A n \in DOMAIN a.on : a.on[n] \in Visible

JoinsItsOwn(a) ==
  a.op = "join" =>
    \A n \in DOMAIN a.on :
      /\ a.on[n] \in BlockTasks(a) /\ st[a.on[n]] # "absent"
      /\ \A m \in DOMAIN a.on : a.on[m] = a.on[n] => m = n

\* A block task is still to be joined, or its answer has been taken and a failure
\* noted; code goes on only when all of them ended well.
HasJoined(a) ==
  \A i \in BlockTasks(a) :
    /\ a.op = "join" =>
         \/ \E n \in DOMAIN a.on : a.on[n] = i
         \/ st[i] = "absent" /\ (a.exc = "ok" => result[i] = "ok")
    /\ a.op \in {"code", "await"} => st[i] = "absent" /\ result[i] = "ok"

\* The handles of a block are known to its join alone, which loses none of them and
\* forgets no failure, whatever the tasks it runs meanwhile await.  (Instr::JoinAll)
BlocksAreJoined ==
  /\ \A i \in Tasks : i < next =>
       \A n \in DOMAIN body[i].args : body[i].args[n] \in Visible
  /\ \A k \in DOMAIN stack :
       WaitsForVisible(stack[k]) /\ JoinsItsOwn(stack[k]) /\ HasJoined(stack[k])

\* Table, queue and stack tell one story, whatever awaits are nested: the parts of
\* InOrder lean on one another and are, together, inductive; BlocksAreJoined rests on them.
InOrder ==
  /\ TypeOK /\ QueueIsExact /\ RunningIsOnStack
  /\ CreatorIsBelow /\ PolledTasksAreStarted /\ HistoryIsOrdered

Consistent == InOrder /\ BlocksAreJoined

\* The scheduler is first in, first out even across nested awaits: a task is
\* started only when no older task is still waiting to be.
\* (README: "a cooperative FIFO scheduler")
StartsInOrder ==
  [][\A i \in Tasks :
       st[i] = "queued" /\ st'[i] = "running" =>
         \A j \in Tasks : j < i => st[j] # "queued"]_vars

\* A scheduler that gives up on a task gives up on one that some other activity
\* created: awaiting one's own tasks, and joining a concurrent block, never
\* fails this way.  (resolve_same_thread_pending)
OwnTasksNeverDeadlock ==
  [][\A i \in Tasks :
       answer' # answer /\ answer' = [on |-> i, val |-> "deadlock"] =>
         body[i].by # Top.task]_vars

\* A block joins each of its tasks: when the activity goes on, every task of the
\* block has ended, and all of them without failing; a failure, even of the
\* first one, is raised only after the last one has ended.  (Instr::JoinAll)
BlockIsAllOrNothing ==
  [][\A k \in DOMAIN stack :
       stack[k].op = "join" /\ k \in DOMAIN stack' /\ stack'[k].op # "join" =>
         \A i \in BlockTasks(stack[k]) :
           st[i] = "absent" /\ (stack'[k].op = "code" => result[i] = "ok")]_vars

\* What a handle of the program is, in the terms of Promise.
PromiseOf(h) ==
  LET is(s, v) == [st |-> s, val |-> v] IN
  IF h \in Tasks
  THEN IF h >= next THEN is("none", "none")
       ELSE IF st[h] \in {"queued", "running"} THEN is("pending", "none")
       ELSE IF st[h] = "ready" THEN is("settled", result[h])
       ELSE is("consumed", "none")
  ELSE IF timer[h] = "unborn" THEN is("none", "none")
       ELSE IF timer[h] = "asleep" THEN is("pending", "none")
       ELSE IF timer[h] = "elapsed" THEN is("settled", "ok")
       ELSE is("consumed", "none")

Promises == [h \in Handles |-> PromiseOf(h)]

P == INSTANCE Promise WITH promise <- Promises

\* The interpreter's handles are promises: whatever the interleaving of nested
\* awaits, each settles once, hands its value out at most once, and answers
\* `nothing` ever after.  (try_take_same_thread_pending_now and its callers)
KeepsPromises == P!Spec

\* No activity is in one of the combinators that poll.
NobodyPolls == \A k \in DOMAIN stack : stack[k].op \notin {"any", "timeout"}

\* Every task that was started ends, whatever it awaits, and so does the program's
\* own activity: with plain tasks, blocks and gather nobody is left waiting for
\* ever.  (resolve_same_thread_pending, resolve_pending_with_yield)
ActivitiesEnd ==
  []NobodyPolls =>
    <>~Running /\ \A i \in Tasks : st[i] = "running" ~> st[i] # "running"
==============================================================================
