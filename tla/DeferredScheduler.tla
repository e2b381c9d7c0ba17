-------------------------- MODULE DeferredScheduler --------------------------
(***************************************************************************)
(* Tasks and threads of compiled programs (fidan-runtime, parallel.rs and  *)
(* ffi.rs): every OS thread has a scheduler of its own, and the handles a  *)
(* program holds are FidanPending slots that threads may share.            *)
(*                                                                         *)
(* As in the interpreter, an await runs other tasks on top of its caller.  *)
(* Unlike there, a join takes the entry out of the slot before it resolves *)
(* it, waitAny and timeout never run a task themselves, and a slot checks  *)
(* which thread asks.  A `parallel` block starts one thread per task.      *)
(*                                                                         *)
(* Handles are numbered in creation order, over all threads; a thread is   *)
(* named by the handle that its creator joins.                             *)
(***************************************************************************)
EXTENDS Integers, Sequences

CONSTANTS
  MaxHandles,  \* bound on the handles a run creates
  MaxList,     \* bound on the handles given to gather, waitAny or a block
  Kinds        \* the kinds of handle a run may create

ASSUME BoundsAssumption == MaxHandles \in Nat /\ MaxList \in Nat

AllKinds == {"spawn", "block", "thread", "ready", "sleep", "gather", "any", "timeout"}

ASSUME KindsAssumption == Kinds \subseteq AllKinds

Handles == 1 .. MaxHandles
Main == 0
NoOne == -1
Threads == Handles \cup {Main}

\* How a computation ends.  Internal errors and a block's R9001 cannot be
\* caught (RuntimeException::is_catchable); the rest are throws.
Results == {"ok", "throw", "panic"}

VARIABLES
  made,     \* handle -> [kind, args, by, owner], fixed when it is created
  slot,     \* handle -> "unborn", "full", "empty": the FidanPending slot
  entry,    \* handle -> "none", "queued", "sleeping", "running", "ready", "gone"
  result,   \* handle -> how its computation ended
  queue,    \* thread -> DeferredScheduler.queue
  next,     \* the next handle to be created
  stack,    \* thread -> its activities, innermost last
  answer    \* history: the last answer anybody got, [on, val, to]

vars == <<made, slot, entry, result, queue, next, stack, answer>>

-----------------------------------------------------------------------------
(* Activities, as in MirScheduler: [task, op, on, held, exc].  held says   *)
(* that the entry of the first handle of on has been taken out of its slot *)
(* and is being resolved.                                                  *)

Ops == {"code", "await", "join", "gather", "any", "timeout", "finish"}

Activity(i, op, on) ==
  [task |-> i, op |-> op, on |-> on, held |-> FALSE, exc |-> "ok"]

Running(t) == stack[t] # << >>
Top(t) == stack[t][Len(stack[t])]
InCode(t) == Running(t) /\ Top(t).op = "code"

\* The activity on top goes on with op over these handles, none of them held.
Become(t, op, on, exc) ==
  stack' = [stack EXCEPT ![t][Len(stack[t])] =
             [task |-> @.task, op |-> op, on |-> on, held |-> FALSE, exc |-> exc]]

Lists(S) == UNION {[1 .. n -> S] : n \in 0 .. MaxList}

\* Handles live in shared values and cross threads; those of a block do not,
\* the compiler hides them.
Hidden(h) == made[h].kind \in {"block", "thread"}

Visible == {h \in Handles : h < next /\ ~Hidden(h)}

Cooperative(h) == made[h].kind \notin {"thread", "ready"}

\* Mutant: no check of the asking thread.
AnyThread(t, h) == FALSE

\* validate_pending_thread: a slot that still holds a cooperative entry may only
\* be touched by the thread whose scheduler knows the entry.
IsForeign(t, h) == slot[h] = "full" /\ Cooperative(h) /\ made[h].owner # t

\* try_take_ready: is there an answer without waiting?
Available(t, h) == slot[h] = "empty" \/ IsForeign(t, h) \/ entry[h] = "ready"

ValueFor(t, h) ==
  IF slot[h] = "empty" THEN "nothing"
  ELSE IF IsForeign(t, h) THEN "foreign"
  ELSE result[h]

Answers(t, h, v) == answer' = [on |-> h, val |-> v, to |-> t]

\* Mutant: the scheduler's entry goes, the slot keeps its own.
EntryOnly(t, h) ==
  /\ entry' = [entry EXCEPT ![h] = "gone"]
  /\ UNCHANGED slot

\* The entry leaves the scheduler's table and the slot.
Removed(t, h) ==
  /\ entry' = [entry EXCEPT ![h] = "gone"]
  /\ slot' = [slot EXCEPT ![h] = "empty"]

\* FidanPending::try_take_ready_exception, with an answer: a value is taken out,
\* anything else leaves the slot as it was.
Take(t, h) ==
  /\ Available(t, h)
  /\ Answers(t, h, ValueFor(t, h))
  /\ IF slot[h] = "full" /\ ~IsForeign(t, h)
     THEN Removed(t, h)
     ELSE UNCHANGED <<slot, entry>>
  /\ UNCHANGED <<made, result, queue, next>>

-----------------------------------------------------------------------------
Init ==
  /\ made = [h \in Handles |-> [kind |-> "spawn", args |-> << >>, by |-> Main, owner |-> Main]]
  /\ slot = [h \in Handles |-> "unborn"]
  /\ entry = [h \in Handles |-> "none"]
  /\ result = [h \in Handles |-> "ok"]
  /\ queue = [t \in Threads |-> << >>]
  /\ next = 1
  /\ stack = [t \in Threads |-> IF t = Main THEN <<Activity(Main, "code", << >>)>> ELSE << >>]
  /\ answer = [on |-> NoOne, val |-> "none", to |-> Main]

FreshIds(n) == [k \in 1 .. n |-> next + k - 1]

\* push queues, push_sleep and the other constructors do not.
IsQueued(kind) == kind \notin {"sleep", "ready", "thread"}

\* Mutant: an entry is lost behind one that waits.
FirstOnly(q, new) == IF q = << >> THEN new ELSE q

PushBack(q, new) == q \o new

Entry(kind) ==
  IF IsQueued(kind) THEN "queued"
  ELSE IF kind = "sleep" THEN "sleeping"
  ELSE IF kind = "thread" THEN "running"
  ELSE "ready"

\* n new FidanPending values of one kind, made by thread t.
Create(t, n, kind, args) ==
  LET new == {FreshIds(n)[k] : k \in 1 .. n} IN
  /\ next + n - 1 <= MaxHandles
  /\ kind \in Kinds
  /\ made' = [h \in Handles |->
       IF h \in new
       THEN [kind |-> kind, args |-> args, by |-> Top(t).task, owner |-> t]
       ELSE made[h]]
  /\ slot' = [h \in Handles |-> IF h \in new THEN "full" ELSE slot[h]]
  /\ entry' = [h \in Handles |-> IF h \in new THEN Entry(kind) ELSE entry[h]]
  /\ queue' = [queue EXCEPT ![t] = IF IsQueued(kind) THEN PushBack(@, FreshIds(n)) ELSE @]
  /\ next' = next + n
  /\ UNCHANGED <<result, answer>>

\* fdn_spawn_expr and fdn_spawn_dynamic
Spawn(t) ==
  /\ InCode(t)
  /\ Create(t, 1, "spawn", << >>)
  /\ UNCHANGED stack

\* dispatch_async: the std.async functions, given existing handles.
Combine(t) ==
  /\ InCode(t)
  /\ \/ \E kind \in {"ready", "sleep"} : Create(t, 1, kind, << >>)
     \/ \E kind \in {"gather", "any"}, hs \in Lists(Visible) : Create(t, 1, kind, hs)
     \/ \E h \in Visible : Create(t, 1, "timeout", <<h>>)
  /\ UNCHANGED stack

\* A `concurrent` block: fdn_spawn_concurrent for each task, then fdn_join_all.
Block(t) ==
  /\ InCode(t)
  /\ \E n \in 1 .. MaxList :
       /\ Create(t, n, "block", << >>)
       /\ Become(t, "join", FreshIds(n), "ok")

\* A `parallel` block: fdn_spawn_task for each task, then fdn_join_all.
Parallel(t) ==
  /\ InCode(t)
  /\ \E n \in 1 .. MaxList :
       LET new == {FreshIds(n)[k] : k \in 1 .. n} IN
       /\ Create(t, n, "thread", << >>)
       /\ stack' = [u \in Threads |->
            IF u = t THEN Append(SubSeq(stack[t], 1, Len(stack[t]) - 1),
                                 Activity(Top(t).task, "join", FreshIds(n)))
            ELSE IF u \in new THEN <<Activity(u, "code", << >>)>>
            ELSE stack[u]]

\* fdn_pending_join
Await(t) ==
  /\ InCode(t)
  /\ \E h \in Visible : Become(t, "await", <<h>>, "ok")
  /\ UNCHANGED <<made, slot, entry, result, queue, next, answer>>

\* User code returns, throws, or stops with an internal error.
CodeEnds(t) ==
  /\ InCode(t)
  /\ \E v \in Results : Become(t, "finish", << >>, v)
  /\ UNCHANGED <<made, slot, entry, result, queue, next, answer>>

\* A deadline passes: every operation of the scheduler wakes the sleepers first.
TimerFires ==
  /\ \E h \in Handles :
       /\ entry[h] = "sleeping"
       /\ entry' = [entry EXCEPT ![h] = "ready"]
  /\ UNCHANGED <<made, slot, result, queue, next, stack, answer>>

-----------------------------------------------------------------------------
(* deferred_scheduler_run_next: pop the thread's queue until a queued      *)
(* entry turns up, and run it on top of the stack.                         *)

QueuedAt(t) == {k \in DOMAIN queue[t] : entry[queue[t][k]] = "queued"}

Opening(i) ==
  IF made[i].kind \in {"spawn", "block"} THEN Activity(i, "code", << >>)
  ELSE Activity(i, made[i].kind, made[i].args)

IsFirst(t, k) == \A j \in QueuedAt(t) : k <= j

RunNext(t) ==
  \E k \in QueuedAt(t) :
    LET i == queue[t][k] IN
    /\ IsFirst(t, k)
    /\ queue' = [queue EXCEPT ![t] = SubSeq(@, k + 1, Len(@))]
    /\ entry' = [entry EXCEPT ![i] = "running"]
    /\ stack' = [stack EXCEPT ![t] = Append(@, Opening(i))]
    /\ UNCHANGED <<made, slot, result, next, answer>>

\* The thunk returns and its result is stored; a thread returns and can be
\* joined.  The main thread's own activity just ends.
Finish(t) ==
  /\ Running(t)
  /\ Top(t).op = "finish"
  /\ stack' = [stack EXCEPT ![t] = SubSeq(@, 1, Len(@) - 1)]
  /\ IF Top(t).task = Main
     THEN UNCHANGED <<entry, result>>
     ELSE /\ entry' = [entry EXCEPT ![Top(t).task] = "ready"]
          /\ result' = [result EXCEPT ![Top(t).task] = Top(t).exc]
  /\ UNCHANGED <<made, slot, queue, next, answer>>

-----------------------------------------------------------------------------
(* What the activity on top does with an answer.                           *)

Failures == {"throw", "panic", "foreign", "deadlock"}
Catchable == {"throw", "foreign"}

\* Mutant: a join leaves at the first failure.
FailFast(t, v) == IF v \in Failures THEN << >> ELSE Tail(Top(t).on)

\* fdn_join_all goes on with the remaining handles, whatever came of this one.
StillToJoin(t, v) == Tail(Top(t).on)

AwaitReceives(t, v) ==
  IF v \in Failures \ Catchable THEN Become(t, "finish", << >>, "panic")
                                ELSE Become(t, "code", << >>, "ok")

Raised(v) == IF v \in Catchable THEN "throw" ELSE "panic"

Receive(t, v) ==
  \/ Top(t).op = "await" /\ AwaitReceives(t, v)
  \/ /\ Top(t).op = "join"
     /\ Become(t, "join", StillToJoin(t, v), IF v \in Failures THEN "panic" ELSE Top(t).exc)
  \/ Top(t).op = "gather" /\ v \notin Failures /\ Become(t, "gather", Tail(Top(t).on), "ok")
  \/ /\ Top(t).op \in {"any", "timeout"}
     /\ v \notin Failures
     /\ Become(t, "finish", << >>, "ok")
  \/ /\ Top(t).op \in {"gather", "any", "timeout"}
     /\ v \in Failures
     /\ Become(t, "finish", << >>, Raised(v))

Joining(t) == Running(t) /\ Top(t).op \in {"await", "join", "gather"} /\ Top(t).on # << >>

\* Mutant: the slot keeps its entry while the join resolves it.
KeepsSlot(h) == UNCHANGED slot

TakesSlot(h) == slot' = [slot EXCEPT ![h] = "empty"]

\* try_join_exception, under the slot's lock: an empty, foreign or Ready slot
\* is answered at once; otherwise the entry is taken out, to be resolved.
Claim(t) ==
  LET h == Head(Top(t).on) IN
  /\ Joining(t)
  /\ ~Top(t).held
  /\ \/ /\ slot[h] = "empty" \/ IsForeign(t, h) \/ made[h].kind = "ready"
        /\ Take(t, h)
        /\ Receive(t, ValueFor(t, h))
     \/ /\ slot[h] = "full" /\ ~IsForeign(t, h) /\ made[h].kind # "ready"
        /\ TakesSlot(h)
        /\ stack' = [stack EXCEPT ![t][Len(stack[t])].held = TRUE]
        /\ UNCHANGED <<made, entry, result, queue, next, answer>>

\* One turn of deferred_scheduler_resolve, or the end of JoinHandle::join.
Resolve(t) ==
  LET h == Head(Top(t).on) IN
  /\ Joining(t)
  /\ Top(t).held
  /\ \/ /\ entry[h] = "ready"
        /\ entry' = [entry EXCEPT ![h] = "gone"]
        /\ Answers(t, h, result[h])
        /\ Receive(t, result[h])
        /\ UNCHANGED <<made, slot, result, queue, next>>
     \/ /\ entry[h] # "ready"
        /\ Cooperative(h)
        /\ RunNext(t)

NoSleepers(t) == \A h \in Handles : made[h].owner = t => entry[h] # "sleeping"

\* Nothing is left to run or to wake up, and the entry is not ready.
GiveUp(t) ==
  LET h == Head(Top(t).on) IN
  /\ Joining(t)
  /\ Top(t).held
  /\ Cooperative(h)
  /\ entry[h] \in {"queued", "running"}
  /\ QueuedAt(t) = {}
  /\ NoSleepers(t)
  /\ queue' = [queue EXCEPT ![t] = << >>]
  /\ Answers(t, h, "deadlock")
  /\ Receive(t, "deadlock")
  /\ UNCHANGED <<made, slot, entry, result, next>>

\* fdn_join_all and gather after their last handle.
AllResolved(t) ==
  /\ Running(t)
  /\ Top(t).on = << >>
  /\ \/ Top(t).op = "join" /\ Top(t).exc = "ok" /\ Become(t, "code", << >>, "ok")
     \/ Top(t).op = "join" /\ Top(t).exc # "ok" /\ Become(t, "finish", << >>, Top(t).exc)
     \/ Top(t).op = "gather" /\ Become(t, "finish", << >>, "ok")
  /\ UNCHANGED <<made, slot, entry, result, queue, next, answer>>

\* One turn of the waitAny or timeout closure that finds an answer.
Poll(t) ==
  LET on == Top(t).on
      ready == {k \in DOMAIN on : Available(t, on[k])} IN
  /\ Running(t)
  /\ Top(t).op \in {"any", "timeout"}
  /\ \/ \E k \in ready :
          /\ \A j \in ready : k <= j
          /\ Take(t, on[k])
          /\ Receive(t, ValueFor(t, on[k]))
     \/ /\ on = << >>                        \* waitAny([])
        /\ Become(t, "finish", << >>, "ok")
        /\ UNCHANGED <<made, slot, entry, result, queue, next, answer>>

\* The timeout's deadline has passed and the handle is not available.
TimeoutExpires(t) ==
  /\ Running(t)
  /\ Top(t).op = "timeout"
  /\ ~Available(t, Head(Top(t).on))
  /\ Become(t, "finish", << >>, "ok")
  /\ UNCHANGED <<made, slot, entry, result, queue, next, answer>>

Terminated == (\A t \in Threads : ~Running(t)) /\ UNCHANGED vars

\* A waitAny polls on, sleeping a millisecond between two looks.
PollsOn ==
  /\ \E t \in Threads :
       /\ Running(t)
       /\ Top(t).op = "any"
       /\ Top(t).on # << >>
       /\ \A k \in DOMAIN Top(t).on : ~Available(t, Top(t).on[k])
  /\ UNCHANGED vars

Scheduling(t) ==
  \/ Finish(t) \/ Claim(t) \/ Resolve(t) \/ GiveUp(t) \/ AllResolved(t)
  \/ Poll(t) \/ TimeoutExpires(t)

Next ==
  \/ \E t \in Threads :
       \/ Spawn(t) \/ Combine(t) \/ Block(t) \/ Parallel(t) \/ Await(t) \/ CodeEnds(t)
       \/ Scheduling(t)
  \/ TimerFires \/ PollsOn \/ Terminated

Spec == Init /\ [][Next]_vars

-----------------------------------------------------------------------------
(* Properties.                                                             *)

\* Every variable has its type.  (DeferredScheduler, FidanPending)
TypeOK ==
  /\ made \in [Handles -> [kind : AllKinds, args : Seq(Handles), by : Threads, owner : Threads]]
  /\ slot \in [Handles -> {"unborn", "full", "empty"}]
  /\ entry \in [Handles -> {"none", "queued", "sleeping", "running", "ready", "gone"}]
  /\ result \in [Handles -> Results]
  /\ queue \in [Threads -> Seq(Handles)]
  /\ next \in 1 .. MaxHandles + 1
  /\ stack \in [Threads -> Seq([task : Threads, op : Ops, on : Seq(Handles),
                                held : BOOLEAN, exc : Results])]
  /\ answer \in [on : Handles \cup {NoOne}, to : Threads,
                 val : Results \cup {"nothing", "foreign", "deadlock", "none"}]

\* Each thread's queue lists exactly the entries its scheduler has not started,
\* oldest first; sleepers are never in it.  (push, push_sleep, pop_next_queued)
QueueIsExact ==
  /\ \A t \in Threads : \A j, k \in DOMAIN queue[t] : j < k => queue[t][j] < queue[t][k]
  /\ \A h \in Handles, t \in Threads :
       entry[h] = "queued" /\ made[h].owner = t <=> \E k \in DOMAIN queue[t] : queue[t][k] = h
  /\ \A h \in Handles : entry[h] = "queued" => IsQueued(made[h].kind)

\* A running computation has exactly one activation: a thread's is the bottom of
\* its own stack, a task's is further up on the stack of the thread that made it.
\* (deferred_scheduler_pop_next_queued, deferred_scheduler_store_ready)
RunningIsOnStack ==
  /\ \A t \in Threads : \A j, k \in DOMAIN stack[t] :
       stack[t][j].task = stack[t][k].task => j = k
  /\ \A t \in Threads : \A k \in DOMAIN stack[t] :
       LET i == stack[t][k].task IN
       IF k = 1 THEN i = t /\ (t # Main => made[t].kind = "thread")
       ELSE i # Main /\ made[i].kind # "thread" /\ made[i].owner = t
  /\ \A h \in Handles :
       entry[h] = "running" <=>
         \E t \in Threads : \E k \in DOMAIN stack[t] : stack[t][k].task = h

\* While a task runs, the activity that created it is below it on the stack,
\* or has ended: an activity is never suspended above its own task.
CreatorIsBelow ==
  \A t \in Threads : \A j, k \in DOMAIN stack[t] :
    k # 1 /\ made[stack[t][k].task].by = stack[t][j].task => j < k

\* This activity has taken the entry of h out of its slot.
HoldsOn(a, h) == a.held /\ Head(a.on) = h

Held(h) == \E t \in Threads : \E k \in DOMAIN stack[t] : HoldsOn(stack[t][k], h)

\* The activity a of thread t, if it has taken an entry, waits for it, has left its
\* slot empty, and can run it; the scheduler still has it.
HoldsProperly(t, a) ==
  LET h == Head(a.on) IN
  a.held =>
    /\ a.op \in {"await", "join", "gather"} /\ a.on # << >>
    /\ slot[h] = "empty" /\ entry[h] \notin {"none", "gone"}
    /\ Cooperative(h) => made[h].owner = t

\* The right to a result is held by at most one activity, and while it is held
\* the slot is empty and the scheduler still has the entry: nobody else can
\* take the result away under a join that waits for it, and only the thread
\* that can run a task waits for it.
\* (try_join_exception, deferred_scheduler_take_ready: "state changed")
OneHolder ==
  /\ \A t, u \in Threads : \A j \in DOMAIN stack[t], k \in DOMAIN stack[u] :
       stack[t][j].held /\ HoldsOn(stack[u][k], Head(stack[t][j].on)) => t = u /\ j = k
  /\ \A t \in Threads : \A k \in DOMAIN stack[t] : HoldsProperly(t, stack[t][k])

\* A block's list names tasks of its own, each of them once, whose results nobody
\* has taken.
JoinsItsOwn(t, a) ==
  a.op = "join" =>
    /\ \A m, n \in DOMAIN a.on : m < n => a.on[m] < a.on[n]
    /\ \A n \in DOMAIN a.on :
         LET h == a.on[n] IN
         /\ Hidden(h) /\ made[h].by = a.task /\ made[h].owner = t
         /\ slot[h] = "full" \/ (n = 1 /\ a.held)

\* The handles of a block are hidden from everybody else, so fdn_join_all finds each
\* of them untouched.
JoinsAreExact == \A t \in Threads : \A k \in DOMAIN stack[t] : JoinsItsOwn(t, stack[t][k])

\* Blocks are structured: no task and no thread outlives the block that started
\* it.  Until its result is taken, the activity that made it waits for it in
\* fdn_join_all; so the main thread, whose end would be the program's, has not
\* ended while a thread runs.  (fdn_spawn_concurrent, fdn_spawn_task)
BlocksAreJoined ==
  \A h \in Handles :
    h < next /\ Hidden(h) /\ entry[h] # "gone" =>
      \E k \in DOMAIN stack[made[h].owner] :
        LET a == stack[made[h].owner][k] IN
        a.task = made[h].by /\ a.op = "join" /\ \E n \in DOMAIN a.on : a.on[n] = h

\* An activity that still runs its own code, or joins without a failure so far,
\* has taken no failure from its blocks.
KeepsFailures(a) ==
  a.op \in {"code", "await"} \/ (a.op = "join" /\ a.exc = "ok") =>
    \A h \in Handles :
      h < next /\ Hidden(h) /\ made[h].by = a.task /\ entry[h] = "gone" => result[h] = "ok"

\* A failure that a block has met is not forgotten.  (fdn_join_all)
FailuresAreKept == \A t \in Threads : \A k \in DOMAIN stack[t] : KeepsFailures(stack[t][k])

\* The waitAny and timeout closures never run a queued task, they only poll:
\* they never wait for one that nobody has started.  (dispatch_async)
PolledTasksAreStarted ==
  \A t \in Threads : \A k \in DOMAIN stack[t] :
    stack[t][k].op \in {"any", "timeout"} =>
      \A n \in DOMAIN stack[t][k].on :
        LET h == stack[t][k].on[n] IN made[h].owner = t => entry[h] # "queued"

\* Nobody waits for a handle that does not exist, and only a block for the handles
\* of a block.
WaitsForOlder(a) ==
  \A n \in DOMAIN a.on : a.on[n] < next /\ (a.op # "join" => ~Hidden(a.on[n]))

\* What the invariants above rest on: handles are handed out once, and a
\* computation is older than what it makes, and younger than what it was given.
\* (push, dispatch_async)
HistoryIsOrdered ==
  /\ \A h \in Handles : h >= next =>
       slot[h] = "unborn" /\ entry[h] = "none" /\ result[h] = "ok"
  /\ \A h \in Handles : h < next =>
       /\ slot[h] # "unborn" /\ entry[h] # "none"
       /\ slot[h] = "full" => entry[h] # "gone"
       /\ made[h].by < h
       /\ made[h].by # Main => entry[made[h].by] # "queued"
       /\ \A n \in DOMAIN made[h].args : made[h].args[n] < h /\ ~Hidden(made[h].args[n])
  /\ \A t \in Threads : \A k \in DOMAIN stack[t] : WaitsForOlder(stack[t][k])

\* Queues, stacks and slots tell one story on every thread, and nothing outlives
\* the block that started it: the parts lean on one another and are, together,
\* inductive.
Consistent ==
  /\ TypeOK /\ QueueIsExact /\ RunningIsOnStack /\ CreatorIsBelow
  /\ OneHolder /\ JoinsAreExact /\ BlocksAreJoined /\ FailuresAreKept
  /\ PolledTasksAreStarted /\ HistoryIsOrdered

\* The result of a cooperative task reaches nobody but the thread that made it,
\* and a foreign thread's attempt leaves the handle usable.  (README, Shared:
\* "raises R0001 and leaves the original handle usable")
CooperativeStaysHome ==
  [][answer' # answer =>
       /\ answer'.val \in Results /\ Cooperative(answer'.on)
            => answer'.to = made[answer'.on].owner
       /\ answer'.val = "foreign" => slot' = slot /\ entry' = entry]_vars

\* When a block's activity goes on, every task or thread of the block has ended,
\* and all without failing; a failure is raised only after the last one.
\* (fdn_join_all)
BlockIsAllOrNothing ==
  [][\A t \in Threads : \A k \in DOMAIN stack[t] :
       stack[t][k].op = "join" /\ k \in DOMAIN stack'[t] /\ stack'[t][k].op # "join" =>
         \A h \in Handles :
           /\ h < next /\ Hidden(h)
           /\ made[h].owner = t /\ made[h].by = stack[t][k].task
           => entry[h] = "gone" /\ (stack'[t][k].op = "code" => result[h] = "ok")]_vars

\* Nobody is refused a task of its own: a scheduler that gives up with R9001 has
\* found a task of somebody further down its stack.  (deferred_scheduler_resolve)
OwnTasksNeverDeadlock ==
  [][answer' # answer /\ answer'.val = "deadlock" =>
       made[answer'.on].by # Top(answer'.to).task]_vars

\* Handles in the terms of OneShot: what the computation has settled to, who has the
\* right to the result, and the last answer.
SettledAs == [h \in Handles |-> IF entry[h] \in {"ready", "gone"} THEN result[h] ELSE "none"]

RightTo == [h \in Handles |->
  IF slot[h] = "unborn" THEN "unborn" ELSE IF slot[h] = "full" THEN "free"
  ELSE IF Held(h) THEN "claimed" ELSE "spent"]

LastAnswer == [on |-> answer.on, val |-> answer.val]

O == INSTANCE OneShot WITH val <- SettledAs, right <- RightTo, answer <- LastAnswer

\* Every FidanPending is a one-shot: it settles once, the first join owns the
\* result, and everybody else is answered `nothing`.
\* (parallel.rs: "all subsequent calls return `FidanValue::Nothing`")
IsOneShot == O!Spec

\* What h waits for, through the activities of its owner's stack.
WaitChain(t, h) ==
  LET chain[n \in Nat] ==
        IF n = 0 THEN {h}
        ELSE chain[n - 1] \cup
             {Head(stack[t][k].on) : k \in {j \in DOMAIN stack[t] :
                stack[t][j].on # << >> /\ stack[t][j].task \in chain[n - 1]}}
  IN chain[Len(stack[t])]

\* gather, "Wait for every pending handle in the list and collect all results in
\* order": it collects `nothing` from a task only if the result has been
\* handed out already, or the task waits for the gather.  It is not so: a task
\* that is being joined further down the stack answers `nothing` at once.
GatherCollectsAll ==
  [][\A t \in Threads : \A h \in Handles :
       /\ Running(t) /\ Top(t).op = "gather"
       /\ answer' # answer /\ answer' = [on |-> h, val |-> "nothing", to |-> t]
       /\ Top(t).task \notin WaitChain(t, h)
       => entry[h] = "gone"]_vars
==============================================================================
