------------------------- MODULE MirSchedulerProofs -------------------------
(* Theorems about MirScheduler, for every number of tasks and timers. *)
EXTENDS MirScheduler, SequenceTheorems, TLAPS

Activities == [task : Tasks \cup {Main}, op : Ops, on : Seq(Handles), exc : Results]
Bodies == [kind : AllKinds, args : Seq(Handles), by : Tasks \cup {Main}]

USE BoundsAssumption, KindsAssumption

LEMMA ListsAreSequences ==
  ASSUME NEW S, NEW s \in Lists(S)
  PROVE  s \in Seq(S)
BY DEF Lists

LEMMA SequenceFacts ==
  ASSUME NEW S, NEW s \in Seq(S)
  PROVE  /\ DOMAIN s = 1 .. Len(s) /\ Len(s) \in Nat
         /\ \A k \in DOMAIN s : s[k] \in S
         /\ (\A k \in DOMAIN s : FALSE) => s = << >>
<1>1. DOMAIN s = 1 .. Len(s) /\ Len(s) \in Nat /\ \A k \in DOMAIN s : s[k] \in S
  OBVIOUS
<1>2. ASSUME \A k \in DOMAIN s : FALSE PROVE s = << >>
  <2>1. Len(s) = 0
    <3>1. ~(1 \in DOMAIN s)
      BY <1>2
    <3> QED
      BY <1>1, <3>1
  <2> QED
    BY <2>1
<1> QED
  BY <1>1, <1>2

\* What TypeOK says of the queue and of the stack, element by element.
LEMMA TypeFacts ==
  ASSUME TypeOK
  PROVE  /\ queue \in Seq(Tasks) /\ DOMAIN queue = 1 .. Len(queue) /\ Len(queue) \in Nat
         /\ \A k \in DOMAIN queue : queue[k] \in Tasks
         /\ (\A k \in DOMAIN queue : FALSE) => queue = << >>
         /\ stack \in Seq(Activities) /\ DOMAIN stack = 1 .. Len(stack) /\ Len(stack) \in Nat
         /\ \A k \in DOMAIN stack : /\ stack[k].task \in Tasks \cup {Main}
                                   /\ stack[k].on \in Seq(Handles)
<1>1. queue \in Seq(Tasks) /\ stack \in Seq(Activities)
  BY DEF TypeOK, Activities
<1>2. \A k \in DOMAIN stack : stack[k] \in Activities
  BY <1>1, SequenceFacts
<1> QED
  BY <1>1, <1>2, SequenceFacts DEF Activities

LEMMA TopIsActivity ==
  ASSUME TypeOK, Running
  PROVE  /\ Len(stack) \in 1 .. Len(stack)
         /\ Top \in Activities
         /\ Top.task \in Tasks \cup {Main} /\ Top.op \in Ops
         /\ Top.on \in Seq(Handles) /\ Top.exc \in Results
<1> stack \in Seq(Activities) /\ stack # << >>
  BY DEF TypeOK, Running, Activities
<1>1. Len(stack) \in 1 .. Len(stack)
  OBVIOUS
<1>2. Top \in Activities
  BY <1>1 DEF Top
<1> QED
  BY <1>1, <1>2 DEF Activities

LEMMA BecomeType ==
  ASSUME TypeOK, Running,
         NEW op \in Ops, NEW on \in Seq(Handles), NEW exc \in Results,
         Become(op, on, exc)
  PROVE  /\ stack' \in Seq(Activities)
         /\ Len(stack') = Len(stack)
<1> stack \in Seq(Activities)
  BY DEF TypeOK, Activities
<1> stack' = [stack EXCEPT ![Len(stack)] =
               [task |-> Top.task, op |-> op, on |-> on, exc |-> exc]]
  BY DEF Become, Top
<1> [task |-> Top.task, op |-> op, on |-> on, exc |-> exc] \in Activities
  BY TopIsActivity DEF Activities
<1> QED
  BY TopIsActivity

LEMMA FreshIdsType ==
  ASSUME TypeOK, NEW n \in Nat, next + n - 1 <= MaxTasks
  PROVE  FreshIds(n) \in Seq(Tasks)
BY DEF TypeOK, FreshIds, Tasks

LEMMA QueueTasksType ==
  ASSUME TypeOK, Running, NEW n \in 1 .. MaxTasks, NEW kind \in AllKinds,
         NEW args \in Seq(Handles), QueueTasks(n, kind, args)
  PROVE  /\ st' \in [Tasks -> {"absent", "queued", "running", "ready"}]
         /\ body' \in [Tasks -> Bodies]
         /\ queue' \in Seq(Tasks)
         /\ next' \in 1 .. MaxTasks + 1
         /\ UNCHANGED <<result, timer, answer>>
<1>1. FreshIds(n) \in Seq(Tasks)
  BY FreshIdsType DEF QueueTasks
<1>2. queue' \in Seq(Tasks)
  BY <1>1 DEF QueueTasks, PushBack, TypeOK
<1>3. body' \in [Tasks -> Bodies]
  BY TopIsActivity DEF QueueTasks, TypeOK, Bodies
<1> QED
  BY <1>2, <1>3 DEF QueueTasks, TypeOK

LEMMA TakeType ==
  ASSUME TypeOK, NEW h \in Handles, Take(h)
  PROVE  /\ st' \in [Tasks -> {"absent", "queued", "running", "ready"}]
         /\ timer' \in [Timers -> {"unborn", "asleep", "elapsed", "taken"}]
         /\ answer' \in [on : Handles \cup {NoOne},
                          val : Results \cup {"nothing", "deadlock", "none"}]
         /\ ValueOf(h) \in Results \cup {"nothing"}
         /\ UNCHANGED <<body, result, queue, next>>
BY DEF Take, Removed, ValueOf, TypeOK, Handles, Results

LEMMA ReceiveType ==
  ASSUME TypeOK, Running, Top.op \in {"any", "timeout"} \/ Top.on # << >>,
         NEW v, Receive(v)
  PROVE  stack' \in Seq(Activities)
<1>0. << >> \in Seq(Handles) /\ Top.on \in Seq(Handles) /\ Top.exc \in Results
  BY TopIsActivity
<1> USE <1>0 DEF Ops, Results
<1>1. CASE Top.op = "await" /\ AwaitReceives(v)
  <2>1. CASE Become("code", << >>, "ok")
    BY <2>1, BecomeType
  <2>2. CASE Become("finish", << >>, "panic")
    BY <2>2, BecomeType
  <2> QED
    BY <1>1, <2>1, <2>2 DEF AwaitReceives
<1>2. CASE Top.op = "join"
  <2>1. Become("join", StillToJoin(v), IF v \in Failures THEN "panic" ELSE Top.exc)
    BY <1>2 DEF Receive
  <2>2. Tail(Top.on) \in Seq(Handles)
    BY <1>2
  <2> QED
    BY <2>1, <2>2, BecomeType DEF StillToJoin
<1>3. CASE Top.op = "gather" /\ v \notin Failures /\ Become("gather", Tail(Top.on), "ok")
  <2>1. Tail(Top.on) \in Seq(Handles)
    BY <1>3
  <2> QED
    BY <1>3, <2>1, BecomeType
<1>4. CASE Top.op \in {"any", "timeout"} /\ Become("finish", << >>, "ok")
  BY <1>4, BecomeType
<1>5. CASE Become("finish", << >>, Raised(v))
  <2>1. Raised(v) \in Results
    BY DEF Raised
  <2> QED
    BY <1>5, <2>1, BecomeType
<1> QED
  BY <1>1, <1>2, <1>3, <1>4, <1>5 DEF Receive

LEMMA RunNextType ==
  ASSUME TypeOK, RunNext
  PROVE  TypeOK'
<1> PICK k \in QueuedAt :
      /\ queue' = SubSeq(queue, k + 1, Len(queue))
      /\ st' = [st EXCEPT ![queue[k]] = "running"]
      /\ stack' = Append(stack, Opening(queue[k]))
      /\ UNCHANGED <<body, result, next, timer, answer>>
  BY DEF RunNext
<1>1. k \in 1 .. Len(queue) /\ queue[k] \in Tasks
  BY DEF QueuedAt, TypeOK
<1>2. queue' \in Seq(Tasks)
  BY <1>1 DEF TypeOK
<1>3. Opening(queue[k]) \in Activities
  BY <1>1 DEF Opening, Activity, Activities, TypeOK, AllKinds, Ops, Results
<1>4. stack' \in Seq(Activities)
  BY <1>3 DEF TypeOK, Activities
<1> QED
  BY <1>1, <1>2, <1>4 DEF TypeOK, Activities

LEMMA FinishType ==
  ASSUME TypeOK, Finish
  PROVE  TypeOK'
<1>1. stack' \in Seq(Activities)
  <2>1. stack \in Seq(Activities) /\ Len(stack) - 1 \in 0 .. Len(stack)
    BY TopIsActivity DEF Finish, TypeOK, Activities
  <2> QED
    BY <2>1 DEF Finish
<1> QED
  BY <1>1, TopIsActivity DEF Finish, TypeOK, Activities, Results

-----------------------------------------------------------------------------
(* Type correctness. *)

LEMMA VisibleLists ==
  ASSUME TypeOK, NEW hs \in Lists(Visible)
  PROVE  hs \in Seq(Handles)
BY DEF Lists, Visible, Handles

LEMMA QueueTasksKeepsType ==
  ASSUME TypeOK, Running, NEW n \in Nat, n > 0, NEW kind \in AllKinds,
         NEW args \in Seq(Handles), QueueTasks(n, kind, args),
         stack' \in Seq(Activities)
  PROVE  TypeOK'
<1>1. n \in 1 .. MaxTasks
  BY DEF QueueTasks, TypeOK
<1> QED
  BY <1>1, QueueTasksType DEF TypeOK, Bodies, Activities

LEMMA ProgramStepType ==
  ASSUME TypeOK, Spawn \/ Combine \/ Block \/ Sleep \/ Await \/ CodeEnds
  PROVE  TypeOK'
<1>0. << >> \in Seq(Handles) /\ stack \in Seq(Activities)
  BY DEF TypeOK, Activities
<1>k. /\ "spawn" \in AllKinds /\ "ready" \in AllKinds /\ "timeout" \in AllKinds
      /\ "block" \in AllKinds /\ {"gather", "any"} \subseteq AllKinds
      /\ 1 \in Nat /\ 1 > 0
  BY DEF AllKinds
<1> USE <1>0
<1>1. CASE Spawn
  <2>1. Running /\ stack' \in Seq(Activities) /\ QueueTasks(1, "spawn", << >>)
    BY <1>1 DEF Spawn, InCode
  <2> QED
    BY <1>k, <2>1, QueueTasksKeepsType
<1>2. CASE Combine
  <2>0. Running /\ stack' \in Seq(Activities)
    BY <1>2 DEF Combine, InCode
  <2>1. CASE QueueTasks(1, "ready", << >>)
    BY <1>k, <2>0, <2>1, QueueTasksKeepsType
  <2>2. ASSUME NEW kind \in {"gather", "any"}, NEW hs \in Lists(Visible),
               QueueTasks(1, kind, hs)
        PROVE  TypeOK'
    BY <1>k, <2>0, <2>2, VisibleLists, QueueTasksKeepsType
  <2>3. ASSUME NEW h \in Visible, QueueTasks(1, "timeout", <<h>>)
        PROVE  TypeOK'
    <3>1. <<h>> \in Seq(Handles)
      BY DEF Visible, Handles
    <3> QED
      BY <1>k, <2>0, <2>3, <3>1, QueueTasksKeepsType
  <2> QED
    BY <1>2, <2>1, <2>2, <2>3 DEF Combine
<1>3. CASE Block
  <2>1. PICK n \in 1 .. MaxList :
          QueueTasks(n, "block", << >>) /\ Become("join", FreshIds(n), "ok")
    BY <1>3 DEF Block
  <2>2. FreshIds(n) \in Seq(Handles)
    <3>1. FreshIds(n) \in Seq(Tasks)
      BY <2>1, FreshIdsType DEF QueueTasks
    <3> QED
      BY <3>1 DEF Handles
  <2>3. stack' \in Seq(Activities)
    BY <1>3, <2>1, <2>2, BecomeType DEF Block, InCode, Ops, Results
  <2> QED
    <3>1. Running /\ n \in Nat /\ n > 0
      BY <1>3 DEF Block, InCode
    <3> QED
      BY <1>k, <2>1, <2>3, <3>1, QueueTasksKeepsType
<1>4. CASE Sleep
  BY <1>4 DEF Sleep, TypeOK
<1>5. CASE Await
  <2>1. PICK h \in Visible : Become("await", <<h>>, "ok")
    BY <1>5 DEF Await
  <2>2. <<h>> \in Seq(Handles)
    BY DEF Visible, Handles
  <2>3. stack' \in Seq(Activities)
    BY <1>5, <2>1, <2>2, BecomeType DEF Await, InCode, Ops, Results
  <2> QED
    BY <1>5, <2>3 DEF Await, TypeOK, Activities
<1>6. CASE CodeEnds
  <2>1. stack' \in Seq(Activities)
    BY <1>6, BecomeType DEF CodeEnds, InCode, Ops
  <2> QED
    BY <1>6, <2>1 DEF CodeEnds, TypeOK, Activities
<1> QED
  BY <1>1, <1>2, <1>3, <1>4, <1>5, <1>6

LEMMA SchedulingStepType ==
  ASSUME TypeOK, Scheduling
  PROVE  TypeOK'
<1>0. << >> \in Seq(Handles) /\ << >> \in Seq(Tasks)
  OBVIOUS
<1>1. CASE Finish
  BY <1>1, FinishType
<1>2. CASE Resolve
  <2>1. CASE Available(Head(Top.on))
    <3>1. Head(Top.on) \in Handles /\ Top.on # << >>
      BY <1>2, TopIsActivity DEF Resolve, Resolving
    <3>2. Take(Head(Top.on)) /\ Receive(ValueOf(Head(Top.on)))
      BY <1>2, <2>1 DEF Resolve
    <3>3. stack' \in Seq(Activities)
      BY <1>2, <3>1, <3>2, ReceiveType DEF Resolve, Resolving
    <3> QED
      BY <3>1, <3>2, <3>3, TakeType DEF TypeOK, Activities
  <2> QED
    BY <1>2, <2>1, RunNextType DEF Resolve
<1>3. CASE GiveUp
  <2>1. Head(Top.on) \in Tasks /\ Top.on # << >>
    BY <1>3 DEF GiveUp, Resolving
  <2>2. stack' \in Seq(Activities)
    BY <1>3, <2>1, ReceiveType DEF GiveUp, Resolving
  <2>3. answer' \in [on : Handles \cup {NoOne},
                    val : Results \cup {"nothing", "deadlock", "none"}]
    BY <1>3, <2>1 DEF GiveUp, Handles
  <2> QED
    BY <1>0, <1>3, <2>2, <2>3 DEF GiveUp, TypeOK, Activities
<1>4. CASE AllResolved
  <2>1. stack' \in Seq(Activities)
    BY <1>0, <1>4, TopIsActivity, BecomeType DEF AllResolved, Ops, Results
  <2> QED
    BY <1>4, <2>1 DEF AllResolved, TypeOK, Activities
<1>5. CASE Poll
  <2>1. ASSUME NEW k \in DOMAIN Top.on, Take(Top.on[k]), Receive(ValueOf(Top.on[k]))
        PROVE  TypeOK'
    <3>1. Top.on[k] \in Handles
      BY <1>5, TopIsActivity DEF Poll, Polling
    <3>2. stack' \in Seq(Activities)
      BY <1>5, <2>1, ReceiveType DEF Poll, Polling
    <3> QED
      BY <2>1, <3>1, <3>2, TakeType DEF TypeOK, Activities
  <2>2. CASE RunNext
    BY <2>2, RunNextType
  <2>3. CASE /\ Become("finish", << >>, "ok")
             /\ UNCHANGED <<st, body, result, queue, next, timer, answer>>
    <3>1. stack' \in Seq(Activities)
      BY <1>0, <1>5, <2>3, BecomeType DEF Poll, Polling, Ops, Results
    <3> QED
      BY <2>3, <3>1 DEF TypeOK, Activities
  <2> QED
    BY <1>5, <2>1, <2>2, <2>3 DEF Poll
<1>6. CASE TimeoutExpires
  <2>1. stack' \in Seq(Activities)
    BY <1>0, <1>6, BecomeType DEF TimeoutExpires, Ops, Results
  <2> QED
    BY <1>6, <2>1 DEF TimeoutExpires, TypeOK, Activities
<1> QED
  BY <1>1, <1>2, <1>3, <1>4, <1>5, <1>6 DEF Scheduling

\* Every variable has its type in every reachable state.
THEOREM TypeCorrect == Spec => []TypeOK
<1>1. Init => TypeOK
  BY DEF Init, TypeOK, Activity, Activities, AllKinds, Ops, Results
<1>2. TypeOK /\ [Next]_vars => TypeOK'
  <2> SUFFICES ASSUME TypeOK, [Next]_vars PROVE TypeOK'
    OBVIOUS
  <2>1. CASE TimerFires
    BY <2>1 DEF TimerFires, TypeOK
  <2>2. CASE Idle
    BY <2>2 DEF Idle, TypeOK
  <2>3. CASE UNCHANGED vars
    BY <2>3 DEF vars, TypeOK
  <2> QED
    BY <2>1, <2>2, <2>3, ProgramStepType, SchedulingStepType DEF Next, Terminated
<1> QED
  BY <1>1, <1>2, PTL DEF Spec

-----------------------------------------------------------------------------
(* The inductive invariant. *)

Polls(k) == stack[k].op \in {"any", "timeout"}

\* No activity comes or goes, and none starts to poll.
StackSame ==
  /\ DOMAIN stack' = DOMAIN stack
  /\ \A k \in DOMAIN stack :
       /\ stack'[k].task = stack[k].task
       /\ Polls(k)' => Polls(k) /\ stack'[k].on = stack[k].on

LEMMA BecomeIsSame ==
  ASSUME TypeOK, Running, NEW op, NEW on, NEW exc, Become(op, on, exc),
         op \notin {"any", "timeout"}
  PROVE  StackSame
<1>1. Len(stack) \in DOMAIN stack /\ DOMAIN stack = 1 .. Len(stack)
  BY TopIsActivity DEF TypeOK
<1> QED
  BY <1>1 DEF Become, StackSame, Polls, TypeOK

LEMMA ReceiveIsSame ==
  ASSUME TypeOK, Running, NEW v, Receive(v)
  PROVE  StackSame
<1>1. PICK op \in {"code", "await", "finish", "join", "gather"} :
        \E on, exc : Become(op, on, exc)
  BY DEF Receive, AwaitReceives
<1>2. PICK on, exc : Become(op, on, exc)
  BY <1>1
<1> QED
  BY <1>1, <1>2, BecomeIsSame

\* A step that at most takes ready results out of the table.
LEMMA QuietStep ==
  ASSUME InOrder, TypeOK', StackSame, UNCHANGED <<body, next>>,
         \A i \in Tasks : st'[i] = st[i] \/ (st[i] = "ready" /\ st'[i] = "absent"),
         queue' = queue \/ (QueuedAt = {} /\ queue' = << >>)
  PROVE  InOrder'
<1> USE DEF InOrder
<1>0. queue' = queue
  <2>1. CASE QueuedAt = {}
    <3>1. ASSUME NEW k \in DOMAIN queue PROVE FALSE
      BY <2>1, <3>1, TypeFacts DEF QueuedAt, QueueIsExact
    <3> QED
      BY <3>1, TypeFacts
  <2> QED
    BY <2>1
<1>1. QueueIsExact'
  BY <1>0 DEF QueueIsExact, TypeOK
<1>2. RunningIsOnStack'
  <2>1. \A j, k \in DOMAIN stack' : stack'[j].task = stack'[k].task => j = k
    BY DEF RunningIsOnStack, StackSame
  <2>2. ASSUME NEW i \in Tasks
        PROVE  st'[i] = "running" <=> \E k \in DOMAIN stack' : stack'[k].task = i
    <3>1. st'[i] = "running" <=> st[i] = "running"
      OBVIOUS
    <3> QED
      BY <3>1 DEF RunningIsOnStack, StackSame
  <2> QED
    BY <2>1, <2>2 DEF RunningIsOnStack
<1>3. CreatorIsBelow'
  BY DEF CreatorIsBelow, StackSame
<1>4. PolledTasksAreStarted'
  BY DEF PolledTasksAreStarted, StackSame, Polls
<1>5. HistoryIsOrdered'
  BY DEF HistoryIsOrdered, StackSame, Polls
<1> QED
  BY <1>1, <1>2, <1>3, <1>4, <1>5

\* Entering new tasks in the table and at the end of the queue.
LEMMA NewTasks ==
  ASSUME InOrder, TypeOK', StackSame, Running, NEW n \in Nat, n > 0, NEW kind,
         NEW args \in Seq(Handles), QueueTasks(n, kind, args),
         \A m \in DOMAIN args : args[m] \in Tasks => args[m] < next
  PROVE  InOrder'
<1> USE DEF InOrder
<1> DEFINE new == next .. next + n - 1
<1>0. /\ next \in 1 .. MaxTasks + 1 /\ next' = next + n
      /\ new \subseteq Tasks /\ \A i \in new : i >= next
      /\ FreshIds(n) = [k \in 1 .. n |-> next + k - 1]
  BY DEF QueueTasks, TypeOK, Tasks, FreshIds
<1>a. {FreshIds(n)[k] : k \in 1 .. n} = new
  <2>1. ASSUME NEW i \in new PROVE i \in {FreshIds(n)[k] : k \in 1 .. n}
    <3> DEFINE k == i - next + 1
    <3>1. k \in 1 .. n /\ next + k - 1 = i
      BY <1>0, <2>1
    <3> QED
      BY <1>0, <3>1
  <2>2. ASSUME NEW k \in 1 .. n PROVE FreshIds(n)[k] \in new
    <3>1. FreshIds(n)[k] = next + k - 1 /\ next + k - 1 \in next .. next + n - 1
      BY <1>0, <2>2
    <3> QED
      BY <3>1
  <2> QED
    BY <2>1, <2>2
<1>b. /\ st' = [i \in Tasks |-> IF i \in new THEN "queued" ELSE st[i]]
      /\ body' = [i \in Tasks |-> IF i \in new
                    THEN [kind |-> kind, args |-> args, by |-> Top.task] ELSE body[i]]
      /\ queue' = queue \o FreshIds(n)
  BY <1>a DEF QueueTasks, PushBack
<1>c. Top.task \in Tasks => st[Top.task] = "running" /\ Top.task < next
  <2>1. Len(stack) \in DOMAIN stack
    BY TopIsActivity DEF TypeOK
  <2> QED
    <3>1. Top.task \in Tasks => st[Top.task] = "running"
      BY <2>1 DEF Top, RunningIsOnStack
    <3>2. ASSUME Top.task \in Tasks PROVE Top.task < next
      <4>1. ~(Top.task >= next)
        BY <3>1, <3>2 DEF HistoryIsOrdered
      <4> QED
        BY <1>0, <3>2, <4>1 DEF Tasks
    <3> QED
      BY <3>1, <3>2
<1>d. \A i \in new : st[i] = "absent"
  BY <1>0 DEF HistoryIsOrdered
<1> HIDE DEF new
<1>n. \A i \in Int : i \in new <=> next <= i /\ i < next + n
  BY <1>0 DEF new
<1>q. /\ queue \in Seq(Tasks) /\ DOMAIN queue = 1 .. Len(queue) /\ Len(queue) \in Nat
      /\ next \in Nat /\ next >= 1 /\ next' = next + n
      /\ Tasks \subseteq Int
  BY <1>0 DEF TypeOK, Tasks
<1>1. QueueIsExact'
  <2> DEFINE q == queue \o FreshIds(n)
             L == Len(queue)
  <2>1. /\ DOMAIN q = 1 .. L + n
        /\ \A k \in 1 .. L : q[k] = queue[k]
        /\ \A k \in L + 1 .. L + n : q[k] = next + (k - L) - 1
    BY <1>0, <1>q
  <2>2. \A k \in 1 .. L : queue[k] < next /\ queue[k] \in Int
    BY <1>q, TypeFacts DEF QueueIsExact
  <2>2a. \A j, k \in 1 .. L : j < k => queue[j] < queue[k]
    BY <1>q DEF QueueIsExact
  <2>l. L \in Nat
    BY <1>q
  <2> HIDE DEF q, L
  <2>3. ASSUME NEW j \in DOMAIN q, NEW k \in DOMAIN q, j < k
        PROVE  q[j] < q[k]
    <3>1. j \in 1 .. L \/ j \in L + 1 .. L + n
      BY <2>1, <2>l
    <3>2. k \in 1 .. L \/ k \in L + 1 .. L + n
      BY <2>1, <2>l
    <3>3. CASE j \in 1 .. L /\ k \in 1 .. L
      BY <2>1, <2>2a, <2>3, <3>3
    <3>4. CASE j \in 1 .. L /\ k \in L + 1 .. L + n
      BY <1>q, <2>1, <2>2, <2>l, <3>4
    <3>5. CASE j \in L + 1 .. L + n /\ k \in L + 1 .. L + n
      BY <1>q, <2>1, <2>3, <2>l, <3>5
    <3> QED
      BY <2>3, <2>l, <3>1, <3>2, <3>3, <3>4, <3>5
  <2>4. ASSUME NEW k \in DOMAIN q PROVE q[k] < next + n
    <3>1. k \in 1 .. L \/ k \in L + 1 .. L + n
      BY <2>1, <2>l
    <3> QED
      BY <1>q, <2>1, <2>2, <2>l, <3>1
  <2>5. ASSUME NEW i \in Tasks
        PROVE  st'[i] = "queued" <=> \E k \in DOMAIN q : q[k] = i
    <3>i. i \in Int
      BY <1>q
    <3>1. CASE i \in new
      <4>0. next <= i /\ i < next + n
        BY <1>n, <3>i, <3>1
      <4> DEFINE k == L + (i - next + 1)
      <4>1. k \in L + 1 .. L + n /\ next + (k - L) - 1 = i /\ k \in 1 .. L + n
        BY <1>q, <2>l, <3>i, <4>0
      <4> HIDE DEF k
      <4>2. k \in DOMAIN q /\ q[k] = i
        BY <2>1, <4>1
      <4> QED
        BY <1>b, <3>1, <4>2
    <3>2. CASE i \notin new
      <4>0. ~(next <= i /\ i < next + n)
        BY <1>n, <3>i, <3>2
      <4>1. ASSUME NEW k \in DOMAIN q, q[k] = i PROVE k \in 1 .. L /\ queue[k] = i
        <5>1. CASE k \in 1 .. L
          BY <2>1, <4>1, <5>1
        <5>2. CASE k \in L + 1 .. L + n
          <6>1. q[k] = next + (k - L) - 1
            BY <2>1, <5>2
          <6> QED
            BY <1>q, <2>l, <4>0, <4>1, <5>2, <6>1
        <5> QED
          BY <2>1, <2>l, <5>1, <5>2
      <4>2. \A k \in 1 .. L : k \in DOMAIN q /\ q[k] = queue[k]
        BY <2>1, <2>l
      <4>3. st'[i] = st[i]
        BY <1>b, <3>2
      <4>4. st[i] = "queued" <=> \E k \in 1 .. L : queue[k] = i
        BY <1>q DEF QueueIsExact, L
      <4> QED
        BY <4>1, <4>2, <4>3, <4>4
    <3> QED
      BY <3>1, <3>2
  <2>6. queue' = q /\ next' = next + n
    BY <1>b, <1>q DEF q
  <2> QED
    BY <2>3, <2>4, <2>5, <2>6 DEF QueueIsExact
<1>2. RunningIsOnStack'
  <2>1. \A j, k \in DOMAIN stack' : stack'[j].task = stack'[k].task => j = k
    BY DEF RunningIsOnStack, StackSame
  <2>2. ASSUME NEW i \in Tasks
        PROVE  st'[i] = "running" <=> \E k \in DOMAIN stack' : stack'[k].task = i
    <3>1. st'[i] = "running" <=> st[i] = "running"
      BY <1>b, <1>d
    <3> QED
      BY <3>1 DEF RunningIsOnStack, StackSame
  <2> QED
    BY <2>1, <2>2 DEF RunningIsOnStack
<1>e. \A k \in DOMAIN stack : stack[k].task \in Tasks => stack[k].task \notin new
  BY <1>d DEF RunningIsOnStack
<1>3. CreatorIsBelow'
  <2>1. ASSUME NEW k \in DOMAIN stack, stack[k].task # Main
        PROVE  body'[stack[k].task] = body[stack[k].task]
    <3>1. stack[k].task \in Tasks
      BY <2>1, TypeFacts
    <3> QED
      BY <1>b, <1>e, <3>1
  <2> QED
    BY <2>1 DEF CreatorIsBelow, StackSame
<1>4. PolledTasksAreStarted'
  <2>1. ASSUME NEW k \in DOMAIN stack, Polls(k), NEW m \in DOMAIN stack[k].on,
               stack[k].on[m] \in Tasks
        PROVE  st'[stack[k].on[m]] # "queued"
    <3>1. stack[k].on[m] < next /\ st[stack[k].on[m]] # "queued"
      BY <2>1 DEF HistoryIsOrdered, PolledTasksAreStarted, Polls
    <3> QED
      BY <1>0, <1>b, <2>1, <3>1 DEF Tasks
  <2> QED
    BY <2>1 DEF PolledTasksAreStarted, StackSame, Polls
<1>5. HistoryIsOrdered'
  <2>1. \A i \in Tasks : i >= next' => st'[i] = "absent"
    BY <1>0, <1>b DEF HistoryIsOrdered, new, Tasks
  <2>2. ASSUME NEW i \in Tasks, i < next'
        PROVE  /\ body'[i].by < i
               /\ body'[i].by \in Tasks => st'[body'[i].by] # "queued"
               /\ \A m \in DOMAIN body'[i].args :
                     body'[i].args[m] \in Tasks => body'[i].args[m] < i
    <3>1. CASE i \in new
      <4>1. body'[i].by = Top.task /\ body'[i].args = args /\ i >= next
        BY <1>0, <1>b, <3>1
      <4>2. Top.task \in Tasks \cup {Main} /\ Top.task < next
        BY <1>0, <1>c, TopIsActivity DEF Main
      <4>3. Top.task \in Tasks => st'[Top.task] # "queued"
        BY <1>0, <1>b, <1>c, <1>d
      <4> QED
        BY <1>0, <4>1, <4>2, <4>3 DEF Main, Tasks
    <3>2. CASE i \notin new
      <4>1. i < next /\ body'[i] = body[i]
        BY <1>0, <1>b, <2>2, <3>2 DEF new, Tasks
      <4>2. body[i].by \in Tasks => body[i].by \notin new
        BY <1>0, <4>1 DEF HistoryIsOrdered, Tasks
      <4> QED
        BY <1>b, <4>1, <4>2 DEF HistoryIsOrdered
    <3> QED
      BY <3>1, <3>2
  <2>3. \A k \in DOMAIN stack' : Polls(k)' =>
          \A m \in DOMAIN stack'[k].on : stack'[k].on[m] \in Tasks => stack'[k].on[m] < next'
    <3>1. \A k \in DOMAIN stack : Polls(k) =>
            \A m \in DOMAIN stack[k].on : stack[k].on[m] \in Tasks => stack[k].on[m] < next
      BY DEF HistoryIsOrdered, Polls
    <3> QED
      BY <1>0, <3>1 DEF StackSame, Tasks
  <2> QED
    BY <2>1, <2>2, <2>3 DEF HistoryIsOrdered, Polls
<1> QED
  BY <1>1, <1>2, <1>3, <1>4, <1>5

\* Starting the oldest queued task on top of the stack.
LEMMA RunNextStep ==
  ASSUME InOrder, TypeOK', RunNext
  PROVE  InOrder'
<1> USE DEF InOrder
<1> PICK k \in QueuedAt :
      /\ IsFirst(k)
      /\ queue' = SubSeq(queue, k + 1, Len(queue))
      /\ st' = [st EXCEPT ![queue[k]] = "running"]
      /\ stack' = Append(stack, Opening(queue[k]))
      /\ UNCHANGED <<body, result, next, timer, answer>>
  BY DEF RunNext
<1> DEFINE i == queue[k]
           n == Len(stack) + 1
<1>1. /\ k = 1 /\ k \in DOMAIN queue /\ i \in Tasks /\ st[i] = "queued" /\ i < next
      /\ \A j \in DOMAIN queue : st[queue[j]] = "queued"
  <2>1. \A j \in DOMAIN queue : queue[j] \in Tasks /\ st[queue[j]] = "queued"
    BY TypeFacts DEF QueueIsExact
  <2>2. 1 \in QueuedAt /\ k \in DOMAIN queue
    BY <2>1, TypeFacts DEF QueuedAt
  <2>3. k = 1
    BY <2>2, TypeFacts DEF IsFirst
  <2> QED
    BY <2>1, <2>2, <2>3 DEF QueueIsExact
<1>2. \A j \in Tasks : st[j] = "queued" => i <= j
  <2>1. ASSUME NEW j \in Tasks, st[j] = "queued" PROVE i <= j
    <3>1. PICK m \in DOMAIN queue : queue[m] = j
      BY <2>1 DEF QueueIsExact
    <3>2. m = 1 \/ 1 < m
      BY TypeFacts
    <3> QED
      BY <1>1, <3>1, <3>2 DEF QueueIsExact, Tasks
  <2> QED
    BY <2>1
<1>3. /\ st' = [st EXCEPT ![i] = "running"] /\ st \in [Tasks -> {"absent", "queued", "running", "ready"}]
      /\ next' = next /\ body' = body
  BY DEF TypeOK
<1>4. /\ DOMAIN stack' = 1 .. n /\ stack'[n] = Opening(i)
      /\ \A m \in DOMAIN stack : stack'[m] = stack[m]
      /\ DOMAIN stack = 1 .. n - 1 /\ n \in Nat /\ n >= 1
  BY TypeFacts
<1>5. Opening(i).task = i
  BY DEF Opening, Activity
<1>6. \A m \in DOMAIN stack : stack[m].task # i
  BY <1>1 DEF RunningIsOnStack
<1>7. /\ DOMAIN queue' = 1 .. Len(queue) - 1
      /\ \A m \in DOMAIN queue' : m + 1 \in DOMAIN queue /\ queue'[m] = queue[m + 1]
      /\ \A m \in DOMAIN queue : m # 1 => m - 1 \in DOMAIN queue' /\ queue'[m - 1] = queue[m]
  BY <1>1, TypeFacts, SMTT(30)
<1>i. i = queue[1] /\ 1 \in DOMAIN queue
  BY <1>1
<1> HIDE DEF i, n
<1>s. ASSUME NEW m \in DOMAIN queue'
      PROVE  m + 1 \in DOMAIN queue /\ queue'[m] = queue[m + 1] /\ i < queue'[m]
             /\ queue'[m] \in Tasks /\ m \in Int
  <2>0. m \in Int /\ 1 < m + 1
    BY <1>7, <1>s, TypeFacts
  <2>1. m + 1 \in DOMAIN queue /\ queue'[m] = queue[m + 1] /\ 1 < m + 1 /\ m \in Int
    BY <1>7, <1>s, <2>0
  <2>2. queue[1] < queue[m + 1] /\ queue[m + 1] \in Tasks
    BY <1>i, <2>1, TypeFacts DEF QueueIsExact
  <2> QED
    BY <1>i, <2>1, <2>2
<1>8. QueueIsExact'
  <2>1. ASSUME NEW j \in Tasks
        PROVE  st'[j] = "queued" <=> \E m \in DOMAIN queue' : queue'[m] = j
    <3>1. CASE j = i
      <4>1. \A m \in DOMAIN queue' : queue'[m] # i
        BY <1>1, <1>s DEF Tasks
      <4> QED
        BY <1>3, <3>1, <4>1
    <3>2. CASE j # i
      <4>1. st'[j] = st[j]
        BY <1>3, <3>2
      <4>2. (\E m \in DOMAIN queue : queue[m] = j) => \E m \in DOMAIN queue' : queue'[m] = j
        <5>1. ASSUME NEW m \in DOMAIN queue, queue[m] = j
              PROVE  m - 1 \in DOMAIN queue' /\ queue'[m - 1] = j
          BY <1>i, <1>7, <3>2, <5>1
        <5> QED
          BY <5>1
      <4>3. (\E m \in DOMAIN queue' : queue'[m] = j) => \E m \in DOMAIN queue : queue[m] = j
        BY <1>s
      <4> QED
        BY <4>1, <4>2, <4>3 DEF QueueIsExact
    <3> QED
      BY <3>1, <3>2
  <2>2. ASSUME NEW m \in DOMAIN queue', NEW l \in DOMAIN queue', m < l
        PROVE  queue'[m] < queue'[l]
    <3>1. /\ m + 1 \in DOMAIN queue /\ l + 1 \in DOMAIN queue /\ m + 1 < l + 1
          /\ queue'[m] = queue[m + 1] /\ queue'[l] = queue[l + 1]
      <4>1. m \in Int /\ m + 1 \in DOMAIN queue /\ queue'[m] = queue[m + 1]
        BY <1>s
      <4>2. l \in Int /\ l + 1 \in DOMAIN queue /\ queue'[l] = queue[l + 1]
        BY <1>s
      <4>3. m < l => m + 1 < l + 1
        <5>1. m \in Int /\ l \in Int
          BY <4>1, <4>2
        <5> QED
          BY <5>1
      <4> QED
        BY <2>2, <4>1, <4>2, <4>3
    <3> QED
      BY <3>1 DEF QueueIsExact
  <2>3. ASSUME NEW m \in DOMAIN queue' PROVE queue'[m] < next'
    <3>1. m + 1 \in DOMAIN queue /\ queue'[m] = queue[m + 1]
      BY <1>s
    <3>2. queue[m + 1] < next
      BY <3>1 DEF QueueIsExact
    <3> QED
      BY <1>3, <3>1, <3>2
  <2> QED
    BY <2>1, <2>2, <2>3 DEF QueueIsExact
<1>9. RunningIsOnStack'
  <2>1. ASSUME NEW l \in 1 .. n, NEW m \in 1 .. n, stack'[l].task = stack'[m].task
        PROVE  l = m
    BY <1>4, <1>5, <1>6, <2>1 DEF RunningIsOnStack
  <2>2. ASSUME NEW j \in Tasks
        PROVE  st'[j] = "running" <=> \E m \in 1 .. n : stack'[m].task = j
    <3>1. CASE j = i
      BY <1>3, <1>4, <1>5, <3>1
    <3>2. CASE j # i
      <4>1. st'[j] = "running" <=> \E m \in DOMAIN stack : stack[m].task = j
        BY <1>3, <3>2 DEF RunningIsOnStack
      <4>2. stack'[n].task # j
        BY <1>4, <1>5, <3>2
      <4>3. \A m \in 1 .. n : m = n \/ m \in DOMAIN stack
        BY <1>4
      <4> QED
        BY <1>4, <4>1, <4>2, <4>3
    <3> QED
      BY <3>1, <3>2
  <2> QED
    BY <1>4, <2>1, <2>2 DEF RunningIsOnStack
<1>10. CreatorIsBelow'
  <2>0. i # Main
    BY <1>1 DEF Tasks, Main
  <2>1. ASSUME NEW l \in 1 .. n, NEW m \in 1 .. n, stack'[m].task # Main,
               body[stack'[m].task].by = stack'[l].task
        PROVE  l < m
    <3>1. CASE l = n
      <4>1. stack'[m].task \in Tasks /\ stack'[m].task < next /\ body[stack'[m].task].by = i
        <5>1. CASE m = n
          BY <1>1, <1>4, <1>5, <2>1, <3>1, <5>1
        <5>2. CASE m # n
          <6>1. stack'[m].task = stack[m].task /\ m \in DOMAIN stack
            BY <1>4, <5>2
          <6>2. stack[m].task \in Tasks /\ st[stack[m].task] = "running"
            BY <2>1, <6>1, TypeFacts DEF RunningIsOnStack
          <6>3. ~(stack[m].task >= next)
            BY <6>2 DEF HistoryIsOrdered
          <6>4. next \in Int /\ stack[m].task \in Int
            <7>1. next \in Int
              BY DEF TypeOK
            <7> QED
              BY <6>2, <7>1 DEF Tasks
          <6> QED
            BY <1>4, <1>5, <2>1, <3>1, <6>1, <6>2, <6>3, <6>4
        <5> QED
          BY <5>1, <5>2
      <4>2. st[i] # "queued"
        BY <1>1, <4>1 DEF HistoryIsOrdered
      <4> QED
        BY <1>1, <4>2
    <3>2. CASE l # n /\ m = n
      BY <1>4, <3>2
    <3>3. CASE l # n /\ m # n
      <4>1. l \in DOMAIN stack /\ m \in DOMAIN stack
        BY <1>4, <3>3
      <4>2. stack'[l] = stack[l] /\ stack'[m] = stack[m]
        BY <1>4, <4>1
      <4> QED
        BY <2>1, <4>1, <4>2 DEF CreatorIsBelow
    <3> QED
      BY <3>1, <3>2, <3>3
  <2> QED
    BY <1>3, <1>4, <2>1 DEF CreatorIsBelow
<1>11. /\ PolledTasksAreStarted'
       /\ \A m \in DOMAIN stack' : Polls(m)' =>
            \A l \in DOMAIN stack'[m].on : stack'[m].on[l] \in Tasks => stack'[m].on[l] < next
  <2>1. ASSUME NEW m \in 1 .. n, Polls(m)', NEW l \in DOMAIN stack'[m].on,
               stack'[m].on[l] \in Tasks
        PROVE  st'[stack'[m].on[l]] # "queued" /\ stack'[m].on[l] < next
    <3>1. CASE m = n
      <4>1. stack'[m].on = body[i].args
        BY <1>4, <2>1, <3>1 DEF Polls, Opening, Activity
      <4>2. stack'[m].on[l] < i
        BY <1>1, <2>1, <4>1 DEF HistoryIsOrdered
      <4> QED
        <5> DEFINE x == stack'[m].on[l]
        <5>1. x \in Int /\ i \in Int /\ next \in Int /\ x \in Tasks
          <6>1. Tasks \subseteq Int /\ next \in Int
            BY DEF Tasks, TypeOK
          <6> QED
            BY <1>1, <2>1, <6>1
        <5>2. x < i /\ i < next
          BY <1>1, <4>2
        <5> HIDE DEF x
        <5>3. x # i /\ ~(i <= x) /\ x < next
          BY <5>1, <5>2
        <5>4. st'[x] # "queued"
          BY <1>2, <1>3, <5>1, <5>3
        <5> QED
          BY <5>3, <5>4 DEF x
    <3>2. CASE m # n
      <4>1. m \in DOMAIN stack /\ stack'[m] = stack[m] /\ Polls(m)
        BY <1>4, <2>1, <3>2 DEF Polls
      <4>2. st[stack[m].on[l]] # "queued" /\ stack[m].on[l] < next
        BY <2>1, <4>1 DEF PolledTasksAreStarted, HistoryIsOrdered, Polls
      <4> QED
        BY <1>3, <2>1, <4>1, <4>2
    <3> QED
      BY <3>1, <3>2
  <2> QED
    BY <1>4, <2>1 DEF PolledTasksAreStarted, Polls
<1>12. HistoryIsOrdered'
  <2>1. \A j \in Tasks : j >= next => st'[j] = "absent"
    BY <1>1, <1>3 DEF HistoryIsOrdered, Tasks, TypeOK
  <2>2. \A j \in Tasks : j < next =>
          /\ body[j].by < j
          /\ body[j].by \in Tasks => st'[body[j].by] # "queued"
          /\ \A m \in DOMAIN body[j].args : body[j].args[m] \in Tasks => body[j].args[m] < j
    BY <1>3 DEF HistoryIsOrdered
  <2> QED
    BY <1>3, <1>11, <2>1, <2>2 DEF HistoryIsOrdered, Polls
<1> QED
  BY <1>8, <1>9, <1>10, <1>11, <1>12

\* The activity on top leaves the stack.
LEMMA FinishStep ==
  ASSUME InOrder, TypeOK', Finish
  PROVE  InOrder'
<1> USE DEF InOrder
<1> DEFINE n == Len(stack)
<1>1. /\ Running /\ n \in Nat /\ n >= 1 /\ DOMAIN stack = 1 .. n
      /\ DOMAIN stack' = 1 .. n - 1 /\ \A m \in 1 .. n - 1 : stack'[m] = stack[m]
      /\ Top = stack[n] /\ Top.task \in Tasks \cup {Main}
      /\ UNCHANGED <<body, queue, next>>
  BY TopIsActivity, TypeFacts DEF Finish, Top
<1>2. \A i \in Tasks : st'[i] = IF i = Top.task THEN "ready" ELSE st[i]
  <2>1. Main \notin Tasks
    BY DEF Main, Tasks
  <2> QED
    BY <1>1, <2>1 DEF Finish, TypeOK
<1>3. Top.task \in Tasks => st[Top.task] = "running"
  BY <1>1 DEF RunningIsOnStack
<1> HIDE DEF n
<1>4. QueueIsExact'
  BY <1>1, <1>2, <1>3 DEF QueueIsExact
<1>5. RunningIsOnStack'
  <2>1. ASSUME NEW i \in Tasks
        PROVE  st'[i] = "running" <=> \E m \in 1 .. n - 1 : stack'[m].task = i
    <3>1. CASE i = Top.task
      BY <1>1, <1>2, <3>1 DEF RunningIsOnStack
    <3>2. CASE i # Top.task
      BY <1>1, <1>2, <3>2 DEF RunningIsOnStack
    <3> QED
      BY <3>1, <3>2
  <2>2. \A l, m \in 1 .. n - 1 : stack'[l].task = stack'[m].task => l = m
    BY <1>1 DEF RunningIsOnStack
  <2> QED
    BY <1>1, <2>1, <2>2 DEF RunningIsOnStack
<1>6. CreatorIsBelow'
  BY <1>1 DEF CreatorIsBelow
<1>7. PolledTasksAreStarted'
  BY <1>1, <1>2 DEF PolledTasksAreStarted
<1>8. HistoryIsOrdered'
  BY <1>1, <1>2, <1>3 DEF HistoryIsOrdered
<1> QED
  BY <1>4, <1>5, <1>6, <1>7, <1>8

-----------------------------------------------------------------------------
(* The invariant holds, step by step. *)

LEMMA QueueTasksStep ==
  ASSUME InOrder, TypeOK', Spawn \/ Combine \/ Block
  PROVE  InOrder'
<1>0. TypeOK /\ << >> \in Seq(Handles) /\ 1 \in Nat /\ 1 > 0 /\ DOMAIN << >> = {}
  BY DEF InOrder
<1>s. UNCHANGED stack => StackSame
  BY DEF StackSame, Polls
<1>v. \A h \in Visible : h \in Tasks => h < next
  BY DEF Visible, Timers, Tasks
<1>1. CASE Spawn
  <2>1. Running /\ StackSame /\ QueueTasks(1, "spawn", << >>)
    BY <1>1, <1>s DEF Spawn, InCode
  <2> QED
    BY <1>0, <2>1, NewTasks
<1>2. CASE Combine
  <2>0. Running /\ StackSame
    BY <1>2, <1>s DEF Combine, InCode
  <2>1. CASE QueueTasks(1, "ready", << >>)
    BY <1>0, <2>0, <2>1, NewTasks
  <2>2. ASSUME NEW kind, NEW hs \in Lists(Visible), QueueTasks(1, kind, hs)
        PROVE  InOrder'
    <3>1. hs \in Seq(Handles)
      BY <1>0, VisibleLists
    <3>2. \A m \in DOMAIN hs : hs[m] \in Tasks => hs[m] < next
      BY <1>v DEF Lists
    <3> QED
      BY <1>0, <2>0, <2>2, <3>1, <3>2, NewTasks
  <2>3. ASSUME NEW h \in Visible, QueueTasks(1, "timeout", <<h>>)
        PROVE  InOrder'
    <3>1. <<h>> \in Seq(Handles)
      BY DEF Visible, Handles
    <3>2. \A m \in DOMAIN <<h>> : <<h>>[m] \in Tasks => <<h>>[m] < next
      BY <1>v
    <3> QED
      BY <1>0, <2>0, <2>3, <3>1, <3>2, NewTasks
  <2> QED
    BY <1>2, <2>1, <2>2, <2>3 DEF Combine
<1>3. CASE Block
  <2>1. PICK n \in 1 .. MaxList :
          QueueTasks(n, "block", << >>) /\ Become("join", FreshIds(n), "ok")
    BY <1>3 DEF Block
  <2>2. Running /\ n \in Nat /\ n > 0
    BY <1>3 DEF Block, InCode
  <2>3. StackSame
    BY <1>0, <2>1, <2>2, BecomeIsSame
  <2> QED
    BY <1>0, <2>1, <2>2, <2>3, NewTasks
<1> QED
  BY <1>1, <1>2, <1>3

LEMMA QuietProgramStep ==
  ASSUME InOrder, TypeOK',
         Sleep \/ Await \/ CodeEnds \/ TimerFires \/ Idle \/ AllResolved \/ TimeoutExpires
           \/ UNCHANGED vars
  PROVE  InOrder'
<1>0. TypeOK
  BY DEF InOrder
<1>1. StackSame
  <2>1. CASE UNCHANGED stack
    BY <2>1 DEF StackSame, Polls
  <2>2. ASSUME NEW op \in {"code", "await", "finish"}, NEW on, NEW exc, Running,
               Become(op, on, exc)
        PROVE  StackSame
    BY <1>0, <2>2, BecomeIsSame
  <2> QED
    BY <2>1, <2>2 DEF Sleep, Await, CodeEnds, TimerFires, Idle, AllResolved,
                      TimeoutExpires, InCode, vars
<1>2. /\ UNCHANGED <<st, body, next>>
      /\ queue' = queue \/ (QueuedAt = {} /\ queue' = << >>)
  BY DEF Sleep, Await, CodeEnds, TimerFires, Idle, AllResolved, TimeoutExpires, vars
<1> QED
  BY <1>1, <1>2, QuietStep

\* Taking an answer that is there, and going on with it.
LEMMA AnswerStep ==
  ASSUME InOrder, TypeOK', Running, NEW h \in Handles, Available(h),
         Take(h), Receive(ValueOf(h))
  PROVE  InOrder'
<1>0. TypeOK
  BY DEF InOrder
<1>1. StackSame
  BY <1>0, ReceiveIsSame
<1>2. \A i \in Tasks : st'[i] = st[i] \/ (st[i] = "ready" /\ st'[i] = "absent")
  BY <1>0 DEF Take, Removed, Available, TypeOK
<1>3. UNCHANGED <<body, queue, next>>
  BY DEF Take
<1> QED
  BY <1>1, <1>2, <1>3, QuietStep

LEMMA SchedulingStep ==
  ASSUME InOrder, TypeOK', Scheduling
  PROVE  InOrder'
<1>0. TypeOK
  BY DEF InOrder
<1>1. CASE Finish
  BY <1>1, FinishStep
<1>2. CASE Resolve
  <2>1. Running /\ Head(Top.on) \in Handles
    BY <1>0, <1>2, TopIsActivity DEF Resolve, Resolving
  <2> QED
    BY <1>2, <2>1, AnswerStep, RunNextStep DEF Resolve
<1>3. CASE GiveUp
  <2>1. StackSame
    BY <1>0, <1>3, ReceiveIsSame DEF GiveUp, Resolving
  <2> QED
    BY <1>3, <2>1, QuietStep DEF GiveUp, NothingToRun
<1>4. CASE AllResolved \/ TimeoutExpires
  BY <1>4, QuietProgramStep
<1>5. CASE Poll
  <2>1. ASSUME NEW k \in DOMAIN Top.on, Available(Top.on[k]), Take(Top.on[k]),
               Receive(ValueOf(Top.on[k]))
        PROVE  InOrder'
    <3>1. Running /\ Top.on[k] \in Handles
      BY <1>0, <1>5, TopIsActivity DEF Poll, Polling
    <3> QED
      BY <2>1, <3>1, AnswerStep
  <2>2. CASE RunNext
    BY <2>2, RunNextStep
  <2>3. CASE /\ Become("finish", << >>, "ok")
             /\ UNCHANGED <<st, body, result, queue, next, timer, answer>>
    <3>1. StackSame
      BY <1>0, <1>5, <2>3, BecomeIsSame DEF Poll, Polling
    <3> QED
      BY <2>3, <3>1, QuietStep
  <2> QED
    BY <1>5, <2>1, <2>2, <2>3 DEF Poll
<1> QED
  BY <1>1, <1>2, <1>3, <1>4, <1>5 DEF Scheduling

\* The strengthened invariant holds in every reachable state of the scheduler.
THEOREM OrderIsKept == Spec => []InOrder
<1>1. Init => InOrder
  BY DEF Init, InOrder, TypeOK, Activity, Activities, AllKinds, Ops, Results, QueueIsExact,
         RunningIsOnStack, CreatorIsBelow, PolledTasksAreStarted, HistoryIsOrdered,
         Tasks, Main
<1>2. InOrder /\ TypeOK' /\ [Next]_vars => InOrder'
  BY QueueTasksStep, QuietProgramStep, SchedulingStep DEF Next, Terminated
<1>3. Spec => []TypeOK
  BY TypeCorrect
<1> QED
  BY <1>1, <1>2, <1>3, PTL DEF Spec

\* No task is lost from the ready queue, or queued twice.
THEOREM QueueAlwaysExact == Spec => []QueueIsExact
BY OrderIsKept, PTL DEF InOrder

\* Tasks leave the queue in the order in which they were created.
THEOREM HistoryAlwaysOrdered == Spec => []HistoryIsOrdered
BY OrderIsKept, PTL DEF InOrder

\* No combinator that polls waits for a task that was never started.
THEOREM PolledAlwaysStarted == Spec => []PolledTasksAreStarted
BY OrderIsKept, PTL DEF InOrder

\* Running tasks are the activities on the stack, above their creators.
THEOREM StackAlwaysOrdered == Spec => [](RunningIsOnStack /\ CreatorIsBelow)
BY OrderIsKept, PTL DEF InOrder

-----------------------------------------------------------------------------
(* What a step may never do. *)

\* Only RunNext starts a task.
LEMMA StartStep ==
  ASSUME InOrder, [Next]_vars, NEW i \in Tasks, st[i] = "queued", st'[i] = "running"
  PROVE  RunNext
<1>0. TypeOK
  BY DEF InOrder
<1>1. CASE Spawn \/ Combine \/ Block
  <2>1. st' = [j \in Tasks |-> IF j \in {FreshIds(1)[k] : k \in 1 .. 1} THEN "queued" ELSE st[j]]
        \/ \E n \in 1 .. MaxList : st' = [j \in Tasks |->
              IF j \in {FreshIds(n)[k] : k \in 1 .. n} THEN "queued" ELSE st[j]]
    BY <1>1 DEF Spawn, Combine, Block, QueueTasks
  <2> QED
    BY <2>1
<1>2. CASE Sleep \/ Await \/ CodeEnds \/ TimerFires \/ Idle \/ Terminated \/ UNCHANGED vars
  BY <1>2 DEF Sleep, Await, CodeEnds, TimerFires, Idle, Terminated, vars
<1>3. CASE Scheduling
  <2>1. ASSUME NEW h, Take(h) PROVE FALSE
    BY <1>0, <2>1 DEF Take, Removed, TypeOK
  <2>2. CASE Finish
    BY <1>0, <2>2 DEF Finish, TypeOK
  <2>3. CASE GiveUp \/ AllResolved \/ TimeoutExpires
    BY <2>3 DEF GiveUp, AllResolved, TimeoutExpires
  <2> QED
    BY <1>3, <2>1, <2>2, <2>3 DEF Scheduling, Resolve, Poll
<1> QED
  BY <1>1, <1>2, <1>3 DEF Next

\* Tasks are started in the order they were created, however awaits nest.
THEOREM FifoStart == Spec => StartsInOrder
<1>1. InOrder /\ [Next]_vars =>
        [\A i \in Tasks : st[i] = "queued" /\ st'[i] = "running" =>
           \A j \in Tasks : j < i => st[j] # "queued"]_vars
  <2> SUFFICES ASSUME InOrder, [Next]_vars, NEW i \in Tasks, st[i] = "queued",
                      st'[i] = "running", NEW j \in Tasks, j < i, st[j] = "queued"
               PROVE  FALSE
    OBVIOUS
  <2>0. TypeOK /\ QueueIsExact
    BY DEF InOrder
  <2>1. RunNext
    BY StartStep
  <2>2. PICK k \in QueuedAt : IsFirst(k) /\ st' = [st EXCEPT ![queue[k]] = "running"]
    BY <2>1 DEF RunNext
  <2>3. k \in DOMAIN queue /\ i = queue[k]
    BY <2>0, <2>2 DEF QueuedAt, TypeOK
  <2>4. PICK m \in DOMAIN queue : queue[m] = j
    BY <2>0 DEF QueueIsExact
  <2>5. m \in QueuedAt
    BY <2>4 DEF QueuedAt
  <2>6. k <= m /\ k \in Int /\ m \in Int
    BY <2>0, <2>2, <2>3, <2>4, <2>5, TypeFacts DEF IsFirst
  <2>7. k = m \/ k < m
    BY <2>6
  <2>8. i = j \/ i < j
    BY <2>0, <2>3, <2>4, <2>7 DEF QueueIsExact
  <2> QED
    BY <2>8 DEF Tasks
<1> QED
  BY <1>1, OrderIsKept, PTL DEF Spec, StartsInOrder

\* Only GiveUp answers that a task is deadlocked.
LEMMA DeadlockStep ==
  ASSUME InOrder, [Next]_vars, NEW i \in Tasks,
         answer' # answer, answer' = [on |-> i, val |-> "deadlock"]
  PROVE  GiveUp /\ i = Head(Top.on)
<1>0. TypeOK
  BY DEF InOrder
<1>1. ASSUME NEW h \in Handles, Take(h) PROVE FALSE
  <2>1. ValueOf(h) \in Results \cup {"nothing"}
    BY <1>0, <1>1, TakeType
  <2> QED
    BY <1>1, <2>1 DEF Take, Results
<1>2. CASE Resolve
  <2>1. Head(Top.on) \in Handles
    BY <1>0, <1>2, TopIsActivity DEF Resolve, Resolving
  <2> QED
    BY <1>1, <1>2, <2>1 DEF Resolve, RunNext
<1>3. CASE Poll
  <2>1. \A k \in DOMAIN Top.on : Top.on[k] \in Handles
    BY <1>0, <1>3, TopIsActivity DEF Poll, Polling
  <2> QED
    BY <1>1, <1>3, <2>1 DEF Poll, RunNext
<1>4. CASE GiveUp
  BY <1>4 DEF GiveUp
<1> QED
  BY <1>2, <1>3, <1>4
  DEF Next, Scheduling, Spawn, Combine, Block, QueueTasks, Sleep, Await, CodeEnds,
      TimerFires, Idle, Terminated, Finish, AllResolved, TimeoutExpires, vars

\* Nothing is left to run and a task is unfinished: its creator is not the one on top.
LEMMA StuckTaskIsForeign ==
  ASSUME InOrder, Running, QueuedAt = {}, NEW i \in Tasks, ~Available(i)
  PROVE  body[i].by # Top.task
<1>0. TypeOK /\ QueueIsExact /\ RunningIsOnStack /\ CreatorIsBelow
  BY DEF InOrder
<1>1. st[i] = "running"
  BY <1>0 DEF Available, TypeOK, QueuedAt, QueueIsExact
<1>2. PICK k \in DOMAIN stack : stack[k].task = i
  BY <1>0, <1>1 DEF RunningIsOnStack
<1>3. /\ Len(stack) \in DOMAIN stack /\ Top = stack[Len(stack)]
      /\ k <= Len(stack) /\ k \in Int /\ Len(stack) \in Int /\ i # Main
  BY <1>0, TypeFacts, TopIsActivity DEF Top, Tasks, Main
<1>4. body[i].by = Top.task => Len(stack) < k
  BY <1>0, <1>2, <1>3 DEF CreatorIsBelow
<1> QED
  BY <1>3, <1>4

\* The deadlock panic never concerns a task of the activity that awaits it: a
\* concurrent block, and an await of one's own spawn, always wait.
THEOREM OwnTasksSafe == Spec => OwnTasksNeverDeadlock
<1>1. InOrder /\ [Next]_vars =>
        [\A i \in Tasks :
           answer' # answer /\ answer' = [on |-> i, val |-> "deadlock"] =>
             body[i].by # Top.task]_vars
  <2> SUFFICES ASSUME InOrder, [Next]_vars, NEW i \in Tasks, answer' # answer,
                      answer' = [on |-> i, val |-> "deadlock"], body[i].by = Top.task
               PROVE  FALSE
    OBVIOUS
  <2>1. GiveUp /\ i = Head(Top.on)
    BY DeadlockStep
  <2>2. Running /\ QueuedAt = {} /\ ~Available(i)
    BY <2>1 DEF GiveUp, Resolving, NothingToRun
  <2> QED
    BY <2>2, StuckTaskIsForeign
<1> QED
  BY <1>1, OrderIsKept, PTL DEF Spec, OwnTasksNeverDeadlock

-----------------------------------------------------------------------------
(* Blocks join their tasks. *)

Sound(a) == WaitsForVisible(a) /\ JoinsItsOwn(a) /\ HasJoined(a)

\* Handles are never forgotten, and what a task is never changes.
HandlesStay ==
  /\ next' \in Int /\ next <= next'
  /\ \A h \in Visible : h \in Visible'
  /\ \A i \in Tasks : i < next => body'[i] = body[i]

\* What a new task is given, it can name.
NewArgsFit ==
  \A i \in Tasks : next <= i /\ i < next' =>
    \A m \in DOMAIN body'[i].args : body'[i].args[m] \in Visible'

\* The step makes no block task for activity a, and takes the answer of none.
Spared(a) ==
  /\ \A i \in Tasks : next <= i /\ i < next' =>
       ~(body'[i].kind = "block" /\ body'[i].by = a.task)
  /\ \A i \in BlockTasks(a) : /\ st[i] = "absent" <=> st'[i] = "absent"
                              /\ st[i] = "absent" => result'[i] = result[i]

StackIsSound ==
  \A k \in DOMAIN stack' :
    \E a \in Activities :
      /\ a = stack'[k]
      /\ Sound(a)' \/ (k \in DOMAIN stack /\ stack[k] = a /\ Spared(a))

\* A spared activity goes on as soundly as before.
LEMMA SoundStays ==
  ASSUME TypeOK, HandlesStay, NEW a \in Activities, Spared(a), Sound(a)
  PROVE  Sound(a)'
<1>0. next \in Int /\ next' \in Int /\ Tasks \subseteq Int
  BY DEF TypeOK, HandlesStay, Tasks
<1>1. ASSUME NEW i \in Tasks PROVE i \in BlockTasks(a)' <=> i \in BlockTasks(a)
  <2>1. CASE i < next
    <3>1. i < next' /\ body'[i] = body[i]
      BY <1>0, <2>1 DEF HandlesStay
    <3> QED
      BY <2>1, <3>1 DEF BlockTasks
  <2>2. CASE next <= i
    <3>1. ~(i < next)
      BY <1>0, <2>2
    <3>2. ~(i < next' /\ body'[i].kind = "block" /\ body'[i].by = a.task)
      BY <2>2 DEF Spared
    <3> QED
      BY <3>1, <3>2 DEF BlockTasks
  <2> QED
    BY <1>0, <2>1, <2>2
<1>2. WaitsForVisible(a)'
  BY DEF Sound, WaitsForVisible, HandlesStay
<1>t. BlockTasks(a) \subseteq Tasks /\ BlockTasks(a)' \subseteq Tasks
  BY DEF BlockTasks
<1>3. JoinsItsOwn(a)'
  BY <1>1, <1>t DEF Sound, JoinsItsOwn, Spared
<1>4. HasJoined(a)'
  BY <1>1, <1>t DEF Sound, HasJoined, Spared
<1> QED
  BY <1>2, <1>3, <1>4 DEF Sound

LEMMA StepIsSound ==
  ASSUME TypeOK, BlocksAreJoined, HandlesStay, NewArgsFit, StackIsSound
  PROVE  BlocksAreJoined'
<1>1. ASSUME NEW i \in Tasks, i < next', NEW m \in DOMAIN body'[i].args
      PROVE  body'[i].args[m] \in Visible'
  <2>1. CASE next <= i
    BY <1>1, <2>1 DEF NewArgsFit
  <2>2. CASE i < next
    BY <1>1, <2>2 DEF HandlesStay, BlocksAreJoined
  <2> QED
    BY <2>1, <2>2 DEF TypeOK, Tasks
<1>2. ASSUME NEW k \in DOMAIN stack'
      PROVE  WaitsForVisible(stack[k])' /\ JoinsItsOwn(stack[k])' /\ HasJoined(stack[k])'
  <2>1. PICK a \in Activities :
          /\ a = stack'[k]
          /\ Sound(a)' \/ (k \in DOMAIN stack /\ stack[k] = a /\ Spared(a))
    BY DEF StackIsSound
  <2>2. Sound(a)'
    <3>1. CASE k \in DOMAIN stack /\ stack[k] = a /\ Spared(a)
      <4>1. Sound(a)
        BY <3>1 DEF BlocksAreJoined, Sound
      <4> QED
        BY <3>1, <4>1, SoundStays
    <3> QED
      BY <2>1, <3>1
  <2> QED
    BY <2>1, <2>2 DEF Sound, WaitsForVisible, JoinsItsOwn, HasJoined, BlockTasks
<1> QED
  BY <1>1, <1>2 DEF BlocksAreJoined

LEMMA TopChanges ==
  ASSUME TypeOK, Running, NEW a \in Activities,
         stack' = [stack EXCEPT ![Len(stack)] = a], Sound(a)',
         \A k \in DOMAIN stack : k # Len(stack) => Spared(stack[k])
  PROVE  StackIsSound
<1>1. Len(stack) \in DOMAIN stack /\ stack \in Seq(Activities)
  BY TopIsActivity, TypeFacts
<1>2. ASSUME NEW k \in DOMAIN stack'
      PROVE  \E b \in Activities :
               /\ b = stack'[k]
               /\ Sound(b)' \/ (k \in DOMAIN stack /\ stack[k] = b /\ Spared(b))
  <2>1. CASE k = Len(stack)
    BY <1>1, <2>1
  <2>2. CASE k # Len(stack)
    <3>1. k \in DOMAIN stack /\ stack'[k] = stack[k] /\ stack[k] \in Activities
      BY <1>1, <1>2, <2>2, SequenceFacts
    <3> QED
      BY <2>2, <3>1
  <2> QED
    BY <2>1, <2>2
<1> QED
  BY <1>2 DEF StackIsSound

LEMMA StackStays ==
  ASSUME TypeOK, UNCHANGED stack, \A k \in DOMAIN stack : Spared(stack[k])
  PROVE  StackIsSound
<1>1. stack \in Seq(Activities) /\ \A k \in DOMAIN stack : stack[k] \in Activities
  BY TypeFacts, SequenceFacts
<1> QED
  BY <1>1 DEF StackIsSound

\* With nothing to wait for, only an activity in user code has obligations.
LEMMA NothingAwaited ==
  ASSUME NEW a \in Activities, a.on = << >>, a.op \notin {"join", "await"},
         a.op = "code" => \A i \in BlockTasks(a)' : st'[i] = "absent" /\ result'[i] = "ok"
  PROVE  Sound(a)'
<1>1. DOMAIN a.on = {}
  OBVIOUS
<1>2. WaitsForVisible(a)' /\ JoinsItsOwn(a)'
  BY <1>1 DEF WaitsForVisible, JoinsItsOwn
<1>3. HasJoined(a)'
  BY DEF HasJoined
<1> QED
  BY <1>2, <1>3 DEF Sound

\* Nothing happens to the tasks.
LEMMA TasksUnchanged ==
  ASSUME TypeOK, UNCHANGED <<st, body, result, next>>, \A h \in Visible : h \in Visible'
  PROVE  /\ HandlesStay /\ NewArgsFit
         /\ \A a \in Activities : Spared(a) /\ BlockTasks(a)' = BlockTasks(a)
         /\ \A k \in DOMAIN stack : Spared(stack[k])
<1>1. next \in Int /\ ~(\E i \in Tasks : next <= i /\ i < next')
  BY DEF TypeOK, Tasks
<1>2. HandlesStay /\ NewArgsFit
  BY <1>1 DEF HandlesStay, NewArgsFit
<1>3. \A a \in Activities : Spared(a) /\ BlockTasks(a)' = BlockTasks(a)
  BY <1>1 DEF Spared, BlockTasks
<1>4. \A k \in DOMAIN stack : Spared(stack[k])
  BY <1>1 DEF Spared, BlockTasks
<1> QED
  BY <1>2, <1>3, <1>4

LEMMA TopFacts ==
  ASSUME TypeOK, BlocksAreJoined, Running
  PROVE  /\ stack \in Seq(Activities) /\ Top \in Activities /\ Top.on \in Seq(Handles)
         /\ Len(stack) \in DOMAIN stack /\ Top = stack[Len(stack)] /\ Sound(Top)
<1>1. Len(stack) \in DOMAIN stack /\ stack \in Seq(Activities) /\ Top = stack[Len(stack)]
  BY TopIsActivity, TypeFacts DEF Top
<1> QED
  BY <1>1, TopIsActivity DEF Sound, BlocksAreJoined

\* Become, as a step to an activity of its own.
LEMMA BecomeFacts ==
  ASSUME TypeOK, Running, NEW op \in Ops, NEW on \in Seq(Handles), NEW exc \in Results,
         Become(op, on, exc)
  PROVE  \E a \in Activities :
           /\ a = [task |-> Top.task, op |-> op, on |-> on, exc |-> exc]
           /\ stack' = [stack EXCEPT ![Len(stack)] = a]
<1>1. Top.task \in Tasks \cup {Main} /\ Len(stack) \in DOMAIN stack
  BY TopIsActivity, TypeFacts
<1>2. stack' = [stack EXCEPT ![Len(stack)] =
                 [task |-> Top.task, op |-> op, on |-> on, exc |-> exc]]
  BY <1>1 DEF Become, Top
<1> QED
  BY <1>1, <1>2 DEF Activities

\* The top goes on, and nothing else happens.
LEMMA OnlyTheTop ==
  ASSUME TypeOK, BlocksAreJoined, Running, UNCHANGED <<st, body, result, next, timer>>,
         NEW op \in Ops, NEW on \in Seq(Handles), NEW exc \in Results, Become(op, on, exc),
         \/ op = "finish" /\ on = << >>
         \/ /\ op = "code" /\ on = << >>
            /\ \A i \in BlockTasks(Top) : st[i] = "absent" /\ result[i] = "ok"
         \/ op = "await" /\ Top.op = "code" /\ \A m \in DOMAIN on : on[m] \in Visible
  PROVE  BlocksAreJoined'
<1>1. PICK a \in Activities :
        /\ a = [task |-> Top.task, op |-> op, on |-> on, exc |-> exc]
        /\ stack' = [stack EXCEPT ![Len(stack)] = a]
  BY BecomeFacts
<1>2. \A h \in Visible : h \in Visible'
  BY DEF Visible
<1>3. /\ HandlesStay /\ NewArgsFit /\ BlockTasks(a)' = BlockTasks(a)
      /\ \A k \in DOMAIN stack : Spared(stack[k])
  BY <1>2, TasksUnchanged
<1>4. BlockTasks(a) = BlockTasks(Top)
  BY <1>1 DEF BlockTasks
<1>5. Sound(a)'
  <2>1. CASE op = "finish" /\ on = << >>
    BY <1>1, <2>1, NothingAwaited
  <2>2. CASE /\ op = "code" /\ on = << >>
             /\ \A i \in BlockTasks(Top) : st[i] = "absent" /\ result[i] = "ok"
    BY <1>1, <1>3, <1>4, <2>2, NothingAwaited
  <2>3. CASE op = "await" /\ Top.op = "code" /\ \A m \in DOMAIN on : on[m] \in Visible
    <3>1. \A i \in BlockTasks(a)' : st'[i] = "absent" /\ result'[i] = "ok"
      BY <1>3, <1>4, <2>3, TopFacts DEF Sound, HasJoined
    <3>2. HasJoined(a)'
      BY <1>1, <2>3, <3>1 DEF HasJoined
    <3>3. WaitsForVisible(a)' /\ JoinsItsOwn(a)'
      BY <1>1, <1>2, <2>3 DEF WaitsForVisible, JoinsItsOwn
    <3> QED
      BY <3>2, <3>3 DEF Sound
  <2> QED
    BY <2>1, <2>2, <2>3
<1>6. StackIsSound
  BY <1>1, <1>3, <1>5, TopChanges
<1> QED
  BY <1>3, <1>6, StepIsSound

LEMMA QuietStepIsSound ==
  ASSUME TypeOK, BlocksAreJoined,
         Sleep \/ Await \/ CodeEnds \/ TimerFires \/ Idle \/ AllResolved \/ TimeoutExpires
           \/ UNCHANGED vars
  PROVE  BlocksAreJoined'
<1>0. << >> \in Seq(Handles) /\ "ok" \in Results
      /\ {"finish", "code", "await"} \subseteq Ops
  BY DEF Results, Ops
<1>1. CASE Sleep \/ TimerFires \/ Idle \/ UNCHANGED vars
  <2>1. UNCHANGED <<st, body, result, next, stack>>
    BY <1>1 DEF Sleep, TimerFires, Idle, vars
  <2>2. \A h \in Visible : h \in Visible'
    <3>1. \A t \in Timers : timer[t] # "unborn" => timer'[t] # "unborn"
      BY <1>1 DEF Sleep, TimerFires, Idle, vars, TypeOK
    <3> QED
      BY <2>1, <3>1 DEF Visible
  <2>3. HandlesStay /\ NewArgsFit /\ \A k \in DOMAIN stack : Spared(stack[k])
    BY <2>1, <2>2, TasksUnchanged
  <2> QED
    BY <2>1, <2>3, StackStays, StepIsSound
<1>2. CASE Await
  <2>1. PICK h \in Visible : Become("await", <<h>>, "ok")
    BY <1>2 DEF Await
  <2>2. h \in Handles /\ <<h>> \in Seq(Handles) /\ \A m \in DOMAIN <<h>> : <<h>>[m] \in Visible
    BY DEF Visible, Handles
  <2>3. Running /\ Top.op = "code" /\ UNCHANGED <<st, body, result, next, timer>>
    BY <1>2 DEF Await, InCode
  <2> QED
    BY <1>0, <2>1, <2>2, <2>3, OnlyTheTop
<1>3. CASE CodeEnds
  <2>1. PICK v \in Results : Become("finish", << >>, v)
    BY <1>3 DEF CodeEnds
  <2>3. Running /\ UNCHANGED <<st, body, result, next, timer>>
    BY <1>3 DEF CodeEnds, InCode
  <2> QED
    BY <1>0, <2>1, <2>3, OnlyTheTop
<1>4. CASE AllResolved
  <2>0. Running /\ Top.on = << >> /\ UNCHANGED <<st, body, result, next, timer>>
    BY <1>4 DEF AllResolved
  <2>1. CASE Top.op = "join" /\ Top.exc = "ok" /\ Become("code", << >>, "ok")
    <3>1. \A i \in BlockTasks(Top) : st[i] = "absent" /\ result[i] = "ok"
      BY <2>0, <2>1, TopFacts DEF Sound, HasJoined
    <3> QED
      BY <1>0, <2>0, <2>1, <3>1, OnlyTheTop
  <2>2. CASE Become("finish", << >>, Top.exc) \/ Become("finish", << >>, "ok")
    BY <1>0, <2>0, <2>2, TopIsActivity, OnlyTheTop
  <2> QED
    BY <1>4, <2>1, <2>2 DEF AllResolved
<1>5. CASE TimeoutExpires
  BY <1>0, <1>5, OnlyTheTop DEF TimeoutExpires
<1> QED
  BY <1>1, <1>2, <1>3, <1>4, <1>5

\* The rest of the stack belongs to other tasks.
LEMMA OthersAreOthers ==
  ASSUME InOrder, Running, NEW k \in DOMAIN stack, k # Len(stack)
  PROVE  stack[k].task # Top.task
BY TopIsActivity, TypeFacts DEF InOrder, RunningIsOnStack, Top

\* What entering n new tasks does to the table.
LEMMA NewTaskFacts ==
  ASSUME TypeOK, NEW n \in Nat, n > 0, NEW kind, NEW args \in Seq(Handles), QueueTasks(n, kind, args)
  PROVE  /\ next \in Int /\ next' = next + n /\ HandlesStay
         /\ \A i \in Tasks : i < next =>
              st'[i] = st[i] /\ body'[i] = body[i] /\ result'[i] = result[i]
         /\ \A i \in Tasks : next <= i /\ i < next' =>
              /\ st'[i] = "queued"
              /\ body'[i] = [kind |-> kind, args |-> args, by |-> Top.task]
         /\ \A k \in 1 .. n : /\ FreshIds(n)[k] = next + k - 1
                              /\ FreshIds(n)[k] \in Tasks
         /\ FreshIds(n) \in Seq(Handles) /\ DOMAIN FreshIds(n) = 1 .. n
         /\ \A i \in Tasks : next <= i /\ i < next' => \E k \in 1 .. n : i = FreshIds(n)[k]
<1>1. next \in 1 .. MaxTasks + 1 /\ next' = next + n /\ next + n - 1 <= MaxTasks
  BY DEF QueueTasks, TypeOK
<1>2. /\ DOMAIN FreshIds(n) = 1 .. n
      /\ \A k \in 1 .. n : FreshIds(n)[k] = next + k - 1 /\ FreshIds(n)[k] \in Tasks
  BY <1>1 DEF FreshIds, Tasks
<1>3. FreshIds(n) \in Seq(Handles)
  BY <1>1, FreshIdsType DEF Handles
<1>4. ASSUME NEW i \in Tasks, next <= i, i < next'
      PROVE  \E k \in 1 .. n : i = FreshIds(n)[k]
  <2>1. i - next + 1 \in 1 .. n /\ i = next + (i - next + 1) - 1
    BY <1>1, <1>4 DEF Tasks
  <2> QED
    BY <1>2, <2>1
<1>5. \A i \in Tasks : i \in {FreshIds(n)[k] : k \in 1 .. n} <=> next <= i /\ i < next'
  <2>1. ASSUME NEW i \in Tasks, NEW k \in 1 .. n, i = FreshIds(n)[k]
        PROVE  next <= i /\ i < next'
    BY <1>1, <1>2, <2>1
  <2> QED
    BY <1>4, <2>1
<1>6. ASSUME NEW i \in Tasks, i < next
      PROVE  st'[i] = st[i] /\ body'[i] = body[i] /\ result'[i] = result[i]
  <2>1. i \notin {FreshIds(n)[k] : k \in 1 .. n}
    BY <1>1, <1>5, <1>6 DEF Tasks
  <2> QED
    BY <2>1 DEF QueueTasks
<1>7. ASSUME NEW i \in Tasks, next <= i, i < next'
      PROVE  st'[i] = "queued" /\ body'[i] = [kind |-> kind, args |-> args, by |-> Top.task]
  <2>1. i \in {FreshIds(n)[k] : k \in 1 .. n}
    BY <1>5, <1>7
  <2> QED
    BY <2>1 DEF QueueTasks
<1>8. HandlesStay
  <2>1. \A i \in Tasks : i < next => i < next'
    BY <1>1 DEF Tasks
  <2>2. UNCHANGED timer
    BY DEF QueueTasks
  <2>3. \A h \in Visible : h \in Visible'
    BY <1>6, <2>1, <2>2 DEF Visible
  <2> QED
    BY <1>1, <1>6, <2>3 DEF HandlesStay
<1>9. \A i \in Tasks : i < next =>
        st'[i] = st[i] /\ body'[i] = body[i] /\ result'[i] = result[i]
  BY <1>6, Zenon
<1>10. \A i \in Tasks : next <= i /\ i < next' =>
         /\ st'[i] = "queued" /\ body'[i] = [kind |-> kind, args |-> args, by |-> Top.task]
         /\ \E k \in 1 .. n : i = FreshIds(n)[k]
  BY <1>4, <1>7, Zenon
<1>11. next \in Int
  BY <1>1
<1> QED
  BY <1>1, <1>2, <1>3, <1>8, <1>9, <1>10, <1>11, Zenon

LEMMA CombineIsSound ==
  ASSUME TypeOK, BlocksAreJoined, UNCHANGED stack, NEW kind, kind # "block",
         NEW args \in Seq(Handles), \A m \in DOMAIN args : args[m] \in Visible,
         QueueTasks(1, kind, args)
  PROVE  BlocksAreJoined'
<1>1. /\ HandlesStay
      /\ \A i \in Tasks : i < next => st'[i] = st[i] /\ result'[i] = result[i]
      /\ \A i \in Tasks : next <= i /\ i < next' => body'[i].kind = kind /\ body'[i].args = args
  <2>1. 1 \in Nat /\ 1 > 0
    OBVIOUS
  <2>2. /\ HandlesStay
        /\ \A i \in Tasks : i < next => st'[i] = st[i] /\ result'[i] = result[i]
        /\ \A i \in Tasks : next <= i /\ i < next' =>
             body'[i] = [kind |-> kind, args |-> args, by |-> Top.task]
    BY <2>1, NewTaskFacts
  <2> QED
    BY <2>2
<1>2. NewArgsFit
  BY <1>1 DEF NewArgsFit, HandlesStay
<1>3. \A k \in DOMAIN stack : Spared(stack[k])
  BY <1>1 DEF Spared, BlockTasks
<1> QED
  BY <1>1, <1>2, <1>3, StackStays, StepIsSound

LEMMA BlockIsSound ==
  ASSUME InOrder, BlocksAreJoined, Block
  PROVE  BlocksAreJoined'
<1>1. PICK n \in 1 .. MaxList :
        QueueTasks(n, "block", << >>) /\ Become("join", FreshIds(n), "ok")
  BY DEF Block
<1>0. /\ n \in Nat /\ n > 0 /\ TypeOK /\ Running /\ Top.op = "code"
      /\ << >> \in Seq(Handles) /\ DOMAIN << >> = {}
  BY <1>1 DEF InOrder, Block, InCode
<1>2. /\ next \in Int /\ next' = next + n /\ HandlesStay
      /\ \A i \in Tasks : i < next =>
           st'[i] = st[i] /\ body'[i] = body[i] /\ result'[i] = result[i]
      /\ \A i \in Tasks : next <= i /\ i < next' =>
           /\ st'[i] = "queued"
           /\ body'[i] = [kind |-> "block", args |-> << >>, by |-> Top.task]
      /\ \A k \in 1 .. n : FreshIds(n)[k] = next + k - 1 /\ FreshIds(n)[k] \in Tasks
      /\ FreshIds(n) \in Seq(Handles) /\ DOMAIN FreshIds(n) = 1 .. n
      /\ \A i \in Tasks : next <= i /\ i < next' => \E k \in 1 .. n : i = FreshIds(n)[k]
  BY <1>0, <1>1, NewTaskFacts
<1>3. NewArgsFit
  BY <1>0, <1>2 DEF NewArgsFit
<1>4. ASSUME NEW k \in DOMAIN stack, k # Len(stack) PROVE Spared(stack[k])
  <2>1. stack[k].task # Top.task
    BY <1>0, <1>4, OthersAreOthers
  <2> QED
    BY <1>2, <2>1 DEF Spared, BlockTasks
<1>5. PICK on \in Seq(Handles) : on = FreshIds(n)
  BY <1>2
<1>6. PICK a \in Activities :
        /\ a = [task |-> Top.task, op |-> "join", on |-> on, exc |-> "ok"]
        /\ stack' = [stack EXCEPT ![Len(stack)] = a]
  BY <1>0, <1>1, <1>5, BecomeFacts DEF Ops, Results
<1>7. \A k \in 1 .. n : on[k] = next + k - 1 /\ on[k] \in Tasks /\ next <= on[k] /\ on[k] < next'
  BY <1>0, <1>2, <1>5
<1>8. JoinsItsOwn(a)'
  <2>1. ASSUME NEW m \in 1 .. n
        PROVE  on[m] \in BlockTasks(a)' /\ st'[on[m]] # "absent"
    BY <1>2, <1>6, <1>7, SMTT(30) DEF BlockTasks
  <2>2. \A m, l \in 1 .. n : on[l] = on[m] => l = m
    BY <1>0, <1>2, <1>7
  <2>3. DOMAIN a.on = 1 .. n /\ a.on = on
    BY <1>2, <1>5, <1>6
  <2> QED
    BY <2>1, <2>2, <2>3 DEF JoinsItsOwn
<1>9. HasJoined(a)'
  <2>1. ASSUME NEW i \in BlockTasks(a)'
        PROVE  (\E m \in DOMAIN a.on : a.on[m] = i) \/ (st'[i] = "absent" /\ result'[i] = "ok")
    <3>1. i \in Tasks /\ i < next' /\ body'[i].kind = "block" /\ body'[i].by = Top.task
      BY <1>6, <2>1 DEF BlockTasks
    <3>2. CASE i < next
      <4>1. i \in BlockTasks(Top)
        BY <1>2, <3>1, <3>2 DEF BlockTasks
      <4>2. st[i] = "absent" /\ result[i] = "ok"
        BY <1>0, <4>1, TopFacts DEF Sound, HasJoined
      <4> QED
        BY <1>2, <3>1, <3>2, <4>2
    <3>3. CASE next <= i
      BY <1>2, <1>5, <1>6, <3>1, <3>3
    <3> QED
      BY <1>2, <3>1, <3>2, <3>3 DEF Tasks
  <2> QED
    BY <1>6, <2>1 DEF HasJoined
<1>10. Sound(a)'
  BY <1>6, <1>8, <1>9 DEF Sound, WaitsForVisible
<1> QED
  BY <1>0, <1>2, <1>3, <1>4, <1>6, <1>10, TopChanges, StepIsSound

LEMMA RunNextIsSound ==
  ASSUME InOrder, BlocksAreJoined, RunNext
  PROVE  BlocksAreJoined'
<1>0. TypeOK /\ HistoryIsOrdered
  BY DEF InOrder
<1> PICK k \in QueuedAt :
      /\ st' = [st EXCEPT ![queue[k]] = "running"]
      /\ stack' = Append(stack, Opening(queue[k]))
      /\ UNCHANGED <<body, result, next, timer, answer>>
  BY DEF RunNext
<1> PICK i \in Tasks : i = queue[k]
  BY <1>0, TypeFacts DEF QueuedAt
<1>1. st[i] = "queued" /\ i < next /\ body[i].kind \in AllKinds /\ body[i].args \in Seq(Handles)
  <2>1. st[i] = "queued" /\ ~(i >= next)
    BY <1>0 DEF QueuedAt, HistoryIsOrdered
  <2> QED
    BY <1>0, <2>1, SMTT(30) DEF TypeOK, Tasks
<1>2. HandlesStay /\ NewArgsFit
  <2>1. next \in Int /\ ~(\E j \in Tasks : next <= j /\ j < next')
    BY <1>0 DEF TypeOK, Tasks
  <2>2. \A h \in Visible : h \in Visible'
    BY DEF Visible
  <2> QED
    BY <2>1, <2>2 DEF HandlesStay, NewArgsFit
<1>3. \A b \in Activities : Spared(b) /\ BlockTasks(b)' = BlockTasks(b)
  <2>1. next \in Int /\ ~(\E j \in Tasks : next <= j /\ j < next')
    BY <1>0 DEF TypeOK, Tasks
  <2>2. \A j \in Tasks : st[j] = "absent" <=> st'[j] = "absent"
    BY <1>0, <1>1 DEF TypeOK
  <2> QED
    BY <2>1, <2>2 DEF Spared, BlockTasks
<1>4. PICK a \in Activities : a = Opening(i)
  <2>1. << >> \in Seq(Handles)
    OBVIOUS
  <2>2. body[i].kind \in AllKinds /\ body[i].args \in Seq(Handles)
    BY <1>1
  <2>3. Opening(i) \in Activities
    BY <2>1, <2>2 DEF Opening, Activity, Activities, AllKinds, Ops, Results
  <2> QED
    BY <2>3
<1>5. Sound(a)'
  <2>1. \A j \in BlockTasks(a)' : FALSE
    <3>1. a.task = i
      BY <1>4 DEF Opening, Activity
    <3>2. \A j \in Tasks : j < next => body[j].by # i
      BY <1>0, <1>1 DEF HistoryIsOrdered
    <3> QED
      BY <1>3, <3>1, <3>2 DEF BlockTasks
  <2>2. CASE a.on = << >> /\ a.op \in {"code", "finish"}
    BY <2>1, <2>2, NothingAwaited
  <2>3. CASE a.on = body[i].args /\ a.op \notin {"join", "code", "await"}
    <3>1. \A m \in DOMAIN body[i].args : body[i].args[m] \in Visible
      BY <1>1 DEF BlocksAreJoined
    <3>2. WaitsForVisible(a)'
      BY <1>2, <2>3, <3>1 DEF WaitsForVisible, HandlesStay
    <3> QED
      BY <2>1, <2>3, <3>2 DEF Sound, JoinsItsOwn, HasJoined
  <2> QED
    BY <1>1, <1>4, <2>2, <2>3 DEF Opening, Activity, AllKinds
<1>6. StackIsSound
  <2> DEFINE n == Len(stack)
  <2>1. /\ stack \in Seq(Activities) /\ n \in Nat /\ DOMAIN stack = 1 .. n
        /\ DOMAIN stack' = 1 .. n + 1 /\ stack'[n + 1] = a
        /\ \A m \in 1 .. n : stack'[m] = stack[m] /\ stack[m] \in Activities
    BY <1>0, <1>4, TypeFacts, SequenceFacts
  <2>2. ASSUME NEW m \in DOMAIN stack'
        PROVE  \E b \in Activities :
                 b = stack'[m] /\ (Sound(b)' \/ (m \in DOMAIN stack /\ stack[m] = b /\ Spared(b)))
    <3>1. CASE m = n + 1
      BY <1>5, <2>1, <3>1
    <3>2. CASE m \in 1 .. n
      BY <1>3, <2>1, <3>2
    <3> QED
      BY <2>1, <3>1, <3>2
  <2> QED
    BY <2>2 DEF StackIsSound
<1> QED
  BY <1>0, <1>2, <1>6, StepIsSound

LEMMA FinishIsSound ==
  ASSUME InOrder, BlocksAreJoined, Finish
  PROVE  BlocksAreJoined'
<1>0. TypeOK /\ Running /\ UNCHANGED <<body, next, timer>>
  BY DEF InOrder, Finish
<1>1. HandlesStay /\ NewArgsFit
  <2>1. next \in Int /\ ~(\E j \in Tasks : next <= j /\ j < next')
    BY <1>0 DEF TypeOK, Tasks
  <2>2. \A h \in Visible : h \in Visible'
    BY <1>0 DEF Visible
  <2> QED
    BY <1>0, <2>1, <2>2 DEF HandlesStay, NewArgsFit
<1>2. \A b \in Activities : Spared(b)
  <2>1. next \in Int /\ ~(\E j \in Tasks : next <= j /\ j < next')
    BY <1>0 DEF TypeOK, Tasks
  <2>2. Top.task # Main => Top.task \in Tasks /\ st[Top.task] = "running"
    BY <1>0, TopIsActivity, TypeFacts DEF InOrder, RunningIsOnStack, Top
  <2>3. \A j \in Tasks : /\ st[j] = "absent" <=> st'[j] = "absent"
                         /\ st[j] = "absent" => result'[j] = result[j]
    BY <1>0, <2>2 DEF Finish, TypeOK
  <2> QED
    BY <1>0, <2>1, <2>3 DEF Spared, BlockTasks
<1>3. StackIsSound
  <2> DEFINE n == Len(stack)
  <2>1. /\ stack \in Seq(Activities) /\ n \in Nat /\ DOMAIN stack = 1 .. n
        /\ n \in 1 .. n /\ stack' = SubSeq(stack, 1, n - 1)
    BY <1>0, TopIsActivity, TypeFacts DEF Finish
  <2>2. /\ DOMAIN stack' = 1 .. n - 1
        /\ \A m \in 1 .. n - 1 : m \in 1 .. n /\ stack'[m] = stack[m] /\ stack[m] \in Activities
    BY <2>1, SequenceFacts
  <2> QED
    BY <1>2, <2>1, <2>2 DEF StackIsSound
<1> QED
  BY <1>0, <1>1, <1>3, StepIsSound

\* An answer is taken by the top, for itself: everyone else is spared.
LEMMA TakeSpares ==
  ASSUME InOrder, BlocksAreJoined, Running, NEW m \in DOMAIN Top.on, NEW h \in Handles,
         h = Top.on[m], Take(h)
  PROVE  /\ HandlesStay /\ NewArgsFit
         /\ \A k \in DOMAIN stack : k # Len(stack) => Spared(stack[k])
         /\ \A a \in Activities : BlockTasks(a)' = BlockTasks(a)
         /\ \A i \in Tasks : i # h => st'[i] = st[i]
         /\ h \in Tasks => st'[h] = "absent"
         /\ result' = result
<1>0. TypeOK /\ UNCHANGED <<body, result, queue, next>>
  BY DEF InOrder, Take
<1>1. /\ next \in Int /\ ~(\E j \in Tasks : next <= j /\ j < next')
      /\ \A i \in Tasks : i # h => st'[i] = st[i]
      /\ h \in Tasks => st'[h] = "absent"
      /\ \A t \in Timers : timer[t] # "unborn" => timer'[t] # "unborn"
  BY <1>0 DEF TypeOK, Tasks, Take, Removed
<1>2. HandlesStay /\ NewArgsFit
  <2>1. \A g \in Visible : g \in Visible'
    BY <1>0, <1>1 DEF Visible
  <2> QED
    BY <1>0, <1>1, <2>1 DEF HandlesStay, NewArgsFit
<1>3. ASSUME NEW k \in DOMAIN stack, k # Len(stack) PROVE Spared(stack[k])
  <2>1. stack[k].task # Top.task
    BY <1>0, <1>3, OthersAreOthers
  <2>2. h \notin BlockTasks(stack[k])
    <3>1. CASE Top.op = "join"
      <4>1. h \in BlockTasks(Top)
        BY <1>0, <3>1, TopFacts DEF Sound, JoinsItsOwn
      <4> QED
        BY <2>1, <4>1 DEF BlockTasks
    <3>2. CASE Top.op # "join"
      <4>1. h \in Visible
        BY <1>0, <3>2, TopFacts DEF Sound, WaitsForVisible
      <4>2. h \notin Tasks \/ body[h].kind # "block"
        BY <4>1 DEF Visible, Tasks, Timers
      <4> QED
        BY <4>2 DEF BlockTasks
    <3> QED
      BY <3>1, <3>2
  <2> QED
    BY <1>0, <1>1, <2>2 DEF Spared, BlockTasks
<1> QED
  BY <1>0, <1>1, <1>2, <1>3 DEF BlockTasks

\* The two ways in which an answer lets the top end or go back to its code.
LEMMA LeavesSoundly ==
  ASSUME TypeOK, BlocksAreJoined, Running, NEW op \in {"finish", "code"}, NEW exc \in Results,
         Become(op, << >>, exc), HandlesStay, NewArgsFit,
         \A k \in DOMAIN stack : k # Len(stack) => Spared(stack[k]),
         op = "code" => \A i \in BlockTasks(Top) : st'[i] = "absent" /\ result'[i] = "ok",
         \A a \in Activities : BlockTasks(a)' = BlockTasks(a)
  PROVE  BlocksAreJoined'
<1>0. << >> \in Seq(Handles) /\ op \in Ops
  BY DEF Ops
<1>1. PICK a \in Activities :
        /\ a = [task |-> Top.task, op |-> op, on |-> << >>, exc |-> exc]
        /\ stack' = [stack EXCEPT ![Len(stack)] = a]
  BY <1>0, BecomeFacts
<1>2. PICK b \in Activities : b = Top
  BY TopFacts
<1>3. Sound(a)'
  <2>1. BlockTasks(a)' = BlockTasks(b)
    <3>1. BlockTasks(a) = BlockTasks(b)
      BY <1>1, <1>2 DEF BlockTasks
    <3> QED
      BY <3>1
  <2> QED
    BY <1>1, <1>2, <2>1, NothingAwaited
<1> QED
  BY <1>1, <1>3, TopChanges, StepIsSound

LEMMA TailFacts ==
  ASSUME NEW S, NEW s \in Seq(S), NEW m \in DOMAIN s
  PROVE  /\ s # << >> /\ 1 \in DOMAIN s /\ Tail(s) \in Seq(S)
         /\ \A l \in DOMAIN Tail(s) : l + 1 \in DOMAIN s /\ l + 1 # 1 /\ Tail(s)[l] = s[l + 1]
         /\ \A l \in DOMAIN s : l = 1 \/ (l - 1 \in DOMAIN Tail(s) /\ Tail(s)[l - 1] = s[l])
         /\ \A l, j \in DOMAIN Tail(s) : l + 1 = j + 1 => l = j
<1>1. s # << >> /\ DOMAIN s = 1 .. Len(s) /\ Len(s) \in Nat /\ Len(s) >= 1
  <2>1. DOMAIN s = 1 .. Len(s) /\ Len(s) \in Nat
    OBVIOUS
  <2> QED
    BY <2>1
<1>2. Tail(s) \in Seq(S) /\ Len(Tail(s)) = Len(s) - 1 /\ DOMAIN Tail(s) = 1 .. Len(s) - 1
      /\ \A l \in 1 .. Len(s) - 1 : Tail(s)[l] = s[l + 1]
  BY <1>1
<1>3. \A l \in 1 .. Len(s) : l = 1 \/ (l - 1 \in 1 .. Len(s) - 1 /\ (l - 1) + 1 = l)
  BY <1>1
<1> QED
  BY <1>1, <1>2, <1>3

LEMMA AnswerIsSound ==
  ASSUME InOrder, BlocksAreJoined, Running, NEW m \in DOMAIN Top.on, NEW h \in Handles,
         h = Top.on[m], Top.op = "join" => m = 1, Available(h), Take(h), Receive(ValueOf(h))
  PROVE  BlocksAreJoined'
<1>0. TypeOK /\ UNCHANGED <<body, result, queue, next>>
  BY DEF InOrder, Take
<1>1. /\ HandlesStay /\ NewArgsFit
      /\ \A k \in DOMAIN stack : k # Len(stack) => Spared(stack[k])
      /\ \A a \in Activities : BlockTasks(a)' = BlockTasks(a)
      /\ \A i \in Tasks : i # h => st'[i] = st[i]
      /\ h \in Tasks => st'[h] = "absent"
      /\ result' = result
  BY TakeSpares
<1>2. PICK v \in Results \cup {"nothing"} : v = ValueOf(h)
  BY <1>0, TakeType
<1>3. Receive(v)
  BY <1>2
<1>4. /\ Top \in Activities /\ Top.on \in Seq(Handles) /\ Top.exc \in Results /\ Sound(Top)
      /\ {"ok", "panic"} \subseteq Results
  BY <1>0, TopFacts, TopIsActivity DEF Results
<1>5. ASSUME \/ \E exc \in Results : Become("finish", << >>, exc)
             \/ Top.op = "await" /\ Become("code", << >>, "ok")
      PROVE  BlocksAreJoined'
  <2>1. CASE \E exc \in Results : Become("finish", << >>, exc)
    BY <1>0, <1>1, <2>1, LeavesSoundly
  <2>2. CASE Top.op = "await" /\ Become("code", << >>, "ok")
    <3>1. ASSUME NEW i \in BlockTasks(Top) PROVE st'[i] = "absent" /\ result'[i] = "ok"
      <4>1. i \in Tasks /\ st[i] = "absent" /\ result[i] = "ok"
        BY <1>4, <2>2, <3>1 DEF Sound, HasJoined, BlockTasks
      <4> QED
        BY <1>1, <4>1
    <3> QED
      BY <1>0, <1>1, <1>4, <2>2, <3>1, LeavesSoundly
  <2> QED
    BY <1>5, <2>1, <2>2
<1>6. CASE Top.op = "await" /\ AwaitReceives(v)
  BY <1>4, <1>5, <1>6 DEF AwaitReceives
<1>7. CASE Top.op \in {"any", "timeout"} /\ Become("finish", << >>, "ok")
  BY <1>4, <1>5, <1>7
<1>8. CASE Become("finish", << >>, Raised(v))
  <2>1. Raised(v) \in Results
    BY DEF Raised, Results
  <2> QED
    BY <1>5, <1>8, <2>1
<1>9. CASE Top.op = "gather" /\ Become("gather", Tail(Top.on), "ok")
  <2>1. PICK on \in Seq(Handles) : on = Tail(Top.on)
    BY <1>4, TailFacts
  <2>2. \A l \in DOMAIN on : on[l] \in Visible
    <3>1. \A l \in DOMAIN on : l + 1 \in DOMAIN Top.on /\ on[l] = Top.on[l + 1]
      BY <1>4, <2>1, TailFacts
    <3> QED
      BY <1>4, <1>9, <3>1 DEF Sound, WaitsForVisible
  <2>3. PICK a \in Activities :
          /\ a = [task |-> Top.task, op |-> "gather", on |-> on, exc |-> "ok"]
          /\ stack' = [stack EXCEPT ![Len(stack)] = a]
    <3>1. "gather" \in Ops /\ "ok" \in Results /\ Become("gather", on, "ok")
      BY <1>9, <2>1 DEF Ops, Results
    <3> QED
      BY <1>0, <3>1, BecomeFacts
  <2>4. Sound(a)'
    BY <1>1, <2>2, <2>3 DEF Sound, WaitsForVisible, JoinsItsOwn, HasJoined, HandlesStay
  <2> QED
    BY <1>0, <1>1, <2>3, <2>4, TopChanges, StepIsSound
<1>10. CASE /\ Top.op = "join"
            /\ Become("join", StillToJoin(v), IF v \in Failures THEN "panic" ELSE Top.exc)
  <2>0. m = 1
    BY <1>10
  <2>1. PICK on \in Seq(Handles) : on = StillToJoin(v)
    BY <1>4, TailFacts DEF StillToJoin
  <2>2. PICK exc \in Results : exc = IF v \in Failures THEN "panic" ELSE Top.exc
    BY <1>4
  <2>3. PICK a \in Activities :
          /\ a = [task |-> Top.task, op |-> "join", on |-> on, exc |-> exc]
          /\ stack' = [stack EXCEPT ![Len(stack)] = a]
    BY <1>0, <1>10, <2>1, <2>2, BecomeFacts DEF Ops
  <2>4. /\ \A l \in DOMAIN on : l + 1 \in DOMAIN Top.on /\ l + 1 # 1 /\ on[l] = Top.on[l + 1]
        /\ \A l \in DOMAIN Top.on : l = 1 \/ (l - 1 \in DOMAIN on /\ on[l - 1] = Top.on[l])
        /\ \A l, j \in DOMAIN on : l + 1 = j + 1 => l = j
        /\ 1 \in DOMAIN Top.on
    BY <1>4, <2>1, TailFacts DEF StillToJoin
  <2>5. \A l \in DOMAIN Top.on :
          /\ Top.on[l] \in BlockTasks(Top) /\ st[Top.on[l]] # "absent"
          /\ \A j \in DOMAIN Top.on : Top.on[j] = Top.on[l] => j = l
    BY <1>4, <1>10 DEF Sound, JoinsItsOwn
  <2>6. PICK b \in Activities : b = Top
    BY <1>4
  <2>7. BlockTasks(a)' = BlockTasks(b) /\ BlockTasks(b) \subseteq Tasks
    <3>1. BlockTasks(a) = BlockTasks(b)
      BY <2>3, <2>6 DEF BlockTasks
    <3> QED
      BY <1>1, <3>1 DEF BlockTasks
  <2>8. JoinsItsOwn(a)'
    <3>1. ASSUME NEW l \in DOMAIN on
          PROVE  /\ on[l] \in BlockTasks(b) /\ st'[on[l]] # "absent"
                 /\ \A j \in DOMAIN on : on[j] = on[l] => j = l
      <4>1. on[l] \in BlockTasks(b) /\ st[on[l]] # "absent" /\ on[l] # h
        BY <2>0, <2>4, <2>5, <2>6, <3>1
      <4>2. st'[on[l]] = st[on[l]]
        BY <1>1, <2>7, <4>1
      <4>3. \A j \in DOMAIN on : on[j] = on[l] => j = l
        BY <2>4, <2>5, <3>1
      <4> QED
        BY <4>1, <4>2, <4>3
    <3> QED
      BY <2>3, <2>7, <3>1 DEF JoinsItsOwn
  <2>9. HasJoined(a)'
    <3>1. ASSUME NEW i \in BlockTasks(b)
          PROVE  \/ \E l \in DOMAIN on : on[l] = i
                 \/ st'[i] = "absent" /\ (exc = "ok" => result'[i] = "ok")
      <4>1. CASE i = h
        <5>1. h \in Tasks /\ st[h] = "ready" /\ v = result[h] /\ v \in Results
          <6>1. h \in Tasks /\ st[h] # "absent"
            BY <2>0, <2>4, <2>5, <2>6, <2>7
          <6>2. st[h] = "ready"
            BY <6>1 DEF Available
          <6> QED
            BY <1>0, <1>2, <6>1, <6>2 DEF ValueOf, TypeOK
        <5>2. exc = "ok" => result[h] = "ok"
          BY <2>2, <5>1 DEF Failures, Results
        <5> QED
          BY <1>1, <4>1, <5>1, <5>2
      <4>2. CASE i # h
        <5>1. \/ \E l \in DOMAIN Top.on : Top.on[l] = i
              \/ st[i] = "absent" /\ (Top.exc = "ok" => result[i] = "ok")
          BY <1>4, <1>10, <2>6, <3>1 DEF Sound, HasJoined
        <5>2. CASE \E l \in DOMAIN Top.on : Top.on[l] = i
          BY <2>0, <2>4, <4>2, <5>2
        <5>3. CASE st[i] = "absent" /\ (Top.exc = "ok" => result[i] = "ok")
          BY <1>1, <2>2, <2>7, <4>2, <5>3
        <5> QED
          BY <5>1, <5>2, <5>3
      <4> QED
        BY <4>1, <4>2
    <3> QED
      BY <2>3, <2>7, <3>1 DEF HasJoined
  <2>10. Sound(a)'
    BY <2>3, <2>8, <2>9 DEF Sound, WaitsForVisible
  <2> QED
    BY <1>0, <1>1, <2>3, <2>10, TopChanges, StepIsSound
<1> QED
  BY <1>3, <1>6, <1>7, <1>8, <1>9, <1>10 DEF Receive

LEMMA GiveUpIsSound ==
  ASSUME InOrder, BlocksAreJoined, GiveUp
  PROVE  BlocksAreJoined'
<1>0. TypeOK /\ Running /\ UNCHANGED <<st, body, result, next, timer>> /\ Top.on # << >>
  BY DEF InOrder, GiveUp, Resolving
<1>1. Top.on \in Seq(Handles) /\ Top.exc \in Results /\ "panic" \in Results /\ Sound(Top)
      /\ "finish" \in Ops /\ << >> \in Seq(Handles)
  BY <1>0, TopIsActivity, TopFacts DEF Results, Ops
<1>2. Top.op # "join"
  <2>1. Head(Top.on) \in Tasks /\ ~Available(Head(Top.on)) /\ QueuedAt = {}
    BY DEF GiveUp, NothingToRun
  <2>2. body[Head(Top.on)].by # Top.task
    BY <1>0, <2>1, StuckTaskIsForeign
  <2>3. 1 \in DOMAIN Top.on /\ Top.on[1] = Head(Top.on)
    BY <1>0, <1>1
  <2> QED
    BY <1>1, <2>2, <2>3 DEF Sound, JoinsItsOwn, BlockTasks
<1>3. Become("finish", << >>, "panic")
  BY <1>2 DEF GiveUp, Receive, AwaitReceives, Raised, Failures
<1> QED
  BY <1>0, <1>1, <1>3, OnlyTheTop

LEMMA PollIsSound ==
  ASSUME InOrder, BlocksAreJoined, Poll
  PROVE  BlocksAreJoined'
<1>0. TypeOK /\ Running /\ Top.op \in {"any", "timeout"}
  BY DEF InOrder, Poll, Polling
<1>1. Top.on \in Seq(Handles) /\ \A m \in DOMAIN Top.on : Top.on[m] \in Handles
  BY <1>0, TopIsActivity, SequenceFacts
<1>2. ASSUME NEW m \in DOMAIN Top.on, Available(Top.on[m]), Take(Top.on[m]),
             Receive(ValueOf(Top.on[m]))
      PROVE  BlocksAreJoined'
  BY <1>0, <1>1, <1>2, AnswerIsSound
<1>3. ASSUME Become("finish", << >>, "ok"), UNCHANGED <<st, body, result, queue, next, timer, answer>>
      PROVE  BlocksAreJoined'
  <2>1. << >> \in Seq(Handles) /\ "ok" \in Results /\ "finish" \in Ops
    BY DEF Results, Ops
  <2> QED
    BY <1>0, <1>3, <2>1, OnlyTheTop
<1> QED
  BY <1>2, <1>3, RunNextIsSound DEF Poll

LEMMA SchedulingIsSound ==
  ASSUME InOrder, BlocksAreJoined, Scheduling
  PROVE  BlocksAreJoined'
<1>0. TypeOK
  BY DEF InOrder
<1>1. CASE Resolve
  <2>1. CASE Available(Head(Top.on))
    <3>1. Running /\ Top.on # << >> /\ Take(Head(Top.on)) /\ Receive(ValueOf(Head(Top.on)))
      BY <1>1, <2>1 DEF Resolve, Resolving
    <3>2. Top.on \in Seq(Handles)
      BY <1>0, <3>1, TopIsActivity
    <3>3. 1 \in DOMAIN Top.on /\ Top.on[1] = Head(Top.on) /\ Head(Top.on) \in Handles
      BY <3>1, <3>2
    <3> QED
      BY <2>1, <3>1, <3>3, AnswerIsSound
  <2>2. CASE ~Available(Head(Top.on))
    BY <1>1, <2>2, RunNextIsSound DEF Resolve
  <2> QED
    BY <2>1, <2>2
<1> QED
  BY <1>0, <1>1, FinishIsSound, GiveUpIsSound, PollIsSound, QuietStepIsSound DEF Scheduling

LEMMA ProgramIsSound ==
  ASSUME InOrder, BlocksAreJoined, Spawn \/ Combine
  PROVE  BlocksAreJoined'
<1>0. TypeOK /\ UNCHANGED stack
  BY DEF InOrder, Spawn, Combine
<1>1. ASSUME NEW kind, kind # "block", QueueTasks(1, kind, << >>) PROVE BlocksAreJoined'
  <2>1. << >> \in Seq(Handles) /\ DOMAIN << >> = {}
    OBVIOUS
  <2> QED
    BY <1>0, <1>1, <2>1, CombineIsSound
<1>2. ASSUME NEW hs \in Lists(Visible), NEW kind \in {"gather", "any"}, QueueTasks(1, kind, hs)
      PROVE  BlocksAreJoined'
  <2>1. hs \in Seq(Visible)
    BY ListsAreSequences
  <2>2. hs \in Seq(Handles) /\ \A m \in DOMAIN hs : hs[m] \in Visible
    BY <1>0, <2>1, VisibleLists, SequenceFacts
  <2> QED
    BY <1>0, <1>2, <2>2, CombineIsSound
<1>3. ASSUME NEW h \in Visible, QueueTasks(1, "timeout", <<h>>) PROVE BlocksAreJoined'
  <2>1. h \in Handles /\ <<h>> \in Seq(Handles) /\ \A m \in DOMAIN <<h>> : <<h>>[m] \in Visible
    BY DEF Visible, Handles
  <2> QED
    BY <1>0, <1>3, <2>1, CombineIsSound
<1>4. CASE Spawn
  BY <1>1, <1>4 DEF Spawn
<1>5. CASE Combine
  <2>1. CASE QueueTasks(1, "ready", << >>)
    BY <1>1, <2>1
  <2>2. CASE \E kind \in {"gather", "any"}, hs \in Lists(Visible) : QueueTasks(1, kind, hs)
    BY <1>2, <2>2
  <2>3. CASE \E h \in Visible : QueueTasks(1, "timeout", <<h>>)
    BY <1>3, <2>3
  <2> QED
    BY <1>5, <2>1, <2>2, <2>3 DEF Combine
<1> QED
  BY <1>4, <1>5

LEMMA NextIsSound ==
  ASSUME InOrder, BlocksAreJoined, [Next]_vars
  PROVE  BlocksAreJoined'
<1>0. TypeOK
  BY DEF InOrder
<1> QED
  BY <1>0, ProgramIsSound, BlockIsSound, QuietStepIsSound, SchedulingIsSound DEF Next, Terminated

LEMMA InitIsSound ==
  ASSUME Init
  PROVE  BlocksAreJoined
<1>1. stack = <<Activity(Main, "code", << >>)>> /\ next = 1
  BY DEF Init
<1>2. \A i \in Tasks : ~(i < next)
  BY <1>1 DEF Tasks
<1>3. \A k \in DOMAIN stack : stack[k] = Activity(Main, "code", << >>)
  BY <1>1
<1>4. DOMAIN << >> = {}
  OBVIOUS
<1> QED
  BY <1>2, <1>3, <1>4
  DEF BlocksAreJoined, WaitsForVisible, JoinsItsOwn, HasJoined, BlockTasks, Activity

\* Table, queue and stack tell one story, and blocks join all they make, whatever awaits
\* are nested: the scheduler keeps its whole invariant.
THEOREM Invariance == Spec => []Consistent
<1>1. Init => BlocksAreJoined
  BY InitIsSound
<1>2. InOrder /\ BlocksAreJoined /\ [Next]_vars => BlocksAreJoined'
  BY NextIsSound
<1>3. Spec => []InOrder
  BY OrderIsKept
<1> QED
  BY <1>1, <1>2, <1>3, PTL DEF Spec, Consistent

\* Only AllResolved ends a join, on the top of the stack.
LEMMA JoinEnds ==
  ASSUME Consistent, [Next]_vars, NEW k \in DOMAIN stack, stack[k].op = "join",
         k \in DOMAIN stack', stack'[k].op # "join"
  PROVE  AllResolved /\ k = Len(stack)
<1>0. TypeOK
  BY DEF Consistent, InOrder
<1>s. /\ stack \in Seq(Activities) /\ DOMAIN stack = 1 .. Len(stack) /\ Len(stack) \in Nat
      /\ stack # << >> /\ Running
  BY <1>0, TypeFacts DEF Running
<1>u. stack' # stack
  OBVIOUS
<1>a. ASSUME NEW op, NEW on, NEW exc, Become(op, on, exc)
      PROVE  k = Len(stack) /\ op # "join"
  BY <1>s, <1>a DEF Become
<1>b. ASSUME NEW op, NEW on, NEW exc, Become(op, on, exc), Top.op # "join" PROVE FALSE
  BY <1>a, <1>b DEF Top
<1>r. ASSUME RunNext PROVE FALSE
  <2>1. PICK i : stack' = Append(stack, Opening(i))
    BY <1>r DEF RunNext
  <2> QED
    BY <1>s, <2>1
<1>v. ASSUME NEW v, Receive(v) PROVE FALSE
  BY <1>a, <1>b, <1>v DEF Receive, AwaitReceives, StillToJoin
<1>1. CASE Await \/ CodeEnds \/ Block
  BY <1>1, <1>b DEF Await, CodeEnds, Block, InCode
<1>2. CASE Resolve \/ GiveUp
  BY <1>2, <1>r, <1>v DEF Resolve, GiveUp
<1>3. CASE Poll
  BY <1>3, <1>b, <1>r, <1>v DEF Poll, Polling
<1>4. CASE TimeoutExpires
  BY <1>4, <1>b DEF TimeoutExpires
<1>5. CASE Finish
  BY <1>5, <1>s DEF Finish
<1>6. CASE AllResolved
  BY <1>6, <1>a DEF AllResolved
<1>7. CASE Spawn \/ Combine \/ Sleep \/ TimerFires \/ Idle \/ Terminated \/ UNCHANGED vars
  BY <1>7, <1>u DEF Spawn, Combine, Sleep, TimerFires, Idle, Terminated, vars
<1> QED
  BY <1>1, <1>2, <1>3, <1>4, <1>5, <1>6, <1>7 DEF Next, Scheduling

\* A concurrent block is left only when every one of its tasks has ended, and normally
\* only when none of them failed.
THEOREM BlocksAreStructured == Spec => BlockIsAllOrNothing
<1>1. Consistent /\ [Next]_vars =>
        [\A k \in DOMAIN stack :
           stack[k].op = "join" /\ k \in DOMAIN stack' /\ stack'[k].op # "join" =>
             \A i \in BlockTasks(stack[k]) :
               st[i] = "absent" /\ (stack'[k].op = "code" => result[i] = "ok")]_vars
  <2> SUFFICES ASSUME Consistent, [Next]_vars, NEW k \in DOMAIN stack, stack[k].op = "join",
                      k \in DOMAIN stack', stack'[k].op # "join",
                      NEW i \in BlockTasks(stack[k])
               PROVE  st[i] = "absent" /\ (stack'[k].op = "code" => result[i] = "ok")
    OBVIOUS
  <2>0. TypeOK /\ BlocksAreJoined
    BY DEF Consistent, InOrder
  <2>1. AllResolved /\ k = Len(stack)
    BY JoinEnds
  <2>2. Running /\ Top = stack[k] /\ Top.on = << >> /\ Sound(Top)
    BY <2>0, <2>1, TopFacts DEF AllResolved
  <2>3. st[i] = "absent" /\ (Top.exc = "ok" => result[i] = "ok")
    BY <2>2 DEF Sound, HasJoined
  <2>4. ASSUME Top.exc # "ok" PROVE stack'[k].op # "code"
    <3>1. Become("finish", << >>, Top.exc)
      BY <2>1, <2>2, <2>4 DEF AllResolved
    <3>2. k \in DOMAIN stack
      OBVIOUS
    <3> QED
      BY <2>1, <3>1, <3>2 DEF Become
  <2> QED
    BY <2>3, <2>4
<1> QED
  BY <1>1, Invariance, PTL DEF Spec, BlockIsAllOrNothing

-----------------------------------------------------------------------------
(* The scheduler implements Promise. *)

\* Which steps change what a handle is.
LEMMA TaskPromise ==
  ASSUME NEW h \in Tasks
  PROVE  /\ h >= next => PromiseOf(h) = [st |-> "none", val |-> "none"]
         /\ ~(h >= next) /\ st[h] \in {"queued", "running"} =>
              PromiseOf(h) = [st |-> "pending", val |-> "none"]
         /\ ~(h >= next) /\ st[h] = "ready" => PromiseOf(h) = [st |-> "settled", val |-> result[h]]
         /\ ~(h >= next) /\ st[h] = "absent" => PromiseOf(h) = [st |-> "consumed", val |-> "none"]
BY DEF PromiseOf

LEMMA TimerPromise ==
  ASSUME NEW h \in Timers
  PROVE  /\ h \notin Tasks
         /\ timer[h] = "unborn" => PromiseOf(h) = [st |-> "none", val |-> "none"]
         /\ timer[h] = "asleep" => PromiseOf(h) = [st |-> "pending", val |-> "none"]
         /\ timer[h] = "elapsed" => PromiseOf(h) = [st |-> "settled", val |-> "ok"]
         /\ timer[h] = "taken" => PromiseOf(h) = [st |-> "consumed", val |-> "none"]
<1>1. h \notin Tasks
  BY DEF Tasks, Timers
<1> QED
  BY <1>1 DEF PromiseOf

\* The same in the next state.
LEMMA TaskPromiseNext ==
  ASSUME NEW h \in Tasks
  PROVE  /\ h >= next' => PromiseOf(h)' = [st |-> "none", val |-> "none"]
         /\ ~(h >= next') /\ st'[h] \in {"queued", "running"} =>
              PromiseOf(h)' = [st |-> "pending", val |-> "none"]
         /\ ~(h >= next') /\ st'[h] = "ready" =>
              PromiseOf(h)' = [st |-> "settled", val |-> result'[h]]
         /\ ~(h >= next') /\ st'[h] = "absent" =>
              PromiseOf(h)' = [st |-> "consumed", val |-> "none"]
BY DEF PromiseOf

LEMMA TimerPromiseNext ==
  ASSUME NEW h \in Timers
  PROVE  /\ timer'[h] = "unborn" => PromiseOf(h)' = [st |-> "none", val |-> "none"]
         /\ timer'[h] = "asleep" => PromiseOf(h)' = [st |-> "pending", val |-> "none"]
         /\ timer'[h] = "elapsed" => PromiseOf(h)' = [st |-> "settled", val |-> "ok"]
         /\ timer'[h] = "taken" => PromiseOf(h)' = [st |-> "consumed", val |-> "none"]
<1>1. h \notin Tasks
  BY DEF Tasks, Timers
<1> QED
  BY <1>1 DEF PromiseOf

\* A task whose place in the table is the same, or that was started, is the same promise.
LEMMA TaskStays ==
  ASSUME TypeOK, NEW h \in Tasks, h >= next <=> h >= next', result'[h] = result[h],
         st'[h] = st[h] \/ (st[h] = "queued" /\ st'[h] = "running")
  PROVE  PromiseOf(h)' = PromiseOf(h)
BY DEF PromiseOf

LEMMA TimerStays ==
  ASSUME NEW h \in Timers, timer'[h] = timer[h]
  PROVE  PromiseOf(h)' = PromiseOf(h)
<1>1. h \notin Tasks
  BY DEF Tasks, Timers
<1> QED
  BY <1>1 DEF PromiseOf

LEMMA PromisesAre ==
  /\ \A h \in Handles : Promises[h] = PromiseOf(h) /\ Promises'[h] = PromiseOf(h)'
  /\ Promises = [h \in Handles |-> PromiseOf(h)]
  /\ Promises' = [h \in Handles |-> PromiseOf(h)']
BY DEF Promises

LEMMA NothingIsSeen ==
  ASSUME TypeOK, UNCHANGED <<next, result, timer, answer>>,
         \A i \in Tasks : st'[i] = st[i] \/ (st[i] = "queued" /\ st'[i] = "running")
  PROVE  UNCHANGED P!vars
<1>1. \A h \in Handles : PromiseOf(h)' = PromiseOf(h)
  BY TaskStays, TimerStays DEF Handles
<1>2. Promises' = Promises
  BY <1>1, PromisesAre
<1> QED
  BY <1>2 DEF P!vars

LEMMA NewTasksAreSeen ==
  ASSUME TypeOK, NEW n \in Nat, n > 0, NEW kind, NEW args \in Seq(Handles),
         QueueTasks(n, kind, args)
  PROVE  P!Next
<1> DEFINE hs == {i \in Tasks : next <= i /\ i < next'}
<1>0. UNCHANGED <<result, timer, answer>>
  BY DEF QueueTasks
<1>1. /\ next \in Int /\ next' \in Int /\ next <= next' /\ Tasks \subseteq Int
      /\ \A i \in Tasks : i < next => st'[i] = st[i]
      /\ \A i \in hs : st'[i] = "queued"
  <2>1. /\ next \in Int /\ HandlesStay
        /\ \A i \in Tasks : i < next => st'[i] = st[i]
        /\ \A i \in Tasks : next <= i /\ i < next' => st'[i] = "queued"
    BY NewTaskFacts
  <2> QED
    BY <2>1 DEF HandlesStay, Tasks
<1>2. ASSUME NEW h \in hs
      PROVE  /\ PromiseOf(h) = [st |-> "none", val |-> "none"]
             /\ PromiseOf(h)' = [st |-> "pending", val |-> "none"]
  <2>1. h \in Tasks /\ h >= next /\ ~(h >= next') /\ st'[h] = "queued"
    BY <1>1, <1>2
  <2> QED
    BY <2>1, TaskPromise, TaskPromiseNext
<1>3. ASSUME NEW h \in Handles, h \notin hs PROVE PromiseOf(h)' = PromiseOf(h)
  <2>1. CASE h \in Timers
    BY <1>0, <2>1, TimerStays
  <2>2. CASE h \in Tasks /\ h < next
    <3>1. (h >= next <=> h >= next') /\ st'[h] = st[h]
      BY <1>1, <2>2
    <3> QED
      BY <1>0, <2>2, <3>1, TaskStays
  <2>3. CASE h \in Tasks /\ h >= next
    <3>1. h >= next'
      BY <1>1, <1>3, <2>3
    <3> QED
      BY <2>3, <3>1, TaskPromise, TaskPromiseNext
  <2> QED
    BY <1>1, <2>1, <2>2, <2>3 DEF Handles
<1>4. hs \in SUBSET Handles
  BY DEF Handles
<1>5. P!Create(hs)
  <2>1. \A h \in hs : Promises[h].st = "none"
    BY <1>2, <1>4, PromisesAre
  <2>2. Promises' = [h \in Handles |-> IF h \in hs THEN P!Pending ELSE Promises[h]]
    BY <1>2, <1>3, <1>4, PromisesAre DEF P!Pending, P!NoValue
  <2> QED
    BY <1>0, <2>1, <2>2 DEF P!Create
<1> QED
  BY <1>4, <1>5 DEF P!Next

LEMMA SleepIsSeen ==
  ASSUME TypeOK, Sleep
  PROVE  P!Next
<1>0. UNCHANGED <<st, result, next, answer>>
  BY DEF Sleep
<1>1. PICK t \in Timers : timer[t] = "unborn" /\ timer' = [timer EXCEPT ![t] = "asleep"]
  BY DEF Sleep
<1>2. /\ t \in Handles /\ PromiseOf(t) = [st |-> "none", val |-> "none"]
      /\ PromiseOf(t)' = [st |-> "pending", val |-> "none"]
  <2>1. timer'[t] = "asleep"
    BY <1>1 DEF TypeOK
  <2> QED
    BY <1>1, <2>1, TimerPromise, TimerPromiseNext DEF Handles
<1>3. \A h \in Handles : h # t => PromiseOf(h)' = PromiseOf(h)
  BY <1>0, <1>1, TaskStays, TimerStays DEF Handles, TypeOK
<1>4. P!Create({t})
  <2>1. \A h \in {t} : Promises[h].st = "none"
    BY <1>2, PromisesAre
  <2>2. Promises' = [h \in Handles |-> IF h \in {t} THEN P!Pending ELSE Promises[h]]
    BY <1>2, <1>3, PromisesAre DEF P!Pending, P!NoValue
  <2> QED
    BY <1>0, <2>1, <2>2 DEF P!Create
<1>5. {t} \in SUBSET Handles
  BY <1>2
<1> QED
  BY <1>4, <1>5 DEF P!Next

\* One handle becomes p, and the others stay.
LEMMA OnePromise ==
  ASSUME NEW h \in Handles, NEW p, PromiseOf(h)' = p,
         \A g \in Handles : g # h => PromiseOf(g)' = PromiseOf(g)
  PROVE  Promises' = [Promises EXCEPT ![h] = p]
BY PromisesAre

LEMMA SettlesAreSeen ==
  ASSUME InOrder, TimerFires \/ Finish
  PROVE  P!Next \/ UNCHANGED P!vars
<1>0. TypeOK
  BY DEF InOrder
<1>1. CASE TimerFires
  <2>0. UNCHANGED <<st, result, next, answer>>
    BY <1>1 DEF TimerFires
  <2>1. PICK t \in Timers : timer[t] = "asleep" /\ timer' = [timer EXCEPT ![t] = "elapsed"]
    BY <1>1 DEF TimerFires
  <2>2. /\ t \in Handles /\ PromiseOf(t) = [st |-> "pending", val |-> "none"]
        /\ PromiseOf(t)' = [st |-> "settled", val |-> "ok"]
    <3>1. timer'[t] = "elapsed"
      BY <1>0, <2>1 DEF TypeOK
    <3> QED
      BY <2>1, <3>1, TimerPromise, TimerPromiseNext DEF Handles
  <2>3. \A h \in Handles : h # t => PromiseOf(h)' = PromiseOf(h)
    BY <1>0, <2>0, <2>1, TaskStays, TimerStays DEF Handles, TypeOK
  <2>4. P!Settle(t, "ok")
    BY <2>0, <2>2, <2>3, OnePromise, PromisesAre DEF P!Settle
  <2> QED
    BY <2>2, <2>4 DEF P!Next, Results
<1>2. CASE Finish
  <2>0. Running /\ UNCHANGED <<next, timer, answer>>
    BY <1>2 DEF Finish
  <2>1. CASE Top.task = Main
    BY <1>0, <1>2, <2>0, <2>1, NothingIsSeen DEF Finish
  <2>2. CASE Top.task # Main
    <3>1. PICK t \in Tasks : t = Top.task
      BY <1>0, <2>0, <2>2, TopIsActivity
    <3>2. PICK v \in Results : v = Top.exc
      BY <1>0, <2>0, TopIsActivity
    <3>3. st' = [st EXCEPT ![t] = "ready"] /\ result' = [result EXCEPT ![t] = v]
      BY <1>2, <2>2, <3>1, <3>2 DEF Finish
    <3>4. st[t] = "running" /\ ~(t >= next)
      <4>1. st[t] = "running"
        BY <1>0, <2>0, <3>1, TopIsActivity, TypeFacts DEF InOrder, RunningIsOnStack, Top
      <4> QED
        BY <4>1 DEF InOrder, HistoryIsOrdered
    <3>5. /\ t \in Handles /\ PromiseOf(t) = [st |-> "pending", val |-> "none"]
          /\ PromiseOf(t)' = [st |-> "settled", val |-> v]
      <4>1. st'[t] = "ready" /\ result'[t] = v /\ ~(t >= next')
        BY <1>0, <2>0, <3>3, <3>4 DEF TypeOK
      <4> QED
        BY <3>4, <4>1, TaskPromise, TaskPromiseNext DEF Handles
    <3>6. \A h \in Handles : h # t => PromiseOf(h)' = PromiseOf(h)
      <4>1. \A h \in Tasks : h # t => st'[h] = st[h] /\ result'[h] = result[h]
        BY <1>0, <3>3 DEF TypeOK
      <4> QED
        BY <1>0, <2>0, <4>1, TaskStays, TimerStays DEF Handles
    <3>7. P!Settle(t, v)
      BY <2>0, <3>5, <3>6, OnePromise, PromisesAre DEF P!Settle
    <3> QED
      BY <3>5, <3>7 DEF P!Next
  <2> QED
    BY <2>1, <2>2
<1> QED
  BY <1>1, <1>2

\* What an activity waits for has been made.
LEMMA AwaitedIsMade ==
  ASSUME TypeOK, BlocksAreJoined, Running, NEW m \in DOMAIN Top.on, NEW h \in Handles,
         h = Top.on[m]
  PROVE  (h \in Tasks /\ ~(h >= next)) \/ (h \in Timers /\ timer[h] # "unborn")
<1>1. h \in Visible \/ h \in BlockTasks(Top)
  BY TopFacts DEF Sound, WaitsForVisible, JoinsItsOwn
<1>2. \A i \in Tasks : i < next => ~(i >= next)
  BY DEF TypeOK, Tasks
<1> QED
  BY <1>1, <1>2 DEF Visible, BlockTasks

LEMMA TakesAreSeen ==
  ASSUME TypeOK, NEW h \in Handles, Available(h), Take(h),
         (h \in Tasks /\ ~(h >= next)) \/ (h \in Timers /\ timer[h] # "unborn")
  PROVE  P!Next
<1>0. /\ UNCHANGED <<result, next>> /\ Removed(h)
      /\ answer' = [on |-> h, val |-> ValueOf(h)]
  BY DEF Take
<1>1. \A g \in Handles : g # h => PromiseOf(g)' = PromiseOf(g)
  <2>1. /\ \A i \in Tasks : i # h => st'[i] = st[i]
        /\ \A t \in Timers : t # h => timer'[t] = timer[t]
    BY <1>0 DEF Removed, TypeOK
  <2> QED
    BY <1>0, <2>1, TaskStays, TimerStays DEF Handles
<1>2. CASE h \in Tasks
  <2>0. h \notin Timers /\ st'[h] = "absent" /\ ~(h >= next')
    BY <1>0, <1>2 DEF Removed, TypeOK, Tasks, Timers
  <2>1. PromiseOf(h)' = [st |-> "consumed", val |-> "none"]
    BY <1>2, <2>0, TaskPromiseNext
  <2>2. CASE st[h] = "ready"
    <3>1. PromiseOf(h) = [st |-> "settled", val |-> result[h]] /\ ValueOf(h) = result[h]
      BY <1>2, <2>0, <2>2, TaskPromise DEF ValueOf
    <3>2. P!Consume(h)
      BY <1>0, <1>1, <2>1, <3>1, OnePromise, PromisesAre DEF P!Consume, P!NoValue
    <3> QED
      BY <3>2 DEF P!Next
  <2>3. CASE st[h] = "absent"
    <3>1. PromiseOf(h) = [st |-> "consumed", val |-> "none"] /\ ValueOf(h) = "nothing"
      BY <1>2, <2>0, <2>3, TaskPromise DEF ValueOf
    <3>2. \A g \in Handles : PromiseOf(g)' = PromiseOf(g)
      BY <1>1, <2>1, <3>1
    <3>3. Promises' = Promises
      BY <3>2, PromisesAre
    <3>4. P!AskAgain(h)
      BY <1>0, <3>1, <3>3, PromisesAre DEF P!AskAgain
    <3> QED
      BY <3>4 DEF P!Next
  <2> QED
    BY <1>2, <2>2, <2>3 DEF Available
<1>3. CASE h \in Timers
  <2>0. h \notin Tasks /\ timer'[h] = "taken"
    BY <1>0, <1>3, TimerPromise DEF Removed, TypeOK
  <2>1. PromiseOf(h)' = [st |-> "consumed", val |-> "none"]
    BY <1>3, <2>0, TimerPromiseNext
  <2>2. CASE timer[h] = "elapsed"
    <3>1. PromiseOf(h) = [st |-> "settled", val |-> "ok"] /\ ValueOf(h) = "ok"
      BY <1>3, <2>0, <2>2, TimerPromise DEF ValueOf
    <3>2. P!Consume(h)
      BY <1>0, <1>1, <2>1, <3>1, OnePromise, PromisesAre DEF P!Consume, P!NoValue
    <3> QED
      BY <3>2 DEF P!Next
  <2>3. CASE timer[h] = "taken"
    <3>1. PromiseOf(h) = [st |-> "consumed", val |-> "none"] /\ ValueOf(h) = "nothing"
      BY <1>3, <2>0, <2>3, TimerPromise DEF ValueOf
    <3>2. \A g \in Handles : PromiseOf(g)' = PromiseOf(g)
      BY <1>1, <2>1, <3>1
    <3>3. Promises' = Promises
      BY <3>2, PromisesAre
    <3>4. P!AskAgain(h)
      BY <1>0, <3>1, <3>3, PromisesAre DEF P!AskAgain
    <3> QED
      BY <3>4 DEF P!Next
  <2> QED
    BY <1>3, <2>0, <2>2, <2>3 DEF Available
<1> QED
  BY <1>2, <1>3 DEF Handles

LEMMA RefusalIsSeen ==
  ASSUME TypeOK, BlocksAreJoined, GiveUp
  PROVE  P!Next
<1>0. Running /\ Top.on # << >> /\ UNCHANGED <<st, result, next, timer>>
  BY DEF GiveUp, Resolving
<1>1. Top.on \in Seq(Handles)
  BY <1>0, TopIsActivity
<1>2. PICK h \in Tasks : h = Head(Top.on) /\ 1 \in DOMAIN Top.on /\ h = Top.on[1]
  BY <1>0, <1>1 DEF GiveUp
<1>3. h \in Handles /\ ~(h >= next) /\ st[h] \in {"queued", "running"}
  <2>1. h \in Handles /\ h \notin Timers
    BY DEF Handles, Tasks, Timers
  <2>2. ~(h >= next)
    BY <1>0, <1>2, <2>1, AwaitedIsMade
  <2> QED
    BY <1>2, <2>1, <2>2 DEF GiveUp, Available, TypeOK
<1>4. PromiseOf(h) = [st |-> "pending", val |-> "none"]
  BY <1>3, TaskPromise
<1>5. Promises' = Promises
  <2>1. \A g \in Handles : PromiseOf(g)' = PromiseOf(g)
    BY <1>0, TaskStays, TimerStays DEF Handles
  <2> QED
    BY <2>1, PromisesAre
<1>6. P!Refuse(h)
  BY <1>2, <1>3, <1>4, <1>5, PromisesAre DEF GiveUp, P!Refuse
<1> QED
  BY <1>3, <1>6 DEF P!Next

LEMMA RunNextIsUnseen ==
  ASSUME TypeOK, RunNext
  PROVE  UNCHANGED P!vars
<1>1. PICK k \in QueuedAt : st' = [st EXCEPT ![queue[k]] = "running"]
                            /\ UNCHANGED <<result, next, timer, answer>>
  BY DEF RunNext
<1>2. \A i \in Tasks : st'[i] = st[i] \/ (st[i] = "queued" /\ st'[i] = "running")
  BY <1>1 DEF TypeOK, QueuedAt
<1> QED
  BY <1>1, <1>2, NothingIsSeen

LEMMA StepIsSeen ==
  ASSUME Consistent, [Next]_vars
  PROVE  P!Next \/ UNCHANGED P!vars
<1>0. TypeOK /\ InOrder /\ BlocksAreJoined
  BY DEF Consistent, InOrder
<1>a. ASSUME NEW n \in Nat, n > 0, NEW kind, NEW args \in Seq(Handles),
             QueueTasks(n, kind, args)
      PROVE  P!Next
  BY <1>0, <1>a, NewTasksAreSeen
<1>b. ASSUME Running, NEW m \in DOMAIN Top.on, Available(Top.on[m]), Take(Top.on[m])
      PROVE  P!Next
  <2>1. PICK h \in Handles : h = Top.on[m]
    BY <1>0, <1>b, TopIsActivity, SequenceFacts
  <2> QED
    BY <1>0, <1>b, <2>1, AwaitedIsMade, TakesAreSeen
<1>c. ASSUME UNCHANGED <<st, result, next, timer, answer>> PROVE UNCHANGED P!vars
  BY <1>0, <1>c, NothingIsSeen
<1>q. << >> \in Seq(Handles) /\ 1 \in Nat /\ 1 > 0
  OBVIOUS
<1>1. CASE Spawn
  BY <1>1, <1>a, <1>q DEF Spawn
<1>2. CASE Combine
  <2>1. CASE QueueTasks(1, "ready", << >>)
    BY <1>a, <1>q, <2>1
  <2>2. CASE \E kind \in {"gather", "any"}, hs \in Lists(Visible) : QueueTasks(1, kind, hs)
    BY <1>0, <1>a, <1>q, <2>2, VisibleLists
  <2>3. CASE \E h \in Visible : QueueTasks(1, "timeout", <<h>>)
    <3>1. PICK h \in Visible : QueueTasks(1, "timeout", <<h>>)
      BY <2>3
    <3>2. <<h>> \in Seq(Handles)
      BY DEF Visible, Handles
    <3> QED
      BY <1>a, <1>q, <3>1, <3>2
  <2> QED
    BY <1>2, <2>1, <2>2, <2>3 DEF Combine
<1>3. CASE Block
  <2>1. PICK n \in 1 .. MaxList : QueueTasks(n, "block", << >>)
    BY <1>3 DEF Block
  <2>2. n \in Nat /\ n > 0
    OBVIOUS
  <2> QED
    BY <1>a, <1>q, <2>1, <2>2
<1>4. CASE Sleep \/ TimerFires \/ Finish
  BY <1>0, <1>4, SleepIsSeen, SettlesAreSeen
<1>5. CASE Await \/ CodeEnds \/ AllResolved \/ TimeoutExpires \/ Idle \/ Terminated \/ UNCHANGED vars
  BY <1>5, <1>c DEF Await, CodeEnds, AllResolved, TimeoutExpires, Idle, Terminated, vars
<1>6. CASE Resolve
  <2>1. Running /\ Top.on # << >>
    BY <1>6 DEF Resolve, Resolving
  <2>2. Top.on \in Seq(Handles)
    BY <1>0, <2>1, TopIsActivity
  <2>3. 1 \in DOMAIN Top.on /\ Top.on[1] = Head(Top.on)
    BY <2>1, <2>2
  <2> QED
    BY <1>0, <1>6, <1>b, <2>1, <2>3, RunNextIsUnseen DEF Resolve
<1>7. CASE GiveUp
  BY <1>0, <1>7, RefusalIsSeen
<1>8. CASE Poll
  <2>1. CASE \E k \in DOMAIN Top.on : Available(Top.on[k]) /\ Take(Top.on[k])
    BY <1>8, <1>b, <2>1 DEF Poll, Polling
  <2>2. CASE RunNext
    BY <1>0, <2>2, RunNextIsUnseen
  <2>3. CASE UNCHANGED <<st, body, result, queue, next, timer, answer>>
    BY <1>c, <2>3
  <2> QED
    BY <1>8, <2>1, <2>2, <2>3 DEF Poll
<1> QED
  BY <1>1, <1>2, <1>3, <1>4, <1>5, <1>6, <1>7, <1>8 DEF Next, Scheduling

LEMMA InitIsSeen ==
  ASSUME Init
  PROVE  P!Init
<1>1. /\ next = 1 /\ timer = [t \in Timers |-> "unborn"]
      /\ answer = [on |-> NoOne, val |-> "none"]
  BY DEF Init
<1>2. ASSUME NEW h \in Handles PROVE PromiseOf(h) = [st |-> "none", val |-> "none"]
  <2>1. CASE h \in Tasks
    BY <1>1, <2>1, TaskPromise DEF Tasks
  <2>2. CASE h \in Timers
    BY <1>1, <2>2, TimerPromise
  <2> QED
    BY <2>1, <2>2 DEF Handles
<1>3. Promises = [h \in Handles |-> [st |-> "none", val |-> "none"]]
  BY <1>2, PromisesAre
<1> QED
  BY <1>1, <1>3 DEF P!Init, P!NoValue

\* Every handle of the interpreter settles once, hands its value out at most once, and
\* answers `nothing` ever after: each step of the scheduler is a step of Promise or none.
THEOREM HandlesArePromises == Spec => KeepsPromises
<1>1. Init => P!Init
  BY InitIsSeen
<1>2. Consistent /\ [Next]_vars => [P!Next]_(P!vars)
  BY StepIsSeen
<1> QED
  BY <1>1, <1>2, Invariance, PTL DEF Spec, KeepsPromises, P!Spec
=============================================================================
