---------------------- MODULE DeferredSchedulerProofs ----------------------
(* Theorems about DeferredScheduler, for every number of handles, hence of *)
(* threads, and lists of any length.                                       *)
EXTENDS DeferredScheduler, SequenceTheorems, TLAPS

Activities == [task : Threads, op : Ops, on : Seq(Handles), held : BOOLEAN, exc : Results]
Answered == Results \cup {"nothing", "foreign", "deadlock", "none"}

USE BoundsAssumption, KindsAssumption

-----------------------------------------------------------------------------
(* Sequences, stacks and queues element by element.                        *)

LEMMA SequenceFacts ==
  ASSUME NEW S, NEW s \in Seq(S)
  PROVE  /\ DOMAIN s = 1 .. Len(s) /\ Len(s) \in Nat
         /\ \A k \in DOMAIN s : s[k] \in S
         /\ s # << >> <=> 1 \in DOMAIN s
         /\ s # << >> =>
              /\ Head(s) = s[1] /\ Tail(s) \in Seq(S)
              /\ \A k \in DOMAIN Tail(s) : k + 1 \in DOMAIN s /\ Tail(s)[k] = s[k + 1]
              /\ \A k \in DOMAIN s : k # 1 => k - 1 \in DOMAIN Tail(s)
<1>1. DOMAIN s = 1 .. Len(s) /\ Len(s) \in Nat /\ \A k \in DOMAIN s : s[k] \in S
  OBVIOUS
<1>2. s # << >> <=> 1 \in DOMAIN s
  BY <1>1, EmptySeq
<1>3. ASSUME s # << >>
      PROVE  /\ Head(s) = s[1] /\ Tail(s) \in Seq(S)
             /\ \A k \in DOMAIN Tail(s) : k + 1 \in DOMAIN s /\ Tail(s)[k] = s[k + 1]
             /\ \A k \in DOMAIN s : k # 1 => k - 1 \in DOMAIN Tail(s)
  <2>1. Head(s) = s[1] /\ Tail(s) \in Seq(S) /\ Len(Tail(s)) = Len(s) - 1
        /\ \A k \in 1 .. Len(Tail(s)) : Tail(s)[k] = s[k + 1]
    BY <1>3
  <2>2. DOMAIN Tail(s) = 1 .. Len(s) - 1
    BY <2>1
  <2> QED
    BY <1>1, <2>1, <2>2
<1> QED
  BY <1>1, <1>2, <1>3

LEMMA StackFacts ==
  ASSUME TypeOK, NEW t \in Threads
  PROVE  /\ stack[t] \in Seq(Activities)
         /\ DOMAIN stack[t] = 1 .. Len(stack[t]) /\ Len(stack[t]) \in Nat
         /\ Running(t) <=> 1 \in DOMAIN stack[t]
         /\ \A k \in DOMAIN stack[t] : stack[t][k] \in Activities
<1>1. stack[t] \in Seq(Activities)
  BY DEF TypeOK, Activities
<1> QED
  BY <1>1, SequenceFacts DEF Running

LEMMA TopFacts ==
  ASSUME TypeOK, NEW t \in Threads, Running(t)
  PROVE  /\ Len(stack[t]) \in DOMAIN stack[t]
         /\ \A k \in DOMAIN stack[t] : k <= Len(stack[t])
         /\ Top(t) = stack[t][Len(stack[t])]
         /\ Top(t) \in Activities
         /\ Top(t).task \in Threads /\ Top(t).op \in Ops /\ Top(t).on \in Seq(Handles)
         /\ Top(t).held \in BOOLEAN /\ Top(t).exc \in Results
<1>1. Len(stack[t]) \in DOMAIN stack[t]
  BY StackFacts
<1> QED
  BY <1>1, StackFacts DEF Top, Activities

LEMMA QueueFacts ==
  ASSUME TypeOK, NEW t \in Threads
  PROVE  /\ queue[t] \in Seq(Handles)
         /\ DOMAIN queue[t] = 1 .. Len(queue[t]) /\ Len(queue[t]) \in Nat
         /\ \A k \in DOMAIN queue[t] : queue[t][k] \in Handles
         /\ queue[t] # << >> <=> 1 \in DOMAIN queue[t]
<1>1. queue[t] \in Seq(Handles)
  BY DEF TypeOK
<1> QED
  BY <1>1, SequenceFacts

\* A step that changes nothing of the stacks but the activity on top of one.
TopBecomes(t, a) == stack' = [stack EXCEPT ![t][Len(stack[t])] = a]

LEMMA TopBecomesFacts ==
  ASSUME TypeOK, NEW t \in Threads, Running(t), NEW a \in Activities, TopBecomes(t, a)
  PROVE  /\ stack' \in [Threads -> Seq(Activities)]
         /\ \A u \in Threads : DOMAIN stack'[u] = DOMAIN stack[u]
         /\ stack'[t][Len(stack[t])] = a
         /\ \A u \in Threads : \A k \in DOMAIN stack[u] :
              u # t \/ k # Len(stack[t]) => stack'[u][k] = stack[u][k]
<1> DEFINE n == Len(stack[t])
<1>0. n \in 1 .. Len(stack[t])
  BY TopFacts, StackFacts
<1>1. stack \in [Threads -> Seq(Activities)] /\ n \in 1 .. Len(stack[t])
  BY <1>0 DEF TypeOK, Activities
<1>2. stack' = [stack EXCEPT ![t] = [stack[t] EXCEPT ![n] = a]]
  BY DEF TopBecomes
<1>3. [stack[t] EXCEPT ![n] = a] \in Seq(Activities)
  BY <1>1
<1>4. stack'[t] = [stack[t] EXCEPT ![n] = a] /\ \A u \in Threads : u # t => stack'[u] = stack[u]
  BY <1>1, <1>2
<1> QED
  BY <1>1, <1>2, <1>3, <1>4

\* Become, in these terms.
LEMMA BecomeFacts ==
  ASSUME TypeOK, NEW t \in Threads, Running(t),
         NEW op \in Ops, NEW on \in Seq(Handles), NEW exc \in Results,
         Become(t, op, on, exc)
  PROVE  \E a \in Activities :
           /\ a = [task |-> Top(t).task, op |-> op, on |-> on, held |-> FALSE, exc |-> exc]
           /\ TopBecomes(t, a)
<1> DEFINE b == [task |-> Top(t).task, op |-> op, on |-> on, held |-> FALSE, exc |-> exc]
<1>1. b \in Activities
  BY TopFacts DEF Activities
<1>2. TopBecomes(t, b)
  BY DEF Become, TopBecomes, Top
<1> QED
  BY <1>1, <1>2

\* What the activity on top becomes when it receives an answer.
Receives(t, a, v) ==
  /\ TopBecomes(t, a) /\ a.task = Top(t).task /\ ~a.held
  /\ \/ /\ Top(t).op # "join" /\ a.op \in {"code", "finish"} /\ a.on = << >>
        /\ a.op = "code" => Top(t).op = "await"
     \/ /\ Top(t).op = "join" /\ a.op = "join" /\ a.on = Tail(Top(t).on)
        /\ a.exc = IF v \in Failures THEN "panic" ELSE Top(t).exc
     \/ Top(t).op = "gather" /\ a.op = "gather" /\ a.on = Tail(Top(t).on)

LEMMA ReceiveFacts ==
  ASSUME TypeOK, NEW t \in Threads, Running(t), NEW v, Receive(t, v),
         Top(t).op \in {"any", "timeout"} \/ Top(t).on # << >>
  PROVE  \E a \in Activities : Receives(t, a, v)
<1>0. << >> \in Seq(Handles) /\ Top(t).on \in Seq(Handles) /\ Top(t).exc \in Results
  BY TopFacts
<1> USE <1>0 DEF Ops, Results
<1>1. ASSUME NEW op \in {"code", "finish"}, NEW exc \in Results, Top(t).op # "join",
             op = "code" => Top(t).op = "await", Become(t, op, << >>, exc)
      PROVE  \E a \in Activities : Receives(t, a, v)
  <2>1. PICK a \in Activities :
          /\ a = [task |-> Top(t).task, op |-> op, on |-> << >>, held |-> FALSE, exc |-> exc]
          /\ TopBecomes(t, a)
    <3> op \in Ops
      BY <1>1
    <3> HIDE DEF Ops, Results
    <3> QED
      BY <1>0, <1>1, BecomeFacts, ZenonT(40)
  <2>2. Receives(t, a, v)
    BY <1>1, <2>1 DEF Receives
  <2> QED
    BY <2>2
<1>2. CASE Top(t).op = "await" /\ AwaitReceives(t, v)
  BY <1>1, <1>2 DEF AwaitReceives
<1>3. CASE Top(t).op = "join"
  <2>1. Become(t, "join", Tail(Top(t).on), IF v \in Failures THEN "panic" ELSE Top(t).exc)
    BY <1>3 DEF Receive, StillToJoin
  <2>2. Tail(Top(t).on) \in Seq(Handles)
    BY <1>3
  <2>3. ASSUME NEW exc \in Results, exc = IF v \in Failures THEN "panic" ELSE Top(t).exc
        PROVE  \E a \in Activities : Receives(t, a, v)
    <3>1. PICK a \in Activities :
            /\ a = [task |-> Top(t).task, op |-> "join", on |-> Tail(Top(t).on),
                    held |-> FALSE, exc |-> exc]
            /\ TopBecomes(t, a)
      <4> "join" \in Ops
        OBVIOUS
      <4> HIDE DEF Ops, Results
      <4> QED
        BY <2>1, <2>2, <2>3, BecomeFacts
    <3>2. Receives(t, a, v)
      BY <1>3, <2>3, <3>1 DEF Receives
    <3> QED
      BY <3>2
  <2> QED
    BY <2>3
<1>4. CASE Top(t).op = "gather" /\ v \notin Failures /\ Become(t, "gather", Tail(Top(t).on), "ok")
  <2>1. Tail(Top(t).on) \in Seq(Handles)
    BY <1>4
  <2>2. PICK a \in Activities :
          /\ a = [task |-> Top(t).task, op |-> "gather", on |-> Tail(Top(t).on),
                  held |-> FALSE, exc |-> "ok"]
          /\ TopBecomes(t, a)
    <3> "gather" \in Ops /\ "ok" \in Results
      OBVIOUS
    <3> HIDE DEF Ops, Results
    <3> QED
      BY <1>4, <2>1, BecomeFacts
  <2>3. Receives(t, a, v)
    BY <1>4, <2>2 DEF Receives
  <2> QED
    BY <2>3
<1>5. CASE Top(t).op \in {"any", "timeout"} /\ Become(t, "finish", << >>, "ok")
  BY <1>1, <1>5
<1>6. CASE Top(t).op \in {"gather", "any", "timeout"} /\ Become(t, "finish", << >>, Raised(v))
  <2>1. Raised(v) \in Results
    BY DEF Raised
  <2> QED
    BY <1>1, <1>6, <2>1
<1> QED
  BY <1>2, <1>3, <1>4, <1>5, <1>6 DEF Receive

LEMMA TakeType ==
  ASSUME TypeOK, NEW t \in Threads, NEW h \in Handles, Take(t, h)
  PROVE  /\ slot' \in [Handles -> {"unborn", "full", "empty"}]
         /\ entry' \in [Handles -> {"none", "queued", "sleeping", "running", "ready", "gone"}]
         /\ answer' \in [on : Handles \cup {NoOne}, to : Threads, val : Answered]
         /\ ValueFor(t, h) \in Results \cup {"nothing", "foreign"}
         /\ UNCHANGED <<made, result, queue, next>>
BY DEF Take, Removed, Answers, ValueFor, TypeOK, Answered

-----------------------------------------------------------------------------
(* Creating handles.                                                       *)

New(n) == next .. next + n - 1

LEMMA CreateFacts ==
  ASSUME TypeOK, NEW t \in Threads, Running(t), NEW n \in Nat, n > 0, NEW kind,
         NEW args \in Seq(Handles), Create(t, n, kind, args)
  PROVE  /\ kind \in AllKinds /\ next' = next + n /\ New(n) \subseteq Handles /\ next \in New(n)
         /\ FreshIds(n) \in Seq(Handles) /\ FreshIds(n) = [k \in 1 .. n |-> next + k - 1]
         /\ {FreshIds(n)[k] : k \in 1 .. n} = New(n)
         /\ made' = [h \in Handles |->
              IF h \in New(n) THEN [kind |-> kind, args |-> args, by |-> Top(t).task, owner |-> t]
              ELSE made[h]]
         /\ slot' = [h \in Handles |-> IF h \in New(n) THEN "full" ELSE slot[h]]
         /\ entry' = [h \in Handles |-> IF h \in New(n) THEN Entry(kind) ELSE entry[h]]
         /\ \A u \in Threads : queue'[u] =
              IF u = t /\ IsQueued(kind) THEN queue[u] \o FreshIds(n) ELSE queue[u]
         /\ UNCHANGED <<result, answer>>
<1>0. next \in 1 .. MaxHandles + 1 /\ MaxHandles \in Nat /\ next + n - 1 <= MaxHandles
  BY DEF TypeOK, Create
<1>1. New(n) \subseteq Handles /\ next \in New(n)
  BY <1>0 DEF New, Handles
<1>2. FreshIds(n) = [k \in 1 .. n |-> next + k - 1] /\ \A k \in 1 .. n : next + k - 1 \in New(n)
  BY <1>0 DEF FreshIds, New
<1>3. FreshIds(n) \in Seq(Handles)
  BY <1>1, <1>2
<1>4. {FreshIds(n)[k] : k \in 1 .. n} = New(n)
  <2>1. ASSUME NEW h \in New(n) PROVE h \in {FreshIds(n)[k] : k \in 1 .. n}
    <3> DEFINE k == h - next + 1
    <3>1. k \in 1 .. n /\ next + k - 1 = h
      BY <1>0, <2>1 DEF New
    <3> QED
      BY <1>2, <3>1
  <2>2. \A k \in 1 .. n : FreshIds(n)[k] \in New(n)
    BY <1>2
  <2> QED
    BY <2>1, <2>2
<1>5. /\ kind \in AllKinds /\ next' = next + n /\ UNCHANGED <<result, answer>>
      /\ made' = [h \in Handles |->
              IF h \in New(n) THEN [kind |-> kind, args |-> args, by |-> Top(t).task, owner |-> t]
              ELSE made[h]]
      /\ slot' = [h \in Handles |-> IF h \in New(n) THEN "full" ELSE slot[h]]
      /\ entry' = [h \in Handles |-> IF h \in New(n) THEN Entry(kind) ELSE entry[h]]
      /\ queue' = [queue EXCEPT ![t] = IF IsQueued(kind) THEN @ \o FreshIds(n) ELSE @]
  BY <1>4 DEF Create, PushBack
<1>6. \A u \in Threads : queue'[u] =
              IF u = t /\ IsQueued(kind) THEN queue[u] \o FreshIds(n) ELSE queue[u]
  BY <1>5 DEF TypeOK
<1> QED
  BY <1>1, <1>2, <1>3, <1>4, <1>5, <1>6

LEMMA CreateType ==
  ASSUME TypeOK, NEW t \in Threads, Running(t), NEW n \in Nat, n > 0, NEW kind,
         NEW args \in Seq(Handles), Create(t, n, kind, args)
  PROVE  /\ made' \in [Handles -> [kind : AllKinds, args : Seq(Handles), by : Threads, owner : Threads]]
         /\ slot' \in [Handles -> {"unborn", "full", "empty"}]
         /\ entry' \in [Handles -> {"none", "queued", "sleeping", "running", "ready", "gone"}]
         /\ queue' \in [Threads -> Seq(Handles)]
         /\ next' \in 1 .. MaxHandles + 1
         /\ UNCHANGED <<result, answer>>
<1>0. /\ kind \in AllKinds /\ FreshIds(n) \in Seq(Handles)
      /\ made' = [h \in Handles |->
              IF h \in New(n) THEN [kind |-> kind, args |-> args, by |-> Top(t).task, owner |-> t]
              ELSE made[h]]
      /\ slot' = [h \in Handles |-> IF h \in New(n) THEN "full" ELSE slot[h]]
      /\ entry' = [h \in Handles |-> IF h \in New(n) THEN Entry(kind) ELSE entry[h]]
  BY CreateFacts
<1>1. made' \in [Handles -> [kind : AllKinds, args : Seq(Handles), by : Threads, owner : Threads]]
  BY <1>0, TopFacts DEF TypeOK
<1>2. slot' \in [Handles -> {"unborn", "full", "empty"}]
  BY <1>0 DEF TypeOK
<1>3. entry' \in [Handles -> {"none", "queued", "sleeping", "running", "ready", "gone"}]
  BY <1>0 DEF TypeOK, Entry
<1>4. queue' \in [Threads -> Seq(Handles)]
  <2>1. queue[t] \in Seq(Handles) /\ FreshIds(n) \in Seq(Handles)
    BY <1>0 DEF TypeOK
  <2>2. queue[t] \o FreshIds(n) \in Seq(Handles)
    BY <2>1
  <2> QED
    BY <2>1, <2>2 DEF Create, PushBack, TypeOK
<1>5. next' \in 1 .. MaxHandles + 1
  <2>1. next \in 1 .. MaxHandles + 1 /\ next' = next + n /\ next + n - 1 <= MaxHandles
        /\ MaxHandles \in Nat
    BY DEF Create, TypeOK
  <2> QED
    BY <2>1
<1> QED
  BY <1>1, <1>2, <1>3, <1>4, <1>5 DEF Create

-----------------------------------------------------------------------------
(* What the steps that start, end or fork an activity do to the stacks.    *)

LEMMA RunNextFacts ==
  ASSUME Consistent, NEW t \in Threads, RunNext(t)
  PROVE  \E i \in Handles :
           /\ 1 \in DOMAIN queue[t] /\ i = queue[t][1]
           /\ entry[i] = "queued" /\ made[i].owner = t
           /\ \A h \in Handles : entry[h] = "queued" /\ made[h].owner = t => i <= h
           /\ IsQueued(made[i].kind)
           /\ queue' = [queue EXCEPT ![t] = SubSeq(@, 2, Len(@))]
           /\ entry' = [entry EXCEPT ![i] = "running"]
           /\ stack' = [stack EXCEPT ![t] = Append(@, Opening(i))]
           /\ Opening(i) \in Activities
           /\ Opening(i).task = i /\ ~Opening(i).held
           /\ \/ Opening(i).op = "code" /\ Opening(i).on = << >>
              \/ Opening(i).op \in {"gather", "any", "timeout"} /\ Opening(i).on = made[i].args
           /\ UNCHANGED <<made, slot, result, next, answer>>
<1>0. TypeOK /\ QueueIsExact
  BY DEF Consistent
<1> PICK k \in QueuedAt(t) :
      /\ IsFirst(t, k)
      /\ queue' = [queue EXCEPT ![t] = SubSeq(@, k + 1, Len(@))]
      /\ entry' = [entry EXCEPT ![queue[t][k]] = "running"]
      /\ stack' = [stack EXCEPT ![t] = Append(@, Opening(queue[t][k]))]
      /\ UNCHANGED <<made, slot, result, next, answer>>
  BY DEF RunNext
<1>1. \A j \in DOMAIN queue[t] : queue[t][j] \in Handles /\ entry[queue[t][j]] = "queued"
                                  /\ made[queue[t][j]].owner = t
  BY <1>0, QueueFacts DEF QueueIsExact
<1>2. k \in DOMAIN queue[t] /\ 1 \in DOMAIN queue[t]
  BY <1>0, QueueFacts DEF QueuedAt
<1>3. k = 1
  <2>1. 1 \in QueuedAt(t)
    BY <1>1, <1>2 DEF QueuedAt
  <2>2. k <= 1 /\ k \in 1 .. Len(queue[t]) /\ Len(queue[t]) \in Nat
    BY <1>0, <1>2, <2>1, QueueFacts DEF IsFirst
  <2> QED
    BY <2>2
<1> DEFINE i == queue[t][1]
<1>4. i \in Handles /\ entry[i] = "queued" /\ made[i].owner = t /\ IsQueued(made[i].kind)
  BY <1>0, <1>1, <1>2 DEF QueueIsExact
<1>5. ASSUME NEW h \in Handles, entry[h] = "queued", made[h].owner = t
      PROVE  i <= h
  <2>1. PICK m \in DOMAIN queue[t] : queue[t][m] = h
    BY <1>0, <1>5 DEF QueueIsExact
  <2>2. m = 1 \/ 1 < m
    BY <1>0, QueueFacts
  <2>3. i = h \/ i < h
    BY <1>0, <1>2, <2>1, <2>2 DEF QueueIsExact
  <2> QED
    BY <1>4, <1>5, <2>3 DEF Handles
<1>6. made[i].kind \in AllKinds /\ made[i].args \in Seq(Handles)
  BY <1>0, <1>4 DEF TypeOK
<1>7. /\ Opening(i) \in Activities /\ Opening(i).task = i /\ ~Opening(i).held
      /\ \/ Opening(i).op = "code" /\ Opening(i).on = << >>
         \/ Opening(i).op \in {"gather", "any", "timeout"} /\ Opening(i).on = made[i].args
  <2>1. i \in Threads /\ << >> \in Seq(Handles)
    BY <1>4 DEF Threads
  <2>2. CASE made[i].kind \in {"spawn", "block"}
    <3>1. Opening(i) = [task |-> i, op |-> "code", on |-> << >>, held |-> FALSE, exc |-> "ok"]
      BY <2>2 DEF Opening, Activity
    <3> QED
      BY <2>1, <3>1 DEF Activities, Ops, Results
  <2>3. CASE made[i].kind \notin {"spawn", "block"}
    <3>1. made[i].kind \in {"gather", "any", "timeout"}
      BY <1>4, <1>6, <2>3 DEF IsQueued, AllKinds
    <3>2. Opening(i) = [task |-> i, op |-> made[i].kind, on |-> made[i].args,
                        held |-> FALSE, exc |-> "ok"]
      BY <2>3 DEF Opening, Activity
    <3> QED
      BY <1>6, <2>1, <3>1, <3>2 DEF Activities, Ops, Results
  <2> QED
    BY <2>2, <2>3
<1>8. /\ queue' = [queue EXCEPT ![t] = SubSeq(@, 2, Len(@))]
      /\ entry' = [entry EXCEPT ![i] = "running"]
      /\ stack' = [stack EXCEPT ![t] = Append(@, Opening(i))]
      /\ UNCHANGED <<made, slot, result, next, answer>>
  BY <1>3
<1>9. i = queue[t][1]
  OBVIOUS
<1> HIDE DEF i
<1> QED
  BY <1>2, <1>4, <1>5, <1>7, <1>8, <1>9

\* Pushing an activity on a stack.
LEMMA PushFacts ==
  ASSUME TypeOK, NEW t \in Threads, NEW a \in Activities,
         stack' = [stack EXCEPT ![t] = Append(@, a)]
  PROVE  /\ stack' \in [Threads -> Seq(Activities)]
         /\ Len(stack[t]) + 1 \in DOMAIN stack'[t] /\ Len(stack[t]) + 1 \notin DOMAIN stack[t]
         /\ stack'[t][Len(stack[t]) + 1] = a
         /\ \A u \in Threads : \A k \in DOMAIN stack[u] :
              k \in DOMAIN stack'[u] /\ stack'[u][k] = stack[u][k]
         /\ \A u \in Threads : \A k \in DOMAIN stack'[u] :
              k \in DOMAIN stack[u] \/ (u = t /\ k = Len(stack[t]) + 1)
         /\ \A k \in DOMAIN stack[t] : k < Len(stack[t]) + 1
<1>1. stack \in [Threads -> Seq(Activities)] /\ stack[t] \in Seq(Activities)
  BY DEF TypeOK, Activities
<1>2. Append(stack[t], a) \in Seq(Activities)
  BY <1>1
<1>3. stack'[t] = Append(stack[t], a) /\ \A u \in Threads : u # t => stack'[u] = stack[u]
  BY <1>1
<1>4. /\ DOMAIN stack[t] = 1 .. Len(stack[t]) /\ Len(stack[t]) \in Nat
      /\ DOMAIN stack'[t] = 1 .. Len(stack[t]) + 1
      /\ stack'[t][Len(stack[t]) + 1] = a
      /\ \A k \in DOMAIN stack[t] : stack'[t][k] = stack[t][k]
  BY <1>1, <1>3
<1>5. stack' \in [Threads -> Seq(Activities)]
  BY <1>1, <1>2
<1> QED
  BY <1>3, <1>4, <1>5

\* Taking the activity on top off its stack.
LEMMA PopFacts ==
  ASSUME TypeOK, NEW t \in Threads, Running(t),
         stack' = [stack EXCEPT ![t] = SubSeq(@, 1, Len(@) - 1)]
  PROVE  /\ stack' \in [Threads -> Seq(Activities)]
         /\ \A u \in Threads : u # t => stack'[u] = stack[u]
         /\ \A k : k \in DOMAIN stack'[t] <=> k \in DOMAIN stack[t] /\ k # Len(stack[t])
         /\ \A u \in Threads : \A k \in DOMAIN stack'[u] :
              k \in DOMAIN stack[u] /\ stack'[u][k] = stack[u][k]
<1>1. stack \in [Threads -> Seq(Activities)] /\ stack[t] \in Seq(Activities)
  BY DEF TypeOK, Activities
<1>2. Len(stack[t]) - 1 \in 0 .. Len(stack[t]) /\ Len(stack[t]) \in Nat
  BY StackFacts, TopFacts
<1>3. SubSeq(stack[t], 1, Len(stack[t]) - 1) \in Seq(Activities)
  BY <1>1, <1>2
<1>4. /\ stack'[t] = SubSeq(stack[t], 1, Len(stack[t]) - 1)
      /\ \A u \in Threads : u # t => stack'[u] = stack[u]
  BY <1>1
<1>5. /\ DOMAIN stack[t] = 1 .. Len(stack[t])
      /\ DOMAIN stack'[t] = 1 .. Len(stack[t]) - 1
      /\ \A k \in 1 .. Len(stack[t]) - 1 : stack'[t][k] = stack[t][k]
  BY <1>1, <1>2, <1>4
<1>6. stack' \in [Threads -> Seq(Activities)]
  BY <1>1, <1>3
<1>7. \A k : k \in DOMAIN stack'[t] <=> k \in DOMAIN stack[t] /\ k # Len(stack[t])
  BY <1>2, <1>5
<1>8. \A k \in DOMAIN stack'[t] : stack'[t][k] = stack[t][k]
  BY <1>5
<1> QED
  BY <1>4, <1>6, <1>7, <1>8

\* A parallel block: the activity joins, and each thread starts its own stack.
LEMMA ParallelFacts ==
  ASSUME TypeOK, NEW t \in Threads, Running(t), NEW n \in Nat, n > 0,
         Create(t, n, "thread", << >>),
         stack' = [u \in Threads |->
            IF u = t THEN Append(SubSeq(stack[t], 1, Len(stack[t]) - 1),
                                 Activity(Top(t).task, "join", FreshIds(n)))
            ELSE IF u \in {FreshIds(n)[k] : k \in 1 .. n} THEN <<Activity(u, "code", << >>)>>
            ELSE stack[u]]
  PROVE  /\ stack' \in [Threads -> Seq(Activities)]
         /\ DOMAIN stack'[t] = DOMAIN stack[t]
         /\ stack'[t][Len(stack[t])] = Activity(Top(t).task, "join", FreshIds(n))
         /\ Activity(Top(t).task, "join", FreshIds(n)) \in Activities
         /\ \A k \in DOMAIN stack[t] : k # Len(stack[t]) => stack'[t][k] = stack[t][k]
         /\ \A u \in Threads : u # t =>
              IF u \in New(n)
              THEN DOMAIN stack'[u] = {1} /\ stack'[u][1] = Activity(u, "code", << >>)
              ELSE stack'[u] = stack[u]
<1>0. << >> \in Seq(Handles)
  OBVIOUS
<1>1. FreshIds(n) \in Seq(Handles) /\ {FreshIds(n)[k] : k \in 1 .. n} = New(n)
  BY <1>0, CreateFacts
<1>2. stack[t] \in Seq(Activities) /\ Len(stack[t]) \in Nat /\ Len(stack[t]) - 1 \in 0 .. Len(stack[t])
  BY StackFacts, TopFacts
<1> DEFINE b == SubSeq(stack[t], 1, Len(stack[t]) - 1)
           a == Activity(Top(t).task, "join", FreshIds(n))
<1>3. a \in Activities
  BY <1>1, TopFacts DEF Activity, Activities, Ops, Results
<1>4. b \in Seq(Activities) /\ Len(b) = Len(stack[t]) - 1
      /\ \A k \in 1 .. Len(stack[t]) - 1 : b[k] = stack[t][k]
  BY <1>2
<1> HIDE DEF b, a
<1>5. Append(b, a) \in Seq(Activities) /\ DOMAIN Append(b, a) = 1 .. Len(stack[t])
      /\ Append(b, a)[Len(stack[t])] = a
      /\ \A k \in 1 .. Len(stack[t]) - 1 : Append(b, a)[k] = stack[t][k]
  BY <1>2, <1>3, <1>4
<1>6. ASSUME NEW u \in Threads
      PROVE  /\ <<Activity(u, "code", << >>)>> \in Seq(Activities)
             /\ DOMAIN <<Activity(u, "code", << >>)>> = {1}
             /\ <<Activity(u, "code", << >>)>>[1] = Activity(u, "code", << >>)
  <2>1. Activity(u, "code", << >>) \in Activities
    BY <1>0 DEF Activity, Activities, Ops, Results
  <2> QED
    BY <2>1
<1>7. \A u \in Threads : stack[u] \in Seq(Activities)
  BY StackFacts
<1>8. /\ stack'[t] = Append(b, a)
      /\ \A u \in Threads : u # t =>
           stack'[u] = IF u \in New(n) THEN <<Activity(u, "code", << >>)>> ELSE stack[u]
  BY <1>1 DEF a, b
<1>9. stack' \in [Threads -> Seq(Activities)]
  <2>1. \A u \in Threads : stack'[u] \in Seq(Activities)
    BY <1>5, <1>6, <1>7, <1>8
  <2>2. stack' = [u \in Threads |-> stack'[u]]
    OBVIOUS
  <2> QED
    BY <2>1, <2>2
<1>10. DOMAIN stack[t] = 1 .. Len(stack[t])
  BY StackFacts
<1> QED
  BY <1>2, <1>3, <1>5, <1>6, <1>8, <1>9, <1>10, SMTT(30) DEF a

-----------------------------------------------------------------------------
(* Type correctness.                                                       *)

LEMMA VisibleLists ==
  ASSUME TypeOK, NEW hs \in Lists(Visible)
  PROVE  hs \in Seq(Handles) /\ \A k \in DOMAIN hs : hs[k] \in Visible
BY DEF Lists, Visible, Handles

\* Creating handles in a well-typed state, whatever becomes of the stacks.
LEMMA CreateKeepsType ==
  ASSUME TypeOK, NEW t \in Threads, Running(t), NEW n \in Nat, n > 0, NEW kind,
         NEW args \in Seq(Handles), Create(t, n, kind, args),
         stack' \in [Threads -> Seq(Activities)]
  PROVE  TypeOK'
BY CreateType DEF TypeOK, Activities

\* The steps that create handles.
LEMMA CreatingStepType ==
  ASSUME TypeOK, NEW t \in Threads, Spawn(t) \/ Combine(t) \/ Block(t) \/ Parallel(t)
  PROVE  TypeOK'
<1>a. Running(t)
  BY DEF Spawn, Combine, Block, Parallel, InCode
<1>b. stack \in [Threads -> Seq(Activities)]
  BY DEF TypeOK, Activities
<1>0. << >> \in Seq(Handles) /\ 1 \in Nat /\ 1 > 0 /\ Running(t)
      /\ stack \in [Threads -> Seq(Activities)]
  BY <1>a, <1>b
<1>1. ASSUME NEW kind, NEW args \in Seq(Handles), Create(t, 1, kind, args), UNCHANGED stack
      PROVE  TypeOK'
  BY <1>0, <1>1, CreateKeepsType
<1>2. CASE Spawn(t)
  BY <1>0, <1>1, <1>2 DEF Spawn
<1>3. CASE Combine(t)
  <2>0. UNCHANGED stack
    BY <1>3 DEF Combine
  <2>1. ASSUME NEW kind, Create(t, 1, kind, << >>) PROVE TypeOK'
    BY <1>0, <1>1, <2>0, <2>1
  <2>2. ASSUME NEW kind, NEW hs \in Lists(Visible), Create(t, 1, kind, hs) PROVE TypeOK'
    BY <1>1, <2>0, <2>2, VisibleLists
  <2>3. ASSUME NEW h \in Visible, Create(t, 1, "timeout", <<h>>) PROVE TypeOK'
    <3>1. <<h>> \in Seq(Handles)
      BY DEF Visible
    <3> QED
      BY <1>1, <2>0, <2>3, <3>1
  <2> QED
    BY <1>3, <2>1, <2>2, <2>3 DEF Combine
<1>4. CASE Block(t)
  <2>1. PICK n \in 1 .. MaxList :
          Create(t, n, "block", << >>) /\ Become(t, "join", FreshIds(n), "ok")
    BY <1>4 DEF Block
  <2>2. n \in Nat /\ n > 0
    OBVIOUS
  <2>3. FreshIds(n) \in Seq(Handles)
    BY <1>0, <2>1, <2>2, CreateFacts
  <2>4. "join" \in Ops /\ "ok" \in Results
    BY DEF Ops, Results
  <2>5. stack' \in [Threads -> Seq(Activities)]
    BY <1>0, <2>1, <2>3, <2>4, BecomeFacts, TopBecomesFacts
  <2> QED
    BY <1>0, <2>1, <2>2, <2>5, CreateKeepsType
<1>5. CASE Parallel(t)
  <2>1. PICK n \in 1 .. MaxList :
          /\ Create(t, n, "thread", << >>)
          /\ stack' = [u \in Threads |->
               IF u = t THEN Append(SubSeq(stack[t], 1, Len(stack[t]) - 1),
                                    Activity(Top(t).task, "join", FreshIds(n)))
               ELSE IF u \in {FreshIds(n)[k] : k \in 1 .. n} THEN <<Activity(u, "code", << >>)>>
               ELSE stack[u]]
    BY <1>5 DEF Parallel
  <2>2. n \in Nat /\ n > 0
    OBVIOUS
  <2>3. stack' \in [Threads -> Seq(Activities)]
    BY <1>0, <2>1, <2>2, ParallelFacts
  <2> QED
    BY <1>0, <2>1, <2>2, <2>3, CreateKeepsType
<1> QED
  BY <1>2, <1>3, <1>4, <1>5

\* The steps of user code that create nothing, and the timer's.
LEMMA QuietStepType ==
  ASSUME TypeOK, NEW t \in Threads,
         Await(t) \/ CodeEnds(t) \/ AllResolved(t) \/ TimeoutExpires(t) \/ TimerFires
  PROVE  TypeOK'
<1>1. CASE TimerFires
  BY <1>1 DEF TimerFires, TypeOK
<1>2. ASSUME NEW op \in Ops, NEW on \in Seq(Handles), NEW exc \in Results,
             Running(t), Become(t, op, on, exc),
             UNCHANGED <<made, slot, entry, result, queue, next, answer>>
      PROVE  TypeOK'
  <2>1. stack' \in [Threads -> Seq(Activities)]
    BY <1>2, BecomeFacts, TopBecomesFacts
  <2> QED
    BY <1>2, <2>1 DEF TypeOK, Activities
<1>0. << >> \in Seq(Handles) /\ {"await", "finish", "code"} \subseteq Ops /\ "ok" \in Results
  BY DEF Ops, Results
<1>3. CASE Await(t)
  <2>1. PICK h \in Visible : Become(t, "await", <<h>>, "ok")
    BY <1>3 DEF Await
  <2>2. <<h>> \in Seq(Handles)
    BY DEF Visible
  <2> QED
    BY <1>0, <1>2, <1>3, <2>1, <2>2 DEF Await, InCode
<1>4. CASE CodeEnds(t)
  BY <1>0, <1>2, <1>4 DEF CodeEnds, InCode
<1>5. CASE AllResolved(t)
  <2>1. Running(t) /\ Top(t).exc \in Results
    BY <1>5, TopFacts DEF AllResolved
  <2> QED
    BY <1>0, <1>2, <1>5, <2>1 DEF AllResolved
<1>6. CASE TimeoutExpires(t)
  BY <1>0, <1>2, <1>6 DEF TimeoutExpires
<1> QED
  BY <1>1, <1>3, <1>4, <1>5, <1>6

\* Receiving an answer.
LEMMA ReceiveType ==
  ASSUME TypeOK, NEW t \in Threads, Running(t), NEW v, Receive(t, v),
         Top(t).op \in {"any", "timeout"} \/ Top(t).on # << >>
  PROVE  stack' \in [Threads -> Seq(Activities)]
BY ReceiveFacts, TopBecomesFacts DEF Receives

LEMMA HeadFacts ==
  ASSUME TypeOK, NEW t \in Threads, Running(t), Top(t).on # << >>
  PROVE  Head(Top(t).on) \in Handles /\ Head(Top(t).on) = Top(t).on[1] /\ 1 \in DOMAIN Top(t).on
BY TopFacts, SequenceFacts

LEMMA SchedulingStepType ==
  ASSUME Consistent, NEW t \in Threads, Scheduling(t)
  PROVE  TypeOK'
<1>0. TypeOK
  BY DEF Consistent
<1>1. CASE Finish(t)
  <2>1. stack' \in [Threads -> Seq(Activities)]
    BY <1>0, <1>1, PopFacts DEF Finish
  <2>2. Top(t).task \in Threads /\ Top(t).exc \in Results
    BY <1>0, <1>1, TopFacts DEF Finish
  <2> QED
    BY <1>0, <1>1, <2>1, <2>2 DEF Finish, TypeOK, Activities, Threads
<1>2. ASSUME NEW h \in Handles, Take(t, h), Receive(t, ValueFor(t, h)), Running(t),
             Top(t).op \in {"any", "timeout"} \/ Top(t).on # << >>
      PROVE  TypeOK'
  <2>1. stack' \in [Threads -> Seq(Activities)]
    BY <1>0, <1>2, ReceiveType
  <2> QED
    BY <1>0, <1>2, <2>1, TakeType DEF TypeOK, Activities, Answered
<1>3. ASSUME RunNext(t) PROVE TypeOK'
  <2>1. PICK i \in Handles :
          /\ queue' = [queue EXCEPT ![t] = SubSeq(@, 2, Len(@))] /\ 1 \in DOMAIN queue[t]
          /\ entry' = [entry EXCEPT ![i] = "running"]
          /\ stack' = [stack EXCEPT ![t] = Append(@, Opening(i))]
          /\ Opening(i) \in Activities
          /\ UNCHANGED <<made, slot, result, next, answer>>
    BY <1>3, RunNextFacts
  <2>2. stack' \in [Threads -> Seq(Activities)]
    BY <1>0, <2>1, PushFacts
  <2>3. SubSeq(queue[t], 2, Len(queue[t])) \in Seq(Handles)
    BY <1>0, <2>1, QueueFacts
  <2> QED
    BY <1>0, <2>1, <2>2, <2>3 DEF TypeOK, Activities
<1>4. CASE Claim(t)
  <2>1. Running(t) /\ Top(t).on # << >> /\ Head(Top(t).on) \in Handles
    BY <1>0, <1>4, HeadFacts DEF Claim, Joining
  <2>2. CASE /\ TakesSlot(Head(Top(t).on))
             /\ stack' = [stack EXCEPT ![t][Len(stack[t])].held = TRUE]
             /\ UNCHANGED <<made, entry, result, queue, next, answer>>
    <3> DEFINE a == [Top(t) EXCEPT !.held = TRUE]
    <3>1. a \in Activities /\ TopBecomes(t, a)
      BY <1>0, <2>1, <2>2, TopFacts DEF TopBecomes, Top, Activities
    <3>2. stack' \in [Threads -> Seq(Activities)]
      BY <1>0, <2>1, <3>1, TopBecomesFacts
    <3> QED
      BY <1>0, <2>1, <2>2, <3>2 DEF TakesSlot, TypeOK, Activities
  <2> QED
    BY <1>2, <1>4, <2>1, <2>2 DEF Claim
<1>5. CASE Resolve(t)
  <2>1. Running(t) /\ Top(t).on # << >> /\ Head(Top(t).on) \in Handles
    BY <1>0, <1>5, HeadFacts DEF Resolve, Joining
  <2> DEFINE h == Head(Top(t).on)
  <2>2. CASE /\ entry' = [entry EXCEPT ![h] = "gone"]
             /\ Answers(t, h, result[h]) /\ Receive(t, result[h])
             /\ UNCHANGED <<made, slot, result, queue, next>>
    <3>1. stack' \in [Threads -> Seq(Activities)]
      BY <1>0, <2>1, <2>2, ReceiveType
    <3>2. answer' \in [on : Handles \cup {NoOne}, to : Threads, val : Answered]
      BY <1>0, <2>1, <2>2 DEF Answers, Answered, TypeOK
    <3> QED
      BY <1>0, <2>1, <2>2, <3>1, <3>2 DEF TypeOK, Activities, Answered
  <2> QED
    BY <1>3, <1>5, <2>2 DEF Resolve
<1>6. CASE GiveUp(t)
  <2>1. Running(t) /\ Top(t).on # << >> /\ Head(Top(t).on) \in Handles
    BY <1>0, <1>6, HeadFacts DEF GiveUp, Joining
  <2>2. stack' \in [Threads -> Seq(Activities)]
    BY <1>0, <1>6, <2>1, ReceiveType DEF GiveUp
  <2>3. answer' \in [on : Handles \cup {NoOne}, to : Threads, val : Answered]
    BY <1>6, <2>1 DEF GiveUp, Answers, Answered
  <2>4. queue' \in [Threads -> Seq(Handles)]
    BY <1>0, <1>6 DEF GiveUp, TypeOK
  <2> QED
    BY <1>0, <1>6, <2>2, <2>3, <2>4 DEF GiveUp, TypeOK, Activities, Answered
<1>7. CASE AllResolved(t) \/ TimeoutExpires(t)
  BY <1>0, <1>7, QuietStepType
<1>8. CASE Poll(t)
  <2>1. \A k \in DOMAIN Top(t).on : Top(t).on[k] \in Handles
    BY <1>0, <1>8, TopFacts DEF Poll
  <2>2. CASE /\ Become(t, "finish", << >>, "ok")
             /\ UNCHANGED <<made, slot, entry, result, queue, next, answer>>
    <3>1. "finish" \in Ops /\ "ok" \in Results /\ << >> \in Seq(Handles)
      BY DEF Ops, Results
    <3>2. stack' \in [Threads -> Seq(Activities)]
      BY <1>0, <1>8, <2>2, <3>1, BecomeFacts, TopBecomesFacts DEF Poll
    <3> QED
      BY <1>0, <2>2, <3>2 DEF TypeOK, Activities
  <2> QED
    BY <1>2, <1>8, <2>1, <2>2 DEF Poll
<1> QED
  BY <1>1, <1>4, <1>5, <1>6, <1>7, <1>8 DEF Scheduling

\* Every step keeps every variable in its type.
LEMMA StepType ==
  ASSUME Consistent, [Next]_vars
  PROVE  TypeOK'
<1>0. TypeOK
  BY DEF Consistent
<1>1. CASE UNCHANGED vars
  BY <1>0, <1>1 DEF vars, TypeOK
<1>2. Main \in Threads
  BY DEF Threads
<1> QED
  BY <1>0, <1>1, <1>2, CreatingStepType, QuietStepType, SchedulingStepType
  DEF Next, Terminated, PollsOn

-----------------------------------------------------------------------------
(* Who is where.                                                           *)

\* A computation is in one place, over all threads.
LEMMA OnePlace ==
  ASSUME Consistent, NEW t \in Threads, NEW u \in Threads,
         NEW j \in DOMAIN stack[t], NEW k \in DOMAIN stack[u],
         stack[t][j].task = stack[u][k].task
  PROVE  t = u /\ j = k
<1>0. RunningIsOnStack
  BY DEF Consistent
<1>1. t = u
  <2>1. CASE j = 1 /\ k = 1
    BY <1>0, <2>1 DEF RunningIsOnStack
  <2>2. CASE j = 1 /\ k # 1
    BY <1>0, <2>2 DEF RunningIsOnStack
  <2>3. CASE j # 1 /\ k = 1
    BY <1>0, <2>3 DEF RunningIsOnStack
  <2>4. CASE j # 1 /\ k # 1
    BY <1>0, <2>4 DEF RunningIsOnStack
  <2> QED
    BY <2>1, <2>2, <2>3, <2>4
<1> QED
  BY <1>0, <1>1 DEF RunningIsOnStack

\* What is on a stack exists and runs.
LEMMA PlacedRuns ==
  ASSUME Consistent, NEW t \in Threads, NEW k \in DOMAIN stack[t]
  PROVE  LET i == stack[t][k].task IN
         /\ i \in Threads /\ i < next
         /\ i # Main => i \in Handles /\ entry[i] = "running"
         /\ k # 1 => i # Main
<1> DEFINE i == stack[t][k].task
<1>0. TypeOK /\ RunningIsOnStack /\ HistoryIsOrdered
  BY DEF Consistent
<1>1. i \in Threads
  BY <1>0, StackFacts DEF Activities
<1>2. i # Main => i \in Handles /\ entry[i] = "running"
  BY <1>0, <1>1 DEF RunningIsOnStack, Threads
<1>3. i < next
  <2>1. next \in Int /\ next >= 1
    BY <1>0 DEF TypeOK
  <2>2. CASE i = Main
    BY <2>1, <2>2 DEF Main
  <2>3. CASE i # Main
    <3>1. ~(i >= next)
      BY <1>0, <1>2, <2>3 DEF HistoryIsOrdered
    <3>2. i \in Int
      BY <1>2, <2>3 DEF Handles
    <3> QED
      BY <2>1, <3>1, <3>2
  <2> QED
    BY <2>2, <2>3
<1>4. k # 1 => i # Main
  BY <1>0 DEF RunningIsOnStack
<1> QED
  BY <1>1, <1>2, <1>3, <1>4

\* The handle h is one that the activity on top of t waits for, and either nobody
\* has taken its entry or that activity itself has.
Mine(t, h) ==
  /\ \E m \in DOMAIN Top(t).on : Top(t).on[m] = h
  /\ slot[h] = "full" \/ HoldsOn(Top(t), h)

\* Nobody else has anything to do with such a handle, if it is a block's or is held.
LEMMA MineIsMine ==
  ASSUME Consistent, NEW t \in Threads, Running(t), NEW h \in Handles, Mine(t, h),
         NEW u \in Threads, NEW k \in DOMAIN stack[u], u # t \/ k # Len(stack[t])
  PROVE  /\ ~HoldsOn(stack[u][k], h)
         /\ stack[u][k].op = "join" => \A m \in DOMAIN stack[u][k].on : stack[u][k].on[m] # h
         /\ Hidden(h) => Top(t).op = "join" /\ made[h].by = Top(t).task /\ made[h].by # stack[u][k].task
<1> DEFINE n == Len(stack[t])
<1>0. TypeOK /\ OneHolder /\ JoinsAreExact /\ HistoryIsOrdered
  BY DEF Consistent
<1>1. n \in DOMAIN stack[t] /\ Top(t) = stack[t][n]
  BY <1>0, TopFacts
<1>2. stack[u][k].task # stack[t][n].task
  BY <1>1, OnePlace
<1>3. ~HoldsOn(stack[u][k], h)
  <2>1. CASE slot[h] = "full"
    BY <1>0, <2>1 DEF OneHolder, HoldsProperly, HoldsOn
  <2>2. CASE HoldsOn(Top(t), h)
    BY <1>0, <1>1, <2>2 DEF OneHolder, HoldsOn
  <2> QED
    BY <2>1, <2>2 DEF Mine
<1>4. ASSUME Hidden(h) PROVE Top(t).op = "join" /\ made[h].by = Top(t).task
  <2>1. PICK m \in DOMAIN Top(t).on : Top(t).on[m] = h
    BY DEF Mine
  <2>2. Top(t).op = "join"
    BY <1>0, <1>1, <1>4, <2>1 DEF HistoryIsOrdered, WaitsForOlder
  <2> QED
    BY <1>0, <1>1, <2>1, <2>2 DEF JoinsAreExact, JoinsItsOwn
<1>5. ASSUME stack[u][k].op = "join", NEW m \in DOMAIN stack[u][k].on, stack[u][k].on[m] = h
      PROVE  FALSE
  <2>1. Hidden(h) /\ made[h].by = stack[u][k].task
    BY <1>0, <1>5 DEF JoinsAreExact, JoinsItsOwn
  <2> QED
    BY <1>1, <1>2, <1>4, <2>1
<1> QED
  BY <1>1, <1>2, <1>3, <1>4, <1>5

-----------------------------------------------------------------------------
(* Steps that only move on the activity on top of one stack.               *)

\* What such a step may do to a handle: take the entry out of its slot, or take the
\* result away.
Touched(t, h) ==
  /\ Mine(t, h)
  /\ entry'[h] = entry[h] \/ (entry[h] = "ready" /\ entry'[h] = "gone" /\ slot'[h] # "full")
  /\ slot'[h] = slot[h] \/ (slot[h] = "full" /\ slot'[h] = "empty")

TopStep(t, a) ==
  /\ Running(t) /\ TopBecomes(t, a) /\ a.task = Top(t).task
  /\ a.op \notin {"any", "timeout"}
  /\ UNCHANGED <<made, result, next>>
  /\ queue' = queue \/ (QueuedAt(t) = {} /\ queue' = [queue EXCEPT ![t] = << >>])
  /\ \A h \in Handles : (entry'[h] = entry[h] /\ slot'[h] = slot[h]) \/ Touched(t, h)

\* No activity comes or goes.
SameTasks ==
  \A u \in Threads :
    DOMAIN stack'[u] = DOMAIN stack[u]
    /\ \A k \in DOMAIN stack[u] : stack'[u][k].task = stack[u][k].task

LEMMA TopStepStacks ==
  ASSUME Consistent, NEW t \in Threads, NEW a \in Activities, TopStep(t, a)
  PROVE  /\ SameTasks
         /\ stack'[t][Len(stack[t])] = a
         /\ \A u \in Threads : \A k \in DOMAIN stack[u] :
              u # t \/ k # Len(stack[t]) => stack'[u][k] = stack[u][k]
<1>0. TypeOK /\ Running(t) /\ TopBecomes(t, a) /\ a.task = Top(t).task
  BY DEF TopStep, Consistent
<1>1. /\ \A u \in Threads : DOMAIN stack'[u] = DOMAIN stack[u]
      /\ stack'[t][Len(stack[t])] = a
      /\ \A u \in Threads : \A k \in DOMAIN stack[u] :
           u # t \/ k # Len(stack[t]) => stack'[u][k] = stack[u][k]
  BY <1>0, TopBecomesFacts
<1>2. Top(t) = stack[t][Len(stack[t])]
  BY DEF Top
<1>3. SameTasks
  BY <1>0, <1>1, <1>2 DEF SameTasks
<1> QED
  BY <1>1, <1>3

\* Queues, places and order, for any step that changes no entry but from ready to
\* gone and moves no activity.
LEMMA SameTasksStep ==
  ASSUME Consistent, SameTasks, UNCHANGED <<made, queue>>,
         \A h \in Handles : entry'[h] = entry[h]
                              \/ (entry[h] = "ready" /\ entry'[h] = "gone")
                              \/ (entry[h] = "sleeping" /\ entry'[h] = "ready")
  PROVE  QueueIsExact' /\ RunningIsOnStack' /\ CreatorIsBelow'
<1>0. QueueIsExact /\ RunningIsOnStack /\ CreatorIsBelow
  BY DEF Consistent
<1>1. QueueIsExact'
  BY <1>0 DEF QueueIsExact, IsQueued
<1>2. RunningIsOnStack'
  <2>1. \A u \in Threads : \A j, k \in DOMAIN stack'[u] :
          stack'[u][j].task = stack'[u][k].task => j = k
    BY <1>0 DEF RunningIsOnStack, SameTasks
  <2>2. \A u \in Threads : \A k \in DOMAIN stack'[u] :
          LET i == stack'[u][k].task IN
          IF k = 1 THEN i = u /\ (u # Main => made'[u].kind = "thread")
          ELSE i # Main /\ made'[i].kind # "thread" /\ made'[i].owner = u
    BY <1>0 DEF RunningIsOnStack, SameTasks
  <2>3. ASSUME NEW h \in Handles
        PROVE  entry'[h] = "running" <=>
                 \E u \in Threads : \E k \in DOMAIN stack'[u] : stack'[u][k].task = h
    <3>1. entry'[h] = "running" <=> entry[h] = "running"
      OBVIOUS
    <3> QED
      BY <1>0, <3>1 DEF RunningIsOnStack, SameTasks
  <2> QED
    BY <2>1, <2>2, <2>3 DEF RunningIsOnStack
<1>3. CreatorIsBelow'
  BY <1>0 DEF CreatorIsBelow, SameTasks
<1> QED
  BY <1>1, <1>2, <1>3

LEMMA TopStepQueue ==
  ASSUME Consistent, NEW t \in Threads, NEW a \in Activities, TopStep(t, a)
  PROVE  UNCHANGED queue
<1>0. TypeOK /\ QueueIsExact
  BY DEF Consistent
<1>1. CASE QueuedAt(t) = {} /\ queue' = [queue EXCEPT ![t] = << >>]
  <2>1. queue[t] = << >>
    <3>1. \A k \in DOMAIN queue[t] : k \in QueuedAt(t)
      BY <1>0, QueueFacts DEF QueueIsExact, QueuedAt
    <3> QED
      BY <1>0, <1>1, <3>1, QueueFacts
  <2> QED
    BY <1>0, <1>1, <2>1 DEF TypeOK
<1> QED
  BY <1>1 DEF TopStep

\* All that a step of this kind must still show: what the activity on top has become
\* is as the invariants want it.
TopFits(t, a) ==
  /\ HoldsProperly(t, a)' /\ JoinsItsOwn(t, a)' /\ KeepsFailures(a)' /\ WaitsForOlder(a)'
  /\ a.held => Mine(t, Head(a.on)) /\ Head(a.on) \in Handles
  /\ Top(t).op = "join" => \A m \in DOMAIN Top(t).on :
       \/ entry'[Top(t).on[m]] = "gone"
       \/ a.op = "join" /\ \E n \in DOMAIN a.on : a.on[n] = Top(t).on[m]

LEMMA TopStepOneHolder ==
  ASSUME Consistent, NEW t \in Threads, NEW a \in Activities, TopStep(t, a), TopFits(t, a)
  PROVE  OneHolder'
<1> PICK n : n = Len(stack[t])
  OBVIOUS
<1>0. TypeOK /\ OneHolder /\ Running(t)
  BY DEF Consistent, TopStep
<1>s. /\ SameTasks /\ stack'[t][n] = a
      /\ \A u \in Threads : \A k \in DOMAIN stack[u] :
           u # t \/ k # n => stack'[u][k] = stack[u][k]
  BY TopStepStacks
<1>d. \A u \in Threads : DOMAIN stack'[u] = DOMAIN stack[u]
  BY <1>s DEF SameTasks
<1>1. ASSUME NEW u \in Threads, NEW k \in DOMAIN stack[u], u # t \/ k # n
      PROVE  HoldsProperly(u, stack[u][k])'
  <2> PICK b \in Activities : b = stack[u][k]
    BY <1>0, StackFacts
  <2> DEFINE h == Head(b.on)
  <2>1. stack'[u][k] = b
    BY <1>s, <1>1
  <2>2. HoldsProperly(u, b)
    BY <1>0 DEF OneHolder
  <2>3. b.held => h \in Handles /\ ~Touched(t, h)
    <3>1. b.held => h \in Handles
      <4>1. b.on \in Seq(Handles) /\ (b.held => b.on # << >>)
        BY <2>2 DEF HoldsProperly, Activities
      <4> QED
        BY <4>1, SequenceFacts
    <3>2. b.held => HoldsOn(b, h)
      BY DEF HoldsOn
    <3> QED
      BY <1>0, <1>1, <3>1, <3>2, MineIsMine DEF Touched
  <2>4. b.held => entry'[h] = entry[h] /\ slot'[h] = slot[h]
    BY <2>3 DEF TopStep
  <2>5. made' = made
    BY DEF TopStep
  <2> QED
    BY <2>1, <2>2, <2>4, <2>5 DEF HoldsProperly, Cooperative
<1>2. \A u \in Threads : \A k \in DOMAIN stack[u] : HoldsProperly(u, stack[u][k])'
  <2>1. HoldsProperly(t, a)'
    BY DEF TopFits
  <2>2. HoldsProperly(t, stack[t][n])'
    BY <1>s, <2>1 DEF HoldsProperly
  <2> QED
    BY <1>1, <2>2
<1>3. ASSUME NEW u \in Threads, NEW v \in Threads,
             NEW j \in DOMAIN stack[u], NEW k \in DOMAIN stack[v],
             stack'[u][j].held, HoldsOn(stack'[v][k], Head(stack'[u][j].on))
      PROVE  u = v /\ j = k
  <2>1. ASSUME NEW w \in Threads, NEW m \in DOMAIN stack[w], w # t \/ m # n, a.held
        PROVE  ~HoldsOn(stack[w][m], Head(a.on))
    BY <1>0, <2>1, MineIsMine DEF TopFits
  <2>2. CASE (u # t \/ j # n) /\ (v # t \/ k # n)
    BY <1>0, <1>3, <1>s, <2>2 DEF OneHolder
  <2>3. CASE (u # t \/ j # n) /\ v = t /\ k = n
    <3>1. stack'[v][k] = a /\ stack'[u][j] = stack[u][j]
      BY <1>s, <2>3
    <3>2. a.held /\ HoldsOn(stack[u][j], Head(a.on))
      BY <1>3, <3>1 DEF HoldsOn
    <3> QED
      BY <2>1, <2>3, <3>2
  <2>4. CASE u = t /\ j = n /\ (v # t \/ k # n)
    BY <1>3, <1>s, <2>1, <2>4
  <2> QED
    BY <2>2, <2>3, <2>4
<1> QED
  <2>1. \A u \in Threads : \A k \in DOMAIN stack'[u] : HoldsProperly(u, stack[u][k])'
    BY <1>2, <1>d
  <2>2. \A u, v \in Threads : \A j \in DOMAIN stack'[u], k \in DOMAIN stack'[v] :
          stack'[u][j].held /\ HoldsOn(stack'[v][k], Head(stack'[u][j].on)) => u = v /\ j = k
    BY <1>3, <1>d
  <2> QED
    BY <2>1, <2>2 DEF OneHolder, HoldsOn

LEMMA TopStepJoins ==
  ASSUME Consistent, NEW t \in Threads, NEW a \in Activities, TopStep(t, a), TopFits(t, a)
  PROVE  JoinsAreExact' /\ FailuresAreKept' /\ BlocksAreJoined'
<1> PICK n : n = Len(stack[t])
  OBVIOUS
<1>0. TypeOK /\ JoinsAreExact /\ FailuresAreKept /\ BlocksAreJoined /\ Running(t)
      /\ UNCHANGED <<made, result, next>>
  BY DEF Consistent, TopStep
<1>s. /\ SameTasks /\ stack'[t][n] = a
      /\ \A u \in Threads : \A k \in DOMAIN stack[u] :
           u # t \/ k # n => stack'[u][k] = stack[u][k]
  BY TopStepStacks
<1>t. Top(t) = stack[t][n] /\ n \in DOMAIN stack[t]
  BY <1>0, TopFacts
<1>d. \A u \in Threads : DOMAIN stack'[u] = DOMAIN stack[u]
  BY <1>s DEF SameTasks
<1>1. ASSUME NEW u \in Threads, NEW k \in DOMAIN stack[u], u # t \/ k # n
      PROVE  JoinsItsOwn(u, stack[u][k])' /\ KeepsFailures(stack[u][k])'
  <2> PICK b \in Activities : b = stack[u][k]
    BY <1>0, StackFacts
  <2>1. stack'[u][k] = b
    BY <1>s, <1>1
  <2>2. JoinsItsOwn(u, b) /\ KeepsFailures(b) /\ b.on \in Seq(Handles)
    BY <1>0 DEF JoinsAreExact, FailuresAreKept, Activities
  <2>3. ASSUME NEW h \in Handles, b.op = "join", NEW m \in DOMAIN b.on, b.on[m] = h
        PROVE  slot'[h] = slot[h]
    <3>1. ~Mine(t, h)
      BY <1>0, <1>1, <2>3, MineIsMine
    <3> QED
      BY <3>1 DEF TopStep, Touched
  <2>4. ASSUME NEW h \in Handles, Hidden(h), made[h].by = b.task, entry'[h] = "gone"
        PROVE  entry[h] = "gone"
    <3>1. ~Mine(t, h)
      BY <1>0, <1>1, <2>4, MineIsMine
    <3> QED
      BY <2>4, <3>1 DEF TopStep, Touched
  <2>5. \A m \in DOMAIN b.on : b.on[m] \in Handles
    BY <2>2
  <2>6. JoinsItsOwn(u, b)'
    BY <1>0, <2>2, <2>3, <2>5 DEF JoinsItsOwn, Hidden
  <2>7. KeepsFailures(b)'
    BY <1>0, <2>2, <2>4 DEF KeepsFailures, Hidden
  <2>8. JoinsItsOwn(u, stack[u][k])'
    BY <2>1, <2>6 DEF JoinsItsOwn
  <2>9. KeepsFailures(stack[u][k])'
    BY <2>1, <2>7 DEF KeepsFailures
  <2> QED
    BY <2>8, <2>9
<1>2. JoinsAreExact' /\ FailuresAreKept'
  <2>1. JoinsItsOwn(t, a)' /\ KeepsFailures(a)'
    BY DEF TopFits
  <2>2. JoinsItsOwn(t, stack[t][n])'
    BY <1>s, <2>1 DEF JoinsItsOwn
  <2>3. KeepsFailures(stack[t][n])'
    BY <1>s, <2>1 DEF KeepsFailures
  <2>4. JoinsAreExact'
    BY <1>1, <1>d, <2>2 DEF JoinsAreExact
  <2>5. FailuresAreKept'
    BY <1>1, <1>d, <2>3 DEF FailuresAreKept
  <2> QED
    BY <2>4, <2>5
<1>3. ASSUME NEW h \in Handles, h < next, Hidden(h), entry'[h] # "gone"
      PROVE  \E k \in DOMAIN stack'[made[h].owner] :
               LET b == stack'[made[h].owner][k] IN
               b.task = made[h].by /\ b.op = "join" /\ \E m \in DOMAIN b.on : b.on[m] = h
  <2>1. entry[h] # "gone"
    BY <1>3 DEF TopStep, Touched
  <2>o. made[h].owner \in Threads
    BY <1>0 DEF TypeOK
  <2> DEFINE u == made[h].owner
  <2>2. PICK k \in DOMAIN stack[u] :
          stack[u][k].task = made[h].by /\ stack[u][k].op = "join"
          /\ \E m \in DOMAIN stack[u][k].on : stack[u][k].on[m] = h
    BY <1>0, <1>3, <2>1 DEF BlocksAreJoined
  <2>3. CASE u # t \/ k # n
    <3>1. stack'[u][k] = stack[u][k] /\ k \in DOMAIN stack'[u]
      BY <1>s, <1>d, <2>3, <2>o
    <3> QED
      BY <2>2, <3>1
  <2>4. CASE u = t /\ k = n
    <3>1. a.op = "join" /\ \E m \in DOMAIN a.on : a.on[m] = h
      BY <1>3, <1>t, <2>2, <2>4 DEF TopFits
    <3>2. a.task = made[h].by
      BY <1>t, <2>2, <2>4 DEF TopStep
    <3>3. k \in DOMAIN stack'[u] /\ stack'[u][k] = a
      BY <1>s, <1>d, <2>4
    <3> QED
      BY <3>1, <3>2, <3>3
  <2> QED
    BY <2>3, <2>4
<1>4. BlocksAreJoined'
  BY <1>0, <1>3 DEF BlocksAreJoined, Hidden
<1> QED
  BY <1>2, <1>4

LEMMA TopStepHistory ==
  ASSUME Consistent, NEW t \in Threads, NEW a \in Activities, TopStep(t, a), TopFits(t, a)
  PROVE  PolledTasksAreStarted' /\ HistoryIsOrdered'
<1> PICK n : n = Len(stack[t])
  OBVIOUS
<1>0. TypeOK /\ PolledTasksAreStarted /\ HistoryIsOrdered /\ Running(t)
      /\ UNCHANGED <<made, result, next>> /\ a.op \notin {"any", "timeout"}
  BY DEF Consistent, TopStep
<1>s. /\ SameTasks /\ stack'[t][n] = a
      /\ \A u \in Threads : \A k \in DOMAIN stack[u] :
           u # t \/ k # n => stack'[u][k] = stack[u][k]
  BY TopStepStacks
<1>d. \A u \in Threads : DOMAIN stack'[u] = DOMAIN stack[u]
  BY <1>s DEF SameTasks
<1>e. \A h \in Handles : /\ entry'[h] = "queued" => entry[h] = "queued"
                         /\ (entry[h] = "none" <=> entry'[h] = "none")
                         /\ (slot[h] = "unborn" <=> slot'[h] = "unborn")
                         /\ slot'[h] = "full" => slot[h] = "full"
                                                 /\ (entry'[h] = "gone" => entry[h] = "gone")
  BY DEF TopStep, Touched
<1>1. PolledTasksAreStarted'
  <2>1. ASSUME NEW u \in Threads, NEW k \in DOMAIN stack[u],
               stack'[u][k].op \in {"any", "timeout"}, NEW m \in DOMAIN stack'[u][k].on,
               made[stack'[u][k].on[m]].owner = u
        PROVE  entry'[stack'[u][k].on[m]] # "queued"
    <3>1. stack'[u][k] = stack[u][k]
      BY <1>0, <1>s, <2>1
    <3>2. stack[u][k].on[m] \in Handles
      <4>1. stack[u][k].on \in Seq(Handles)
        BY <1>0, StackFacts DEF Activities
      <4> QED
        BY <2>1, <3>1, <4>1
    <3>3. entry[stack[u][k].on[m]] # "queued"
      BY <1>0, <2>1, <3>1 DEF PolledTasksAreStarted
    <3> QED
      BY <1>e, <3>1, <3>2, <3>3
  <2> QED
    BY <1>0, <1>d, <2>1 DEF PolledTasksAreStarted
<1>2. \A h \in Handles : h >= next => slot'[h] = "unborn" /\ entry'[h] = "none" /\ result[h] = "ok"
  BY <1>0, <1>e DEF HistoryIsOrdered
<1>3. ASSUME NEW h \in Handles, h < next
      PROVE  /\ slot'[h] # "unborn" /\ entry'[h] # "none"
             /\ slot'[h] = "full" => entry'[h] # "gone"
             /\ made[h].by < h
             /\ made[h].by # Main => entry'[made[h].by] # "queued"
             /\ \A m \in DOMAIN made[h].args : made[h].args[m] < h /\ ~Hidden(made[h].args[m])
  <2>1. made[h].by # Main => made[h].by \in Handles
    BY <1>0 DEF TypeOK, Threads
  <2> QED
    BY <1>0, <1>3, <1>e, <2>1 DEF HistoryIsOrdered
<1>4. ASSUME NEW u \in Threads, NEW k \in DOMAIN stack[u]
      PROVE  WaitsForOlder(stack[u][k])'
  <2>1. CASE u = t /\ k = n
    <3>1. WaitsForOlder(a)'
      BY DEF TopFits
    <3> QED
      BY <1>s, <2>1, <3>1 DEF WaitsForOlder
  <2>2. CASE u # t \/ k # n
    <3>1. stack'[u][k] = stack[u][k] /\ WaitsForOlder(stack[u][k])
      BY <1>0, <1>s, <2>2 DEF HistoryIsOrdered
    <3> QED
      BY <1>0, <3>1 DEF WaitsForOlder, Hidden
  <2> QED
    BY <2>1, <2>2
<1>5. HistoryIsOrdered'
  <2>1. \A u \in Threads : \A k \in DOMAIN stack'[u] : WaitsForOlder(stack[u][k])'
    BY <1>4, <1>d
  <2> QED
    BY <1>0, <1>2, <1>3, <2>1 DEF HistoryIsOrdered, Hidden
<1> QED
  BY <1>1, <1>5

LEMMA TopStepKeeps ==
  ASSUME Consistent, TypeOK', NEW t \in Threads, NEW a \in Activities, TopStep(t, a), TopFits(t, a)
  PROVE  Consistent'
<1>1. QueueIsExact' /\ RunningIsOnStack' /\ CreatorIsBelow'
  <2>1. SameTasks /\ UNCHANGED <<made, queue>>
    BY TopStepStacks, TopStepQueue DEF TopStep
  <2>2. \A h \in Handles : entry'[h] = entry[h] \/ (entry[h] = "ready" /\ entry'[h] = "gone")
    BY DEF TopStep, Touched
  <2> QED
    BY <2>1, <2>2, SameTasksStep
<1> QED
  BY <1>1, TopStepOneHolder, TopStepJoins, TopStepHistory DEF Consistent

\* The activity on top moves on and touches nothing.
LEMMA QuietTopKeeps ==
  ASSUME Consistent, TypeOK', NEW t \in Threads, Running(t),
         NEW op \in {"await", "finish", "code"}, NEW on \in Seq(Handles), NEW exc \in Results,
         Become(t, op, on, exc), UNCHANGED <<made, slot, entry, result, queue, next>>,
         \A m \in DOMAIN on : on[m] \in Visible,
         op = "finish" \/ Top(t).op = "code" \/ (Top(t).op = "join" /\ Top(t).exc = "ok"),
         Top(t).op = "join" => Top(t).on = << >>
  PROVE  Consistent'
<1>0. TypeOK
  BY DEF Consistent
<1>o. op \in Ops
  BY DEF Ops
<1>1. PICK a \in Activities :
        /\ a = [task |-> Top(t).task, op |-> op, on |-> on, held |-> FALSE, exc |-> exc]
        /\ TopBecomes(t, a)
  BY <1>0, <1>o, BecomeFacts
<1>2. TopStep(t, a)
  BY <1>1 DEF TopStep
<1>t. Top(t) = stack[t][Len(stack[t])] /\ Len(stack[t]) \in DOMAIN stack[t]
  BY <1>0, TopFacts
<1>3. TopFits(t, a)
  <2>1. HoldsProperly(t, a)' /\ JoinsItsOwn(t, a)' /\ ~a.held
    BY <1>1 DEF HoldsProperly, JoinsItsOwn
  <2>2. KeepsFailures(a)'
    <3>1. CASE op = "finish"
      BY <1>1, <3>1 DEF KeepsFailures
    <3>2. CASE op # "finish"
      <4>1. KeepsFailures(Top(t))
        BY <1>t DEF Consistent, FailuresAreKept
      <4> QED
        BY <1>1, <3>2, <4>1 DEF KeepsFailures, Hidden
    <3> QED
      BY <3>1, <3>2
  <2>3. WaitsForOlder(a)'
    BY <1>1 DEF WaitsForOlder, Visible, Hidden
  <2> QED
    BY <2>1, <2>2, <2>3 DEF TopFits
<1> QED
  BY <1>2, <1>3, TopStepKeeps

\* The activity on top receives an answer.
LEMMA ReceiveFits ==
  ASSUME Consistent, NEW t \in Threads, NEW a \in Activities, NEW v,
         TopStep(t, a), Receives(t, a, v),
         Top(t).op \in {"any", "timeout"} \/ Top(t).on # << >>,
         Top(t).op = "join" =>
           slot' = slot /\ entry'[Head(Top(t).on)] = "gone" /\ v = result[Head(Top(t).on)]
  PROVE  TopFits(t, a)
<1>0. TypeOK /\ Running(t) /\ UNCHANGED <<made, result, next>>
  BY DEF Consistent, TopStep
<1>t. Top(t) = stack[t][Len(stack[t])] /\ Len(stack[t]) \in DOMAIN stack[t]
      /\ Top(t).on \in Seq(Handles)
  BY <1>0, TopFacts
<1>f. JoinsItsOwn(t, Top(t)) /\ KeepsFailures(Top(t)) /\ WaitsForOlder(Top(t))
  BY <1>t DEF Consistent, JoinsAreExact, FailuresAreKept, HistoryIsOrdered
<1>a. a.task = Top(t).task /\ ~a.held
  BY DEF Receives
<1>1. HoldsProperly(t, a)'
  BY <1>a DEF HoldsProperly
<1>s. ASSUME a.op \in {"join", "gather"}
      PROVE  /\ Top(t).op = a.op /\ a.on = Tail(Top(t).on) /\ Top(t).on # << >>
             /\ \A m \in DOMAIN a.on : m \in Int /\ m + 1 \in DOMAIN Top(t).on /\ m + 1 # 1
                                       /\ a.on[m] = Top(t).on[m + 1] /\ a.on[m] \in Handles
             /\ \A m \in DOMAIN Top(t).on : m # 1 => m - 1 \in DOMAIN a.on /\ m - 1 + 1 = m
  <2>1. Top(t).op = a.op /\ a.on = Tail(Top(t).on) /\ Top(t).on # << >>
    BY <1>s DEF Receives
  <2>2. a.on \in Seq(Handles) /\ DOMAIN a.on = 1 .. Len(a.on)
        /\ DOMAIN Top(t).on = 1 .. Len(Top(t).on)
    BY DEF Activities
  <2> QED
    BY <1>t, <2>1, <2>2, SequenceFacts
<1>2. JoinsItsOwn(t, a)'
  <2>1. CASE a.op = "join"
    <3>1. slot' = slot
      BY <1>s, <2>1
    <3>2. \A m, n \in DOMAIN a.on : m < n => m + 1 < n + 1
      BY <1>s, <2>1
    <3>3. \A m, n \in DOMAIN a.on : m < n => a.on[m] < a.on[n]
      BY <1>f, <1>s, <2>1, <3>2 DEF JoinsItsOwn
    <3>4. \A m \in DOMAIN a.on :
            /\ Hidden(a.on[m]) /\ made[a.on[m]].by = a.task /\ made[a.on[m]].owner = t
            /\ slot[a.on[m]] = "full"
      BY <1>a, <1>f, <1>s, <2>1 DEF JoinsItsOwn
    <3> QED
      BY <1>0, <3>1, <3>3, <3>4 DEF JoinsItsOwn, Hidden
  <2> QED
    BY <2>1 DEF JoinsItsOwn
<1>3. KeepsFailures(a)'
  <2>1. ASSUME NEW h \in Handles, h < next, Hidden(h), made[h].by = a.task, entry'[h] = "gone",
               a.op \in {"code", "await"} \/ (a.op = "join" /\ a.exc = "ok")
        PROVE  result[h] = "ok"
    <3>1. CASE entry[h] = "gone"
      <4>1. Top(t).op \in {"code", "await"} \/ (Top(t).op = "join" /\ Top(t).exc = "ok")
        BY <2>1 DEF Receives
      <4> QED
        BY <1>a, <1>f, <2>1, <3>1, <4>1 DEF KeepsFailures
    <3>2. CASE entry[h] # "gone"
      <4>1. Mine(t, h) /\ slot'[h] # "full"
        BY <2>1, <3>2 DEF TopStep, Touched
      <4>2. PICK m \in DOMAIN Top(t).on : Top(t).on[m] = h
        BY <4>1 DEF Mine
      <4>3. Top(t).op = "join"
        BY <1>f, <2>1, <4>2 DEF WaitsForOlder
      <4>4. m = 1
        BY <1>f, <4>1, <4>2, <4>3 DEF JoinsItsOwn
      <4>5. h = Head(Top(t).on)
        BY <1>t, <4>2, <4>3, <4>4, SequenceFacts
      <4>6. v \notin Failures /\ v = result[h]
        BY <2>1, <4>3, <4>5 DEF Receives
      <4>7. result[h] \in Results
        BY <1>0 DEF TypeOK
      <4> QED
        BY <4>6, <4>7 DEF Failures, Results
    <3> QED
      BY <3>1, <3>2
  <2> QED
    BY <1>0, <2>1 DEF KeepsFailures, Hidden
<1>4. WaitsForOlder(a)'
  <2>1. CASE a.op \in {"join", "gather"}
    BY <1>0, <1>f, <1>s, <2>1 DEF WaitsForOlder, Hidden
  <2>2. CASE a.op \notin {"join", "gather"}
    <3>1. a.on = << >>
      BY <2>2 DEF Receives
    <3> QED
      BY <3>1 DEF WaitsForOlder
  <2> QED
    BY <2>1, <2>2
<1>5. ASSUME Top(t).op = "join", NEW m \in DOMAIN Top(t).on
      PROVE  \/ entry'[Top(t).on[m]] = "gone"
             \/ a.op = "join" /\ \E n \in DOMAIN a.on : a.on[n] = Top(t).on[m]
  <2>1. a.op = "join"
    BY <1>5 DEF Receives
  <2>2. CASE m = 1
    <3>1. Head(Top(t).on) = Top(t).on[m]
      BY <1>s, <1>t, <2>1, <2>2, SequenceFacts
    <3> QED
      BY <1>5, <3>1
  <2>3. CASE m # 1
    <3>1. m - 1 \in DOMAIN a.on /\ a.on[m - 1] = Top(t).on[m]
      BY <1>s, <2>1, <2>3
    <3> QED
      BY <2>1, <3>1
  <2> QED
    BY <2>2, <2>3
<1> QED
  BY <1>1, <1>2, <1>3, <1>4, <1>5, <1>a DEF TopFits

\* Taking an answer that is there, and going on with it: no block does.
LEMMA AnswerKeeps ==
  ASSUME Consistent, TypeOK', NEW t \in Threads, Running(t), Top(t).op # "join",
         NEW m \in DOMAIN Top(t).on,
         Take(t, Top(t).on[m]), Receive(t, ValueFor(t, Top(t).on[m]))
  PROVE  Consistent'
<1>0. TypeOK /\ Top(t).on \in Seq(Handles) /\ Top(t).on # << >>
  <2>1. TypeOK
    BY DEF Consistent
  <2>2. Top(t).on \in Seq(Handles)
    BY <2>1, TopFacts
  <2> QED
    BY <2>1, <2>2
<1> PICK h \in Handles : h = Top(t).on[m]
  BY <1>0
<1> PICK v : v = ValueFor(t, h)
  OBVIOUS
<1>1. PICK a \in Activities : Receives(t, a, v)
  BY <1>0, ReceiveFacts
<1>2. /\ UNCHANGED <<made, result, queue, next>>
      /\ \A g \in Handles : (entry'[g] = entry[g] /\ slot'[g] = slot[g]) \/ Touched(t, g)
  <2>1. CASE slot[h] = "full" /\ ~IsForeign(t, h)
    <3>1. entry[h] = "ready" /\ Removed(t, h) /\ UNCHANGED <<made, result, queue, next>>
      BY <2>1 DEF Take, Available
    <3>2. Touched(t, h)
      BY <1>0, <2>1, <3>1 DEF Touched, Mine, Removed, TypeOK
    <3> QED
      BY <3>1, <3>2, <1>0 DEF Removed, TypeOK
  <2>2. CASE ~(slot[h] = "full" /\ ~IsForeign(t, h))
    BY <2>2 DEF Take
  <2> QED
    BY <2>1, <2>2
<1>3. TopStep(t, a)
  BY <1>1, <1>2 DEF TopStep, Receives
<1>4. TopFits(t, a)
  BY <1>0, <1>1, <1>3, ReceiveFits
<1> QED
  BY <1>3, <1>4, TopStepKeeps

\* A scheduler that gives up does so on a task that the activity on top did not make.
LEMMA GiveUpIsForeign ==
  ASSUME Consistent, NEW t \in Threads, GiveUp(t)
  PROVE  made[Head(Top(t).on)].by # Top(t).task
<1>0. TypeOK /\ QueueIsExact /\ RunningIsOnStack /\ CreatorIsBelow /\ OneHolder
  BY DEF Consistent
<1>1. Running(t) /\ Top(t).on # << >> /\ Top(t).held
  BY DEF GiveUp, Joining
<1> PICK h \in Handles : h = Head(Top(t).on)
  BY <1>0, <1>1, HeadFacts
<1>t. /\ Top(t) = stack[t][Len(stack[t])] /\ Len(stack[t]) \in DOMAIN stack[t]
      /\ \A k \in DOMAIN stack[t] : k <= Len(stack[t])
      /\ DOMAIN stack[t] = 1 .. Len(stack[t]) /\ Len(stack[t]) \in Nat
  BY <1>0, <1>1, TopFacts, StackFacts
<1>2. made[h].owner = t /\ made[h].kind # "thread"
  <2> PICK b : b = stack[t][Len(stack[t])]
    OBVIOUS
  <2>1. b = Top(t) /\ HoldsProperly(t, b)
    BY <1>0, <1>t, Zenon DEF OneHolder
  <2>2. Cooperative(h)
    BY DEF GiveUp
  <2> QED
    BY <1>1, <2>1, <2>2 DEF HoldsProperly, Cooperative
<1>3. entry[h] # "queued"
  <2>1. ASSUME entry[h] = "queued" PROVE FALSE
    <3>1. PICK k \in DOMAIN queue[t] : queue[t][k] = h
      BY <1>0, <1>2, <2>1 DEF QueueIsExact
    <3>2. k \in QueuedAt(t)
      BY <2>1, <3>1 DEF QueuedAt
    <3> QED
      BY <3>2 DEF GiveUp
  <2> QED
    BY <2>1
<1>4. entry[h] = "running"
  BY <1>3 DEF GiveUp
<1>p. PICK u \in Threads : \E k \in DOMAIN stack[u] : stack[u][k].task = h
  BY <1>0, <1>4 DEF RunningIsOnStack
<1>5. PICK k \in DOMAIN stack[u] : stack[u][k].task = h
  BY <1>p
<1>6. u = t /\ k # 1
  <2>1. CASE k = 1
    <3>1. h = u /\ (u # Main => made[u].kind = "thread")
      BY <1>0, <1>5, <2>1 DEF RunningIsOnStack
    <3>2. h # Main
      BY DEF Handles, Main
    <3> QED
      BY <1>2, <3>1, <3>2
  <2>2. CASE k # 1
    BY <1>0, <1>2, <1>5, <2>2 DEF RunningIsOnStack
  <2> QED
    BY <2>1, <2>2
<1>7. made[h].by = Top(t).task => Len(stack[t]) < k
  BY <1>0, <1>5, <1>6, <1>t DEF CreatorIsBelow
<1> QED
  BY <1>5, <1>6, <1>7, <1>t

\* Taking the entry of the first handle out of its slot, to resolve it.
LEMMA ClaimKeeps ==
  ASSUME Consistent, TypeOK', NEW t \in Threads, Claim(t)
  PROVE  Consistent'
<1>0. TypeOK /\ Running(t) /\ Top(t).on # << >> /\ ~Top(t).held
      /\ Top(t).op \in {"await", "join", "gather"}
  BY DEF Consistent, Claim, Joining
<1>t. /\ Top(t) = stack[t][Len(stack[t])] /\ Len(stack[t]) \in DOMAIN stack[t]
      /\ Top(t).on \in Seq(Handles) /\ Top(t) \in Activities
  BY <1>0, TopFacts
<1>h. Head(Top(t).on) = Top(t).on[1] /\ 1 \in DOMAIN Top(t).on /\ Head(Top(t).on) \in Handles
  BY <1>0, HeadFacts
<1>f. JoinsItsOwn(t, Top(t)) /\ KeepsFailures(Top(t)) /\ WaitsForOlder(Top(t))
  BY <1>t DEF Consistent, JoinsAreExact, FailuresAreKept, HistoryIsOrdered
<1> PICK h \in Handles : h = Head(Top(t).on)
  BY <1>h
<1>1. CASE /\ slot[h] = "empty" \/ IsForeign(t, h) \/ made[h].kind = "ready"
           /\ Take(t, h) /\ Receive(t, ValueFor(t, h))
  <2>1. Top(t).op # "join"
    BY <1>0, <1>1, <1>f, <1>h DEF JoinsItsOwn, IsForeign, Hidden
  <2> QED
    BY <1>0, <1>1, <1>h, <2>1, AnswerKeeps
<1>2. CASE /\ slot[h] = "full" /\ ~IsForeign(t, h)
           /\ TakesSlot(h) /\ stack' = [stack EXCEPT ![t][Len(stack[t])].held = TRUE]
           /\ UNCHANGED <<made, entry, result, queue, next, answer>>
  <2>1. [Top(t) EXCEPT !.held = TRUE] \in Activities
    BY <1>t DEF Activities
  <2> PICK a \in Activities : a = [Top(t) EXCEPT !.held = TRUE]
    BY <2>1
  <2>2. TopBecomes(t, a)
    BY <1>2 DEF TopBecomes, Top
  <2>3. /\ a.task = Top(t).task /\ a.op = Top(t).op /\ a.on = Top(t).on /\ a.exc = Top(t).exc
        /\ a.held
    BY <1>t DEF Activities
  <2>4. Mine(t, h)
    BY <1>2, <1>h DEF Mine
  <2>5. \A g \in Handles : g # h => slot'[g] = slot[g]
    BY <1>0, <1>2 DEF TakesSlot, TypeOK
  <2>6. slot'[h] = "empty"
    BY <1>0, <1>2 DEF TakesSlot, TypeOK
  <2>7. TopStep(t, a)
    BY <1>0, <1>2, <2>2, <2>3, <2>4, <2>5, <2>6 DEF TopStep, Touched
  <2>8. entry[h] \notin {"none", "gone"}
    <3>1. ~(h >= next)
      BY <1>2 DEF Consistent, HistoryIsOrdered
    <3>2. h < next
      <4>1. next \in Int
        BY <1>0 DEF TypeOK
      <4>2. h \in Int
        BY DEF Handles
      <4> QED
        BY <3>1, <4>1, <4>2
    <3> QED
      BY <1>2, <3>2 DEF Consistent, HistoryIsOrdered
  <2>9. HoldsProperly(t, a)'
    BY <1>0, <1>2, <2>3, <2>6, <2>8 DEF HoldsProperly, Cooperative, IsForeign
  <2>10. JoinsItsOwn(t, a)'
    <3>1. ASSUME Top(t).op = "join", NEW m \in DOMAIN Top(t).on, m # 1
          PROVE  slot'[Top(t).on[m]] = "full"
      <4>1. Top(t).on[m] \in Handles /\ m \in DOMAIN Top(t).on /\ (m > 1)
        BY <1>t, <3>1, SequenceFacts
      <4>2. Top(t).on[1] < Top(t).on[m]
        BY <1>f, <1>h, <3>1, <4>1 DEF JoinsItsOwn
      <4>3. Top(t).on[m] # h
        BY <1>h, <4>1, <4>2 DEF Handles
      <4> QED
        BY <1>0, <1>f, <2>5, <3>1, <4>1, <4>3 DEF JoinsItsOwn
    <3> QED
      BY <1>2, <1>f, <2>3, <3>1 DEF JoinsItsOwn, Hidden
  <2>11. KeepsFailures(a)'
    BY <1>2, <1>f, <2>3 DEF KeepsFailures, Hidden
  <2>12. WaitsForOlder(a)'
    BY <1>2, <1>f, <2>3 DEF WaitsForOlder, Hidden
  <2>13. Top(t).op = "join" => \A m \in DOMAIN Top(t).on :
           a.op = "join" /\ \E n \in DOMAIN a.on : a.on[n] = Top(t).on[m]
    BY <2>3
  <2>14. Mine(t, Head(a.on)) /\ Head(a.on) \in Handles
    BY <2>3, <2>4
  <2>15. TopFits(t, a)
    BY <2>9, <2>10, <2>11, <2>12, <2>13, <2>14 DEF TopFits
  <2> QED
    BY <2>7, <2>15, TopStepKeeps
<1> QED
  BY <1>1, <1>2 DEF Claim

\* The entry that was taken out is ready: its result goes to the activity on top.
LEMMA DeliverKeeps ==
  ASSUME Consistent, TypeOK', NEW t \in Threads, Joining(t), Top(t).held,
         NEW h \in Handles, h = Head(Top(t).on), entry[h] = "ready",
         entry' = [entry EXCEPT ![h] = "gone"], Receive(t, result[h]),
         UNCHANGED <<made, slot, result, queue, next>>
  PROVE  Consistent'
<1>0. TypeOK /\ OneHolder /\ Running(t) /\ Top(t).on # << >>
  BY DEF Consistent, Joining
<1>t. Top(t) = stack[t][Len(stack[t])] /\ Len(stack[t]) \in DOMAIN stack[t]
  BY <1>0, TopFacts
<1>h. Head(Top(t).on) = Top(t).on[1] /\ 1 \in DOMAIN Top(t).on
  BY <1>0, HeadFacts
<1> PICK v : v = result[h]
  OBVIOUS
<1>1. PICK a \in Activities : Receives(t, a, v)
  BY <1>0, ReceiveFacts
<1>2. Mine(t, h) /\ slot'[h] # "full"
  BY <1>0, <1>t, <1>h DEF Mine, HoldsOn, OneHolder, HoldsProperly
<1>3. entry'[h] = "gone" /\ \A g \in Handles : g # h => entry'[g] = entry[g]
  BY <1>0 DEF TypeOK
<1>4. TopStep(t, a)
  BY <1>0, <1>1, <1>2, <1>3 DEF TopStep, Touched, Receives
<1>5. TopFits(t, a)
  BY <1>0, <1>1, <1>3, <1>4, ReceiveFits
<1> QED
  BY <1>4, <1>5, TopStepKeeps

LEMMA GiveUpKeeps ==
  ASSUME Consistent, TypeOK', NEW t \in Threads, GiveUp(t)
  PROVE  Consistent'
<1>0. TypeOK /\ Running(t) /\ Top(t).on # << >>
  BY DEF Consistent, GiveUp, Joining
<1>t. Top(t) = stack[t][Len(stack[t])] /\ Len(stack[t]) \in DOMAIN stack[t]
  BY <1>0, TopFacts
<1>h. Head(Top(t).on) = Top(t).on[1] /\ 1 \in DOMAIN Top(t).on
  BY <1>0, HeadFacts
<1>1. Top(t).op # "join"
  BY <1>h, <1>t, GiveUpIsForeign DEF Consistent, JoinsAreExact, JoinsItsOwn
<1>2. PICK a \in Activities : Receives(t, a, "deadlock")
  BY <1>0, ReceiveFacts DEF GiveUp
<1>3. TopStep(t, a)
  BY <1>0, <1>2 DEF TopStep, Receives, GiveUp
<1>4. TopFits(t, a)
  BY <1>0, <1>1, <1>2, <1>3, ReceiveFits
<1> QED
  BY <1>3, <1>4, TopStepKeeps

\* The steps of user code, of a block's end and of the polling closures.
LEMMA AwaitKeeps ==
  ASSUME Consistent, TypeOK', NEW t \in Threads,
         Await(t) \/ CodeEnds(t) \/ AllResolved(t) \/ TimeoutExpires(t) \/ Poll(t)
  PROVE  Consistent'
<1>0. TypeOK /\ Running(t)
  BY DEF Consistent, Await, CodeEnds, AllResolved, TimeoutExpires, Poll, InCode
<1>e. << >> \in Seq(Handles) /\ DOMAIN << >> = {} /\ "ok" \in Results
  BY DEF Results
<1>1. CASE Await(t)
  <2>1. PICK h \in Visible : Become(t, "await", <<h>>, "ok")
    BY <1>1 DEF Await
  <2>2. <<h>> \in Seq(Handles) /\ \A m \in DOMAIN <<h>> : <<h>>[m] \in Visible
    BY DEF Visible
  <2> QED
    BY <1>0, <1>1, <1>e, <2>1, <2>2, QuietTopKeeps DEF Await, InCode
<1>2. CASE CodeEnds(t)
  <2>1. PICK v \in Results : Become(t, "finish", << >>, v)
    BY <1>2 DEF CodeEnds
  <2> QED
    BY <1>0, <1>2, <1>e, <2>1, QuietTopKeeps DEF CodeEnds, InCode
<1>3. CASE AllResolved(t)
  <2>1. Top(t).exc \in Results
    BY <1>0, TopFacts
  <2> QED
    BY <1>0, <1>3, <1>e, <2>1, QuietTopKeeps DEF AllResolved
<1>4. CASE TimeoutExpires(t)
  BY <1>0, <1>4, <1>e, QuietTopKeeps DEF TimeoutExpires
<1>5. CASE Poll(t)
  <2>1. CASE Become(t, "finish", << >>, "ok") /\ UNCHANGED <<made, slot, entry, result, queue, next, answer>>
    BY <1>0, <1>5, <1>e, <2>1, QuietTopKeeps DEF Poll
  <2>2. ASSUME NEW k \in DOMAIN Top(t).on, Take(t, Top(t).on[k]),
               Receive(t, ValueFor(t, Top(t).on[k]))
        PROVE  Consistent'
    BY <1>0, <1>5, <2>2, AnswerKeeps DEF Poll
  <2> QED
    BY <1>5, <2>1, <2>2 DEF Poll
<1> QED
  BY <1>1, <1>2, <1>3, <1>4, <1>5

-----------------------------------------------------------------------------
(* Steps that start, end or wake an activity, or create handles.           *)

\* What existed keeps its slot, is not taken away and not queued again.
OldHandlesStay ==
  /\ next \in Int /\ next' \in Int /\ next <= next'
  /\ \A h \in Handles : h < next =>
       /\ made'[h] = made[h] /\ slot'[h] = slot[h]
       /\ entry'[h] = "none" <=> entry[h] = "none"
       /\ entry'[h] = "gone" <=> entry[h] = "gone"
       /\ entry'[h] = "queued" => entry[h] = "queued"
       /\ entry[h] = "gone" => result'[h] = result[h]
  /\ \A h \in Handles : h >= next' =>
       slot'[h] = slot[h] /\ entry'[h] = entry[h] /\ result'[h] = result[h]

\* What is new is full, younger than its maker and than what it was given, and joined
\* if it is a block's.
NewHandlesFit ==
  \A h \in Handles : next <= h /\ h < next' =>
    /\ slot'[h] = "full" /\ entry'[h] \notin {"none", "gone"}
    /\ made'[h].by < h /\ (made'[h].by # Main => entry'[made'[h].by] # "queued")
    /\ \A n \in DOMAIN made'[h].args : made'[h].args[n] < h /\ ~Hidden(made[h].args[n])'
    /\ Hidden(h)' => \E k \in DOMAIN stack'[made'[h].owner] :
         LET a == stack'[made'[h].owner][k] IN
         a.task = made'[h].by /\ a.op = "join" /\ \E n \in DOMAIN a.on : a.on[n] = h

\* An activity that has just started, or begun to join, holds nothing yet.
Fresh(u, b) ==
  /\ ~b.held /\ JoinsItsOwn(u, b)' /\ KeepsFailures(b)' /\ WaitsForOlder(b)'
  /\ b.op \in {"any", "timeout"} =>
       \A n \in DOMAIN b.on : made'[b.on[n]].owner = u => entry'[b.on[n]] # "queued"

\* Every activity is an old one or a fresh one, and joins go on.
ActivitiesStay ==
  /\ \A u \in Threads : \A k \in DOMAIN stack'[u] :
       \/ k \in DOMAIN stack[u] /\ stack'[u][k] = stack[u][k]
       \/ \E b \in Activities : b = stack'[u][k] /\ Fresh(u, b)
  /\ \A u \in Threads : \A k \in DOMAIN stack[u] :
       stack[u][k].op = "join" => k \in DOMAIN stack'[u] /\ stack'[u][k] = stack[u][k]

LEMMA OldActivityFits ==
  ASSUME Consistent, OldHandlesStay, NewHandlesFit, NEW u \in Threads, NEW k \in DOMAIN stack[u],
         NEW b \in Activities, b = stack[u][k]
  PROVE  /\ HoldsProperly(u, b)' /\ JoinsItsOwn(u, b)' /\ KeepsFailures(b)' /\ WaitsForOlder(b)'
         /\ b.op \in {"any", "timeout"} =>
              \A n \in DOMAIN b.on : made'[b.on[n]].owner = u => entry'[b.on[n]] # "queued"
<1>0. HoldsProperly(u, b) /\ JoinsItsOwn(u, b) /\ KeepsFailures(b) /\ WaitsForOlder(b)
  BY DEF Consistent, OneHolder, JoinsAreExact, FailuresAreKept, HistoryIsOrdered
<1>1. /\ b.on \in Seq(Handles)
      /\ \A n \in DOMAIN b.on : b.on[n] \in Handles /\ b.on[n] < next
      /\ b.on # << >> => Head(b.on) \in Handles /\ Head(b.on) < next
  <2>1. b.on \in Seq(Handles)
    BY DEF Activities
  <2>2. \A n \in DOMAIN b.on : b.on[n] \in Handles /\ b.on[n] < next
    BY <1>0, <2>1, SequenceFacts DEF WaitsForOlder
  <2> QED
    BY <2>1, <2>2, SequenceFacts
<1>2. HoldsProperly(u, b)'
  <2>1. CASE b.held
    <3> DEFINE h == Head(b.on)
    <3>1. h \in Handles /\ h < next
      BY <1>0, <1>1, <2>1 DEF HoldsProperly
    <3>2. made'[h] = made[h] /\ slot'[h] = slot[h] /\ (entry'[h] = "none" <=> entry[h] = "none")
          /\ (entry'[h] = "gone" <=> entry[h] = "gone")
      BY <3>1 DEF OldHandlesStay
    <3> QED
      BY <1>0, <2>1, <3>2 DEF HoldsProperly, Cooperative
  <2> QED
    BY <2>1 DEF HoldsProperly
<1>3. JoinsItsOwn(u, b)'
  BY <1>0, <1>1, SMTT(30) DEF JoinsItsOwn, OldHandlesStay, Hidden
<1>4. WaitsForOlder(b)'
  <2>1. \A n \in DOMAIN b.on : b.on[n] \in Int
    BY <1>1 DEF Handles
  <2> QED
    BY <1>0, <1>1, <2>1 DEF WaitsForOlder, OldHandlesStay, Hidden
<1>5. ASSUME b.op \in {"any", "timeout"}, NEW n \in DOMAIN b.on, made'[b.on[n]].owner = u
      PROVE  entry'[b.on[n]] # "queued"
  <2>1. made[b.on[n]].owner = u
    BY <1>1, <1>5 DEF OldHandlesStay
  <2>2. entry[b.on[n]] # "queued"
    BY <1>5, <2>1 DEF Consistent, PolledTasksAreStarted
  <2> QED
    BY <1>1, <2>2 DEF OldHandlesStay
<1>6. KeepsFailures(b)'
  <2>1. ASSUME NEW h \in Handles, h < next', Hidden(h)', made'[h].by = b.task, entry'[h] = "gone",
               b.op \in {"code", "await"} \/ (b.op = "join" /\ b.exc = "ok")
        PROVE  result'[h] = "ok"
    <3>1. h < next
      <4>1. ~(next <= h)
        BY <2>1 DEF NewHandlesFit
      <4> QED
        BY <4>1 DEF OldHandlesStay, Handles
    <3>2. Hidden(h) /\ made[h].by = b.task /\ entry[h] = "gone" /\ result'[h] = result[h]
      BY <2>1, <3>1 DEF OldHandlesStay, Hidden
    <3> QED
      BY <1>0, <2>1, <3>1, <3>2 DEF KeepsFailures
  <2> QED
    BY <2>1 DEF KeepsFailures, Hidden
<1> QED
  BY <1>2, <1>3, <1>4, <1>5, <1>6

LEMMA GrowStep ==
  ASSUME Consistent, TypeOK', OldHandlesStay, NewHandlesFit, ActivitiesStay
  PROVE  /\ OneHolder' /\ JoinsAreExact' /\ BlocksAreJoined' /\ FailuresAreKept'
         /\ PolledTasksAreStarted' /\ HistoryIsOrdered'
<1>0. TypeOK /\ OneHolder /\ BlocksAreJoined /\ HistoryIsOrdered
  BY DEF Consistent
<1>i. /\ next \in Int /\ next' \in Int /\ next <= next' /\ Handles \subseteq Int
      /\ \A h \in Handles : h < next \/ (next <= h /\ h < next') \/ h >= next'
  BY DEF OldHandlesStay, Handles
<1>1. ASSUME NEW u \in Threads, NEW k \in DOMAIN stack'[u]
      PROVE  /\ HoldsProperly(u, stack[u][k])' /\ JoinsItsOwn(u, stack[u][k])'
             /\ KeepsFailures(stack[u][k])' /\ WaitsForOlder(stack[u][k])'
             /\ stack'[u][k].op \in {"any", "timeout"} => \A n \in DOMAIN stack'[u][k].on :
                  made'[stack'[u][k].on[n]].owner = u => entry'[stack'[u][k].on[n]] # "queued"
  <2>1. PICK b \in Activities : b = stack'[u][k]
    <3>1. stack'[u] \in Seq(Activities)
      BY DEF TypeOK, Activities
    <3> QED
      BY <3>1, SequenceFacts
  <2>2. /\ HoldsProperly(u, b)' /\ JoinsItsOwn(u, b)' /\ KeepsFailures(b)' /\ WaitsForOlder(b)'
        /\ b.op \in {"any", "timeout"} =>
              \A n \in DOMAIN b.on : made'[b.on[n]].owner = u => entry'[b.on[n]] # "queued"
    <3>1. CASE k \in DOMAIN stack[u] /\ stack'[u][k] = stack[u][k]
      BY <2>1, <3>1, OldActivityFits
    <3>2. CASE Fresh(u, b)
      <4>1. HoldsProperly(u, b)'
        BY <3>2 DEF Fresh, HoldsProperly
      <4> QED
        BY <3>2, <4>1 DEF Fresh
    <3> QED
      BY <2>1, <3>1, <3>2 DEF ActivitiesStay
  <2>3. HoldsProperly(u, stack[u][k])'
    BY <2>1, <2>2 DEF HoldsProperly
  <2>4. JoinsItsOwn(u, stack[u][k])'
    BY <2>1, <2>2 DEF JoinsItsOwn
  <2>5. KeepsFailures(stack[u][k])'
    BY <2>1, <2>2 DEF KeepsFailures
  <2>6. WaitsForOlder(stack[u][k])'
    BY <2>1, <2>2 DEF WaitsForOlder
  <2> QED
    BY <2>1, <2>2, <2>3, <2>4, <2>5, <2>6
<1>2. JoinsAreExact' /\ FailuresAreKept' /\ PolledTasksAreStarted'
  BY <1>1 DEF JoinsAreExact, FailuresAreKept, PolledTasksAreStarted
<1>3. OneHolder'
  <2>1. ASSUME NEW u \in Threads, NEW k \in DOMAIN stack'[u], stack'[u][k].held
        PROVE  k \in DOMAIN stack[u] /\ stack'[u][k] = stack[u][k]
    BY <2>1 DEF ActivitiesStay, Fresh
  <2>2. \A u, v \in Threads : \A j \in DOMAIN stack'[u], k \in DOMAIN stack'[v] :
          stack'[u][j].held /\ HoldsOn(stack'[v][k], Head(stack'[u][j].on)) => u = v /\ j = k
    BY <1>0, <2>1 DEF OneHolder, HoldsOn
  <2> QED
    BY <1>1, <2>2 DEF OneHolder, HoldsOn
<1>4. ASSUME NEW h \in Handles, h < next', Hidden(h)', entry'[h] # "gone"
      PROVE  \E k \in DOMAIN stack'[made'[h].owner] :
               LET b == stack'[made'[h].owner][k] IN
               b.task = made'[h].by /\ b.op = "join" /\ \E m \in DOMAIN b.on : b.on[m] = h
  <2>1. CASE next <= h
    BY <1>4, <2>1 DEF NewHandlesFit
  <2>2. CASE h < next
    <3>1. Hidden(h) /\ made'[h] = made[h] /\ entry[h] # "gone"
      BY <1>4, <2>2 DEF OldHandlesStay, Hidden
    <3> DEFINE u == made[h].owner
    <3>2. u \in Threads
      BY <1>0 DEF TypeOK
    <3>3. PICK k \in DOMAIN stack[u] :
            stack[u][k].task = made[h].by /\ stack[u][k].op = "join"
            /\ \E m \in DOMAIN stack[u][k].on : stack[u][k].on[m] = h
      BY <1>0, <2>2, <3>1 DEF BlocksAreJoined
    <3>4. k \in DOMAIN stack'[u] /\ stack'[u][k] = stack[u][k]
      BY <3>2, <3>3 DEF ActivitiesStay
    <3> QED
      BY <3>1, <3>3, <3>4
  <2> QED
    BY <1>i, <2>1, <2>2
<1>5. BlocksAreJoined'
  BY <1>4 DEF BlocksAreJoined, Hidden
<1>6. HistoryIsOrdered'
  <2>1. ASSUME NEW h \in Handles, h >= next'
        PROVE  slot'[h] = "unborn" /\ entry'[h] = "none" /\ result'[h] = "ok"
    BY <1>0, <1>i, <2>1 DEF OldHandlesStay, HistoryIsOrdered
  <2>2. ASSUME NEW h \in Handles, h < next'
        PROVE  /\ slot'[h] # "unborn" /\ entry'[h] # "none"
               /\ slot'[h] = "full" => entry'[h] # "gone"
               /\ made'[h].by < h
               /\ made'[h].by # Main => entry'[made'[h].by] # "queued"
               /\ \A n \in DOMAIN made'[h].args :
                    made'[h].args[n] < h /\ ~Hidden(made[h].args[n])'
    <3>1. CASE next <= h
      BY <2>2, <3>1 DEF NewHandlesFit
    <3>2. CASE h < next
      <4>1. made'[h] = made[h] /\ slot'[h] = slot[h] /\ made[h].by < h
            /\ (entry'[h] = "none" <=> entry[h] = "none") /\ (entry'[h] = "gone" <=> entry[h] = "gone")
        BY <1>0, <3>2 DEF OldHandlesStay, HistoryIsOrdered
      <4>2. made[h].by # Main => entry'[made[h].by] # "queued"
        <5>1. made[h].by # Main => made[h].by \in Handles /\ entry[made[h].by] # "queued"
          BY <1>0, <3>2 DEF TypeOK, Threads, HistoryIsOrdered
        <5>2. made[h].by # Main => made[h].by < next
          BY <1>i, <3>2, <4>1, <5>1
        <5> QED
          BY <5>1, <5>2 DEF OldHandlesStay
      <4>3. ASSUME NEW n \in DOMAIN made[h].args
            PROVE  made[h].args[n] < h /\ ~Hidden(made[h].args[n])'
        <5>0. made[h].args \in Seq(Handles)
          BY <1>0 DEF TypeOK
        <5> PICK g \in Handles : g = made[h].args[n]
          BY <5>0, <4>3, SequenceFacts
        <5>1. g < h /\ ~Hidden(g)
          BY <1>0, <3>2 DEF HistoryIsOrdered
        <5>2. g < next
          BY <1>i, <3>2, <5>1
        <5>3. made'[g] = made[g]
          BY <5>2 DEF OldHandlesStay
        <5>4. made'[h] = made[h]
          BY <4>1
        <5> QED
          BY <5>1, <5>3, <5>4 DEF Hidden
      <4> QED
        BY <1>0, <3>2, <4>1, <4>2, <4>3 DEF HistoryIsOrdered, Hidden
    <3> QED
      BY <1>i, <3>1, <3>2
  <2> QED
    BY <1>1, <2>1, <2>2 DEF HistoryIsOrdered, Hidden
<1> QED
  BY <1>2, <1>3, <1>5, <1>6

\* A sleeper wakes up.
LEMMA TimerKeeps ==
  ASSUME Consistent, TypeOK', TimerFires
  PROVE  Consistent'
<1>0. TypeOK
  BY DEF Consistent
<1>1. PICK g \in Handles : entry[g] = "sleeping" /\ entry' = [entry EXCEPT ![g] = "ready"]
  BY DEF TimerFires
<1>2. entry'[g] = "ready" /\ \A h \in Handles : h # g => entry'[h] = entry[h]
  BY <1>0, <1>1 DEF TypeOK
<1>3. UNCHANGED <<made, slot, result, queue, next, stack>>
  BY DEF TimerFires
<1>4. QueueIsExact' /\ RunningIsOnStack' /\ CreatorIsBelow'
  BY <1>1, <1>2, <1>3, SameTasksStep DEF SameTasks
<1>5. OldHandlesStay
  <2>1. next \in Int
    BY <1>0 DEF TypeOK
  <2>2. ~(g >= next)
    BY <1>1 DEF Consistent, HistoryIsOrdered
  <2> QED
    BY <1>1, <1>2, <1>3, <2>1, <2>2 DEF OldHandlesStay
<1>6. NewHandlesFit
  BY <1>3, <1>5 DEF NewHandlesFit, OldHandlesStay, Handles
<1>7. ActivitiesStay
  BY <1>3 DEF ActivitiesStay
<1> QED
  BY <1>4, <1>5, <1>6, <1>7, GrowStep DEF Consistent

\* The activity on top ends.
LEMMA FinishKeeps ==
  ASSUME Consistent, TypeOK', NEW t \in Threads, Finish(t)
  PROVE  Consistent'
<1>0. /\ TypeOK /\ Running(t) /\ Top(t).op = "finish" /\ QueueIsExact /\ RunningIsOnStack
      /\ CreatorIsBelow
  BY DEF Consistent, Finish
<1> PICK n : n = Len(stack[t])
  OBVIOUS
<1>t. n \in DOMAIN stack[t] /\ Top(t) = stack[t][n]
  BY <1>0, TopFacts
<1> PICK i \in Threads : i = Top(t).task
  BY <1>0, TopFacts
<1>s. /\ \A u \in Threads : u # t => stack'[u] = stack[u]
      /\ \A k : k \in DOMAIN stack'[t] <=> k \in DOMAIN stack[t] /\ k # n
      /\ \A u \in Threads : \A k \in DOMAIN stack'[u] :
           k \in DOMAIN stack[u] /\ stack'[u][k] = stack[u][k]
  BY <1>0, PopFacts DEF Finish
<1>i. i < next /\ (i # Main => i \in Handles /\ entry[i] = "running")
  BY <1>t, PlacedRuns
<1>u. UNCHANGED <<made, slot, queue, next>>
  BY DEF Finish
<1>e. \A h \in Handles : /\ entry'[h] = IF h = i THEN "ready" ELSE entry[h]
                         /\ h # i => result'[h] = result[h]
  <2>1. CASE i = Main
    <3>1. \A h \in Handles : h # i
      BY <2>1 DEF Main, Handles
    <3> QED
      BY <2>1, <3>1 DEF Finish
  <2>2. CASE i # Main
    BY <1>0, <1>i, <2>2, ZenonT(40) DEF Finish, TypeOK
  <2> QED
    BY <2>1, <2>2
<1>1. QueueIsExact'
  <2>1. \A h \in Handles : entry'[h] = "queued" <=> entry[h] = "queued"
    BY <1>e, <1>i DEF Main, Handles
  <2> QED
    BY <1>0, <1>u, <2>1 DEF QueueIsExact, IsQueued
<1>2. RunningIsOnStack'
  <2>1. \A u \in Threads : \A j, k \in DOMAIN stack'[u] :
          stack'[u][j].task = stack'[u][k].task => j = k
    BY <1>0, <1>s DEF RunningIsOnStack
  <2>2. \A u \in Threads : \A k \in DOMAIN stack'[u] :
          LET g == stack'[u][k].task IN
          IF k = 1 THEN g = u /\ (u # Main => made'[u].kind = "thread")
          ELSE g # Main /\ made'[g].kind # "thread" /\ made'[g].owner = u
    BY <1>0, <1>s, <1>u DEF RunningIsOnStack
  <2>3. ASSUME NEW h \in Handles
        PROVE  entry'[h] = "running" <=>
                 \E u \in Threads : \E k \in DOMAIN stack'[u] : stack'[u][k].task = h
    <3>1. CASE h = i
      <4>1. ASSUME NEW u \in Threads, NEW k \in DOMAIN stack'[u], stack'[u][k].task = h
            PROVE  FALSE
        <5>1. k \in DOMAIN stack[u] /\ stack[u][k].task = stack[t][n].task
          BY <1>s, <1>t, <3>1, <4>1
        <5>2. u = t /\ k = n
          BY <1>t, <5>1, OnePlace
        <5> QED
          BY <1>s, <4>1, <5>2
      <4> QED
        BY <1>e, <3>1, <4>1
    <3>2. CASE h # i
      <4>1. ASSUME NEW u \in Threads, NEW k \in DOMAIN stack[u], stack[u][k].task = h
            PROVE  k \in DOMAIN stack'[u] /\ stack'[u][k].task = h
        <5>1. u # t \/ k # n
          BY <1>t, <3>2, <4>1
        <5>2. k \in DOMAIN stack'[u]
          BY <1>s, <5>1
        <5> QED
          BY <1>s, <4>1, <5>2
      <4>2. entry[h] = "running" <=>
              \E u \in Threads : \E k \in DOMAIN stack[u] : stack[u][k].task = h
        BY <1>0 DEF RunningIsOnStack
      <4> QED
        BY <1>e, <1>s, <3>2, <4>1, <4>2
    <3> QED
      BY <3>1, <3>2
  <2> QED
    BY <2>1, <2>2, <2>3 DEF RunningIsOnStack
<1>3. CreatorIsBelow'
  BY <1>0, <1>s, <1>u DEF CreatorIsBelow
<1>5. OldHandlesStay
  <2>1. next \in Int
    BY <1>0 DEF TypeOK
  <2>2. \A h \in Handles : h >= next => h # i
    BY <1>i, <2>1 DEF Handles
  <2>3. \A h \in Handles : h = i => entry[h] = "running"
    BY <1>i DEF Handles, Main
  <2> QED
    BY <1>e, <1>u, <2>1, <2>2, <2>3 DEF OldHandlesStay
<1>6. NewHandlesFit
  BY <1>u, <1>5 DEF NewHandlesFit, OldHandlesStay, Handles
<1>7. ActivitiesStay
  <2>1. ASSUME NEW u \in Threads, NEW k \in DOMAIN stack[u], stack[u][k].op = "join"
        PROVE  k \in DOMAIN stack'[u] /\ stack'[u][k] = stack[u][k]
    <3>1. u # t \/ k # n
      BY <1>0, <1>t, <2>1
    <3>2. k \in DOMAIN stack'[u]
      BY <1>s, <3>1
    <3> QED
      BY <1>s, <3>2
  <2> QED
    BY <1>s, <2>1 DEF ActivitiesStay
<1> QED
  BY <1>1, <1>2, <1>3, <1>5, <1>6, <1>7, GrowStep DEF Consistent

\* The oldest queued task of a thread is started on top of its stack.
LEMMA RunNextKeeps ==
  ASSUME Consistent, TypeOK', NEW t \in Threads, Running(t), RunNext(t)
  PROVE  Consistent'
<1>0. /\ TypeOK /\ QueueIsExact /\ RunningIsOnStack /\ CreatorIsBelow /\ HistoryIsOrdered
  BY DEF Consistent
<1>r. PICK i \in Handles :
           /\ 1 \in DOMAIN queue[t] /\ i = queue[t][1]
           /\ entry[i] = "queued" /\ made[i].owner = t
           /\ \A h \in Handles : entry[h] = "queued" /\ made[h].owner = t => i <= h
           /\ IsQueued(made[i].kind)
           /\ queue' = [queue EXCEPT ![t] = SubSeq(@, 2, Len(@))]
           /\ entry' = [entry EXCEPT ![i] = "running"]
           /\ stack' = [stack EXCEPT ![t] = Append(@, Opening(i))]
           /\ Opening(i) \in Activities
           /\ Opening(i).task = i /\ ~Opening(i).held
           /\ \/ Opening(i).op = "code" /\ Opening(i).on = << >>
              \/ Opening(i).op \in {"gather", "any", "timeout"} /\ Opening(i).on = made[i].args
           /\ UNCHANGED <<made, slot, result, next, answer>>
  BY RunNextFacts
<1> PICK a \in Activities : a = Opening(i)
  BY <1>r
<1> PICK n : n = Len(stack[t]) + 1
  OBVIOUS
<1>p. stack' = [stack EXCEPT ![t] = Append(@, a)]
  BY <1>r
<1>s. /\ n \in DOMAIN stack'[t] /\ n \notin DOMAIN stack[t] /\ stack'[t][n] = a
      /\ \A u \in Threads : \A k \in DOMAIN stack[u] :
              k \in DOMAIN stack'[u] /\ stack'[u][k] = stack[u][k]
      /\ \A u \in Threads : \A k \in DOMAIN stack'[u] :
              k \in DOMAIN stack[u] \/ (u = t /\ k = n)
      /\ \A k \in DOMAIN stack[t] : k < n
  BY <1>0, <1>p, PushFacts
<1>n. n # 1
  BY <1>0, <1>s, StackFacts
<1>e. entry'[i] = "running" /\ \A h \in Handles : h # i => entry'[h] = entry[h]
  BY <1>0, <1>r DEF TypeOK
<1>a. /\ a.task = i /\ ~a.held
      /\ \/ a.op = "code" /\ a.on = << >>
         \/ a.op \in {"gather", "any", "timeout"} /\ a.on = made[i].args
  BY <1>r
<1>i. i < next /\ i \in Int /\ i # Main
  <2>1. ~(i >= next)
    BY <1>0, <1>r DEF HistoryIsOrdered
  <2>2. next \in Int /\ i \in Int /\ i # Main
    BY <1>0 DEF TypeOK, Handles, Main
  <2> QED
    BY <2>1, <2>2
<1>m. made[i].kind # "thread" /\ ~(\E u \in Threads : \E k \in DOMAIN stack[u] : stack[u][k].task = i)
  BY <1>0, <1>r DEF IsQueued, RunningIsOnStack
<1>1. QueueIsExact'
  <2>1. /\ \A u \in Threads : u # t => queue'[u] = queue[u]
        /\ queue'[t] = SubSeq(queue[t], 2, Len(queue[t]))
    BY <1>0, <1>r DEF TypeOK
  <2>2. /\ \A m \in DOMAIN queue'[t] : m \in Int /\ m + 1 \in DOMAIN queue[t] /\ m + 1 # 1
                                         /\ queue'[t][m] = queue[t][m + 1]
        /\ \A m \in DOMAIN queue[t] : m # 1 =>
             m - 1 \in DOMAIN queue'[t] /\ queue'[t][m - 1] = queue[t][m]
    <3>1. queue[t] \in Seq(Handles) /\ 1 \in DOMAIN queue[t] /\ DOMAIN queue[t] = 1 .. Len(queue[t])
          /\ Len(queue[t]) \in Nat
      BY <1>0, <1>r, QueueFacts
    <3>2. /\ DOMAIN queue'[t] = 1 .. Len(queue[t]) - 1
          /\ \A m \in 1 .. Len(queue[t]) - 1 : queue'[t][m] = queue[t][m + 1]
      BY <2>1, <3>1
    <3> QED
      BY <3>1, <3>2
  <2>3. \A j, k \in DOMAIN queue'[t] : j < k => queue'[t][j] < queue'[t][k]
    <3>1. \A j, k \in DOMAIN queue'[t] : j < k => j + 1 < k + 1
      BY <2>2
    <3> QED
      BY <1>0, <2>2, <3>1 DEF QueueIsExact
  <2>4. \A u \in Threads : \A j, k \in DOMAIN queue'[u] : j < k => queue'[u][j] < queue'[u][k]
    BY <1>0, <2>1, <2>3 DEF QueueIsExact
  <2>5. ASSUME NEW h \in Handles, NEW u \in Threads
        PROVE  entry'[h] = "queued" /\ made'[h].owner = u <=> \E k \in DOMAIN queue'[u] : queue'[u][k] = h
    <3>0. entry[h] = "queued" /\ made[h].owner = u <=> \E k \in DOMAIN queue[u] : queue[u][k] = h
      BY <1>0 DEF QueueIsExact
    <3>1. CASE u # t
      <4>1. entry'[h] = "queued" /\ made[h].owner = u <=> entry[h] = "queued" /\ made[h].owner = u
        BY <1>e, <1>r, <3>1
      <4> QED
        BY <1>r, <2>1, <3>0, <3>1, <4>1
    <3>2. CASE u = t /\ h = i
      <4>1. \A k \in DOMAIN queue'[t] : queue[t][1] < queue[t][k + 1]
        <5>1. \A k \in DOMAIN queue'[t] : k \in Int /\ 1 < k + 1
          <6>1. \A k \in DOMAIN queue[t] : k \in Int /\ k >= 1
            BY <1>0, QueueFacts
          <6> QED
            BY <2>2, <6>1
        <5> QED
          BY <1>0, <1>r, <2>2, <5>1 DEF QueueIsExact
      <4>2. \A k \in DOMAIN queue'[t] : queue'[t][k] # i
        BY <1>i, <1>r, <2>2, <4>1
      <4> QED
        BY <1>e, <3>2, <4>2
    <3>3. CASE u = t /\ h # i
      <4>1. (\E k \in DOMAIN queue[t] : queue[t][k] = h) <=> (\E k \in DOMAIN queue'[t] : queue'[t][k] = h)
        <5>1. ASSUME NEW k \in DOMAIN queue[t], queue[t][k] = h
              PROVE  k - 1 \in DOMAIN queue'[t] /\ queue'[t][k - 1] = h
          BY <1>r, <2>2, <3>3, <5>1
        <5> QED
          BY <2>2, <5>1
      <4> QED
        BY <1>e, <1>r, <3>0, <3>3, <4>1
    <3> QED
      BY <3>1, <3>2, <3>3
  <2>6. \A h \in Handles : entry'[h] = "queued" => IsQueued(made'[h].kind)
    BY <1>0, <1>e, <1>r DEF QueueIsExact
  <2> QED
    BY <2>4, <2>5, <2>6 DEF QueueIsExact, IsQueued
<1>2. RunningIsOnStack'
  <2>1. ASSUME NEW u \in Threads, NEW j \in DOMAIN stack'[u], NEW k \in DOMAIN stack'[u],
               stack'[u][j].task = stack'[u][k].task
        PROVE  j = k
    <3>1. CASE j \in DOMAIN stack[u] /\ k \in DOMAIN stack[u]
      BY <1>0, <1>s, <2>1, <3>1 DEF RunningIsOnStack
    <3>2. CASE ~(j \in DOMAIN stack[u] /\ k \in DOMAIN stack[u])
      BY <1>a, <1>m, <1>s, <2>1, <3>2
    <3> QED
      BY <3>1, <3>2
  <2>2. ASSUME NEW u \in Threads, NEW k \in DOMAIN stack'[u]
        PROVE  LET g == stack'[u][k].task IN
               IF k = 1 THEN g = u /\ (u # Main => made'[u].kind = "thread")
               ELSE g # Main /\ made'[g].kind # "thread" /\ made'[g].owner = u
    <3>1. CASE k \in DOMAIN stack[u]
      BY <1>0, <1>r, <1>s, <3>1, SMTT(30) DEF RunningIsOnStack
    <3>2. CASE u = t /\ k = n
      BY <1>a, <1>i, <1>m, <1>n, <1>r, <1>s, <3>2
    <3> QED
      BY <1>s, <3>1, <3>2
  <2>3. ASSUME NEW h \in Handles
        PROVE  entry'[h] = "running" <=>
                 \E u \in Threads : \E k \in DOMAIN stack'[u] : stack'[u][k].task = h
    <3>1. CASE h = i
      BY <1>a, <1>e, <1>s, <3>1
    <3>2. CASE h # i
      <4>1. entry[h] = "running" <=>
              \E u \in Threads : \E k \in DOMAIN stack[u] : stack[u][k].task = h
        BY <1>0 DEF RunningIsOnStack
      <4>2. stack'[t][n].task # h
        BY <1>a, <1>s, <3>2
      <4> QED
        BY <1>e, <1>s, <3>2, <4>1, <4>2
    <3> QED
      BY <3>1, <3>2
  <2> QED
    BY <2>1, <2>2, <2>3 DEF RunningIsOnStack
<1>3. CreatorIsBelow'
  <2>1. ASSUME NEW u \in Threads, NEW j \in DOMAIN stack'[u], NEW k \in DOMAIN stack'[u],
               k # 1, made[stack'[u][k].task].by = stack'[u][j].task
        PROVE  j < k
    <3>1. CASE j \in DOMAIN stack[u] /\ k \in DOMAIN stack[u]
      BY <1>0, <1>s, <2>1, <3>1 DEF CreatorIsBelow
    <3>2. CASE u = t /\ j \in DOMAIN stack[u] /\ k = n
      BY <1>s, <3>2
    <3>3. CASE u = t /\ j = n /\ k \in DOMAIN stack[u]
      <4> PICK g : g = stack[u][k].task
        OBVIOUS
      <4>1. g \in Handles /\ g < next
        BY <2>1, <3>3, PlacedRuns
      <4>2. made[g].by = i
        BY <1>a, <1>s, <2>1, <3>3
      <4> QED
        BY <1>0, <1>i, <1>r, <4>1, <4>2 DEF HistoryIsOrdered
    <3>4. CASE u = t /\ j = n /\ k = n
      <4>1. made[i].by = i
        BY <1>a, <1>s, <2>1, <3>4
      <4> QED
        BY <1>0, <1>i, <4>1 DEF HistoryIsOrdered
    <3> QED
      BY <1>s, <3>1, <3>2, <3>3, <3>4
  <2> QED
    BY <1>r, <2>1 DEF CreatorIsBelow
<1>5. OldHandlesStay
  <2>1. next \in Int
    BY <1>0 DEF TypeOK
  <2>2. \A h \in Handles : h >= next => h # i
    BY <1>i, <2>1 DEF Handles
  <2> QED
    BY <1>e, <1>r, <2>1, <2>2 DEF OldHandlesStay
<1>6. NewHandlesFit
  <2>1. next \in Int /\ next' = next
    BY <1>0, <1>r DEF TypeOK
  <2>2. \A h \in Handles : ~(next <= h /\ h < next')
    BY <2>1 DEF Handles
  <2> QED
    BY <2>2, Zenon DEF NewHandlesFit
<1>7. Fresh(t, a)
  <2>1. JoinsItsOwn(t, a)'
    BY <1>a DEF JoinsItsOwn
  <2>2. KeepsFailures(a)'
    <3>1. ASSUME NEW h \in Handles, h < next, made[h].by = i PROVE FALSE
      BY <1>0, <1>i, <1>r, <3>1 DEF HistoryIsOrdered
    <3> QED
      BY <1>a, <1>r, <3>1 DEF KeepsFailures
  <2>3. ASSUME NEW m \in DOMAIN a.on
        PROVE  /\ a.on[m] \in Handles /\ a.on[m] < i /\ ~Hidden(a.on[m])
    <3>1. a.on = made[i].args
      BY <1>a, <2>3
    <3>2. made[i].args \in Seq(Handles)
      BY <1>0 DEF TypeOK
    <3> QED
      BY <1>0, <1>i, <2>3, <3>1, <3>2, SequenceFacts DEF HistoryIsOrdered
  <2>4. WaitsForOlder(a)'
    <3>1. ASSUME NEW m \in DOMAIN a.on PROVE a.on[m] < next
      <4>1. next \in Int /\ a.on[m] \in Int
        <5>1. next \in Int
          BY <1>0 DEF TypeOK
        <5> QED
          BY <2>3, <5>1 DEF Handles
      <4> QED
        BY <1>i, <2>3, <4>1
    <3> QED
      BY <1>r, <2>3, <3>1 DEF WaitsForOlder, Hidden
  <2>5. ASSUME NEW m \in DOMAIN a.on, made'[a.on[m]].owner = t
        PROVE  entry'[a.on[m]] # "queued"
    <3>1. entry[a.on[m]] # "queued"
      <4>1. a.on[m] \in Int /\ a.on[m] < i
        BY <2>3 DEF Handles
      <4>2. ~(i <= a.on[m])
        BY <1>i, <4>1
      <4> QED
        BY <1>r, <2>3, <2>5, <4>2
    <3> QED
      BY <1>e, <2>3, <3>1
  <2> QED
    BY <1>a, <2>1, <2>2, <2>4, <2>5 DEF Fresh
<1>8. ActivitiesStay
  BY <1>s, <1>7 DEF ActivitiesStay
<1> QED
  BY <1>1, <1>2, <1>3, <1>5, <1>6, <1>8, GrowStep DEF Consistent

-----------------------------------------------------------------------------
(* Creating handles, step by step.                                         *)

LEMMA CreatedFacts ==
  ASSUME TypeOK, NEW t \in Threads, Running(t), NEW n \in Nat, n > 0, NEW kind,
         NEW args \in Seq(Handles), Create(t, n, kind, args)
  PROVE  \A h \in New(n) :
           /\ slot'[h] = "full" /\ entry'[h] = Entry(kind)
           /\ made'[h] = [kind |-> kind, args |-> args, by |-> Top(t).task, owner |-> t]
<1>1. /\ New(n) \subseteq Handles
      /\ made' = [h \in Handles |->
           IF h \in New(n) THEN [kind |-> kind, args |-> args, by |-> Top(t).task, owner |-> t]
           ELSE made[h]]
      /\ slot' = [h \in Handles |-> IF h \in New(n) THEN "full" ELSE slot[h]]
      /\ entry' = [h \in Handles |-> IF h \in New(n) THEN Entry(kind) ELSE entry[h]]
  BY CreateFacts
<1> QED
  BY <1>1

LEMMA CreatedParts ==
  ASSUME TypeOK, NEW t \in Threads, Running(t), NEW n \in Nat, n > 0, NEW kind,
         NEW args \in Seq(Handles), Create(t, n, kind, args)
  PROVE  \A h \in New(n) :
           /\ slot'[h] = "full" /\ entry'[h] = Entry(kind)
           /\ made'[h].kind = kind /\ made'[h].by = Top(t).task /\ made'[h].owner = t
<1>1. ASSUME NEW h \in New(n)
      PROVE  /\ slot'[h] = "full" /\ entry'[h] = Entry(kind)
             /\ made'[h] = [kind |-> kind, args |-> args, by |-> Top(t).task, owner |-> t]
  BY CreatedFacts
<1> QED
  BY <1>1

LEMMA CreateOld ==
  ASSUME Consistent, NEW t \in Threads, Running(t), NEW n \in Nat, n > 0, NEW kind,
         NEW args \in Seq(Handles), Create(t, n, kind, args),
         \A m \in DOMAIN args : args[m] \in Visible
  PROVE  /\ OldHandlesStay
         /\ \A h \in Handles : next <= h /\ h < next' <=> h \in New(n)
         /\ \A h \in New(n) :
              /\ slot'[h] = "full" /\ entry'[h] = Entry(kind) /\ entry'[h] \notin {"none", "gone"}
              /\ made'[h] = [kind |-> kind, args |-> args, by |-> Top(t).task, owner |-> t]
              /\ made'[h].by < h /\ (made'[h].by # Main => entry'[made'[h].by] # "queued")
              /\ \A m \in DOMAIN made'[h].args :
                   made'[h].args[m] < h /\ ~Hidden(made[h].args[m])'
         /\ \A h \in Handles : h \notin New(n) => made'[h] = made[h] /\ entry'[h] = entry[h]
         /\ \A u \in Threads : \A k \in DOMAIN stack[u] :
              stack[u][k].task \in Threads /\ stack[u][k].task \notin New(n)
<1>0. TypeOK /\ HistoryIsOrdered
  BY DEF Consistent
<1>c. /\ next' = next + n /\ New(n) \subseteq Handles
      /\ made' = [h \in Handles |->
           IF h \in New(n) THEN [kind |-> kind, args |-> args, by |-> Top(t).task, owner |-> t]
           ELSE made[h]]
      /\ slot' = [h \in Handles |-> IF h \in New(n) THEN "full" ELSE slot[h]]
      /\ entry' = [h \in Handles |-> IF h \in New(n) THEN Entry(kind) ELSE entry[h]]
      /\ result' = result
  BY <1>0, CreateFacts
<1>i. next \in Int /\ next' \in Int /\ next <= next' /\ Handles \subseteq Int /\ next >= 1
  BY <1>0, <1>c DEF TypeOK, Handles
<1>n. \A h \in Handles : next <= h /\ h < next' <=> h \in New(n)
  BY <1>c, <1>i DEF New
<1>1. OldHandlesStay
  <2>1. \A h \in Handles : h < next \/ h >= next' => h \notin New(n)
    BY <1>i, <1>n
  <2> QED
    BY <1>c, <1>i, <2>1 DEF OldHandlesStay
<1>2. \A u \in Threads : \A k \in DOMAIN stack[u] :
              stack[u][k].task \in Threads /\ stack[u][k].task \notin New(n)
  <2>1. ASSUME NEW u \in Threads, NEW k \in DOMAIN stack[u], stack[u][k].task \in New(n)
        PROVE  FALSE
    <3> PICK g : g = stack[u][k].task
      OBVIOUS
    <3>1. g < next /\ g \in Handles /\ g \in New(n)
      BY <1>c, <2>1, PlacedRuns
    <3>2. next <= g
      BY <1>n, <3>1
    <3>3. next \in Int /\ g \in Int
      BY <1>i, <3>1
    <3> QED
      BY <3>1, <3>2, <3>3
  <2> QED
    BY <2>1, PlacedRuns
<1> PICK i \in Threads : i = Top(t).task
  BY <1>0, TopFacts
<1>t. i < next /\ (i # Main => i \in Handles /\ entry[i] = "running") /\ i \notin New(n)
  <2>1. Top(t) = stack[t][Len(stack[t])] /\ Len(stack[t]) \in DOMAIN stack[t]
    BY <1>0, TopFacts
  <2> QED
    BY <1>2, <2>1, PlacedRuns
<1>3. ASSUME NEW h \in New(n)
      PROVE   /\ slot'[h] = "full" /\ entry'[h] = Entry(kind) /\ entry'[h] \notin {"none", "gone"}
              /\ made'[h] = [kind |-> kind, args |-> args, by |-> Top(t).task, owner |-> t]
              /\ made'[h].by < h /\ (made'[h].by # Main => entry'[made'[h].by] # "queued")
              /\ \A m \in DOMAIN made'[h].args :
                   made'[h].args[m] < h /\ ~Hidden(made[h].args[m])'
  <2>1. /\ slot'[h] = "full" /\ entry'[h] = Entry(kind) /\ h \in Handles /\ h >= next
        /\ made'[h] = [kind |-> kind, args |-> args, by |-> Top(t).task, owner |-> t]
    BY <1>c, <1>n
  <2>2. Entry(kind) \notin {"none", "gone"}
    BY DEF Entry
  <2>3. made'[h].by = i /\ made'[h].args = args
    BY <2>1
  <2>4. i < h /\ (i # Main => entry'[i] # "queued")
    <3>1. i \in Int
      BY <1>i DEF Threads, Main
    <3> QED
      BY <1>c, <1>i, <1>t, <2>1, <3>1
  <2>5. ASSUME NEW m \in DOMAIN args
        PROVE  args[m] < h /\ ~Hidden(args[m])'
    <3> PICK g \in Handles : g = args[m] /\ g < next /\ ~Hidden(g)
      BY DEF Visible
    <3>1. g \notin New(n) /\ g < h
      BY <1>i, <1>n, <2>1
    <3>2. made'[g] = made[g]
      BY <1>c, <3>1
    <3> QED
      BY <3>1, <3>2 DEF Hidden
  <2>6. \A m \in DOMAIN made'[h].args : made'[h].args[m] < h /\ ~Hidden(made[h].args[m])'
    BY <2>3, <2>5 DEF Hidden
  <2> QED
    BY <2>1, <2>2, <2>3, <2>4, <2>6
<1>4. \A h \in Handles : h \notin New(n) => made'[h] = made[h] /\ entry'[h] = entry[h]
  BY <1>c
<1> QED
  BY <1>1, <1>2, <1>3, <1>4, <1>n

\* Numbers: the n places behind the first L hold the n handles from next on, in order.
LEMMA ShiftFacts ==
  ASSUME NEW m \in Int, NEW L \in Nat, NEW n \in Nat
  PROVE  /\ \A k \in L + 1 .. L + n :
              m + (k - L) - 1 \in Int /\ m <= m + (k - L) - 1 /\ m + (k - L) - 1 < m + n
         /\ \A j, k \in L + 1 .. L + n : j < k => m + (j - L) - 1 < m + (k - L) - 1
         /\ \A h \in Int : m <= h /\ h < m + n =>
              \E k \in L + 1 .. L + n : k \in 1 .. L + n /\ m + (k - L) - 1 = h
<1>1. ASSUME NEW h \in Int, m <= h, h < m + n
      PROVE  \E k \in L + 1 .. L + n : k \in 1 .. L + n /\ m + (k - L) - 1 = h
  <2>1. /\ L + (h - m + 1) \in L + 1 .. L + n /\ L + (h - m + 1) \in 1 .. L + n
        /\ m + (L + (h - m + 1) - L) - 1 = h
    BY <1>1
  <2> QED
    BY <2>1
<1> QED
  BY <1>1

LEMMA CreateQueue ==
  ASSUME Consistent, NEW t \in Threads, Running(t), NEW n \in Nat, n > 0, NEW kind,
         NEW args \in Seq(Handles), Create(t, n, kind, args),
         \A m \in DOMAIN args : args[m] \in Visible
  PROVE  QueueIsExact'
<1>0. TypeOK /\ QueueIsExact /\ HistoryIsOrdered
  BY DEF Consistent
<1>c. /\ next' = next + n /\ New(n) \subseteq Handles
      /\ FreshIds(n) = [k \in 1 .. n |-> next + k - 1] /\ FreshIds(n) \in Seq(Handles)
      /\ \A u \in Threads : queue'[u] =
              IF u = t /\ IsQueued(kind) THEN queue[u] \o FreshIds(n) ELSE queue[u]
  BY <1>0, CreateFacts
<1>o. /\ \A h \in New(n) : entry'[h] = Entry(kind) /\ made'[h].kind = kind /\ made'[h].owner = t
      /\ \A h \in Handles : h \notin New(n) => made'[h] = made[h] /\ entry'[h] = entry[h]
  <2>1. \A h \in New(n) :
          /\ entry'[h] = Entry(kind)
          /\ made'[h] = [kind |-> kind, args |-> args, by |-> Top(t).task, owner |-> t]
    BY CreateOld
  <2>2. \A h \in Handles : h \notin New(n) => made'[h] = made[h] /\ entry'[h] = entry[h]
    BY CreateOld
  <2> QED
    BY <2>1, <2>2
<1>i. next \in Int /\ Handles \subseteq Int
  BY <1>0 DEF TypeOK, Handles
<1>n. \A h \in Int : h \in New(n) <=> next <= h /\ h < next + n
  BY <1>i DEF New
<1>q. entry'[next] = "queued" <=> IsQueued(kind)
  BY <1>i, <1>n, <1>o DEF Entry
<1>1. ASSUME NEW u \in Threads, NEW k \in DOMAIN queue[u]
      PROVE  queue[u][k] < next /\ queue[u][k] \in Handles /\ entry[queue[u][k]] = "queued"
             /\ made[queue[u][k]].owner = u
  <2>1. queue[u][k] \in Handles /\ entry[queue[u][k]] = "queued" /\ made[queue[u][k]].owner = u
    BY <1>0, QueueFacts DEF QueueIsExact
  <2>2. ~(queue[u][k] >= next)
    BY <1>0, <2>1 DEF HistoryIsOrdered
  <2> PICK g : g = queue[u][k]
    OBVIOUS
  <2>3. next \in Int /\ g \in Int /\ ~(g >= next)
    BY <1>i, <2>1, <2>2
  <2>4. g < next
    BY <2>3
  <2> QED
    BY <2>1, <2>4
<1>2. ASSUME NEW u \in Threads, ~(u = t /\ IsQueued(kind))
      PROVE  /\ \A j, k \in DOMAIN queue'[u] : j < k => queue'[u][j] < queue'[u][k]
             /\ \A h \in Handles : entry'[h] = "queued" /\ made'[h].owner = u
                                     <=> \E k \in DOMAIN queue'[u] : queue'[u][k] = h
  <2>1. queue'[u] = queue[u]
    BY <1>c, <1>2
  <2>2. \A h \in Handles : entry'[h] = "queued" /\ made'[h].owner = u
                             <=> entry[h] = "queued" /\ made[h].owner = u
    <3>1. \A h \in New(n) : ~(entry'[h] = "queued" /\ made'[h].owner = u)
      BY <1>2, <1>o DEF Entry
    <3>2. \A h \in New(n) : entry[h] # "queued"
      BY <1>0, <1>c, <1>i, <1>n DEF HistoryIsOrdered
    <3> QED
      BY <1>o, <3>1, <3>2
  <2> QED
    BY <1>0, <2>1, <2>2 DEF QueueIsExact
<1>3. ASSUME IsQueued(kind)
      PROVE  /\ \A j, k \in DOMAIN queue'[t] : j < k => queue'[t][j] < queue'[t][k]
             /\ \A h \in Handles : entry'[h] = "queued" /\ made'[h].owner = t
                                     <=> \E k \in DOMAIN queue'[t] : queue'[t][k] = h
  <2> PICK q : q = queue'[t]
    OBVIOUS
  <2> PICK L \in Nat : L = Len(queue[t])
    BY <1>0, QueueFacts
  <2>1. /\ DOMAIN q = 1 .. L + n
        /\ \A k \in 1 .. L : q[k] = queue[t][k] /\ k \in DOMAIN queue[t]
        /\ \A k \in L + 1 .. L + n : q[k] = next + (k - L) - 1
    <3>1. q = queue[t] \o FreshIds(n)
      BY <1>3, <1>c
    <3>2. queue[t] \in Seq(Handles) /\ DOMAIN queue[t] = 1 .. L
      BY <1>0, QueueFacts
    <3>3. Len(FreshIds(n)) = n
      BY <1>c
    <3> QED
      BY <1>c, <3>1, <3>2, <3>3
  <2>2. \A k \in DOMAIN q : k \in 1 .. L \/ k \in L + 1 .. L + n
    BY <2>1
  <2>6. \A k \in L + 1 .. L + n : q[k] \in Int /\ next <= q[k] /\ q[k] < next + n
    <3>1. next \in Int
      BY <1>i
    <3>2. \A k \in L + 1 .. L + n : next + (k - L) - 1 \in Int /\ next <= next + (k - L) - 1
                                     /\ next + (k - L) - 1 < next + n
      BY <3>1, ShiftFacts
    <3> QED
      BY <2>1, <3>2
  <2>3. ASSUME NEW j \in DOMAIN q, NEW k \in DOMAIN q, j < k
        PROVE  q[j] < q[k]
    <3>1. CASE j \in 1 .. L /\ k \in 1 .. L
      BY <1>0, <2>1, <2>3, <3>1 DEF QueueIsExact
    <3>2. CASE j \in 1 .. L /\ k \in L + 1 .. L + n
      <4>1. q[j] < next /\ q[j] \in Int
        BY <1>1, <1>i, <2>1, <3>2
      <4>2. q[k] >= next /\ q[k] \in Int
        BY <2>6, <3>2
      <4>3. next \in Int
        BY <1>i
      <4> QED
        BY <4>1, <4>2, <4>3
    <3>3. CASE j \in L + 1 .. L + n /\ k \in L + 1 .. L + n
      <4>1. q[j] = next + (j - L) - 1 /\ q[k] = next + (k - L) - 1
        BY <2>1, <3>3
      <4>2. next \in Int
        BY <1>i
      <4>3. next + (j - L) - 1 < next + (k - L) - 1
        BY <2>3, <3>3, <4>2, ShiftFacts
      <4> QED
        BY <4>1, <4>3
    <3> QED
      BY <2>2, <2>3, <3>1, <3>2, <3>3
  <2>4. ASSUME NEW h \in Handles, h \in New(n)
        PROVE  /\ entry'[h] = "queued" /\ made'[h].owner = t
               /\ \E k \in DOMAIN q : q[k] = h
    <3>0. next <= h /\ h < next + n /\ h \in Int
      BY <1>i, <1>n, <2>4
    <3>1. next \in Int
      BY <1>i
    <3>4. \A g \in Int : next <= g /\ g < next + n =>
            \E k \in L + 1 .. L + n : k \in 1 .. L + n /\ next + (k - L) - 1 = g
      BY <3>1, ShiftFacts, ZenonT(40)
    <3> PICK k \in L + 1 .. L + n : k \in 1 .. L + n /\ next + (k - L) - 1 = h
      BY <3>0, <3>4
    <3>2. q[k] = h /\ k \in DOMAIN q
      BY <2>1
    <3>3. entry'[h] = "queued" /\ made'[h].owner = t
      BY <1>3, <1>o, <2>4 DEF Entry
    <3> QED
      BY <3>2, <3>3
  <2>5. ASSUME NEW h \in Handles, h \notin New(n)
        PROVE  entry'[h] = "queued" /\ made'[h].owner = t <=> \E k \in DOMAIN q : q[k] = h
    <3>1. entry'[h] = "queued" /\ made'[h].owner = t <=> \E k \in DOMAIN queue[t] : queue[t][k] = h
      BY <1>0, <1>o, <2>5 DEF QueueIsExact
    <3>2. ASSUME NEW k \in L + 1 .. L + n PROVE q[k] # h
      <4>1. q[k] \in Int /\ next <= q[k] /\ q[k] < next + n
        BY <2>6
      <4>2. q[k] \in New(n)
        BY <1>n, <4>1
      <4> QED
        BY <2>5, <4>2
    <3>3. DOMAIN queue[t] = 1 .. L /\ 1 .. L \subseteq DOMAIN q
      BY <1>0, <2>1, QueueFacts
    <3> QED
      BY <2>1, <2>2, <3>1, <3>2, <3>3
  <2> QED
    BY <2>3, <2>4, <2>5
<1>4. \A h \in Handles : entry'[h] = "queued" => IsQueued(made'[h].kind)
  BY <1>0, <1>o DEF QueueIsExact, Entry
<1> QED
  BY <1>2, <1>3, <1>4 DEF QueueIsExact, IsQueued

\* Places and order, when new handles are queued or wait, and no activity comes or goes.
LEMMA CreatePlaces ==
  ASSUME Consistent, NEW t \in Threads, Running(t), NEW n \in Nat, n > 0, NEW kind,
         NEW args \in Seq(Handles), Create(t, n, kind, args),
         \A m \in DOMAIN args : args[m] \in Visible,
         kind # "thread", SameTasks
  PROVE  RunningIsOnStack' /\ CreatorIsBelow'
<1>0. RunningIsOnStack /\ CreatorIsBelow /\ TypeOK /\ HistoryIsOrdered
  BY DEF Consistent
<1>o. /\ \A h \in New(n) : entry'[h] # "running"
      /\ \A h \in Handles : h \notin New(n) => made'[h] = made[h] /\ entry'[h] = entry[h]
      /\ \A u \in Threads : \A k \in DOMAIN stack[u] :
              stack[u][k].task \in Threads /\ stack[u][k].task \notin New(n)
  <2>1. \A h \in New(n) : entry'[h] = Entry(kind)
    <3>1. /\ New(n) \subseteq Handles
          /\ entry' = [h \in Handles |-> IF h \in New(n) THEN Entry(kind) ELSE entry[h]]
      BY <1>0, CreateFacts
    <3> QED
      BY <3>1
  <2>2. \A h \in Handles : h \notin New(n) => made'[h] = made[h] /\ entry'[h] = entry[h]
    BY CreateOld
  <2>3. \A u \in Threads : \A k \in DOMAIN stack[u] :
              stack[u][k].task \in Threads /\ stack[u][k].task \notin New(n)
    BY CreateOld
  <2> QED
    BY <2>1, <2>2, <2>3 DEF Entry
<1>m. \A u \in Threads : \A k \in DOMAIN stack[u] :
        stack[u][k].task # Main => made'[stack[u][k].task] = made[stack[u][k].task]
  BY <1>o DEF Threads
<1>1. \A u \in Threads : \A j, k \in DOMAIN stack'[u] :
        stack'[u][j].task = stack'[u][k].task => j = k
  BY <1>0 DEF RunningIsOnStack, SameTasks
<1>2. \A u \in Threads : \A k \in DOMAIN stack'[u] :
          LET i == stack'[u][k].task IN
          IF k = 1 THEN i = u /\ (u # Main => made'[u].kind = "thread")
          ELSE i # Main /\ made'[i].kind # "thread" /\ made'[i].owner = u
  BY <1>0, <1>m DEF RunningIsOnStack, SameTasks
<1>3. ASSUME NEW h \in Handles
      PROVE  entry'[h] = "running" <=>
               \E u \in Threads : \E k \in DOMAIN stack'[u] : stack'[u][k].task = h
  <2>1. CASE h \in New(n)
    BY <1>o, <2>1 DEF SameTasks
  <2>2. CASE h \notin New(n)
    BY <1>0, <1>o, <2>2 DEF RunningIsOnStack, SameTasks
  <2> QED
    BY <2>1, <2>2
<1>4. RunningIsOnStack'
  BY <1>1, <1>2, <1>3 DEF RunningIsOnStack
<1>5. CreatorIsBelow'
  <2>1. \A u \in Threads : \A k \in DOMAIN stack[u] : k # 1 => stack[u][k].task # Main
    BY <1>0 DEF RunningIsOnStack
  <2> QED
    BY <1>0, <1>m, <2>1 DEF CreatorIsBelow, SameTasks
<1> QED
  BY <1>4, <1>5

\* The handles that were created are as the invariants want them, if somebody joins
\* those of a block.
LEMMA CreateNew ==
  ASSUME Consistent, NEW t \in Threads, Running(t), NEW n \in Nat, n > 0, NEW kind,
         NEW args \in Seq(Handles), Create(t, n, kind, args),
         \A m \in DOMAIN args : args[m] \in Visible,
         kind \in {"block", "thread"} =>
           \E k \in DOMAIN stack'[t] :
             stack'[t][k].task = Top(t).task /\ stack'[t][k].op = "join"
             /\ stack'[t][k].on = FreshIds(n)
  PROVE  OldHandlesStay /\ NewHandlesFit
<1>0. TypeOK
  BY DEF Consistent
<1>1. OldHandlesStay
  BY CreateOld
<1>2. \A h \in Handles : next <= h /\ h < next' => h \in New(n)
  BY CreateOld
<1>3. \A h \in New(n) :
        /\ slot'[h] = "full" /\ entry'[h] \notin {"none", "gone"}
        /\ made'[h] = [kind |-> kind, args |-> args, by |-> Top(t).task, owner |-> t]
        /\ made'[h].by < h /\ (made'[h].by # Main => entry'[made'[h].by] # "queued")
        /\ \A m \in DOMAIN made'[h].args : made'[h].args[m] < h /\ ~Hidden(made[h].args[m])'
  BY CreateOld
<1>4. FreshIds(n) = [k \in 1 .. n |-> next + k - 1] /\ {FreshIds(n)[k] : k \in 1 .. n} = New(n)
  BY <1>0, CreateFacts
<1>5. \A h \in New(n) : \E k \in DOMAIN FreshIds(n) : FreshIds(n)[k] = h
  BY <1>4
<1>6. ASSUME NEW h \in New(n), Hidden(h)'
      PROVE  \E k \in DOMAIN stack'[made'[h].owner] :
               LET a == stack'[made'[h].owner][k] IN
               a.task = made'[h].by /\ a.op = "join" /\ \E m \in DOMAIN a.on : a.on[m] = h
  <2>1. made'[h].kind = kind /\ made'[h].by = Top(t).task /\ made'[h].owner = t
    BY <1>3
  <2>2. kind \in {"block", "thread"}
    BY <1>6, <2>1 DEF Hidden
  <2> QED
    BY <1>5, <2>1, <2>2
<1> QED
  BY <1>1, <1>2, <1>3, <1>6 DEF NewHandlesFit

\* Code that starts a block joins it from then on.
LEMMA JoinerIsFresh ==
  ASSUME Consistent, NEW t \in Threads, InCode(t), NEW n \in Nat, n > 0,
         NEW kind, kind \in {"block", "thread"}, Create(t, n, kind, << >>),
         NEW a \in Activities, a = Activity(Top(t).task, "join", FreshIds(n))
  PROVE  Fresh(t, a)
<1>0. TypeOK /\ FailuresAreKept
  BY DEF Consistent
<1>e. << >> \in Seq(Handles) /\ DOMAIN << >> = {} /\ Running(t)
  BY DEF InCode
<1>c. /\ next' = next + n /\ FreshIds(n) = [k \in 1 .. n |-> next + k - 1]
      /\ New(n) \subseteq Handles /\ {FreshIds(n)[k] : k \in 1 .. n} = New(n)
      /\ result' = result
  BY <1>0, <1>e, CreateFacts
<1>d. \A h \in New(n) :
        /\ slot'[h] = "full" /\ entry'[h] = Entry(kind)
        /\ made'[h].kind = kind /\ made'[h].by = Top(t).task /\ made'[h].owner = t
  <2> PICK args \in Seq(Handles) : args = << >>
    BY <1>e
  <2>1. Running(t) /\ Create(t, n, kind, args)
    BY <1>e
  <2> QED
    BY <1>0, <2>1, CreatedParts, ZenonT(60)
<1>o. OldHandlesStay
  BY <1>e, CreateOld
<1>n. \A h \in Handles : next <= h /\ h < next' <=> h \in New(n)
  BY <1>e, CreateOld
<1>g. \A h \in New(n) : entry'[h] \notin {"none", "gone"}
  BY <1>e, CreateOld
<1>1. ~a.held /\ a.op = "join" /\ a.task = Top(t).task /\ a.exc = "ok" /\ a.on = FreshIds(n)
  BY DEF Activity
<1>2. DOMAIN a.on = 1 .. n /\ \A m \in 1 .. n : a.on[m] = next + m - 1 /\ a.on[m] \in New(n)
  BY <1>1, <1>c
<1>i. next \in Int
  BY <1>0 DEF TypeOK
<1>3. JoinsItsOwn(t, a)'
  <2>1. ASSUME NEW m \in 1 .. n, NEW k \in 1 .. n, m < k
        PROVE  a.on[m] < a.on[k]
    <3>1. next + m - 1 < next + k - 1
      BY <1>i, <2>1
    <3> QED
      BY <1>2, <3>1
  <2>2. ASSUME NEW m \in 1 .. n, NEW h, h = a.on[m]
        PROVE  Hidden(h)' /\ made'[h].by = a.task /\ made'[h].owner = t /\ slot'[h] = "full"
    <3>1. h \in New(n) /\ h \in Handles
      BY <1>2, <1>c, <2>2
    <3>2. made'[h].kind = kind /\ made'[h].by = Top(t).task /\ made'[h].owner = t
          /\ slot'[h] = "full"
      BY <1>d, <3>1
    <3> QED
      BY <1>1, <3>2 DEF Hidden
  <2> QED
    BY <1>1, <1>2, <2>1, <2>2 DEF JoinsItsOwn, Hidden
<1>4. KeepsFailures(a)'
  <2>1. Top(t).op = "code" /\ KeepsFailures(Top(t))
    BY <1>0, <1>e, TopFacts DEF InCode, FailuresAreKept
  <2>2. ASSUME NEW h \in Handles, h < next', Hidden(h)', made'[h].by = a.task, entry'[h] = "gone"
        PROVE  result'[h] = "ok"
    <3>1. h < next
      <4>1. h \in Int /\ ~(next <= h)
        BY <1>g, <1>n, <2>2 DEF Handles
      <4> QED
        BY <1>i, <4>1
    <3>2. Hidden(h) /\ made[h].by = a.task /\ entry[h] = "gone"
      BY <1>o, <2>2, <3>1 DEF OldHandlesStay, Hidden
    <3> QED
      BY <1>1, <1>c, <2>1, <3>1, <3>2 DEF KeepsFailures
  <2> QED
    BY <2>2 DEF KeepsFailures, Hidden
<1>5. WaitsForOlder(a)'
  <2>1. \A m \in 1 .. n : a.on[m] < next'
    BY <1>2, <1>c, <1>n
  <2> QED
    BY <1>1, <1>2, <2>1 DEF WaitsForOlder
<1> QED
  BY <1>1, <1>3, <1>4, <1>5 DEF Fresh

\* Spawn, and what std.async makes: no stack moves.
LEMMA CombineKeeps ==
  ASSUME Consistent, TypeOK', NEW t \in Threads, Running(t), NEW n \in Nat, n > 0,
         NEW kind, kind \notin {"block", "thread"}, NEW args \in Seq(Handles),
         Create(t, n, kind, args), \A m \in DOMAIN args : args[m] \in Visible, UNCHANGED stack
  PROVE  Consistent'
<1>1. QueueIsExact'
  BY CreateQueue
<1>2. SameTasks /\ ActivitiesStay
  BY DEF SameTasks, ActivitiesStay
<1>3. RunningIsOnStack' /\ CreatorIsBelow'
  BY <1>2, CreatePlaces
<1>4. OldHandlesStay /\ NewHandlesFit
  BY CreateNew
<1> QED
  BY <1>1, <1>2, <1>3, <1>4, GrowStep DEF Consistent

\* A concurrent block.
LEMMA BlockKeeps ==
  ASSUME Consistent, TypeOK', NEW t \in Threads, Block(t)
  PROVE  Consistent'
<1>0. TypeOK /\ MaxList \in Nat
  BY BoundsAssumption DEF Consistent
<1>e. << >> \in Seq(Handles) /\ DOMAIN << >> = {} /\ InCode(t) /\ Running(t) /\ Top(t).op = "code"
  BY DEF InCode, Block
<1>1. PICK n \in 1 .. MaxList : Create(t, n, "block", << >>) /\ Become(t, "join", FreshIds(n), "ok")
  BY DEF Block
<1>2. n \in Nat /\ n > 0
  BY <1>0
<1>3. FreshIds(n) \in Seq(Handles)
  BY <1>0, <1>1, <1>2, <1>e, CreateFacts
<1> PICK a : a = Activity(Top(t).task, "join", FreshIds(n))
  OBVIOUS
<1>4. TopBecomes(t, a) /\ a \in Activities
  <2>1. "join" \in Ops /\ "ok" \in Results
    BY DEF Ops, Results
  <2> QED
    BY <1>0, <1>1, <1>3, <1>e, <2>1, BecomeFacts DEF Activity
<1>5. /\ \A u \in Threads : DOMAIN stack'[u] = DOMAIN stack[u]
      /\ stack'[t][Len(stack[t])] = a
      /\ \A u \in Threads : \A k \in DOMAIN stack[u] :
           u # t \/ k # Len(stack[t]) => stack'[u][k] = stack[u][k]
  BY <1>0, <1>4, <1>e, TopBecomesFacts
<1>6. Top(t) = stack[t][Len(stack[t])] /\ Len(stack[t]) \in DOMAIN stack[t]
  BY <1>0, <1>e, TopFacts
<1>7. a.task = Top(t).task /\ a.op = "join" /\ a.on = FreshIds(n)
  BY DEF Activity
<1>8. SameTasks
  BY <1>5, <1>6, <1>7 DEF SameTasks
<1>9. QueueIsExact'
  BY <1>1, <1>2, <1>e, CreateQueue
<1>10. RunningIsOnStack' /\ CreatorIsBelow'
  BY <1>1, <1>2, <1>8, <1>e, CreatePlaces
<1>11. OldHandlesStay /\ NewHandlesFit
  <2>1. \E k \in DOMAIN stack'[t] :
             stack'[t][k].task = Top(t).task /\ stack'[t][k].op = "join"
             /\ stack'[t][k].on = FreshIds(n)
    BY <1>5, <1>6, <1>7
  <2> QED
    BY <1>1, <1>2, <1>e, <2>1, CreateNew
<1>12. Fresh(t, a)
  BY <1>1, <1>2, <1>4, <1>e, JoinerIsFresh
<1>13. ActivitiesStay
  BY <1>4, <1>5, <1>6, <1>12, <1>e DEF ActivitiesStay
<1> QED
  BY <1>9, <1>10, <1>11, <1>13, GrowStep DEF Consistent

\* What a parallel block does to the stacks: the activity joins, and each new thread,
\* which had no stack before, runs its own code.
Started(t, n) ==
  /\ stack'[t][Len(stack[t])] = Activity(Top(t).task, "join", FreshIds(n))
  /\ DOMAIN stack'[t] = DOMAIN stack[t]
  /\ \A k \in DOMAIN stack[t] : k # Len(stack[t]) => stack'[t][k] = stack[t][k]
  /\ t \notin New(n)
  /\ \A u \in Threads : u # t /\ u \notin New(n) => stack'[u] = stack[u]
  /\ \A u \in Threads : u \in New(n) =>
       /\ DOMAIN stack[u] = {} /\ DOMAIN stack'[u] = {1}
       /\ stack'[u][1] = Activity(u, "code", << >>)

LEMMA StartedFacts ==
  ASSUME Consistent, NEW t \in Threads, Parallel(t)
  PROVE  \E n \in Nat : n > 0 /\ Create(t, n, "thread", << >>) /\ Started(t, n)
<1>0. TypeOK /\ MaxList \in Nat /\ RunningIsOnStack
  BY BoundsAssumption DEF Consistent
<1>e. << >> \in Seq(Handles) /\ DOMAIN << >> = {} /\ InCode(t) /\ Running(t)
  BY DEF InCode, Parallel
<1>1. PICK n \in 1 .. MaxList :
        /\ Create(t, n, "thread", << >>)
        /\ stack' = [u \in Threads |->
            IF u = t THEN Append(SubSeq(stack[t], 1, Len(stack[t]) - 1),
                                 Activity(Top(t).task, "join", FreshIds(n)))
            ELSE IF u \in {FreshIds(n)[k] : k \in 1 .. n} THEN <<Activity(u, "code", << >>)>>
            ELSE stack[u]]
  BY DEF Parallel
<1>2. n \in Nat /\ n > 0
  BY <1>0
<1>3. ASSUME NEW u \in Threads, u \in New(n), 1 \in DOMAIN stack[u]
      PROVE  FALSE
  <2>1. stack[u][1].task = u
    BY <1>0, <1>3 DEF RunningIsOnStack
  <2>2. \A v \in Threads : \A k \in DOMAIN stack[v] : stack[v][k].task \notin New(n)
    BY <1>1, <1>2, <1>e, CreateOld
  <2> QED
    BY <1>3, <2>1, <2>2
<1>4. t \notin New(n)
  BY <1>0, <1>3, <1>e, StackFacts
<1>5. \A u \in Threads : u \in New(n) => DOMAIN stack[u] = {}
  <2>1. ASSUME NEW u \in Threads, u \in New(n)
        PROVE  DOMAIN stack[u] = {}
    <3>1. DOMAIN stack[u] = 1 .. Len(stack[u]) /\ Len(stack[u]) \in Nat
      BY <1>0, StackFacts
    <3>2. Len(stack[u]) = 0
      BY <1>3, <2>1, <3>1
    <3> QED
      BY <3>1, <3>2
  <2> QED
    BY <2>1
<1>6. /\ DOMAIN stack'[t] = DOMAIN stack[t]
      /\ stack'[t][Len(stack[t])] = Activity(Top(t).task, "join", FreshIds(n))
      /\ \A k \in DOMAIN stack[t] : k # Len(stack[t]) => stack'[t][k] = stack[t][k]
      /\ \A u \in Threads : u # t =>
           IF u \in New(n)
           THEN DOMAIN stack'[u] = {1} /\ stack'[u][1] = Activity(u, "code", << >>)
           ELSE stack'[u] = stack[u]
  BY <1>0, <1>1, <1>2, <1>e, ParallelFacts
<1>7. Started(t, n)
  BY <1>4, <1>5, <1>6 DEF Started
<1> QED
  BY <1>1, <1>2, <1>7

\* Places and order, when a parallel block starts its threads.
LEMMA ParallelPlaces ==
  ASSUME Consistent, NEW t \in Threads, Running(t), NEW n \in Nat, n > 0,
         Create(t, n, "thread", << >>), Started(t, n)
  PROVE  RunningIsOnStack' /\ CreatorIsBelow'
<1>0. RunningIsOnStack /\ CreatorIsBelow /\ TypeOK
  BY DEF Consistent
<1>e. << >> \in Seq(Handles) /\ DOMAIN << >> = {}
  OBVIOUS
<1>s. New(n) \subseteq Handles /\ New(n) \subseteq Threads
  BY <1>0, <1>e, CreateFacts DEF Threads
<1>o. \A h \in Handles : h \notin New(n) => made'[h] = made[h] /\ entry'[h] = entry[h]
  BY <1>e, CreateOld
<1>f. \A h \in New(n) : entry'[h] = "running" /\ made'[h].kind = "thread"
  <2>1. \A h \in New(n) :
          /\ slot'[h] = "full" /\ entry'[h] = Entry("thread")
          /\ made'[h].kind = "thread" /\ made'[h].by = Top(t).task /\ made'[h].owner = t
    BY <1>0, <1>e, CreatedParts
  <2> QED
    BY <2>1 DEF Entry, IsQueued
<1>p. \A u \in Threads : \A k \in DOMAIN stack[u] :
        stack[u][k].task \in Threads /\ stack[u][k].task \notin New(n)
  BY <1>e, CreateOld
<1>m. \A u \in Threads : \A k \in DOMAIN stack[u] :
        stack[u][k].task # Main => made'[stack[u][k].task] = made[stack[u][k].task]
  BY <1>o, <1>p DEF Threads
<1>t. Top(t) = stack[t][Len(stack[t])] /\ Len(stack[t]) \in DOMAIN stack[t]
  BY <1>0, TopFacts
<1>1. ASSUME NEW u \in Threads, u \notin New(n)
      PROVE  DOMAIN stack'[u] = DOMAIN stack[u]
             /\ \A k \in DOMAIN stack[u] : stack'[u][k].task = stack[u][k].task
  <2>1. CASE u = t
    BY <1>t, <2>1 DEF Started, Activity
  <2>2. CASE u # t
    BY <1>1, <2>2 DEF Started
  <2> QED
    BY <2>1, <2>2
<1>2. \A u \in New(n) : DOMAIN stack'[u] = {1} /\ stack'[u][1].task = u
  <2>1. ASSUME NEW u \in New(n)
        PROVE  DOMAIN stack'[u] = {1} /\ stack'[u][1].task = u
    <3>1. DOMAIN stack'[u] = {1} /\ stack'[u][1] = Activity(u, "code", << >>)
      BY <1>s DEF Started
    <3> QED
      BY <3>1 DEF Activity
  <2> QED
    BY <2>1
<1>3. \A u \in Threads : \A j, k \in DOMAIN stack'[u] :
        stack'[u][j].task = stack'[u][k].task => j = k
  BY <1>0, <1>1, <1>2 DEF RunningIsOnStack
<1>4. ASSUME NEW u \in Threads, NEW k \in DOMAIN stack'[u]
      PROVE  LET i == stack'[u][k].task IN
             IF k = 1 THEN i = u /\ (u # Main => made'[u].kind = "thread")
             ELSE i # Main /\ made'[i].kind # "thread" /\ made'[i].owner = u
  <2>1. CASE u \in New(n)
    BY <1>2, <1>4, <1>f, <2>1
  <2>2. CASE u \notin New(n)
    BY <1>0, <1>1, <1>4, <1>m, <2>2 DEF RunningIsOnStack
  <2> QED
    BY <2>1, <2>2
<1>5. ASSUME NEW h \in Handles
      PROVE  entry'[h] = "running" <=>
               \E u \in Threads : \E k \in DOMAIN stack'[u] : stack'[u][k].task = h
  <2>1. CASE h \in New(n)
    BY <1>2, <1>f, <1>s, <2>1
  <2>2. CASE h \notin New(n)
    <3>1. entry'[h] = "running" <=>
            \E u \in Threads : \E k \in DOMAIN stack[u] : stack[u][k].task = h
      BY <1>0, <1>o, <2>2 DEF RunningIsOnStack
    <3>2. ASSUME NEW u \in Threads, NEW k \in DOMAIN stack[u], stack[u][k].task = h
          PROVE  k \in DOMAIN stack'[u] /\ stack'[u][k].task = h
      <4>1. u \notin New(n)
        BY <3>2 DEF Started
      <4> QED
        BY <1>1, <3>2, <4>1
    <3>3. ASSUME NEW u \in Threads, NEW k \in DOMAIN stack'[u], stack'[u][k].task = h
          PROVE  k \in DOMAIN stack[u] /\ stack[u][k].task = h
      <4>1. u \notin New(n)
        BY <1>2, <2>2, <3>3
      <4> QED
        BY <1>1, <3>3, <4>1
    <3> QED
      BY <3>1, <3>2, <3>3
  <2> QED
    BY <2>1, <2>2
<1>6. RunningIsOnStack'
  BY <1>3, <1>4, <1>5 DEF RunningIsOnStack
<1>7. ASSUME NEW u \in Threads, NEW j \in DOMAIN stack'[u], NEW k \in DOMAIN stack'[u],
             k # 1, made'[stack'[u][k].task].by = stack'[u][j].task
      PROVE  j < k
  <2>1. u \notin New(n)
    BY <1>2, <1>7
  <2>2. j \in DOMAIN stack[u] /\ k \in DOMAIN stack[u]
        /\ stack'[u][k].task = stack[u][k].task /\ stack'[u][j].task = stack[u][j].task
    BY <1>1, <1>7, <2>1
  <2>3. stack[u][k].task # Main
    BY <1>0, <1>7, <2>2 DEF RunningIsOnStack
  <2>4. made[stack[u][k].task].by = stack[u][j].task
    BY <1>7, <1>m, <2>2, <2>3
  <2> QED
    BY <1>0, <1>7, <2>2, <2>4 DEF CreatorIsBelow
<1>8. CreatorIsBelow'
  BY <1>7 DEF CreatorIsBelow
<1> QED
  BY <1>6, <1>8

\* A thread has no past.
LEMMA ThreadIsFresh ==
  ASSUME Consistent, NEW t \in Threads, Running(t), NEW n \in Nat, n > 0,
         Create(t, n, "thread", << >>), NEW u \in New(n),
         NEW a \in Activities, a = Activity(u, "code", << >>)
  PROVE  Fresh(u, a)
<1>0. TypeOK /\ HistoryIsOrdered
  BY DEF Consistent
<1>e. << >> \in Seq(Handles) /\ DOMAIN << >> = {}
  OBVIOUS
<1>1. ~a.held /\ a.op = "code" /\ a.task = u /\ a.on = << >>
  BY DEF Activity
<1>o. OldHandlesStay
  BY <1>e, CreateOld
<1>n. \A h \in Handles : next <= h /\ h < next' <=> h \in New(n)
  BY <1>e, CreateOld
<1>g. \A h \in New(n) : entry'[h] \notin {"none", "gone"}
  BY <1>e, CreateOld
<1>s. New(n) \subseteq Handles
  BY <1>0, <1>e, CreateFacts
<1>i. next \in Int /\ Handles \subseteq Int /\ New(n) \subseteq Handles
  BY <1>0, <1>s DEF TypeOK, Handles
<1>2. ASSUME NEW h \in Handles, h < next', made'[h].by = u, entry'[h] = "gone"
      PROVE  FALSE
  <2>1. ~(next <= h)
    BY <1>g, <1>n, <1>2
  <2>2. h \in Int /\ u \in Int /\ next \in Int /\ next <= u
    BY <1>i, <1>n
  <2>3. h < next
    BY <2>1, <2>2
  <2>4. made[h].by = u /\ made[h].by < h
    BY <1>0, <1>o, <1>2, <2>3 DEF OldHandlesStay, HistoryIsOrdered
  <2>5. u < h
    BY <2>4
  <2> QED
    BY <2>2, <2>3, <2>5
<1>3. KeepsFailures(a)'
  BY <1>1, <1>2 DEF KeepsFailures
<1>4. JoinsItsOwn(u, a)' /\ WaitsForOlder(a)'
  BY <1>1, <1>e DEF JoinsItsOwn, WaitsForOlder
<1> QED
  BY <1>1, <1>3, <1>4 DEF Fresh

\* A parallel block.
LEMMA ParallelKeeps ==
  ASSUME Consistent, TypeOK', NEW t \in Threads, Parallel(t)
  PROVE  Consistent'
<1>0. TypeOK
  BY DEF Consistent
<1>e. << >> \in Seq(Handles) /\ DOMAIN << >> = {} /\ InCode(t) /\ Running(t) /\ Top(t).op = "code"
  BY DEF InCode, Parallel
<1>1. PICK n \in Nat : n > 0 /\ Create(t, n, "thread", << >>) /\ Started(t, n)
  BY StartedFacts
<1>2. QueueIsExact'
  BY <1>1, <1>e, CreateQueue
<1>3. RunningIsOnStack' /\ CreatorIsBelow'
  BY <1>1, <1>e, ParallelPlaces
<1> PICK a : a = Activity(Top(t).task, "join", FreshIds(n))
  OBVIOUS
<1>4. a \in Activities
  <2>1. FreshIds(n) \in Seq(Handles)
    BY <1>0, <1>1, <1>e, CreateFacts
  <2> QED
    BY <1>0, <1>e, <2>1, TopFacts DEF Activity, Activities, Ops, Results
<1>5. stack'[t][Len(stack[t])] = a /\ Len(stack[t]) \in DOMAIN stack'[t]
      /\ Top(t) = stack[t][Len(stack[t])]
  BY <1>0, <1>1, <1>e, TopFacts DEF Started
<1>6. a.task = Top(t).task /\ a.op = "join" /\ a.on = FreshIds(n)
  BY DEF Activity
<1>7. OldHandlesStay /\ NewHandlesFit
  <2>1. \E k \in DOMAIN stack'[t] :
             stack'[t][k].task = Top(t).task /\ stack'[t][k].op = "join"
             /\ stack'[t][k].on = FreshIds(n)
    BY <1>5, <1>6
  <2> QED
    BY <1>1, <1>e, <2>1, CreateNew
<1>8. Fresh(t, a)
  BY <1>1, <1>4, <1>e, JoinerIsFresh
<1>9. ASSUME NEW u \in Threads, NEW k \in DOMAIN stack'[u]
      PROVE  \/ k \in DOMAIN stack[u] /\ stack'[u][k] = stack[u][k]
             \/ \E b \in Activities : b = stack'[u][k] /\ Fresh(u, b)
  <2>1. CASE u = t
    BY <1>1, <1>4, <1>5, <1>8, <1>9, <2>1 DEF Started
  <2>2. CASE u # t /\ u \notin New(n)
    BY <1>1, <1>9, <2>2 DEF Started
  <2>3. CASE u # t /\ u \in New(n)
    <3> PICK b : b = Activity(u, "code", << >>)
      OBVIOUS
    <3>1. stack'[u][k] = b
      BY <1>1, <1>9, <2>3 DEF Started
    <3>2. b \in Activities
      BY <1>e DEF Activity, Activities, Ops, Results
    <3>3. Fresh(u, b)
      BY <1>1, <1>e, <2>3, <3>2, ThreadIsFresh
    <3> QED
      BY <3>1, <3>2, <3>3
  <2> QED
    BY <2>1, <2>2, <2>3
<1>10. ASSUME NEW u \in Threads, NEW k \in DOMAIN stack[u], stack[u][k].op = "join"
       PROVE  k \in DOMAIN stack'[u] /\ stack'[u][k] = stack[u][k]
  BY <1>1, <1>5, <1>10, <1>e DEF Started
<1>11. ActivitiesStay
  BY <1>9, <1>10 DEF ActivitiesStay
<1> QED
  BY <1>2, <1>3, <1>7, <1>11, GrowStep DEF Consistent

-----------------------------------------------------------------------------
(* The invariant.                                                          *)

LEMMA SpawnKeeps ==
  ASSUME Consistent, TypeOK', NEW t \in Threads, Spawn(t) \/ Combine(t)
  PROVE  Consistent'
<1>0. TypeOK
  BY DEF Consistent
<1>e. << >> \in Seq(Handles) /\ DOMAIN << >> = {} /\ Running(t) /\ UNCHANGED stack
  BY DEF InCode, Spawn, Combine
<1>1. ASSUME NEW kind, kind \notin {"block", "thread"}, NEW args \in Seq(Handles),
             \A m \in DOMAIN args : args[m] \in Visible, Create(t, 1, kind, args)
      PROVE  Consistent'
  <2>1. 1 \in Nat /\ 1 > 0
    OBVIOUS
  <2> QED
    BY <1>1, <1>e, <2>1, CombineKeeps, Zenon
<1>2. CASE Spawn(t)
  <2>1. Create(t, 1, "spawn", << >>)
    BY <1>2 DEF Spawn
  <2> QED
    BY <1>1, <1>e, <2>1
<1>3. CASE \E kind \in {"ready", "sleep"} : Create(t, 1, kind, << >>)
  BY <1>1, <1>3, <1>e
<1>4. CASE \E kind \in {"gather", "any"}, hs \in Lists(Visible) : Create(t, 1, kind, hs)
  <2>1. PICK kind \in {"gather", "any"}, hs \in Lists(Visible) : Create(t, 1, kind, hs)
    BY <1>4
  <2>2. hs \in Seq(Handles) /\ \A m \in DOMAIN hs : hs[m] \in Visible
    BY <1>0, VisibleLists
  <2>3. kind \notin {"block", "thread"}
    OBVIOUS
  <2> QED
    BY <1>1, <2>1, <2>2, <2>3
<1>5. CASE \E h \in Visible : Create(t, 1, "timeout", <<h>>)
  <2>1. PICK h \in Visible : Create(t, 1, "timeout", <<h>>)
    BY <1>5
  <2>2. <<h>> \in Seq(Handles) /\ \A m \in DOMAIN <<h>> : <<h>>[m] \in Visible
    BY DEF Visible
  <2> QED
    BY <1>1, <2>1, <2>2
<1> QED
  BY <1>2, <1>3, <1>4, <1>5 DEF Combine

LEMMA SchedulingKeeps ==
  ASSUME Consistent, TypeOK', NEW t \in Threads, Scheduling(t)
  PROVE  Consistent'
<1>1. CASE Resolve(t)
  <2>0. TypeOK /\ Joining(t) /\ Top(t).held /\ Running(t) /\ Top(t).on # << >>
    BY <1>1 DEF Resolve, Joining, Consistent
  <2> PICK h \in Handles : h = Head(Top(t).on)
    BY <2>0, HeadFacts
  <2>1. \/ /\ entry[h] = "ready"
           /\ entry' = [entry EXCEPT ![h] = "gone"]
           /\ Receive(t, result[h])
           /\ UNCHANGED <<made, slot, result, queue, next>>
        \/ RunNext(t)
    BY <1>1 DEF Resolve
  <2>2. CASE RunNext(t)
    BY <2>0, <2>2, RunNextKeeps
  <2> QED
    BY <2>0, <2>1, <2>2, DeliverKeeps
<1> QED
  BY <1>1, FinishKeeps, ClaimKeeps, GiveUpKeeps, AwaitKeeps DEF Scheduling

LEMMA InitHolds == Init => Consistent
<1> SUFFICES ASSUME Init PROVE Consistent
  OBVIOUS
<1> DEFINE a == Activity(Main, "code", << >>)
<1>e. << >> \in Seq(Handles) /\ DOMAIN << >> = {} /\ Main \in Threads /\ MaxHandles \in Nat
  BY BoundsAssumption DEF Threads
<1>1. a.task = Main /\ a.op = "code" /\ ~a.held /\ a.on = << >> /\ a \in Activities
  BY <1>e DEF Activity, Activities, Ops, Results
<1>2. /\ stack[Main] = <<a>>
      /\ \A u \in Threads : u # Main => stack[u] = << >>
      /\ stack = [u \in Threads |-> IF u = Main THEN <<a>> ELSE << >>]
  BY <1>e DEF Init
<1> HIDE DEF a
<1>3. DOMAIN <<a>> = {1} /\ <<a>>[1] = a /\ <<a>> \in Seq(Activities) /\ << >> \in Seq(Activities)
  BY <1>1
<1>4. /\ \A u \in Threads : \A k \in DOMAIN stack[u] : u = Main /\ k = 1 /\ stack[u][k] = a
      /\ 1 \in DOMAIN stack[Main] /\ stack[Main][1] = a
  BY <1>2, <1>3, <1>e
<1>5. stack \in [Threads -> Seq(Activities)]
  BY <1>2, <1>3
<1>6. /\ slot = [h \in Handles |-> "unborn"]
      /\ entry = [h \in Handles |-> "none"]
      /\ result = [h \in Handles |-> "ok"]
      /\ queue = [t \in Threads |-> << >>]
      /\ next = 1
  BY DEF Init
<1>7. TypeOK
  <2>1. made \in [Handles -> [kind : AllKinds, args : Seq(Handles), by : Threads, owner : Threads]]
    BY <1>e DEF Init, AllKinds
  <2>2. queue \in [Threads -> Seq(Handles)]
    BY <1>6, <1>e
  <2>3. answer \in [on : Handles \cup {NoOne}, to : Threads,
                 val : Results \cup {"nothing", "foreign", "deadlock", "none"}]
    BY <1>e DEF Init
  <2>4. next \in 1 .. MaxHandles + 1
    BY <1>6, <1>e
  <2> QED
    BY <1>5, <1>6, <2>1, <2>2, <2>3, <2>4 DEF TypeOK, Activities, Results
<1>8. \A h \in Handles : ~(h < next)
  BY <1>6 DEF Handles
<1>9. QueueIsExact
  BY <1>6, <1>e DEF QueueIsExact
<1>10. RunningIsOnStack
  <2>1. \A h \in Handles : h # Main
    BY DEF Handles, Main
  <2>2. \A t \in Threads : \A j, k \in DOMAIN stack[t] :
          stack[t][j].task = stack[t][k].task => j = k
    BY <1>4
  <2>3. \A t \in Threads : \A k \in DOMAIN stack[t] :
       LET i == stack[t][k].task IN
       IF k = 1 THEN i = t /\ (t # Main => made[t].kind = "thread")
       ELSE i # Main /\ made[i].kind # "thread" /\ made[i].owner = t
    BY <1>1, <1>4
  <2>4. \A h \in Handles : entry[h] = "running" <=>
          \E t \in Threads : \E k \in DOMAIN stack[t] : stack[t][k].task = h
    BY <1>1, <1>4, <1>6, <2>1
  <2> QED
    BY <2>2, <2>3, <2>4 DEF RunningIsOnStack
<1>11. CreatorIsBelow
  BY <1>4 DEF CreatorIsBelow
<1>12. OneHolder
  BY <1>1, <1>4 DEF OneHolder, HoldsProperly
<1>13. JoinsAreExact /\ PolledTasksAreStarted
  BY <1>1, <1>4 DEF JoinsAreExact, JoinsItsOwn, PolledTasksAreStarted
<1>14. BlocksAreJoined /\ FailuresAreKept
  BY <1>8 DEF BlocksAreJoined, FailuresAreKept, KeepsFailures
<1>15. HistoryIsOrdered
  <2>1. \A u \in Threads : \A k \in DOMAIN stack[u] : WaitsForOlder(stack[u][k])
    BY <1>1, <1>4, <1>e DEF WaitsForOlder
  <2> QED
    BY <1>6, <1>8, <2>1 DEF HistoryIsOrdered
<1> QED
  BY <1>7, <1>9, <1>10, <1>11, <1>12, <1>13, <1>14, <1>15 DEF Consistent

LEMMA StutterKeeps ==
  ASSUME Consistent, UNCHANGED vars
  PROVE  Consistent'
<1>1. made' = made /\ slot' = slot /\ entry' = entry /\ result' = result /\ queue' = queue
      /\ next' = next /\ stack' = stack /\ answer' = answer
  BY DEF vars
<1>2. TypeOK' /\ QueueIsExact' /\ RunningIsOnStack' /\ CreatorIsBelow'
  BY <1>1, StepType, SameTasksStep DEF SameTasks
<1>3. OldHandlesStay /\ NewHandlesFit /\ ActivitiesStay
  <2>1. next \in Int /\ Handles \subseteq Int
    BY DEF Consistent, TypeOK, Handles
  <2>2. \A h \in Handles : ~(next <= h /\ h < next')
    BY <1>1, <2>1
  <2> QED
    BY <1>1, <2>1, <2>2 DEF OldHandlesStay, NewHandlesFit, ActivitiesStay
<1> QED
  BY <1>2, <1>3, GrowStep DEF Consistent

LEMMA NextKeeps ==
  ASSUME Consistent, [Next]_vars
  PROVE  Consistent'
<1>1. TypeOK'
  BY StepType
<1>2. ASSUME NEW t \in Threads,
             \/ Spawn(t) \/ Combine(t) \/ Block(t) \/ Parallel(t) \/ Await(t) \/ CodeEnds(t)
             \/ Scheduling(t)
      PROVE  Consistent'
  BY <1>1, <1>2, SpawnKeeps, BlockKeeps, ParallelKeeps, AwaitKeeps, SchedulingKeeps
<1> QED
  BY <1>1, <1>2, TimerKeeps, StutterKeeps DEF Next, PollsOn, Terminated

\* In every reachable state of every program, queues, stacks and slots tell one story:
\* a queue holds exactly what its scheduler has not started, each running computation
\* has one activation, each claimed result one claimant, and every task or thread of a
\* block is joined by the activity that started it.
\* (DeferredScheduler, FidanPending, fdn_join_all)
THEOREM DeferredIsConsistent == Spec => []Consistent
BY InitHolds, NextKeeps, PTL DEF Spec

-----------------------------------------------------------------------------
(* Answers.                                                                *)

\* A handle that somebody waits for exists: its slot has been made.
LEMMA AwaitedExists ==
  ASSUME Consistent, NEW t \in Threads, Running(t), NEW m \in DOMAIN Top(t).on
  PROVE  /\ Top(t).on[m] \in Handles /\ Top(t).on[m] < next
         /\ slot[Top(t).on[m]] \in {"full", "empty"} /\ entry[Top(t).on[m]] # "none"
<1>0. TypeOK /\ HistoryIsOrdered
  BY DEF Consistent
<1>1. Top(t) = stack[t][Len(stack[t])] /\ Len(stack[t]) \in DOMAIN stack[t]
      /\ Top(t).on \in Seq(Handles)
  BY <1>0, TopFacts
<1>2. Top(t).on[m] \in Handles
  BY <1>1, SequenceFacts
<1>3. Top(t).on[m] < next
  BY <1>0, <1>1 DEF HistoryIsOrdered, WaitsForOlder
<1> QED
  BY <1>0, <1>2, <1>3 DEF HistoryIsOrdered, TypeOK

\* Only these steps answer: a look at a handle that needs no waiting, the end of a join,
\* and a scheduler that gives up.
LEMMA AnsweringStep ==
  ASSUME Consistent, Next, answer' # answer
  PROVE  \E t \in Threads, h \in Handles :
           \/ /\ Running(t) /\ ~Top(t).held /\ \E m \in DOMAIN Top(t).on : Top(t).on[m] = h
              /\ Take(t, h) /\ Receive(t, ValueFor(t, h))
           \/ /\ Running(t) /\ Joining(t) /\ Top(t).held /\ h = Head(Top(t).on)
              /\ entry[h] = "ready" /\ entry' = [entry EXCEPT ![h] = "gone"]
              /\ Answers(t, h, result[h]) /\ Receive(t, result[h])
              /\ UNCHANGED <<made, slot, result, queue, next>>
           \/ GiveUp(t) /\ Running(t) /\ h = Head(Top(t).on)
<1>0. TypeOK /\ OneHolder
  BY DEF Consistent
<1>1. PICK t \in Threads : Claim(t) \/ Resolve(t) \/ GiveUp(t) \/ Poll(t)
  BY DEF Next, Scheduling, Spawn, Combine, Block, Parallel, Create, Await, CodeEnds, TimerFires,
         PollsOn, Terminated, vars, Finish, AllResolved, TimeoutExpires
<1>2. Running(t)
  BY <1>1 DEF Claim, Resolve, GiveUp, Poll, Joining
<1>3. ASSUME Joining(t)
      PROVE  \E h \in Handles : h = Head(Top(t).on) /\ \E m \in DOMAIN Top(t).on : Top(t).on[m] = h
  <2>1. Top(t).on # << >>
    BY <1>3 DEF Joining
  <2> QED
    BY <1>0, <1>2, <2>1, HeadFacts
<1>4. CASE Claim(t)
  <2>1. Joining(t) /\ ~Top(t).held
    BY <1>4 DEF Claim
  <2> PICK h \in Handles : h = Head(Top(t).on) /\ \E m \in DOMAIN Top(t).on : Top(t).on[m] = h
    BY <1>3, <2>1
  <2>2. Take(t, h) /\ Receive(t, ValueFor(t, h))
    BY <1>4 DEF Claim
  <2> QED
    BY <1>2, <2>1, <2>2
<1>5. CASE Resolve(t)
  <2>1. Joining(t) /\ Top(t).held
    BY <1>5 DEF Resolve
  <2> PICK h \in Handles : h = Head(Top(t).on) /\ \E m \in DOMAIN Top(t).on : Top(t).on[m] = h
    BY <1>3, <2>1
  <2>2. /\ entry[h] = "ready" /\ entry' = [entry EXCEPT ![h] = "gone"]
        /\ Answers(t, h, result[h]) /\ Receive(t, result[h])
        /\ UNCHANGED <<made, slot, result, queue, next>>
    BY <1>5 DEF Resolve, RunNext
  <2> QED
    BY <1>2, <2>1, <2>2
<1>6. CASE GiveUp(t)
  <2>1. Joining(t)
    BY <1>6 DEF GiveUp
  <2> QED
    BY <1>2, <1>3, <1>6, <2>1
<1>7. CASE Poll(t)
  <2>1. PICK m \in DOMAIN Top(t).on :
          Take(t, Top(t).on[m]) /\ Receive(t, ValueFor(t, Top(t).on[m]))
    BY <1>7 DEF Poll
  <2>2. Top(t).on[m] \in Handles
    BY <1>2, AwaitedExists
  <2>3. ~Top(t).held
    <3>1. Top(t) = stack[t][Len(stack[t])] /\ Len(stack[t]) \in DOMAIN stack[t]
      BY <1>0, <1>2, TopFacts
    <3> QED
      BY <1>0, <1>7, <3>1 DEF OneHolder, HoldsProperly, Poll
  <2> QED
    BY <1>2, <2>1, <2>2, <2>3
<1> QED
  BY <1>1, <1>4, <1>5, <1>6, <1>7

\* What a look at a handle may answer, and what it takes.
LEMMA TakeFacts ==
  ASSUME Consistent, NEW t \in Threads, NEW h \in Handles, slot[h] \in {"full", "empty"},
         Take(t, h)
  PROVE  /\ answer' = [on |-> h, val |-> ValueFor(t, h), to |-> t]
         /\ \/ /\ slot[h] = "empty" /\ ValueFor(t, h) = "nothing" /\ UNCHANGED <<slot, entry>>
            \/ /\ slot[h] = "full" /\ ValueFor(t, h) = "foreign" /\ UNCHANGED <<slot, entry>>
            \/ /\ slot[h] = "full" /\ entry[h] = "ready" /\ ValueFor(t, h) = result[h]
               /\ Removed(t, h) /\ (Cooperative(h) => made[h].owner = t)
         /\ UNCHANGED <<made, result, queue, next>>
<1>1. CASE slot[h] = "empty"
  BY <1>1 DEF Take, Answers, ValueFor, IsForeign
<1>2. CASE slot[h] = "full" /\ IsForeign(t, h)
  BY <1>2 DEF Take, Answers, ValueFor
<1>3. CASE slot[h] = "full" /\ ~IsForeign(t, h)
  BY <1>3 DEF Take, Answers, ValueFor, Available, IsForeign
<1> QED
  BY <1>1, <1>2, <1>3

LEMMA HomeStep ==
  ASSUME Consistent, Next, answer' # answer
  PROVE  /\ answer'.val \in Results /\ Cooperative(answer'.on)
              => answer'.to = made[answer'.on].owner
         /\ answer'.val = "foreign" => slot' = slot /\ entry' = entry
         /\ answer'.val = "deadlock" => made[answer'.on].by # Top(answer'.to).task
<1>0. TypeOK /\ OneHolder
  BY DEF Consistent
<1>1. PICK t \in Threads, h \in Handles :
           \/ /\ Running(t) /\ ~Top(t).held /\ \E m \in DOMAIN Top(t).on : Top(t).on[m] = h
              /\ Take(t, h) /\ Receive(t, ValueFor(t, h))
           \/ /\ Running(t) /\ Joining(t) /\ Top(t).held /\ h = Head(Top(t).on)
              /\ entry[h] = "ready" /\ entry' = [entry EXCEPT ![h] = "gone"]
              /\ Answers(t, h, result[h]) /\ Receive(t, result[h])
              /\ UNCHANGED <<made, slot, result, queue, next>>
           \/ GiveUp(t) /\ Running(t) /\ h = Head(Top(t).on)
  BY AnsweringStep
<1>r. result[h] \in {"ok", "throw", "panic"}
  BY <1>0 DEF TypeOK, Results
<1>2. CASE /\ Running(t) /\ \E m \in DOMAIN Top(t).on : Top(t).on[m] = h
           /\ Take(t, h)
  <2>1. slot[h] \in {"full", "empty"}
    BY <1>2, AwaitedExists
  <2>2. /\ answer' = [on |-> h, val |-> ValueFor(t, h), to |-> t]
        /\ \/ /\ slot[h] = "empty" /\ ValueFor(t, h) = "nothing" /\ UNCHANGED <<slot, entry>>
            \/ /\ slot[h] = "full" /\ ValueFor(t, h) = "foreign" /\ UNCHANGED <<slot, entry>>
            \/ /\ slot[h] = "full" /\ entry[h] = "ready" /\ ValueFor(t, h) = result[h]
               /\ Removed(t, h) /\ (Cooperative(h) => made[h].owner = t)
    BY <1>2, <2>1, TakeFacts
  <2>3. answer'.on = h /\ answer'.val = ValueFor(t, h) /\ answer'.to = t
    BY <2>2
  <2> QED
    BY <1>r, <2>2, <2>3 DEF Results
<1>3. CASE /\ Running(t) /\ Top(t).held /\ h = Head(Top(t).on) /\ Answers(t, h, result[h])
  <2>1. answer'.on = h /\ answer'.val = result[h] /\ answer'.to = t
    BY <1>3 DEF Answers
  <2>2. Cooperative(h) => made[h].owner = t
    <3>1. Top(t) = stack[t][Len(stack[t])] /\ Len(stack[t]) \in DOMAIN stack[t]
      BY <1>0, <1>3, TopFacts
    <3> QED
      <4> PICK b : b = stack[t][Len(stack[t])]
        OBVIOUS
      <4>1. b = Top(t) /\ HoldsProperly(t, b)
        BY <1>0, <3>1, Zenon DEF OneHolder
      <4> QED
        BY <1>3, <4>1 DEF HoldsProperly
  <2> QED
    BY <1>r, <2>1, <2>2
<1>4. CASE GiveUp(t) /\ h = Head(Top(t).on)
  <2>1. answer'.on = h /\ answer'.val = "deadlock" /\ answer'.to = t
    BY <1>4 DEF GiveUp, Answers
  <2>2. made[h].by # Top(t).task
    BY <1>4, GiveUpIsForeign
  <2> QED
    BY <2>1, <2>2 DEF Results
<1> QED
  BY <1>1, <1>2, <1>3, <1>4

\* For every program, and on any number of threads: the result of a cooperative task is
\* handed to nobody but the thread that made it, and a refused foreign join leaves
\* the handle as it was.  (validate_pending_thread, try_take_ready_exception)
THEOREM ResultsStayHome == Spec => CooperativeStaysHome
<1>1. Consistent /\ [Next]_vars =>
        [answer' # answer =>
           /\ answer'.val \in Results /\ Cooperative(answer'.on)
                => answer'.to = made[answer'.on].owner
           /\ answer'.val = "foreign" => slot' = slot /\ entry' = entry]_vars
  BY HomeStep DEF vars
<1> QED
  BY <1>1, DeferredIsConsistent, PTL DEF Spec, CooperativeStaysHome

\* R9001 is never raised to the maker of the task it is about: what a scheduler that
\* gives up could not resolve was started by somebody further down its stack.
\* (deferred_scheduler_resolve)
THEOREM NobodyIsRefusedItsOwn == Spec => OwnTasksNeverDeadlock
<1>1. Consistent /\ [Next]_vars =>
        [answer' # answer /\ answer'.val = "deadlock" =>
           made[answer'.on].by # Top(answer'.to).task]_vars
  BY HomeStep DEF vars
<1> QED
  BY <1>1, DeferredIsConsistent, PTL DEF Spec, OwnTasksNeverDeadlock

-----------------------------------------------------------------------------
(* The end of a block.                                                     *)

\* A block is left by fdn_join_all alone, with nothing left to join.
LEMMA JoinLeaves ==
  ASSUME Consistent, Next, NEW t \in Threads, NEW k \in DOMAIN stack[t],
         stack[t][k].op = "join", k \in DOMAIN stack'[t], stack'[t][k].op # "join"
  PROVE  stack[t][k].on = << >> /\ (stack'[t][k].op = "code" => stack[t][k].exc = "ok")
<1>0. TypeOK
  BY DEF Consistent
<1>e. << >> \in Seq(Handles) /\ {"await", "finish", "code", "join"} \subseteq Ops /\ "ok" \in Results
  BY DEF Ops, Results
<1> SUFFICES ASSUME ~(stack[t][k].on = << >> /\ (stack'[t][k].op = "code" => stack[t][k].exc = "ok"))
             PROVE  FALSE
  OBVIOUS
<1>1. stack'[t] # stack[t] /\ stack'[t][k] # stack[t][k]
  OBVIOUS
<1>2. ASSUME NEW u \in Threads, Running(u), NEW a \in Activities, TopBecomes(u, a),
             Top(u).op # "join" \/ a.op = "join"
      PROVE  FALSE
  <2>1. /\ stack'[u][Len(stack[u])] = a
        /\ \A v \in Threads : \A j \in DOMAIN stack[v] :
             v # u \/ j # Len(stack[u]) => stack'[v][j] = stack[v][j]
    BY <1>0, <1>2, TopBecomesFacts
  <2>2. Top(u) = stack[u][Len(stack[u])]
    BY <1>0, <1>2, TopFacts
  <2> QED
    BY <1>1, <1>2, <2>1, <2>2
<1>3. ASSUME NEW u \in Threads, Running(u), Top(u).op # "join", NEW op \in Ops,
             NEW on \in Seq(Handles), NEW exc \in Results, Become(u, op, on, exc)
      PROVE  FALSE
  <2>1. PICK a \in Activities : TopBecomes(u, a)
    BY <1>0, <1>3, BecomeFacts
  <2> QED
    BY <1>2, <1>3, <2>1
<1>4. ASSUME NEW u \in Threads, Running(u), NEW v, Receive(u, v),
             Top(u).op \in {"any", "timeout"} \/ Top(u).on # << >>
      PROVE  FALSE
  <2>1. PICK a \in Activities : Receives(u, a, v)
    BY <1>0, <1>4, ReceiveFacts
  <2> QED
    BY <1>2, <1>4, <2>1 DEF Receives
<1>5. ASSUME NEW u \in Threads, Spawn(u) \/ Combine(u) PROVE FALSE
  BY <1>1, <1>5 DEF Spawn, Combine
<1>6. ASSUME NEW u \in Threads, Await(u) PROVE FALSE
  <2>1. PICK h \in Visible : Become(u, "await", <<h>>, "ok")
    BY <1>6 DEF Await
  <2>2. <<h>> \in Seq(Handles)
    BY DEF Visible
  <2> QED
    BY <1>3, <1>6, <1>e, <2>1, <2>2 DEF Await, InCode
<1>7. ASSUME NEW u \in Threads, CodeEnds(u) PROVE FALSE
  BY <1>3, <1>7, <1>e DEF CodeEnds, InCode
<1>8. ASSUME NEW u \in Threads, Block(u) PROVE FALSE
  <2>1. PICK n \in 1 .. MaxList :
          Create(u, n, "block", << >>) /\ Become(u, "join", FreshIds(n), "ok")
    BY <1>8 DEF Block
  <2>2. n \in Nat /\ n > 0 /\ Running(u) /\ Top(u).op = "code"
    BY <1>8, BoundsAssumption DEF Block, InCode
  <2>3. FreshIds(n) \in Seq(Handles)
    BY <1>0, <1>e, <2>1, <2>2, CreateFacts
  <2> QED
    BY <1>3, <1>e, <2>1, <2>2, <2>3
<1>9. ASSUME NEW u \in Threads, Parallel(u) PROVE FALSE
  <2>1. PICK n \in Nat : Started(u, n)
    BY <1>9, StartedFacts
  <2>2. Top(u) = stack[u][Len(stack[u])] /\ Top(u).op = "code"
    BY <1>0, <1>9, TopFacts DEF Parallel, InCode
  <2> QED
    BY <1>1, <2>1, <2>2 DEF Started
<1>10. ASSUME NEW u \in Threads, Finish(u) PROVE FALSE
  BY <1>0, <1>1, <1>10, PopFacts DEF Finish
<1>11. ASSUME NEW u \in Threads, Claim(u) PROVE FALSE
  <2>0. Running(u) /\ Top(u).on # << >>
    BY <1>11 DEF Claim, Joining
  <2>1. CASE stack' = [stack EXCEPT ![u][Len(stack[u])].held = TRUE]
    <3> DEFINE a == [Top(u) EXCEPT !.held = TRUE]
    <3>1. a \in Activities /\ TopBecomes(u, a) /\ a.op = Top(u).op
      BY <1>0, <2>0, <2>1, TopFacts DEF TopBecomes, Top, Activities
    <3> QED
      BY <1>2, <2>0, <3>1
  <2> QED
    BY <1>4, <1>11, <2>0, <2>1 DEF Claim
<1>12. ASSUME NEW u \in Threads, Resolve(u) PROVE FALSE
  <2>0. Running(u) /\ Top(u).on # << >>
    BY <1>12 DEF Resolve, Joining
  <2>1. CASE RunNext(u)
    <3>1. PICK i \in Handles :
            Opening(i) \in Activities /\ stack' = [stack EXCEPT ![u] = Append(@, Opening(i))]
      BY <1>0, <2>1, RunNextFacts
    <3> QED
      BY <1>0, <1>1, <3>1, PushFacts
  <2> QED
    BY <1>4, <1>12, <2>0, <2>1 DEF Resolve
<1>13. ASSUME NEW u \in Threads, GiveUp(u) PROVE FALSE
  BY <1>4, <1>13 DEF GiveUp, Joining
<1>14. ASSUME NEW u \in Threads, AllResolved(u) PROVE FALSE
  <2>1. CASE Top(u).op # "join"
    BY <1>3, <1>14, <1>e, <2>1 DEF AllResolved
  <2>2. CASE Top(u).op = "join"
    <3>1. Top(u).exc \in Results /\ Top(u) = stack[u][Len(stack[u])]
      BY <1>0, <1>14, TopFacts DEF AllResolved
    <3>2. ASSUME NEW op \in {"code", "finish"}, NEW exc \in Results, Become(u, op, << >>, exc),
                 op = "code" => Top(u).exc = "ok"
          PROVE  FALSE
      <4>0. Running(u) /\ op \in Ops
        BY <1>14, <1>e DEF AllResolved
      <4>1. PICK a \in Activities :
              /\ a = [task |-> Top(u).task, op |-> op, on |-> << >>, held |-> FALSE, exc |-> exc]
              /\ TopBecomes(u, a)
        BY <1>0, <1>e, <3>2, <4>0, BecomeFacts
      <4>2. /\ stack'[u][Len(stack[u])] = a
            /\ \A v \in Threads : \A j \in DOMAIN stack[v] :
                 v # u \/ j # Len(stack[u]) => stack'[v][j] = stack[v][j]
        BY <1>0, <1>14, <4>1, TopBecomesFacts DEF AllResolved
      <4>3. t = u /\ k = Len(stack[u]) /\ a.op = op
        BY <1>1, <4>1, <4>2
      <4> QED
        BY <1>14, <3>1, <3>2, <4>2, <4>3 DEF AllResolved
    <3> QED
      BY <1>14, <1>e, <2>2, <3>1, <3>2 DEF AllResolved
  <2> QED
    BY <2>1, <2>2
<1>15. ASSUME NEW u \in Threads, Poll(u) \/ TimeoutExpires(u) PROVE FALSE
  <2>1. Running(u) /\ Top(u).op \in {"any", "timeout"} /\ Top(u).op # "join"
    BY <1>15 DEF Poll, TimeoutExpires
  <2>2. CASE Become(u, "finish", << >>, "ok")
    BY <1>3, <1>e, <2>1, <2>2
  <2> QED
    BY <1>4, <1>15, <2>1, <2>2 DEF Poll, TimeoutExpires
<1>16. CASE UNCHANGED stack
  BY <1>1, <1>16
<1>17. TimerFires \/ PollsOn \/ Terminated => UNCHANGED stack
  BY DEF TimerFires, PollsOn, Terminated, vars
<1> QED
  BY <1>5, <1>6, <1>7, <1>8, <1>9, <1>10, <1>11, <1>12, <1>13, <1>14, <1>15, <1>16, <1>17
  DEF Next, Scheduling

LEMMA BlockStep ==
  ASSUME Consistent, Next, NEW t \in Threads, NEW k \in DOMAIN stack[t],
         stack[t][k].op = "join", k \in DOMAIN stack'[t], stack'[t][k].op # "join",
         NEW h \in Handles, h < next, Hidden(h), made[h].owner = t, made[h].by = stack[t][k].task
  PROVE  entry[h] = "gone" /\ (stack'[t][k].op = "code" => result[h] = "ok")
<1>0. RunningIsOnStack /\ BlocksAreJoined /\ FailuresAreKept
  BY DEF Consistent
<1>1. stack[t][k].on = << >> /\ (stack'[t][k].op = "code" => stack[t][k].exc = "ok")
  BY JoinLeaves
<1>2. ASSUME entry[h] # "gone" PROVE FALSE
  <2>1. PICK j \in DOMAIN stack[t] :
          stack[t][j].task = stack[t][k].task /\ \E m \in DOMAIN stack[t][j].on : stack[t][j].on[m] = h
    BY <1>0, <1>2 DEF BlocksAreJoined
  <2>2. j = k
    BY <1>0, <2>1 DEF RunningIsOnStack
  <2>3. DOMAIN stack[t][k].on = {}
    BY <1>1
  <2> QED
    BY <2>1, <2>2, <2>3
<1>3. ASSUME stack'[t][k].op = "code" PROVE result[h] = "ok"
  BY <1>0, <1>1, <1>2, <1>3 DEF FailuresAreKept, KeepsFailures
<1> QED
  BY <1>2, <1>3

\* When the code behind a concurrent or a parallel block goes on, all the block's tasks and
\* threads have ended well, and a failure is raised only after the last of them has ended.
\* (fdn_join_all)
THEOREM BlocksAreStructured == Spec => BlockIsAllOrNothing
<1>1. Consistent /\ [Next]_vars =>
        [\A t \in Threads : \A k \in DOMAIN stack[t] :
           stack[t][k].op = "join" /\ k \in DOMAIN stack'[t] /\ stack'[t][k].op # "join" =>
             \A h \in Handles :
               /\ h < next /\ Hidden(h)
               /\ made[h].owner = t /\ made[h].by = stack[t][k].task
               => entry[h] = "gone" /\ (stack'[t][k].op = "code" => result[h] = "ok")]_vars
  BY BlockStep DEF vars
<1> QED
  BY <1>1, DeferredIsConsistent, PTL DEF Spec, BlockIsAllOrNothing

-----------------------------------------------------------------------------
(* Handles are one-shots: every step is a step of OneShot, or none.        *)

Seen == <<SettledAs, RightTo, LastAnswer>>

LEMMA SeenFacts ==
  /\ \A h \in Handles :
       SettledAs[h] = IF entry[h] \in {"ready", "gone"} THEN result[h] ELSE "none"
  /\ \A h \in Handles :
       RightTo[h] = IF slot[h] = "unborn" THEN "unborn" ELSE IF slot[h] = "full" THEN "free"
                    ELSE IF Held(h) THEN "claimed" ELSE "spent"
BY DEF SettledAs, RightTo

LEMMA SameSettled ==
  ASSUME \A h \in Handles :
           /\ entry'[h] \in {"ready", "gone"} <=> entry[h] \in {"ready", "gone"}
           /\ entry[h] \in {"ready", "gone"} => result'[h] = result[h]
  PROVE  UNCHANGED SettledAs
BY DEF SettledAs

LEMMA SameRight ==
  ASSUME \A h \in Handles : slot'[h] = slot[h],
         \A h \in Handles : Held(h)' <=> Held(h)
  PROVE  UNCHANGED RightTo
BY DEF RightTo

\* What is held, when the activity on top of t becomes a.
LEMMA HeldMoves ==
  ASSUME Consistent, NEW t \in Threads, Running(t), NEW a \in Activities, TopBecomes(t, a)
  PROVE  \A h \in Handles :
           Held(h)' <=> HoldsOn(a, h) \/ (Held(h) /\ ~HoldsOn(Top(t), h))
<1>0. TypeOK /\ OneHolder
  BY DEF Consistent
<1> PICK n : n = Len(stack[t])
  OBVIOUS
<1>1. /\ \A u \in Threads : DOMAIN stack'[u] = DOMAIN stack[u]
      /\ stack'[t][n] = a
      /\ \A u \in Threads : \A k \in DOMAIN stack[u] :
           u # t \/ k # n => stack'[u][k] = stack[u][k]
  BY <1>0, TopBecomesFacts
<1>2. Top(t) = stack[t][n] /\ n \in DOMAIN stack[t]
  BY <1>0, TopFacts
<1>3. ASSUME NEW h \in Handles, Held(h)'
      PROVE  HoldsOn(a, h) \/ (Held(h) /\ ~HoldsOn(Top(t), h))
  <2>1. PICK u \in Threads : \E k \in DOMAIN stack'[u] : HoldsOn(stack[u][k], h)'
    BY <1>3 DEF Held
  <2>2. PICK k \in DOMAIN stack'[u] : stack'[u][k].held /\ Head(stack'[u][k].on) = h
    BY <2>1 DEF HoldsOn
  <2>3. CASE u = t /\ k = n
    BY <1>1, <2>2, <2>3 DEF HoldsOn
  <2>4. CASE u # t \/ k # n
    <3>1. k \in DOMAIN stack[u] /\ stack[u][k].held /\ Head(stack[u][k].on) = h
      BY <1>1, <2>2, <2>4
    <3>2. Held(h)
      BY <3>1 DEF Held, HoldsOn
    <3>3. ~HoldsOn(Top(t), h)
      BY <1>0, <1>2, <2>4, <3>1 DEF OneHolder, HoldsOn
    <3> QED
      BY <3>2, <3>3
  <2> QED
    BY <2>3, <2>4
<1>4. ASSUME NEW h \in Handles, HoldsOn(a, h)
      PROVE  Held(h)'
  <2>1. n \in DOMAIN stack'[t] /\ stack'[t][n].held /\ Head(stack'[t][n].on) = h
    BY <1>1, <1>2, <1>4 DEF HoldsOn
  <2> QED
    BY <2>1 DEF Held, HoldsOn
<1>5. ASSUME NEW h \in Handles, Held(h), ~HoldsOn(Top(t), h)
      PROVE  Held(h)'
  <2>0. PICK u \in Threads : \E k \in DOMAIN stack[u] : HoldsOn(stack[u][k], h)
    BY <1>5 DEF Held
  <2>1. PICK k \in DOMAIN stack[u] : HoldsOn(stack[u][k], h)
    BY <2>0
  <2>2. k \in DOMAIN stack'[u] /\ stack'[u][k] = stack[u][k]
    BY <1>1, <1>2, <1>5, <2>1
  <2>3. stack'[u][k].held /\ Head(stack'[u][k].on) = h
    BY <2>1, <2>2 DEF HoldsOn
  <2> QED
    BY <2>2, <2>3 DEF Held, HoldsOn
<1> QED
  BY <1>3, <1>4, <1>5

\* What is held, when activities come and go but none of them holds anything.
LEMMA HeldStays ==
  ASSUME \A u \in Threads : \A k \in DOMAIN stack[u] :
           stack[u][k].held => k \in DOMAIN stack'[u] /\ stack'[u][k] = stack[u][k],
         \A u \in Threads : \A k \in DOMAIN stack'[u] :
           stack'[u][k].held => k \in DOMAIN stack[u] /\ stack'[u][k] = stack[u][k]
  PROVE  \A h \in Handles : Held(h)' <=> Held(h)
<1>1. ASSUME NEW h \in Handles, Held(h)'
      PROVE  Held(h)
  <2>1. PICK u \in Threads : \E k \in DOMAIN stack'[u] : HoldsOn(stack[u][k], h)'
    BY <1>1 DEF Held
  <2>2. PICK k \in DOMAIN stack'[u] : stack'[u][k].held /\ Head(stack'[u][k].on) = h
    BY <2>1 DEF HoldsOn
  <2> QED
    BY <2>2 DEF Held, HoldsOn
<1>2. ASSUME NEW h \in Handles, Held(h)
      PROVE  Held(h)'
  <2>0. PICK u \in Threads : \E k \in DOMAIN stack[u] : HoldsOn(stack[u][k], h)
    BY <1>2 DEF Held
  <2>1. PICK k \in DOMAIN stack[u] : stack[u][k].held /\ Head(stack[u][k].on) = h
    BY <2>0 DEF HoldsOn
  <2>2. k \in DOMAIN stack'[u] /\ stack'[u][k].held /\ Head(stack'[u][k].on) = h
    BY <2>1
  <2> QED
    BY <2>2 DEF Held, HoldsOn
<1> QED
  BY <1>1, <1>2

LEMMA HoldsNothing ==
  ASSUME Consistent, NEW t \in Threads, Running(t),
         Top(t).op \notin {"await", "join", "gather"} \/ Top(t).on = << >>
  PROVE  ~Top(t).held
<1>0. TypeOK /\ OneHolder
  BY DEF Consistent
<1>1. Top(t) = stack[t][Len(stack[t])] /\ Len(stack[t]) \in DOMAIN stack[t]
  BY <1>0, TopFacts
<1> QED
  BY <1>0, <1>1 DEF OneHolder, HoldsProperly

\* The activity on top moves on and touches nothing.
LEMMA QuietIsUnseen ==
  ASSUME Consistent, NEW t \in Threads,
         Await(t) \/ CodeEnds(t) \/ AllResolved(t) \/ TimeoutExpires(t)
           \/ (Poll(t) /\ Become(t, "finish", << >>, "ok")
                 /\ UNCHANGED <<made, slot, entry, result, queue, next, answer>>)
  PROVE  UNCHANGED Seen
<1>0. TypeOK /\ Running(t)
  BY DEF Consistent, Await, CodeEnds, AllResolved, TimeoutExpires, Poll, InCode
<1>1. ~Top(t).held
  BY <1>0, HoldsNothing DEF Await, CodeEnds, AllResolved, TimeoutExpires, Poll, InCode
<1>2. UNCHANGED <<slot, entry, result, answer>>
  BY DEF Await, CodeEnds, AllResolved, TimeoutExpires, Poll
<1>e. << >> \in Seq(Handles) /\ {"await", "finish", "code", "join"} \subseteq Ops /\ "ok" \in Results
  BY DEF Ops, Results
<1>3. \E op \in Ops, on \in Seq(Handles), exc \in Results : Become(t, op, on, exc)
  <2>1. CASE Await(t)
    <3>1. PICK h \in Visible : Become(t, "await", <<h>>, "ok")
      BY <2>1 DEF Await
    <3>2. <<h>> \in Seq(Handles)
      BY DEF Visible
    <3> QED
      BY <1>e, <3>1, <3>2
  <2>2. Top(t).exc \in Results
    BY <1>0, TopFacts
  <2> QED
    BY <1>e, <2>1, <2>2 DEF CodeEnds, AllResolved, TimeoutExpires
<1>4. PICK a \in Activities : ~a.held /\ TopBecomes(t, a)
  <2>1. PICK op \in Ops, on \in Seq(Handles), exc \in Results : Become(t, op, on, exc)
    BY <1>3
  <2>2. PICK a \in Activities :
          /\ a = [task |-> Top(t).task, op |-> op, on |-> on, held |-> FALSE, exc |-> exc]
          /\ TopBecomes(t, a)
    BY <1>0, <2>1, BecomeFacts
  <2> QED
    BY <2>2
<1>5. \A h \in Handles : Held(h)' <=> Held(h)
  BY <1>0, <1>1, <1>4, HeldMoves DEF HoldsOn
<1>6. UNCHANGED SettledAs /\ UNCHANGED RightTo
  BY <1>2, <1>5, SameSettled, SameRight
<1> QED
  BY <1>2, <1>6 DEF Seen, LastAnswer

\* Creating handles.
LEMMA CreateIsSeen ==
  ASSUME Consistent, NEW t \in Threads, Running(t), NEW n \in Nat, n > 0, NEW kind,
         NEW args \in Seq(Handles), Create(t, n, kind, args),
         \A h \in Handles : Held(h)' <=> Held(h)
  PROVE  O!Next
<1>0. TypeOK /\ HistoryIsOrdered
  BY DEF Consistent
<1> PICK settled \in BOOLEAN : settled <=> kind = "ready"
  OBVIOUS
<1>c. /\ New(n) \subseteq Handles /\ next \in New(n) /\ result' = result /\ answer' = answer
      /\ slot' = [h \in Handles |-> IF h \in New(n) THEN "full" ELSE slot[h]]
      /\ entry' = [h \in Handles |-> IF h \in New(n) THEN Entry(kind) ELSE entry[h]]
  BY <1>0, CreateFacts
<1>1. \A h \in New(n) : slot[h] = "unborn" /\ entry[h] = "none" /\ result[h] = "ok"
  <2>1. \A h \in New(n) : h >= next
    BY <1>0 DEF New, TypeOK
  <2> QED
    BY <1>0, <1>c, <2>1 DEF HistoryIsOrdered
<1>2. Entry(kind) \in {"ready", "gone"} <=> kind = "ready"
  BY DEF Entry, IsQueued
<1>3. RightTo' = [h \in Handles |-> IF h \in New(n) THEN "free" ELSE RightTo[h]]
  <2>1. \A h \in Handles : slot'[h] = IF h \in New(n) THEN "full" ELSE slot[h]
    BY <1>c
  <2> QED
    BY <2>1 DEF RightTo
<1>4. SettledAs' = [h \in Handles |-> IF h \in New(n) /\ settled THEN "ok" ELSE SettledAs[h]]
  <2>1. \A h \in Handles :
          (IF entry'[h] \in {"ready", "gone"} THEN result'[h] ELSE "none")
            = IF h \in New(n) /\ settled THEN "ok"
              ELSE IF entry[h] \in {"ready", "gone"} THEN result[h] ELSE "none"
    BY <1>1, <1>2, <1>c
  <2> QED
    BY <2>1 DEF SettledAs
<1>5. New(n) \in (SUBSET O!Unborn) \ {{}}
  BY <1>1, <1>c DEF O!Unborn, RightTo
<1>6. UNCHANGED LastAnswer
  BY <1>c DEF LastAnswer
<1>7. O!Create(New(n), settled)
  BY <1>3, <1>4, <1>6 DEF O!Create
<1> QED
  BY <1>5, <1>7 DEF O!Next

LEMMA CreatingIsSeen ==
  ASSUME Consistent, NEW t \in Threads, Spawn(t) \/ Combine(t) \/ Block(t) \/ Parallel(t)
  PROVE  O!Next
<1>0. TypeOK /\ Running(t) /\ Top(t).op = "code"
  BY DEF Consistent, Spawn, Combine, Block, Parallel, InCode
<1>e. << >> \in Seq(Handles) /\ ~Top(t).held
  BY <1>0, HoldsNothing
<1>1. CASE Spawn(t)
  <2>1. \A h \in Handles : Held(h)' <=> Held(h)
    BY <1>1, HeldStays DEF Spawn
  <2>2. Create(t, 1, "spawn", << >>) /\ 1 \in Nat /\ 1 > 0
    BY <1>1 DEF Spawn
  <2> QED
    BY <1>0, <1>e, <2>1, <2>2, CreateIsSeen
<1>2. CASE Combine(t)
  <2>1. \A h \in Handles : Held(h)' <=> Held(h)
    BY <1>2, HeldStays DEF Combine
  <2>2. ASSUME NEW kind, NEW args \in Seq(Handles), Create(t, 1, kind, args)
        PROVE  O!Next
    <3>1. 1 \in Nat /\ 1 > 0
      OBVIOUS
    <3> QED
      BY <1>0, <2>1, <2>2, <3>1, CreateIsSeen, Zenon
  <2>3. \A hs \in Lists(Visible) : hs \in Seq(Handles)
    BY <1>0, VisibleLists
  <2>4. \A h \in Visible : <<h>> \in Seq(Handles)
    BY DEF Visible
  <2> QED
    BY <1>2, <1>e, <2>2, <2>3, <2>4 DEF Combine
<1>3. CASE Block(t)
  <2>1. PICK n \in 1 .. MaxList :
          Create(t, n, "block", << >>) /\ Become(t, "join", FreshIds(n), "ok")
    BY <1>3 DEF Block
  <2>2. n \in Nat /\ n > 0
    BY BoundsAssumption
  <2>3. FreshIds(n) \in Seq(Handles) /\ "join" \in Ops /\ "ok" \in Results
    <3>1. FreshIds(n) \in Seq(Handles)
      BY <1>0, <1>e, <2>1, <2>2, CreateFacts
    <3> QED
      BY <3>1 DEF Ops, Results
  <2>4. PICK a \in Activities : ~a.held /\ TopBecomes(t, a)
    <3>1. PICK a \in Activities :
            /\ a = [task |-> Top(t).task, op |-> "join", on |-> FreshIds(n), held |-> FALSE,
                    exc |-> "ok"]
            /\ TopBecomes(t, a)
      BY <1>0, <2>1, <2>3, BecomeFacts
    <3> QED
      BY <3>1
  <2>5. \A h \in Handles : Held(h)' <=> Held(h)
    BY <1>0, <1>e, <2>4, HeldMoves DEF HoldsOn
  <2> QED
    BY <1>0, <1>e, <2>1, <2>2, <2>5, CreateIsSeen
<1>4. CASE Parallel(t)
  <2>1. PICK n \in Nat : n > 0 /\ Create(t, n, "thread", << >>) /\ Started(t, n)
    BY <1>4, StartedFacts
  <2>2. Top(t) = stack[t][Len(stack[t])]
    BY <1>0, TopFacts
  <2>3. \A u \in Threads : \A k \in DOMAIN stack[u] :
           stack[u][k].held => k \in DOMAIN stack'[u] /\ stack'[u][k] = stack[u][k]
    BY <1>e, <2>1, <2>2 DEF Started
  <2>4. ASSUME NEW u \in Threads, NEW k \in DOMAIN stack'[u], stack'[u][k].held
        PROVE  k \in DOMAIN stack[u] /\ stack'[u][k] = stack[u][k]
    <3>1. CASE u = t
      BY <2>1, <2>4, <3>1 DEF Started, Activity
    <3>2. CASE u # t /\ u \in New(n)
      <4>1. DOMAIN stack'[u] = {1} /\ stack'[u][1] = Activity(u, "code", << >>)
        BY <2>1, <3>2 DEF Started
      <4>2. ~Activity(u, "code", << >>).held
        BY DEF Activity
      <4> QED
        BY <2>4, <4>1, <4>2
    <3>3. CASE u # t /\ u \notin New(n)
      BY <2>1, <2>4, <3>3 DEF Started
    <3> QED
      BY <3>1, <3>2, <3>3
  <2>5. \A h \in Handles : Held(h)' <=> Held(h)
    BY <2>3, <2>4, HeldStays
  <2> QED
    BY <1>0, <1>e, <2>1, <2>5, CreateIsSeen
<1> QED
  BY <1>1, <1>2, <1>3, <1>4

\* A computation that ends settles, and so does a sleep.
LEMMA SettleIsSeen ==
  ASSUME Consistent, NEW g \in Handles, entry[g] \notin {"none", "ready", "gone"},
         entry'[g] = "ready", result'[g] \in Results,
         \A h \in Handles : h # g => entry'[h] = entry[h] /\ result'[h] = result[h],
         UNCHANGED <<slot, answer>>,
         \A h \in Handles : Held(h)' <=> Held(h)
  PROVE  O!Next
<1>0. TypeOK /\ HistoryIsOrdered
  BY DEF Consistent
<1>1. slot[g] # "unborn"
  <2>1. ~(g >= next)
    BY <1>0 DEF HistoryIsOrdered
  <2>2. g \in Int /\ next \in Int
    BY <1>0 DEF Handles, TypeOK
  <2>3. g < next
    BY <2>1, <2>2
  <2> QED
    BY <1>0, <2>3 DEF HistoryIsOrdered
<1>2. RightTo[g] # "unborn" /\ SettledAs[g] = "none"
  BY <1>1, SeenFacts
<1>3. UNCHANGED RightTo /\ UNCHANGED LastAnswer
  BY SameRight DEF LastAnswer
<1>4. SettledAs' = [SettledAs EXCEPT ![g] = result'[g]]
  <2>1. \A h \in Handles :
          (IF entry'[h] \in {"ready", "gone"} THEN result'[h] ELSE "none")
            = IF h = g THEN result'[g]
              ELSE IF entry[h] \in {"ready", "gone"} THEN result[h] ELSE "none"
    OBVIOUS
  <2> QED
    BY <2>1 DEF SettledAs
<1>5. O!Settle(g)
  BY <1>2, <1>3, <1>4 DEF O!Settle
<1> QED
  BY <1>5 DEF O!Next

LEMMA EndingIsSeen ==
  ASSUME Consistent, TimerFires \/ \E t \in Threads : Finish(t)
  PROVE  O!Next \/ UNCHANGED Seen
<1>0. TypeOK
  BY DEF Consistent
<1>1. CASE TimerFires
  <2>1. PICK g \in Handles : entry[g] = "sleeping" /\ entry' = [entry EXCEPT ![g] = "ready"]
    BY <1>1 DEF TimerFires
  <2>2. entry'[g] = "ready" /\ \A h \in Handles : h # g => entry'[h] = entry[h]
    BY <1>0, <2>1 DEF TypeOK
  <2>3. UNCHANGED <<slot, result, stack, answer>>
    BY <1>1 DEF TimerFires
  <2>4. \A h \in Handles : Held(h)' <=> Held(h)
    BY <2>3, HeldStays
  <2>5. result'[g] \in Results
    BY <1>0, <2>3 DEF TypeOK
  <2> QED
    BY <2>1, <2>2, <2>3, <2>4, <2>5, SettleIsSeen
<1>2. ASSUME NEW t \in Threads, Finish(t)
      PROVE  O!Next \/ UNCHANGED Seen
  <2>0. Running(t) /\ Top(t).op = "finish" /\ UNCHANGED <<slot, answer>>
        /\ Top(t) = stack[t][Len(stack[t])] /\ Len(stack[t]) \in DOMAIN stack[t]
    BY <1>0, <1>2, TopFacts DEF Finish
  <2>1. /\ \A u \in Threads : u # t => stack'[u] = stack[u]
        /\ \A k : k \in DOMAIN stack'[t] <=> k \in DOMAIN stack[t] /\ k # Len(stack[t])
        /\ \A u \in Threads : \A k \in DOMAIN stack'[u] :
              k \in DOMAIN stack[u] /\ stack'[u][k] = stack[u][k]
    BY <1>0, <1>2, PopFacts DEF Finish
  <2>2. ~Top(t).held
    BY <2>0, HoldsNothing
  <2>3. \A h \in Handles : Held(h)' <=> Held(h)
    <3>1. \A u \in Threads : \A k \in DOMAIN stack[u] :
            stack[u][k].held => k \in DOMAIN stack'[u] /\ stack'[u][k] = stack[u][k]
      BY <2>0, <2>1, <2>2
    <3> QED
      BY <2>1, <3>1, HeldStays
  <2>4. CASE Top(t).task = Main
    <3>1. UNCHANGED <<entry, result>>
      BY <1>2, <2>4 DEF Finish
    <3>2. UNCHANGED SettledAs /\ UNCHANGED RightTo
      BY <2>0, <2>3, <3>1, SameSettled, SameRight
    <3> QED
      BY <2>0, <3>2 DEF Seen, LastAnswer
  <2>5. CASE Top(t).task # Main
    <3> PICK g : g = Top(t).task
      OBVIOUS
    <3>1. g \in Handles /\ entry[g] = "running"
      BY <2>0, <2>5, PlacedRuns
    <3>2. entry' = [entry EXCEPT ![g] = "ready"] /\ result' = [result EXCEPT ![g] = Top(t).exc]
      BY <1>2, <2>5 DEF Finish
    <3>3. Top(t).exc \in Results
      BY <1>0, <2>0, TopFacts
    <3>4. /\ entry'[g] = "ready" /\ result'[g] \in Results
          /\ \A h \in Handles : h # g => entry'[h] = entry[h] /\ result'[h] = result[h]
      BY <1>0, <3>1, <3>2, <3>3 DEF TypeOK
    <3> QED
      BY <2>0, <2>3, <3>1, <3>4, SettleIsSeen
  <2> QED
    BY <2>4, <2>5
<1> QED
  BY <1>1, <1>2

\* A task that starts to run is still to settle.
LEMMA RunNextIsUnseen ==
  ASSUME Consistent, NEW t \in Threads, RunNext(t)
  PROVE  UNCHANGED Seen
<1>0. TypeOK /\ QueueIsExact
  BY DEF Consistent
<1>1. PICK i \in Handles :
        /\ entry[i] = "queued" /\ entry' = [entry EXCEPT ![i] = "running"]
        /\ stack' = [stack EXCEPT ![t] = Append(@, Opening(i))]
        /\ Opening(i) \in Activities /\ ~Opening(i).held
        /\ UNCHANGED <<made, slot, result, next, answer>>
  BY RunNextFacts
<1> PICK a \in Activities : a = Opening(i)
  BY <1>1
<1>2. /\ stack'[t][Len(stack[t]) + 1] = a
      /\ \A u \in Threads : \A k \in DOMAIN stack[u] :
              k \in DOMAIN stack'[u] /\ stack'[u][k] = stack[u][k]
      /\ \A u \in Threads : \A k \in DOMAIN stack'[u] :
              k \in DOMAIN stack[u] \/ (u = t /\ k = Len(stack[t]) + 1)
  BY <1>0, <1>1, PushFacts
<1>3. \A h \in Handles : Held(h)' <=> Held(h)
  <2>1. \A u \in Threads : \A k \in DOMAIN stack'[u] :
           stack'[u][k].held => k \in DOMAIN stack[u] /\ stack'[u][k] = stack[u][k]
    BY <1>1, <1>2
  <2>2. \A u \in Threads : \A k \in DOMAIN stack[u] :
           stack[u][k].held => k \in DOMAIN stack'[u] /\ stack'[u][k] = stack[u][k]
    BY <1>2
  <2> QED
    BY <2>1, <2>2, HeldStays
<1>4. \A h \in Handles : entry'[h] \in {"ready", "gone"} <=> entry[h] \in {"ready", "gone"}
  BY <1>0, <1>1 DEF TypeOK
<1>5. UNCHANGED SettledAs /\ UNCHANGED RightTo
  BY <1>1, <1>3, <1>4, SameSettled, SameRight
<1> QED
  BY <1>1, <1>5 DEF Seen, LastAnswer

\* A look at a handle that needs no waiting delivers the result, or is refused.
LEMMA TakeIsSeen ==
  ASSUME Consistent, NEW t \in Threads, Running(t), ~Top(t).held, NEW h \in Handles,
         \E m \in DOMAIN Top(t).on : Top(t).on[m] = h,
         Take(t, h), Receive(t, ValueFor(t, h))
  PROVE  O!Next
<1>0. TypeOK /\ OneHolder
  BY DEF Consistent
<1>1. Top(t).on # << >> /\ slot[h] \in {"full", "empty"}
  <2>1. PICK m \in DOMAIN Top(t).on : Top(t).on[m] = h
    OBVIOUS
  <2> QED
    BY <2>1, AwaitedExists
<1>2. /\ answer' = [on |-> h, val |-> ValueFor(t, h), to |-> t]
      /\ \/ /\ slot[h] = "empty" /\ ValueFor(t, h) = "nothing" /\ UNCHANGED <<slot, entry>>
         \/ /\ slot[h] = "full" /\ ValueFor(t, h) = "foreign" /\ UNCHANGED <<slot, entry>>
         \/ /\ slot[h] = "full" /\ entry[h] = "ready" /\ ValueFor(t, h) = result[h]
            /\ Removed(t, h)
      /\ result' = result
  BY <1>1, TakeFacts
<1>3. PICK a \in Activities : Receives(t, a, ValueFor(t, h))
  BY <1>0, <1>1, ReceiveFacts
<1>4. \A g \in Handles : Held(g)' <=> Held(g)
  BY <1>3, HeldMoves DEF Receives, HoldsOn
<1>5. LastAnswer' = [on |-> h, val |-> ValueFor(t, h)]
  BY <1>2 DEF LastAnswer
<1>6. CASE UNCHANGED <<slot, entry>>
  <2>1. UNCHANGED RightTo /\ UNCHANGED SettledAs
    BY <1>2, <1>4, <1>6, SameRight, SameSettled
  <2>2. CASE slot[h] = "empty" /\ ValueFor(t, h) = "nothing"
    <3>1. RightTo[h] \in {"claimed", "spent"}
      BY <2>2, SeenFacts
    <3>2. O!Nothing(h)
      BY <1>5, <2>1, <2>2, <3>1 DEF O!Nothing
    <3> QED
      BY <3>2 DEF O!Next
  <2>3. CASE slot[h] = "full" /\ ValueFor(t, h) = "foreign"
    <3>1. RightTo[h] = "free"
      BY <2>3, SeenFacts
    <3>2. O!Foreign(h)
      BY <1>5, <2>1, <2>3, <3>1 DEF O!Foreign
    <3> QED
      BY <3>2 DEF O!Next
  <2>4. CASE entry[h] = "ready" /\ Removed(t, h)
    <3>1. entry'[h] = "gone"
      BY <1>0, <2>4 DEF Removed, TypeOK
    <3> QED
      BY <1>6, <2>4, <3>1
  <2> QED
    BY <1>2, <2>2, <2>3, <2>4
<1>7. CASE slot[h] = "full" /\ entry[h] = "ready" /\ ValueFor(t, h) = result[h] /\ Removed(t, h)
  <2>1. /\ slot'[h] = "empty" /\ entry'[h] = "gone"
        /\ \A g \in Handles : g # h => slot'[g] = slot[g] /\ entry'[g] = entry[g]
    BY <1>0, <1>7 DEF Removed, TypeOK
  <2>2. ~Held(h)
    BY <1>0, <1>7 DEF Held, HoldsOn, OneHolder, HoldsProperly
  <2>3. UNCHANGED SettledAs
    <3>1. \A g \in Handles : entry'[g] \in {"ready", "gone"} <=> entry[g] \in {"ready", "gone"}
      BY <1>7, <2>1
    <3> QED
      BY <1>2, <3>1, SameSettled
  <2>4. RightTo' = [RightTo EXCEPT ![h] = "spent"]
    <3>1. \A g \in Handles :
            (IF slot'[g] = "unborn" THEN "unborn" ELSE IF slot'[g] = "full" THEN "free"
             ELSE IF Held(g)' THEN "claimed" ELSE "spent")
              = IF g = h THEN "spent" ELSE
                IF slot[g] = "unborn" THEN "unborn" ELSE IF slot[g] = "full" THEN "free"
                ELSE IF Held(g) THEN "claimed" ELSE "spent"
      BY <1>4, <2>1, <2>2
    <3> QED
      BY <3>1 DEF RightTo
  <2>5. RightTo[h] = "free" /\ SettledAs[h] = result[h] /\ result[h] # "none"
    BY <1>0, <1>7, SeenFacts DEF TypeOK, Results
  <2>6. O!Deliver(h)
    BY <1>5, <1>7, <2>3, <2>4, <2>5 DEF O!Deliver
  <2> QED
    BY <2>6 DEF O!Next
<1> QED
  BY <1>2, <1>6, <1>7

\* Taking the entry out of the slot claims the result.
LEMMA ClaimIsSeen ==
  ASSUME Consistent, NEW t \in Threads, Running(t), ~Top(t).held, NEW h \in Handles,
         h = Head(Top(t).on), slot[h] = "full", TakesSlot(h),
         stack' = [stack EXCEPT ![t][Len(stack[t])].held = TRUE],
         UNCHANGED <<entry, result, answer>>
  PROVE  O!Next
<1>0. TypeOK
  BY DEF Consistent
<1>1. Top(t) \in Activities /\ Top(t) = stack[t][Len(stack[t])]
  BY <1>0, TopFacts
<1> PICK a \in Activities : a = [Top(t) EXCEPT !.held = TRUE]
  BY <1>1 DEF Activities
<1>2. TopBecomes(t, a) /\ a.held /\ a.on = Top(t).on
  BY <1>1 DEF TopBecomes, Top, Activities
<1>3. \A g \in Handles : Held(g)' <=> g = h \/ Held(g)
  BY <1>2, HeldMoves DEF HoldsOn
<1>4. slot'[h] = "empty" /\ \A g \in Handles : g # h => slot'[g] = slot[g]
  BY <1>0 DEF TakesSlot, TypeOK
<1>5. RightTo' = [RightTo EXCEPT ![h] = "claimed"]
  <2>1. \A g \in Handles :
          (IF slot'[g] = "unborn" THEN "unborn" ELSE IF slot'[g] = "full" THEN "free"
           ELSE IF Held(g)' THEN "claimed" ELSE "spent")
            = IF g = h THEN "claimed" ELSE
              IF slot[g] = "unborn" THEN "unborn" ELSE IF slot[g] = "full" THEN "free"
              ELSE IF Held(g) THEN "claimed" ELSE "spent"
    BY <1>3, <1>4
  <2> QED
    BY <2>1 DEF RightTo
<1>6. RightTo[h] = "free"
  BY SeenFacts
<1>7. UNCHANGED SettledAs /\ UNCHANGED LastAnswer
  BY SameSettled DEF LastAnswer
<1>8. O!Claim(h)
  BY <1>5, <1>6, <1>7 DEF O!Claim
<1> QED
  BY <1>8 DEF O!Next

\* The end of a join, with the result or without it, spends the claim.
LEMMA SpendIsSeen ==
  ASSUME Consistent, NEW t \in Threads, Running(t), Joining(t), Top(t).held,
         NEW h \in Handles, h = Head(Top(t).on), NEW v, Answers(t, h, v), Receive(t, v),
         UNCHANGED <<slot, result>>,
         \/ entry[h] = "ready" /\ entry' = [entry EXCEPT ![h] = "gone"] /\ v = result[h]
         \/ entry[h] \notin {"ready", "gone"} /\ UNCHANGED entry /\ v = "deadlock"
  PROVE  O!Next
<1>0. TypeOK /\ OneHolder /\ Top(t).on # << >>
  BY DEF Consistent, Joining
<1>1. Top(t) = stack[t][Len(stack[t])] /\ Len(stack[t]) \in DOMAIN stack[t]
  BY <1>0, TopFacts
<1>2. slot[h] = "empty" /\ Held(h)
  <2> PICK b : b = stack[t][Len(stack[t])]
    OBVIOUS
  <2>0. b = Top(t) /\ HoldsProperly(t, b)
    BY <1>0, <1>1, Zenon DEF OneHolder
  <2>1. slot[h] = "empty"
    BY <2>0 DEF HoldsProperly
  <2>2. HoldsOn(stack[t][Len(stack[t])], h)
    BY <1>1 DEF HoldsOn
  <2> QED
    BY <1>1, <2>1, <2>2 DEF Held
<1>3. PICK a \in Activities : Receives(t, a, v)
  BY <1>0, ReceiveFacts
<1>4. \A g \in Handles : Held(g)' <=> Held(g) /\ g # h
  BY <1>3, HeldMoves DEF Receives, HoldsOn
<1>5. RightTo' = [RightTo EXCEPT ![h] = "spent"]
  <2>1. \A g \in Handles :
          (IF slot'[g] = "unborn" THEN "unborn" ELSE IF slot'[g] = "full" THEN "free"
           ELSE IF Held(g)' THEN "claimed" ELSE "spent")
            = IF g = h THEN "spent" ELSE
              IF slot[g] = "unborn" THEN "unborn" ELSE IF slot[g] = "full" THEN "free"
              ELSE IF Held(g) THEN "claimed" ELSE "spent"
    BY <1>2, <1>4
  <2> QED
    BY <2>1 DEF RightTo
<1>6. RightTo[h] = "claimed"
  BY <1>2, SeenFacts
<1>7. LastAnswer' = [on |-> h, val |-> v]
  BY DEF LastAnswer, Answers
<1>8. UNCHANGED SettledAs
  <2>1. \A g \in Handles : entry'[g] \in {"ready", "gone"} <=> entry[g] \in {"ready", "gone"}
    BY <1>0 DEF TypeOK
  <2> QED
    BY <2>1, SameSettled
<1>9. CASE entry[h] = "ready" /\ v = result[h]
  <2>1. SettledAs[h] = v /\ v # "none"
    BY <1>0, <1>9, SeenFacts DEF TypeOK, Results
  <2>2. O!Deliver(h)
    BY <1>5, <1>6, <1>7, <1>8, <2>1 DEF O!Deliver
  <2> QED
    BY <2>2 DEF O!Next
<1>10. CASE entry[h] \notin {"ready", "gone"} /\ v = "deadlock"
  <2>1. SettledAs[h] = "none"
    BY <1>10, SeenFacts
  <2>2. O!GiveUp(h)
    BY <1>5, <1>6, <1>7, <1>8, <1>10, <2>1 DEF O!GiveUp
  <2> QED
    BY <2>2 DEF O!Next
<1> QED
  BY <1>9, <1>10

LEMMA SchedulingIsSeen ==
  ASSUME Consistent, NEW t \in Threads, Claim(t) \/ Resolve(t) \/ GiveUp(t) \/ Poll(t)
  PROVE  O!Next \/ UNCHANGED Seen
<1>0. TypeOK /\ Running(t)
  BY DEF Consistent, Claim, Resolve, GiveUp, Poll, Joining
<1>1. ASSUME Joining(t)
      PROVE  \E h \in Handles : h = Head(Top(t).on) /\ \E m \in DOMAIN Top(t).on : Top(t).on[m] = h
  <2>1. Top(t).on # << >>
    BY <1>1 DEF Joining
  <2> QED
    BY <1>0, <2>1, HeadFacts
<1>2. CASE Claim(t)
  <2>1. Joining(t) /\ ~Top(t).held
    BY <1>2 DEF Claim
  <2> PICK h \in Handles : h = Head(Top(t).on) /\ \E m \in DOMAIN Top(t).on : Top(t).on[m] = h
    BY <1>1, <2>1
  <2>2. CASE Take(t, h) /\ Receive(t, ValueFor(t, h))
    BY <1>0, <2>1, <2>2, TakeIsSeen
  <2>3. CASE /\ slot[h] = "full" /\ TakesSlot(h)
             /\ stack' = [stack EXCEPT ![t][Len(stack[t])].held = TRUE]
             /\ UNCHANGED <<made, entry, result, queue, next, answer>>
    BY <1>0, <2>1, <2>3, ClaimIsSeen
  <2> QED
    BY <1>2, <2>2, <2>3 DEF Claim
<1>3. CASE Resolve(t)
  <2>1. Joining(t) /\ Top(t).held
    BY <1>3 DEF Resolve
  <2> PICK h \in Handles : h = Head(Top(t).on)
    BY <1>1, <2>1
  <2>2. CASE RunNext(t)
    BY <2>2, RunNextIsUnseen
  <2>3. CASE /\ entry[h] = "ready" /\ entry' = [entry EXCEPT ![h] = "gone"]
             /\ Answers(t, h, result[h]) /\ Receive(t, result[h])
             /\ UNCHANGED <<made, slot, result, queue, next>>
    BY <1>0, <2>1, <2>3, SpendIsSeen
  <2> QED
    BY <1>3, <2>2, <2>3 DEF Resolve
<1>4. CASE GiveUp(t)
  <2>1. Joining(t) /\ Top(t).held
    BY <1>4 DEF GiveUp
  <2> PICK h \in Handles : h = Head(Top(t).on)
    BY <1>1, <2>1
  <2>2. /\ entry[h] \notin {"ready", "gone"} /\ UNCHANGED <<entry, slot, result>>
        /\ Answers(t, h, "deadlock") /\ Receive(t, "deadlock")
    BY <1>4 DEF GiveUp
  <2> QED
    BY <1>0, <2>1, <2>2, SpendIsSeen
<1>5. CASE Poll(t)
  <2>1. CASE /\ Become(t, "finish", << >>, "ok")
             /\ UNCHANGED <<made, slot, entry, result, queue, next, answer>>
    BY <1>5, <2>1, QuietIsUnseen
  <2>2. ASSUME NEW m \in DOMAIN Top(t).on, Take(t, Top(t).on[m]),
               Receive(t, ValueFor(t, Top(t).on[m]))
        PROVE  O!Next
    <3> PICK h \in Handles : h = Top(t).on[m]
      BY <1>0, AwaitedExists
    <3>1. ~Top(t).held
      BY <1>0, <1>5, HoldsNothing DEF Poll
    <3>2. Take(t, h) /\ Receive(t, ValueFor(t, h)) /\ \E l \in DOMAIN Top(t).on : Top(t).on[l] = h
      BY <2>2
    <3> QED
      BY <1>0, <3>1, <3>2, TakeIsSeen
  <2> QED
    BY <1>5, <2>1, <2>2 DEF Poll
<1> QED
  BY <1>2, <1>3, <1>4, <1>5

LEMMA StepIsSeen ==
  ASSUME Consistent, [Next]_vars
  PROVE  [O!Next]_Seen
<1>1. CASE UNCHANGED vars
  <2>1. UNCHANGED <<slot, entry, result, stack, answer>>
    BY <1>1 DEF vars
  <2>2. \A h \in Handles : Held(h)' <=> Held(h)
    BY <2>1, HeldStays
  <2>3. UNCHANGED SettledAs /\ UNCHANGED RightTo
    BY <2>1, <2>2, SameSettled, SameRight
  <2> QED
    BY <2>1, <2>3 DEF Seen, LastAnswer
<1>2. ASSUME NEW t \in Threads,
             \/ Spawn(t) \/ Combine(t) \/ Block(t) \/ Parallel(t) \/ Await(t) \/ CodeEnds(t)
             \/ Scheduling(t)
      PROVE  O!Next \/ UNCHANGED Seen
  BY <1>2, CreatingIsSeen, QuietIsUnseen, EndingIsSeen, SchedulingIsSeen DEF Scheduling
<1> QED
  BY <1>1, <1>2, EndingIsSeen DEF Next, PollsOn, Terminated

LEMMA InitIsSeen == Init => O!Init
<1> SUFFICES ASSUME Init PROVE O!Init
  OBVIOUS
<1>1. /\ slot = [h \in Handles |-> "unborn"]
      /\ entry = [h \in Handles |-> "none"]
      /\ answer = [on |-> NoOne, val |-> "none", to |-> Main]
  BY DEF Init
<1>2. SettledAs = [h \in Handles |-> "none"] /\ RightTo = [h \in Handles |-> "unborn"]
  BY <1>1 DEF SettledAs, RightTo
<1>3. LastAnswer = [on |-> NoOne, val |-> "none"]
  BY <1>1 DEF LastAnswer
<1> QED
  BY <1>2, <1>3 DEF O!Init

\* The compiled runtime implements OneShot, for every number of handles and threads: a
\* computation settles once, whoever joins it first owns the result, and everybody
\* else is answered `nothing`, now and later.  (FidanPending, deferred_scheduler_resolve)
THEOREM HandlesAreOneShot == Spec => IsOneShot
<1>1. Consistent /\ [Next]_vars => [O!Next]_(O!vars)
  BY StepIsSeen DEF O!vars, Seen
<1> QED
  BY <1>1, InitIsSeen, DeferredIsConsistent, PTL DEF Spec, IsOneShot, O!Spec
=============================================================================
