------------------------------- MODULE Promise -------------------------------
(***************************************************************************)
(* What a pending handle promises to the program that holds it: a handle   *)
(* is settled once, its result is handed out at most once, and whoever     *)
(* asks again is answered `nothing`.                                       *)
(* MirScheduler, the interpreter's scheduler, is shown to implement it;    *)
(* the compiled runtime promises less (see OneShot).                       *)
(***************************************************************************)
CONSTANTS
  Handles,   \* every handle the program may create
  Results,   \* what a computation may settle to
  NoOne      \* not a handle: nothing has been answered yet

VARIABLES
  promise,   \* [Handles -> [st : "none","pending","settled","consumed", val]]
  answer     \* the last answer an await received, [on, val]

vars == <<promise, answer>>

Refusals == {"nothing", "deadlock"}

NoValue == "none"

States == [st : {"none", "pending", "settled", "consumed"},
           val : Results \cup {NoValue}]

Pending == [st |-> "pending", val |-> NoValue]

TypeOK ==
  /\ promise \in [Handles -> States]
  /\ answer \in [on : Handles \cup {NoOne},
                 val : Results \cup Refusals \cup {NoValue}]

Init ==
  /\ promise = [h \in Handles |-> [st |-> "none", val |-> NoValue]]
  /\ answer = [on |-> NoOne, val |-> NoValue]

\* A spawn creates one handle, a block one for each of its tasks.
Create(hs) ==
  /\ \A h \in hs : promise[h].st = "none"
  /\ promise' = [h \in Handles |-> IF h \in hs THEN Pending ELSE promise[h]]
  /\ UNCHANGED answer

Settle(h, v) ==
  /\ promise[h].st = "pending"
  /\ promise' = [promise EXCEPT ![h] = [st |-> "settled", val |-> v]]
  /\ UNCHANGED answer

\* The settled value is moved out: it can never be handed out again.
Consume(h) ==
  /\ promise[h].st = "settled"
  /\ promise' = [promise EXCEPT ![h] = [st |-> "consumed", val |-> NoValue]]
  /\ answer' = [on |-> h, val |-> promise[h].val]

AskAgain(h) ==
  /\ promise[h].st = "consumed"
  /\ answer' = [on |-> h, val |-> "nothing"]
  /\ UNCHANGED promise

\* The scheduler gives up on a handle that is not settled.
Refuse(h) ==
  /\ promise[h].st = "pending"
  /\ answer' = [on |-> h, val |-> "deadlock"]
  /\ UNCHANGED promise

Next ==
  \/ \E hs \in SUBSET Handles : Create(hs)
  \/ \E h \in Handles :
    \/ Consume(h) \/ AskAgain(h) \/ Refuse(h)
    \/ \E v \in Results : Settle(h, v)

Spec == Init /\ [][Next]_vars
==============================================================================
