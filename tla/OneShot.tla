------------------------------- MODULE OneShot -------------------------------
(***************************************************************************)
(* What a handle of the compiled runtime promises (FidanPending): a        *)
(* computation that settles once, and one right to its result.  Whoever    *)
(* joins first owns that right, even before the result exists; everybody   *)
(* else is answered `nothing`.  DeferredScheduler implements it.           *)
(*                                                                         *)
(* It differs from Promise, which the interpreter implements, in exactly   *)
(* one way: `nothing` may be answered while the result is still to come.   *)
(***************************************************************************)
CONSTANTS
  Handles,   \* every handle the program may create
  Results,   \* what a computation may settle to
  NoOne      \* not a handle: nothing has been answered yet

VARIABLES
  val,       \* handle -> "none", or what its computation has settled to
  right,     \* handle -> "unborn", "free", "claimed", "spent"
  answer     \* the last answer anybody got, [on, val]

vars == <<val, right, answer>>

Init ==
  /\ val = [h \in Handles |-> "none"]
  /\ right = [h \in Handles |-> "unborn"]
  /\ answer = [on |-> NoOne, val |-> "none"]

Unborn == {h \in Handles : right[h] = "unborn"}

Create(hs, settled) ==
  /\ UNCHANGED answer
  /\ right' = [h \in Handles |-> IF h \in hs THEN "free" ELSE right[h]]
  /\ val' = [h \in Handles |-> IF h \in hs /\ settled THEN "ok" ELSE val[h]]

Settle(h) ==
  /\ right[h] # "unborn"
  /\ val[h] = "none"
  /\ UNCHANGED <<right, answer>>
  /\ \E v \in Results : val' = [val EXCEPT ![h] = v]

\* A join takes the right first and waits for the result afterwards.
Claim(h) ==
  /\ right[h] = "free"
  /\ UNCHANGED <<val, answer>>
  /\ right' = [right EXCEPT ![h] = "claimed"]

\* The result goes to the claimant, or to a poll that finds it ready.
Deliver(h) ==
  /\ right[h] \in {"free", "claimed"}
  /\ val[h] # "none"
  /\ right' = [right EXCEPT ![h] = "spent"]
  /\ answer' = [on |-> h, val |-> val[h]]
  /\ UNCHANGED val

\* The claimant gives up, and its right is gone.
GiveUp(h) ==
  /\ right[h] = "claimed"
  /\ val[h] = "none"
  /\ right' = [right EXCEPT ![h] = "spent"]
  /\ answer' = [on |-> h, val |-> "deadlock"]
  /\ UNCHANGED val

Nothing(h) ==
  /\ right[h] \in {"claimed", "spent"}
  /\ answer' = [on |-> h, val |-> "nothing"]
  /\ UNCHANGED <<val, right>>

\* A thread that may not wait for this handle is told so, and takes nothing.
Foreign(h) ==
  /\ right[h] = "free"
  /\ answer' = [on |-> h, val |-> "foreign"]
  /\ UNCHANGED <<val, right>>

Next ==
  \/ \E h \in Handles :
       Claim(h) \/ Deliver(h) \/ GiveUp(h) \/ Nothing(h) \/ Foreign(h) \/ Settle(h)
  \/ \E hs \in (SUBSET Unborn) \ {{}}, settled \in BOOLEAN : Create(hs, settled)

Spec == Init /\ [][Next]_vars
==============================================================================
