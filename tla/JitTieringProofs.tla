--------------------------- MODULE JitTieringProofs ---------------------------
(* Theorems about JitTiering, for any functions, thresholds, threads and   *)
(* length of programs; last, that functions that are counted, compiled and *)
(* called natively implement plain calls (module Calls).  A section of its *)
(* own proves SharedCell, which has no part in the rest.                   *)
EXTENDS JitTiering, SharedCell, SequenceTheorems, TLAPS

Frames == [fn : Fn, at : Places]

-----------------------------------------------------------------------------
(* Stacks of calls.                                                        *)

LEMMA Pushing ==
  ASSUME NEW S, NEW s \in Seq(S), NEW e \in S
  PROVE  /\ Append(s, e) \in Seq(S) /\ Append(s, e) # <<>>
         /\ Len(Append(s, e)) = Len(s) + 1 /\ Last(Append(s, e)) = e
         /\ DOMAIN Append(s, e) = 1 .. Len(s) + 1 /\ Append(s, e)[Len(s) + 1] = e
         /\ \A k \in 1 .. Len(s) : Append(s, e)[k] = s[k]
BY DEF Last

LEMMA Fronts ==
  ASSUME NEW S, NEW s \in Seq(S), s # <<>>, NEW front, front = SubSeq(s, 1, Len(s) - 1)
  PROVE  /\ Len(s) \in Nat /\ Len(s) >= 1
         /\ front \in Seq(S) /\ Len(front) = Len(s) - 1 /\ DOMAIN front = 1 .. Len(s) - 1
         /\ \A k \in 1 .. Len(s) - 1 : front[k] = s[k]
<1>1. Len(s) \in Nat /\ Len(s) >= 1 /\ DOMAIN s = 1 .. Len(s)
  OBVIOUS
<1>2. front \in Seq(S) /\ Len(front) = Len(s) - 1
  BY <1>1
<1>3. \A k \in 1 .. Len(s) - 1 : front[k] = s[k]
  BY <1>1
<1> QED
  BY <1>1, <1>2, <1>3

LEMMA Popping ==
  ASSUME NEW S, NEW s \in Seq(S), s # <<>>
  PROVE  LET r == Front(s)
         IN /\ r \in Seq(S) /\ Len(r) = Len(s) - 1 /\ DOMAIN r = 1 .. Len(s) - 1
            /\ \A k \in 1 .. Len(s) - 1 : r[k] = s[k]
            /\ r # <<>> => Last(r) = s[Len(s) - 1] /\ Len(s) - 1 \in 1 .. Len(s) - 1
<1>1. PICK r : r = SubSeq(s, 1, Len(s) - 1)
  OBVIOUS
<1>2. /\ Len(s) \in Nat /\ Len(s) >= 1
      /\ r \in Seq(S) /\ Len(r) = Len(s) - 1 /\ DOMAIN r = 1 .. Len(s) - 1
      /\ \A k \in 1 .. Len(s) - 1 : r[k] = s[k]
  BY <1>1, Fronts
<1>3. ASSUME r # <<>> PROVE Len(s) - 1 >= 1
  BY <1>2, <1>3
<1>4. ASSUME r # <<>> PROVE Last(r) = s[Len(s) - 1] /\ Len(s) - 1 \in 1 .. Len(s) - 1
  BY <1>2, <1>3, <1>4 DEF Last
<1>5. Front(s) = r
  BY <1>1 DEF Front
<1> QED
  BY <1>2, <1>4, <1>5

LEMMA Replacing ==
  ASSUME NEW S, NEW s \in Seq(S), s # <<>>, NEW e \in S
  PROVE  LET r == Append(Front(s), e)
         IN /\ r \in Seq(S) /\ r # <<>> /\ Len(r) = Len(s) /\ DOMAIN r = DOMAIN s
            /\ Last(r) = e /\ r[Len(s)] = e
            /\ \A k \in 1 .. Len(s) - 1 : r[k] = s[k]
<1>1. Len(s) \in Nat /\ Len(s) >= 1 /\ DOMAIN s = 1 .. Len(s)
  OBVIOUS
<1>2. PICK f \in Seq(S) : f = Front(s)
  BY Popping
<1>3. Len(f) = Len(s) - 1 /\ \A k \in 1 .. Len(s) - 1 : f[k] = s[k]
  BY <1>2, Popping
<1>4. /\ Append(f, e) \in Seq(S) /\ Append(f, e) # <<>> /\ Len(Append(f, e)) = Len(f) + 1
      /\ Last(Append(f, e)) = e /\ DOMAIN Append(f, e) = 1 .. Len(f) + 1
      /\ Append(f, e)[Len(f) + 1] = e /\ \A k \in 1 .. Len(f) : Append(f, e)[k] = f[k]
  BY Pushing
<1>5. Len(f) + 1 = Len(s)
  BY <1>1, <1>3
<1> QED
  BY <1>1, <1>2, <1>3, <1>4, <1>5

-----------------------------------------------------------------------------
(* Shared values, for any threads, cells and number of accesses.           *)

USE ConstantsAssumption

Wants == [op : Accesses, cell : Cells] \cup {NoAccess}

\* What the invariants below rest on, together: the mutexes, the per-thread lists
\* and the snapshots agree.
CellsInv == CellsTyped /\ HeldIsLocked /\ NeverWaitsForItself /\ SnapshotIsCurrent /\ NoLostUpdate

LEMMA CallbackAppended ==
  ASSUME NEW S, NEW s \in Seq(S), NEW e \in S
  PROVE  /\ Append(s, e) \in Seq(S)
         /\ \A k \in DOMAIN s : k \in DOMAIN Append(s, e) /\ Append(s, e)[k] = s[k]
         /\ Len(s) + 1 \in DOMAIN Append(s, e) /\ Append(s, e)[Len(s) + 1] = e
         /\ \A k \in DOMAIN Append(s, e) : k \in DOMAIN s \/ (k = Len(s) + 1 /\ k \notin DOMAIN s)
OBVIOUS

LEMMA CallbackLeft ==
  ASSUME NEW S, NEW s \in Seq(S), s # << >>, NEW front, front = SubSeq(s, 1, Len(s) - 1)
  PROVE  /\ front \in Seq(S)
         /\ Len(s) \in DOMAIN s /\ Len(s) \notin DOMAIN front
         /\ \A k \in DOMAIN front : k \in DOMAIN s /\ front[k] = s[k]
         /\ \A k \in DOMAIN s : k \in DOMAIN front \/ k = Len(s)
<1>1. Len(s) \in Nat /\ Len(s) >= 1 /\ DOMAIN s = 1 .. Len(s)
  OBVIOUS
<1>2. front \in Seq(S) /\ Len(front) = Len(s) - 1
  BY <1>1
<1>3. \A k \in 1 .. Len(s) - 1 : front[k] = s[k]
  BY <1>1
<1> QED
  BY <1>1, <1>2, <1>3

LEMMA NoCallbacks ==
  ASSUME NEW S
  PROVE  << >> \in Seq(S) /\ DOMAIN << >> = {}
OBVIOUS

LEMMA CallbackFacts ==
  ASSUME CellsTyped, NEW t \in Threads
  PROVE  /\ inside[t] \in Seq(Callbacks)
         /\ \A k \in DOMAIN inside[t] :
              inside[t][k] \in Callbacks /\ inside[t][k].cell \in Cells /\ inside[t][k].copy \in Nat
         /\ Held(t) \subseteq Cells
<1>1. inside[t] \in Seq(Callbacks)
  BY DEF CellsTyped
<1>2. \A k \in DOMAIN inside[t] : inside[t][k] \in Callbacks
  BY <1>1
<1> QED
  BY <1>1, <1>2 DEF Callbacks, Held

LEMMA WantFacts ==
  ASSUME CellsTyped, NEW t \in Threads, want[t] # NoAccess
  PROVE  want[t].op \in Accesses /\ want[t].cell \in Cells
BY DEF CellsTyped

LEMMA LockFacts ==
  ASSUME HeldIsLocked, NEW t \in Threads, NEW c \in Cells
  PROVE  lock[c] = t <=> c \in Held(t)
BY DEF HeldIsLocked

LEMMA CellsInitHolds == CellsInit => CellsInv
<1> SUFFICES ASSUME CellsInit PROVE CellsInv
  OBVIOUS
<1>1. \A t \in Threads : inside[t] = << >> /\ inside[t] \in Seq(Callbacks) /\ DOMAIN inside[t] = {}
  BY NoCallbacks DEF CellsInit
<1>2. CellsTyped
  BY <1>1 DEF CellsInit, CellsTyped
<1> QED
  BY <1>1, <1>2 DEF CellsInit, CellsInv, HeldIsLocked, NeverWaitsForItself, SnapshotIsCurrent,
                    NoLostUpdate, Held

\* Asking for a cell: only the request is new, and it is not for a held cell.
LEMMA AccessKeeps ==
  ASSUME CellsInv, NEW t \in Threads, NEW op \in Accesses, NEW c \in Cells, Access(t, op, c)
  PROVE  CellsInv'
<1> USE DEF CellsInv
<1>1. CellsTyped'
  BY DEF CellsTyped, Access, NoAccess
<1>2. \A u \in Threads : Held(u)' = Held(u)
  BY DEF Access, Held
<1>3. HeldIsLocked'
  BY <1>2 DEF HeldIsLocked, Access
<1>4. SnapshotIsCurrent' /\ NoLostUpdate'
  BY DEF SnapshotIsCurrent, NoLostUpdate, Access
<1>5. NeverWaitsForItself'
  <2> SUFFICES ASSUME NEW u \in Threads, want'[u] # NoAccess
               PROVE  lock'[want'[u].cell] # u
    BY DEF NeverWaitsForItself
  <2>1. CASE u = t
    <3>1. ~Recursive(t, c) /\ want'[t] = [op |-> op, cell |-> c]
      BY <2>1 DEF Access, CellsTyped
    <3>2. lock[c] # t
      BY <3>1 DEF HeldIsLocked, Recursive
    <3> QED
      BY <2>1, <3>1, <3>2 DEF Access
  <2>2. CASE u # t
    BY <2>2 DEF Access, CellsTyped, NeverWaitsForItself
  <2> QED
    BY <2>1, <2>2
<1> QED
  BY <1>1, <1>3, <1>4, <1>5

\* get and set: nobody is inside the cell, so no snapshot becomes stale.
LEMMA VisitKeeps ==
  ASSUME CellsInv, NEW t \in Threads, Visit(t)
  PROVE  CellsInv'
<1> USE DEF CellsInv
<1> DEFINE c == want[t].cell
<1>1. want[t] # NoAccess /\ c \in Cells
  BY WantFacts DEF Visit, NoAccess
<1>2. CellsTyped'
  <2>1. want' \in [Threads -> [op : Accesses, cell : Cells] \cup {NoAccess}]
    BY DEF CellsTyped, Visit
  <2>2. val' \in [Cells -> Nat] /\ done' \in [Cells -> Nat]
    <3>1. CASE want[t].op = "set" /\ c \notin poisoned
      <4>1. val' = [val EXCEPT ![c] = 0] /\ done' = [done EXCEPT ![c] = 0]
        BY <3>1 DEF Visit
      <4> QED
        BY <4>1 DEF CellsTyped
    <3>2. CASE ~(want[t].op = "set" /\ c \notin poisoned)
      BY <3>2 DEF Visit, CellsTyped
    <3> QED
      BY <3>1, <3>2
  <2> QED
    BY <2>1, <2>2 DEF CellsTyped, Visit
<1>3. \A u \in Threads : Held(u)' = Held(u)
  BY DEF Visit, Held
<1>4. HeldIsLocked'
  BY <1>3 DEF HeldIsLocked, Visit
<1>5. NeverWaitsForItself'
  BY DEF NeverWaitsForItself, Visit, CellsTyped
<1>6. \A u \in Threads : c \notin Held(u)
  BY <1>1 DEF HeldIsLocked, Visit, IsFree
<1>7. SnapshotIsCurrent'
  <2> SUFFICES ASSUME NEW u \in Threads, NEW k \in DOMAIN inside[u]
               PROVE  inside[u][k].copy = val'[inside[u][k].cell]
    BY DEF SnapshotIsCurrent, Visit
  <2>1. inside[u][k].cell # c /\ inside[u][k].cell \in Cells
    BY <1>6, CallbackFacts DEF Held
  <2>2. val'[inside[u][k].cell] = val[inside[u][k].cell]
    BY <2>1 DEF Visit, CellsTyped
  <2> QED
    BY <2>2 DEF SnapshotIsCurrent
<1>8. NoLostUpdate'
  <2>1. CASE want[t].op = "set" /\ c \notin poisoned
    <3>1. val' = [val EXCEPT ![c] = 0] /\ done' = [done EXCEPT ![c] = 0]
      BY <2>1 DEF Visit
    <3>2. \A d \in Cells : val'[d] = (IF d = c THEN 0 ELSE val[d])
                           /\ done'[d] = (IF d = c THEN 0 ELSE done[d])
      BY <3>1 DEF CellsTyped
    <3> QED
      BY <3>2 DEF NoLostUpdate
  <2>2. CASE ~(want[t].op = "set" /\ c \notin poisoned)
    BY <2>2 DEF Visit, NoLostUpdate
  <2> QED
    BY <2>1, <2>2
<1> QED
  BY <1>2, <1>4, <1>5, <1>7, <1>8

\* Entering an update: the lock was free, so the cell was in nobody's list.
LEMMA EnterKeeps ==
  ASSUME CellsInv, NEW t \in Threads, Enter(t)
  PROVE  CellsInv'
<1> USE DEF CellsInv
<1> DEFINE c == want[t].cell
           f == [op |-> want[t].op, cell |-> c, copy |-> val[c]]
<1>1. want[t] # NoAccess /\ c \in Cells
  BY WantFacts DEF Enter, NoAccess
<1>2. CASE c \in poisoned
  <2>1. UNCHANGED <<lock, inside, val, poisoned, accesses, crashed, done>>
    BY <1>2 DEF Enter
  <2>2. want' = [want EXCEPT ![t] = NoAccess]
    BY DEF Enter
  <2>3. CellsTyped'
    BY <2>1, <2>2 DEF CellsTyped
  <2>4. \A u \in Threads : Held(u)' = Held(u)
    BY <2>1 DEF Held
  <2>5. HeldIsLocked' /\ SnapshotIsCurrent' /\ NoLostUpdate'
    <3>1. HeldIsLocked'
      BY <2>1, <2>4 DEF HeldIsLocked
    <3>2. SnapshotIsCurrent'
      BY <2>1 DEF SnapshotIsCurrent
    <3> QED
      BY <2>1, <3>1, <3>2 DEF NoLostUpdate
  <2>6. NeverWaitsForItself'
    BY <2>1, <2>2 DEF NeverWaitsForItself, CellsTyped
  <2> QED
    BY <2>3, <2>5, <2>6
<1>3. CASE c \notin poisoned
  <2>1. f \in Callbacks
    BY <1>1 DEF Enter, CellsTyped, Callbacks
  <2>2. /\ lock' = [lock EXCEPT ![c] = t]
        /\ inside' = [inside EXCEPT ![t] = Append(@, f)]
        /\ want' = [want EXCEPT ![t] = NoAccess]
        /\ UNCHANGED <<val, poisoned, accesses, crashed, done>>
    BY <1>3 DEF Enter
  <2>3. inside[t] \in Seq(Callbacks) /\ inside'[t] = Append(inside[t], f)
    BY <2>2, CallbackFacts DEF CellsTyped
  <2>4. \A u \in Threads : u # t => inside'[u] = inside[u]
    BY <2>2 DEF CellsTyped
  <2>5. \A u \in Threads : inside'[u] \in Seq(Callbacks)
    <3>1. inside'[t] \in Seq(Callbacks)
      BY <2>1, <2>3, CallbackAppended
    <3>2. \A u \in Threads : inside[u] \in Seq(Callbacks)
      BY CallbackFacts
    <3> QED
      BY <2>4, <3>1, <3>2
  <2>6. CellsTyped'
    <3>1. inside' \in [Threads -> Seq(Callbacks)]
      BY <2>2, <2>5 DEF CellsTyped
    <3> QED
      BY <1>1, <2>2, <3>1 DEF CellsTyped
  <2>7. \A u \in Threads : c \notin Held(u)
    BY <1>1 DEF HeldIsLocked, Enter, IsFree
  <2>8. /\ \A k \in DOMAIN inside[t] : k \in DOMAIN inside'[t] /\ inside'[t][k] = inside[t][k]
        /\ Len(inside[t]) + 1 \in DOMAIN inside'[t] /\ inside'[t][Len(inside[t]) + 1] = f
        /\ \A k \in DOMAIN inside'[t] : k \in DOMAIN inside[t] \/ k = Len(inside[t]) + 1
    BY <2>1, <2>3, CallbackAppended
  <2>9. Held(t)' = Held(t) \cup {c} /\ \A u \in Threads : u # t => Held(u)' = Held(u)
    BY <2>4, <2>8 DEF Held
  <2>10. HeldIsLocked'
    <3>1. \A u \in Threads, d \in Cells : lock'[d] = u <=> d \in Held(u)'
      BY <1>1, <2>2, <2>7, <2>9 DEF HeldIsLocked, CellsTyped
    <3>2. ASSUME NEW u \in Threads, NEW j \in DOMAIN inside'[u], NEW k \in DOMAIN inside'[u],
                 inside'[u][j].cell = inside'[u][k].cell
          PROVE  j = k
      <4>1. CASE u # t
        BY <2>4, <3>2, <4>1 DEF HeldIsLocked
      <4>2. CASE u = t
        <5>1. \A i \in DOMAIN inside[t] : inside[t][i].cell # c
          BY <2>7 DEF Held
        <5> QED
          BY <2>8, <3>2, <4>2, <5>1 DEF HeldIsLocked
      <4> QED
        BY <4>1, <4>2
    <3> QED
      BY <3>1, <3>2 DEF HeldIsLocked
  <2>11. NeverWaitsForItself'
    <3> SUFFICES ASSUME NEW u \in Threads, want'[u] # NoAccess
                 PROVE  lock'[want'[u].cell] # u
      BY DEF NeverWaitsForItself
    <3>1. u # t /\ want'[u] = want[u] /\ want[u].cell \in Cells
      BY <2>2, WantFacts DEF CellsTyped
    <3> QED
      BY <2>2, <3>1 DEF NeverWaitsForItself, CellsTyped
  <2>12. SnapshotIsCurrent'
    <3> SUFFICES ASSUME NEW u \in Threads, NEW k \in DOMAIN inside'[u]
                 PROVE  inside'[u][k].copy = val'[inside'[u][k].cell]
      BY DEF SnapshotIsCurrent
    <3> QED
      BY <2>2, <2>4, <2>8 DEF SnapshotIsCurrent
  <2>13. NoLostUpdate'
    BY <2>2 DEF NoLostUpdate
  <2> QED
    BY <2>6, <2>10, <2>11, <2>12, <2>13
<1> QED
  BY <1>2, <1>3

\* Leaving: the snapshot was current, so the committed value counts one more
\* update, and no other snapshot is of this cell.
LEMMA LeaveKeeps ==
  ASSUME CellsInv, NEW t \in Threads, NEW ok \in BOOLEAN, Leave(t, ok)
  PROVE  CellsInv'
<1> USE DEF CellsInv
<1> DEFINE n == Len(inside[t])
           c == inside[t][n].cell
<1>1. inside[t] \in Seq(Callbacks) /\ inside[t] # << >> /\ inside'[t] = SubSeq(inside[t], 1, n - 1)
  BY CallbackFacts DEF Leave, Outer, CellsTyped
<1>2. /\ inside'[t] \in Seq(Callbacks)
      /\ n \in DOMAIN inside[t] /\ n \notin DOMAIN inside'[t]
      /\ \A k \in DOMAIN inside'[t] : k \in DOMAIN inside[t] /\ inside'[t][k] = inside[t][k]
      /\ \A k \in DOMAIN inside[t] : k \in DOMAIN inside'[t] \/ k = n
  BY <1>1, CallbackLeft
<1>3. c \in Cells /\ inside[t][n].copy = val[c] /\ lock[c] = t /\ want[t] = NoAccess
  <2>1. c \in Cells /\ inside[t][n].copy = val[c] /\ c \in Held(t)
    BY <1>2, CallbackFacts DEF SnapshotIsCurrent, Held
  <2> QED
    BY <2>1 DEF HeldIsLocked, Leave, InUserCode
<1>4. lock' = [lock EXCEPT ![c] = NoThread] /\ want' = want
  BY DEF Leave, Innermost
<1>5. \A u \in Threads : u # t => inside'[u] = inside[u]
  BY DEF Leave, CellsTyped
<1>6. /\ \A d \in Cells : d # c => val'[d] = val[d] /\ done'[d] = done[d]
      /\ \/ val'[c] = val[c] /\ done'[c] = done[c]
         \/ val'[c] = val[c] + 1 /\ done'[c] = done[c] + 1
      /\ val' \in [Cells -> Nat] /\ done' \in [Cells -> Nat]
  <2>1. CASE Innermost(t).op = "update" /\ ok
    <3>1. val' = [val EXCEPT ![c] = val[c] + 1] /\ done' = [done EXCEPT ![c] = @ + 1]
      BY <1>3, <2>1 DEF Leave, Innermost, Commits
    <3>2. val \in [Cells -> Nat] /\ done \in [Cells -> Nat]
      BY DEF CellsTyped
    <3>3. val' \in [Cells -> Nat] /\ done' \in [Cells -> Nat]
      <4> HIDE DEF c, CellsInv
      <4>1. val[c] \in Nat /\ done[c] \in Nat
        BY <1>3, <3>2
      <4>2. val[c] + 1 \in Nat /\ done[c] + 1 \in Nat
        BY <4>1
      <4> QED
        BY <3>1, <3>2, <4>2
    <3>4. val'[c] = val[c] + 1 /\ done'[c] = done[c] + 1
      BY <1>3, <3>1, <3>2
    <3>5. \A d \in Cells : d # c => val'[d] = val[d] /\ done'[d] = done[d]
      BY <3>1, <3>2
    <3> QED
      BY <3>3, <3>4, <3>5
  <2>2. CASE ~(Innermost(t).op = "update" /\ ok)
    <3>1. val' = val /\ done' = done
      BY <2>2 DEF Leave, Innermost, Commits
    <3> QED
      BY <3>1 DEF CellsTyped
  <2> QED
    BY <2>1, <2>2
<1>7. CellsTyped'
  <2>1. inside' \in [Threads -> Seq(Callbacks)]
    <3>1. \A u \in Threads : inside'[u] \in Seq(Callbacks)
      BY <1>2, <1>5, CallbackFacts
    <3> QED
      BY <3>1 DEF Leave, CellsTyped
  <2> QED
    BY <1>3, <1>4, <1>6, <2>1 DEF CellsTyped, Leave
<1>8. Held(t)' = Held(t) \ {c} /\ \A u \in Threads : u # t => Held(u)' = Held(u)
  <2>1. \A k \in DOMAIN inside'[t] : inside[t][k].cell # c
    BY <1>2 DEF HeldIsLocked
  <2> QED
    <3>1. Held(t)' = Held(t) \ {c}
      <4>1. ASSUME NEW k \in DOMAIN inside'[t]
            PROVE  inside'[t][k].cell \in Held(t) \ {c}
        BY <1>2, <2>1 DEF Held
      <4>2. ASSUME NEW k \in DOMAIN inside[t], inside[t][k].cell # c
            PROVE  inside[t][k].cell \in Held(t)'
        BY <1>2, <4>2 DEF Held
      <4> HIDE DEF c
      <4> QED
        BY <4>1, <4>2 DEF Held
    <3>2. \A u \in Threads : u # t => inside'[u] = inside[u]
      BY <1>5
    <3> QED
      BY <3>1, <3>2 DEF Held
<1>9. HeldIsLocked'
  <2>1. \A u \in Threads : u # t => c \notin Held(u)
    <3>1. \A u \in Threads, d \in Cells : lock[d] = u <=> d \in Held(u)
      BY DEF HeldIsLocked
    <3> HIDE DEF c, CellsInv
    <3> QED
      BY <1>3, <3>1
  <2>2. \A u \in Threads, d \in Cells : lock'[d] = u <=> d \in Held(u)'
    <3> SUFFICES ASSUME NEW u \in Threads, NEW d \in Cells
                 PROVE  lock'[d] = u <=> d \in Held(u)'
      OBVIOUS
    <3>1. CASE d = c
      <4>1. lock'[d] = NoThread
        BY <1>3, <1>4, <3>1 DEF CellsTyped
      <4>2. d \notin Held(u)'
        BY <1>8, <2>1, <3>1
      <4> QED
        BY <4>1, <4>2
    <3>2. CASE d # c
      <4>1. lock'[d] = lock[d]
        BY <1>4, <3>2 DEF CellsTyped
      <4>2. d \in Held(u)' <=> d \in Held(u)
        BY <1>8, <3>2
      <4> QED
        BY <4>1, <4>2, LockFacts
    <3> QED
      BY <3>1, <3>2
  <2>3. ASSUME NEW u \in Threads, NEW j \in DOMAIN inside'[u], NEW k \in DOMAIN inside'[u],
               inside'[u][j].cell = inside'[u][k].cell
        PROVE  j = k
    BY <1>2, <1>5, <2>3 DEF HeldIsLocked
  <2> QED
    BY <2>2, <2>3 DEF HeldIsLocked
<1>10. NeverWaitsForItself'
  <2> SUFFICES ASSUME NEW u \in Threads, want[u] # NoAccess
               PROVE  lock'[want[u].cell] # u
    BY <1>4 DEF NeverWaitsForItself
  <2>1. want[u].cell \in Cells /\ lock[want[u].cell] # u
    BY WantFacts DEF NeverWaitsForItself
  <2> QED
    BY <1>3, <1>4, <2>1 DEF CellsTyped
<1>11. SnapshotIsCurrent'
  <2> SUFFICES ASSUME NEW u \in Threads, NEW k \in DOMAIN inside'[u]
               PROVE  inside'[u][k].copy = val'[inside'[u][k].cell]
    BY DEF SnapshotIsCurrent
  <2>1. k \in DOMAIN inside[u] /\ inside'[u][k] = inside[u][k]
    BY <1>2, <1>5
  <2>2. inside[u][k].cell \in Cells
    BY <2>1, CallbackFacts
  <2>3. inside[u][k].cell # c
    <3>1. CASE u = t
      BY <1>2, <2>1, <3>1 DEF HeldIsLocked
    <3>2. CASE u # t
      <4>1. inside[u][k].cell \in Held(u)
        BY <2>1 DEF Held
      <4>2. c \notin Held(u)
        BY <1>3, <3>2, LockFacts
      <4> QED
        BY <4>1, <4>2
    <3> QED
      BY <3>1, <3>2
  <2> QED
    BY <1>6, <2>1, <2>2, <2>3 DEF SnapshotIsCurrent
<1>12. NoLostUpdate'
  BY <1>3, <1>6 DEF NoLostUpdate
<1> QED
  BY <1>7, <1>9, <1>10, <1>11, <1>12

\* Unwinding: all of the thread's guards are dropped at once.
LEMMA PanicKeeps ==
  ASSUME CellsInv, NEW t \in Threads, Panic(t)
  PROVE  CellsInv'
<1> USE DEF CellsInv
<1>1. Held(t) \subseteq Cells
  BY CallbackFacts
<1>2. inside'[t] = << >> /\ \A u \in Threads : u # t => inside'[u] = inside[u]
  BY DEF Panic, CellsTyped
<1>3. inside'[t] \in Seq(Callbacks) /\ DOMAIN inside'[t] = {}
  BY <1>2, NoCallbacks
<1>4. CellsTyped'
  <2>1. inside' \in [Threads -> Seq(Callbacks)]
    BY <1>3 DEF Panic, CellsTyped
  <2>2. poisoned' \in SUBSET Cells /\ crashed' \in SUBSET Threads
    BY <1>1 DEF Panic, CellsTyped, Unwound
  <2>3. lock' \in [Cells -> Threads \cup {NoThread}]
    BY DEF Panic, CellsTyped
  <2> QED
    BY <2>1, <2>2, <2>3 DEF CellsTyped, Panic
<1>5. Held(t)' = {} /\ \A u \in Threads : u # t => Held(u)' = Held(u)
  BY <1>2, <1>3 DEF Held
<1>6. \A d \in Cells : lock'[d] = IF lock[d] = t THEN NoThread ELSE lock[d]
  BY DEF Panic, Unwound, HeldIsLocked
<1>7. HeldIsLocked'
  <2>1. \A u \in Threads, d \in Cells : lock'[d] = u <=> d \in Held(u)'
    BY <1>5, <1>6 DEF HeldIsLocked
  <2>2. ASSUME NEW u \in Threads, NEW j \in DOMAIN inside'[u], NEW k \in DOMAIN inside'[u],
               inside'[u][j].cell = inside'[u][k].cell
        PROVE  j = k
    BY <1>2, <1>3, <2>2 DEF HeldIsLocked
  <2> QED
    BY <2>1, <2>2 DEF HeldIsLocked
<1>8. NeverWaitsForItself'
  <2> SUFFICES ASSUME NEW u \in Threads, want[u] # NoAccess
               PROVE  lock'[want[u].cell] # u
    BY DEF NeverWaitsForItself, Panic
  <2>1. want[u].cell \in Cells /\ lock[want[u].cell] # u
    BY WantFacts DEF NeverWaitsForItself
  <2> QED
    BY <1>6, <2>1
<1>9. SnapshotIsCurrent'
  BY <1>2, <1>3 DEF SnapshotIsCurrent, Panic
<1>10. NoLostUpdate'
  BY DEF NoLostUpdate, Panic
<1> QED
  BY <1>4, <1>7, <1>8, <1>9, <1>10

LEMMA CellsStutterKeeps ==
  ASSUME CellsInv, UNCHANGED cellVars
  PROVE  CellsInv'
<1>1. \A t \in Threads : Held(t)' = Held(t)
  BY DEF cellVars, Held
<1> QED
  BY <1>1 DEF cellVars, CellsInv, CellsTyped, HeldIsLocked, NeverWaitsForItself, SnapshotIsCurrent,
              NoLostUpdate

LEMMA CellsNextKeep == CellsInv /\ [CellsNext]_cellVars => CellsInv'
<1> SUFFICES ASSUME CellsInv, [CellsNext]_cellVars PROVE CellsInv'
  OBVIOUS
<1>1. ASSUME NEW t \in Threads, NEW op \in Accesses, NEW c \in Cells, Access(t, op, c)
      PROVE  CellsInv'
  BY <1>1, AccessKeeps
<1>2. ASSUME NEW t \in Threads, Visit(t) PROVE CellsInv'
  BY <1>2, VisitKeeps
<1>3. ASSUME NEW t \in Threads, Enter(t) PROVE CellsInv'
  BY <1>3, EnterKeeps
<1>4. ASSUME NEW t \in Threads, Panic(t) PROVE CellsInv'
  BY <1>4, PanicKeeps
<1>5. ASSUME NEW t \in Threads, NEW ok \in BOOLEAN, Leave(t, ok) PROVE CellsInv'
  BY <1>5, LeaveKeeps
<1>6. CASE UNCHANGED cellVars
  BY <1>6, CellsStutterKeeps
<1> QED
  BY <1>1, <1>2, <1>3, <1>4, <1>5, <1>6 DEF CellsNext

\* The strengthened invariant holds in every reachable state.
THEOREM CellsInvariance == CellsSpec => []CellsInv
BY CellsInitHolds, CellsNextKeep, PTL DEF CellsSpec

\* Mutexes and lists agree, no thread ever blocks on a cell that it holds, and a
\* callback always works on the value it will replace.
THEOREM CellsAreConsistent == CellsSpec => []CellsConsistent
<1>1. CellsInv => CellsConsistent
  BY DEF CellsInv, CellsConsistent
<1> QED
  BY <1>1, CellsInvariance, PTL

\* A cell's value is the number of updates that succeeded since it was set.
THEOREM UpdatesAreAtomic == CellsSpec => []NoLostUpdate
BY CellsInvariance, PTL DEF CellsInv

-----------------------------------------------------------------------------
(* What a step does to one stack.                                          *)

USE JitAssumption, NoErrorAssumption

LEMMA Tops ==
  ASSUME TypeOK, NEW t \in Thread, stack[t] # <<>>
  PROVE  /\ stack[t] \in Seq(Frames) /\ Len(stack[t]) \in Nat /\ Len(stack[t]) >= 1
         /\ DOMAIN stack[t] = 1 .. Len(stack[t])
         /\ Len(stack[t]) \in DOMAIN stack[t]
         /\ Top(t) = stack[t][Len(stack[t])]
         /\ Top(t) \in Frames /\ Top(t).fn \in Fn /\ Top(t).at \in Places
<1>1. stack[t] \in Seq(Frames)
  BY DEF TypeOK, Frames
<1>2. Len(stack[t]) \in Nat /\ Len(stack[t]) >= 1 /\ DOMAIN stack[t] = 1 .. Len(stack[t])
  BY <1>1
<1>3. stack[t][Len(stack[t])] \in Frames
  BY <1>1, <1>2
<1> QED
  BY <1>1, <1>2, <1>3 DEF Frames, Top, Last

\* The four things that a step does to stacks: the top call goes on to another
\* place, a call begins, a call ends, a worker starts.
Moves(t, at) == t \in Thread /\ stack[t] # <<>> /\ at \in Places /\ GoesTo(t, at)
Begins(t, f) ==
  /\ t \in Thread /\ f \in Fn /\ At(t, {"interp", "native"})
  /\ stack' = [stack EXCEPT ![t] = Append(@, Frame(f, Entered))]
EndsCall(t) ==
  t \in Thread /\ At(t, {"interp", "native"}) /\ stack' = [stack EXCEPT ![t] = Front(@)]
Starts(u, f) ==
  /\ u \in Unused /\ f \in Fn
  /\ stack' = [stack EXCEPT ![u] = <<Frame(f, Entered)>>]

LEMMA FramesTyped ==
  ASSUME NEW f \in Fn, NEW at \in Places
  PROVE  Frame(f, at) \in Frames /\ Frame(f, at).fn = f /\ Frame(f, at).at = at
BY DEF Frame, Frames

LEMMA EnteredIsPlace == Entered \in {"interp", "flag"} /\ Entered \in Places
BY DEF Entered, Places

LEMMA MovesFacts ==
  ASSUME TypeOK, NEW t, NEW at, Moves(t, at)
  PROVE  /\ stack' \in [Thread -> Seq(Frames)]
         /\ \A u \in Thread : u # t => stack'[u] = stack[u]
         /\ stack'[t] # <<>> /\ Top(t)' = Frame(Top(t).fn, at)
         /\ Top(t)'.fn = Top(t).fn /\ Top(t)'.at = at
         /\ Len(stack'[t]) = Len(stack[t]) /\ DOMAIN stack'[t] = DOMAIN stack[t]
         /\ stack'[t][Len(stack[t])] = Frame(Top(t).fn, at)
         /\ \A k \in 1 .. Len(stack[t]) - 1 : stack'[t][k] = stack[t][k]
<1> DEFINE e == Frame(Top(t).fn, at)
<1>1. t \in Thread /\ stack[t] # <<>> /\ at \in Places /\ GoesTo(t, at)
  BY DEF Moves
<1>2. e \in Frames /\ e.fn = Top(t).fn /\ e.at = at
  BY <1>1, Tops, FramesTyped
<1>3. stack[t] \in Seq(Frames) /\ stack \in [Thread -> Seq(Frames)]
  BY <1>1 DEF TypeOK, Frames
<1>4. stack' = [stack EXCEPT ![t] = Append(Front(stack[t]), e)]
  BY <1>1 DEF GoesTo, Top
<1> DEFINE r == Append(Front(stack[t]), e)
<1> HIDE DEF e
<1>5. /\ r \in Seq(Frames) /\ r # <<>> /\ Len(r) = Len(stack[t]) /\ DOMAIN r = DOMAIN stack[t]
      /\ Last(r) = e /\ r[Len(stack[t])] = e
      /\ \A k \in 1 .. Len(stack[t]) - 1 : r[k] = stack[t][k]
  <2>1. stack[t] \in Seq(Frames) /\ stack[t] # <<>> /\ e \in Frames
    BY <1>1, <1>2, <1>3
  <2> QED
    BY ONLY <2>1, Replacing
<1>6. stack'[t] = r /\ \A u \in Thread : u # t => stack'[u] = stack[u]
  BY <1>1, <1>3, <1>4
<1> HIDE DEF r
<1>7. stack' \in [Thread -> Seq(Frames)]
  BY <1>3, <1>4, <1>5 DEF r
<1>8. Top(t)' = e
  BY <1>5, <1>6 DEF Top
<1> QED
  BY <1>1, <1>2, <1>5, <1>6, <1>7, <1>8 DEF e

LEMMA BeginsFacts ==
  ASSUME TypeOK, NEW t, NEW f, Begins(t, f)
  PROVE  /\ stack' \in [Thread -> Seq(Frames)]
         /\ \A u \in Thread : u # t => stack'[u] = stack[u]
         /\ stack'[t] # <<>> /\ Top(t)'.fn = f /\ Top(t)'.at = Entered
         /\ Len(stack'[t]) = Len(stack[t]) + 1 /\ DOMAIN stack'[t] = 1 .. Len(stack[t]) + 1
         /\ stack'[t][Len(stack[t]) + 1] = Frame(f, Entered)
         /\ \A k \in 1 .. Len(stack[t]) : stack'[t][k] = stack[t][k]
<1> DEFINE e == Frame(f, Entered)
           r == Append(stack[t], e)
<1>1. t \in Thread /\ stack[t] # <<>> /\ f \in Fn /\ stack' = [stack EXCEPT ![t] = r]
  BY DEF Begins, At
<1>2. e \in Frames /\ e.fn = f /\ e.at = Entered
  BY <1>1, FramesTyped, EnteredIsPlace
<1>3. stack[t] \in Seq(Frames) /\ stack \in [Thread -> Seq(Frames)]
  BY <1>1 DEF TypeOK, Frames
<1> HIDE DEF e
<1>4. /\ r \in Seq(Frames) /\ r # <<>> /\ Len(r) = Len(stack[t]) + 1 /\ Last(r) = e
      /\ DOMAIN r = 1 .. Len(stack[t]) + 1 /\ r[Len(stack[t]) + 1] = e
      /\ \A k \in 1 .. Len(stack[t]) : r[k] = stack[t][k]
  <2>1. \A q \in Seq(Frames), g \in Frames :
          /\ Append(q, g) \in Seq(Frames) /\ Append(q, g) # <<>> /\ Len(Append(q, g)) = Len(q) + 1
          /\ Last(Append(q, g)) = g
          /\ DOMAIN Append(q, g) = 1 .. Len(q) + 1 /\ Append(q, g)[Len(q) + 1] = g
          /\ \A k \in 1 .. Len(q) : Append(q, g)[k] = q[k]
    BY Pushing
  <2> QED
    BY <1>2, <1>3, <2>1
<1> HIDE DEF r
<1>5. stack'[t] = r /\ \A u \in Thread : u # t => stack'[u] = stack[u]
  BY <1>1, <1>3
<1>6. stack' \in [Thread -> Seq(Frames)]
  BY <1>1, <1>3, <1>4
<1>7. Top(t)' = e
  BY <1>4, <1>5 DEF Top
<1> QED
  BY <1>2, <1>4, <1>5, <1>6, <1>7 DEF e

LEMMA EndsFacts ==
  ASSUME TypeOK, NEW t, EndsCall(t)
  PROVE  /\ stack' \in [Thread -> Seq(Frames)]
         /\ \A u \in Thread : u # t => stack'[u] = stack[u]
         /\ Len(stack'[t]) = Len(stack[t]) - 1 /\ DOMAIN stack'[t] = 1 .. Len(stack[t]) - 1
         /\ \A k \in 1 .. Len(stack[t]) - 1 : stack'[t][k] = stack[t][k]
         /\ stack'[t] # <<>> => /\ Len(stack[t]) - 1 \in 1 .. Len(stack[t]) - 1
                                /\ Top(t)' = stack[t][Len(stack[t]) - 1]
<1>1. t \in Thread /\ stack[t] # <<>> /\ stack' = [stack EXCEPT ![t] = Front(stack[t])]
  BY DEF EndsCall, At
<1>2. stack[t] \in Seq(Frames) /\ stack \in [Thread -> Seq(Frames)]
  BY <1>1 DEF TypeOK, Frames
<1>3. PICK r : r = Front(stack[t])
  OBVIOUS
<1>4. /\ r \in Seq(Frames) /\ Len(r) = Len(stack[t]) - 1 /\ DOMAIN r = 1 .. Len(stack[t]) - 1
      /\ \A k \in 1 .. Len(stack[t]) - 1 : r[k] = stack[t][k]
      /\ r # <<>> => Last(r) = stack[t][Len(stack[t]) - 1]
                     /\ Len(stack[t]) - 1 \in 1 .. Len(stack[t]) - 1
  BY <1>1, <1>2, <1>3, Popping
<1>5. stack' = [stack EXCEPT ![t] = r]
  BY <1>1, <1>3
<1>6. stack'[t] = r /\ \A u \in Thread : u # t => stack'[u] = stack[u]
  BY <1>1, <1>2, <1>5
<1>7. stack' \in [Thread -> Seq(Frames)]
  BY <1>2, <1>4, <1>5
<1> QED
  BY <1>4, <1>6, <1>7 DEF Top

LEMMA StartsFacts ==
  ASSUME TypeOK, NEW u, NEW f, Starts(u, f)
  PROVE  /\ u \in Thread /\ u # Main /\ u \notin ended /\ stack[u] = <<>>
         /\ stack' \in [Thread -> Seq(Frames)]
         /\ \A t \in Thread : t # u => stack'[t] = stack[t]
         /\ stack'[u] # <<>> /\ Top(u)'.fn = f /\ Top(u)'.at = Entered
         /\ Len(stack'[u]) = 1 /\ DOMAIN stack'[u] = {1} /\ stack'[u][1] = Frame(f, Entered)
<1>1. /\ u \in Thread /\ u # Main /\ u \notin ended /\ stack[u] = <<>> /\ f \in Fn
      /\ stack' = [stack EXCEPT ![u] = <<Frame(f, Entered)>>]
  BY DEF Starts, Unused
<1>2. PICK e : e = Frame(f, Entered)
  OBVIOUS
<1>3. e \in Frames /\ e.fn = f /\ e.at = Entered
  BY <1>1, <1>2, FramesTyped, EnteredIsPlace
<1>4. stack \in [Thread -> Seq(Frames)]
  BY DEF TypeOK, Frames
<1>5. /\ <<e>> \in Seq(Frames) /\ <<e>> # <<>> /\ Len(<<e>>) = 1 /\ DOMAIN <<e>> = {1}
      /\ <<e>>[1] = e
  BY <1>3
<1>6. stack'[u] = <<e>> /\ (\A t \in Thread : t # u => stack'[t] = stack[t])
  BY <1>1, <1>2, <1>4
<1>7. stack' \in [Thread -> Seq(Frames)]
  BY <1>1, <1>2, <1>4, <1>5
<1>8. Top(u)' = e
  BY <1>5, <1>6 DEF Top, Last
<1> QED
  BY <1>1, <1>2, <1>3, <1>5, <1>6, <1>7, <1>8

-----------------------------------------------------------------------------
(* The inductive invariant.                                                *)

\* Below its threshold no function is compiled, so that the count that reaches it finds
\* nobody compiling.
Early ==
  \A f \in Fn : counters[f] < threshold => ~flags[f] /\ Compiling(f) = {}
Stored ==
  \A t \in Thread : At(t, {"publish"}) => fns[Top(t).fn] # "none"
NativeIsCompilable == \A f \in Fn : fns[f] = "native" => f \in Compilable

TierInv ==
  /\ OneCompiler /\ FlaggedIsStored /\ HotIsCompiled
  /\ Early /\ Stored /\ NativeIsCompilable

\* An error is in one place: with the interpreted top frame, or pending for the native
\* one, with the machine's error behind the placeholder.
ErrsAgree(t) ==
  /\ signal[t] # None <=> exn[t] = Placeholder
  /\ out[t] # None => exn[t] = None
  /\ exn[t] # None => At(t, {"native"})
ErrInv == \A t \in Thread : ErrsAgree(t)

\* Calls below the top are in the middle of their bodies.
Below ==
  \A t \in Thread : \A k \in 1 .. Len(stack[t]) - 1 : stack[t][k].at \in {"interp", "native"}

\* A thread has workers, or is about to, exactly while it waits in a loop.
Waits(t) ==
  /\ (loop[t].kids # {} \/ loop[t].left > 0) <=> At(t, {"loop"})
  /\ At(t, {"loop"}) => out[t] = None

Kid(u, t) == u \in loop[t].kids
OneParent ==
  /\ \A t, v, u \in Thread : Kid(u, t) /\ Kid(u, v) => t = v
  /\ \A t \in Thread : ~Kid(Main, t)
Joined == \A u \in Thread \ {Main} : stack[u] # <<>> => \E t \in Thread : Kid(u, t)
EndedIsEmpty == \A u \in ended : stack[u] = <<>>
Fresh ==
  \A u \in Thread \ {Main} :
    u \notin ended /\ (\A t \in Thread : ~Kid(u, t)) => out[u] = None

\* The slot of a loop holds the first error, and the error of a worker that ended.
SlotIsFirst ==
  \A t \in Thread :
    At(t, {"loop"}) =>
      loop[t].slot = IF failures[t] = <<>> THEN None ELSE Head(failures[t])
SlotIsOfWorker ==
  \A t \in Thread :
    IF loop[t].slot = None THEN \A u \in ended : Kid(u, t) => out[u] = None
    ELSE \E u \in ended : Kid(u, t) /\ out[u] = loop[t].slot

LoopInv ==
  /\ Below /\ (\A t \in Thread : Waits(t))
  /\ OneParent /\ Joined /\ EndedIsEmpty /\ Fresh /\ SlotIsFirst /\ SlotIsOfWorker

IInv == TypeOK /\ TierInv /\ ErrInv /\ LoopInv

-----------------------------------------------------------------------------
(* What the four kinds of steps keep of the stacks.                        *)

TierTyped ==
  /\ threshold \in Thresholds
  /\ counters \in [Fn -> Nat] /\ fns \in [Fn -> {"none", "native", "fallback"}]
  /\ flags \in [Fn -> BOOLEAN]
StackTyped == stack \in [Thread -> Seq(Frames)]
NativeTyped ==
  \A t \in Thread : \A k \in DOMAIN stack[t] :
    stack[t][k].at = "native" => fns[stack[t][k].fn] = "native"
ErrsTyped ==
  /\ out \in [Thread -> Error \cup {None}] /\ signal \in [Thread -> Error \cup {None}]
  /\ exn \in [Thread -> Error \cup {None, Placeholder}]
DataTyped == globals \in [Thread -> Value] /\ frozen \in [Thread -> Value \cup {None}]
LoopTyped ==
  /\ loop \in [Thread -> [left : Nat, body : Fn \cup {None}, kids : SUBSET Thread,
                          slot : Error \cup {None}]]
  /\ \A t \in Thread : loop[t].left > 0 => loop[t].body \in Fn
  /\ ended \subseteq Thread \ {Main}
  /\ failures \in [Thread -> Seq(Error)]

LEMMA TypeParts ==
  TypeOK <=> /\ TierTyped /\ StackTyped /\ NativeTyped /\ ErrsTyped /\ DataTyped
             /\ LoopTyped /\ ops \in 0 .. MaxOps
BY DEF TypeOK, TierTyped, StackTyped, NativeTyped, ErrsTyped, DataTyped, LoopTyped, Frames

LEMMA TypePartsNext ==
  ASSUME TierTyped', StackTyped', NativeTyped', ErrsTyped', DataTyped', LoopTyped',
         (ops \in 0 .. MaxOps)'
  PROVE  TypeOK'
BY DEF TypeOK, TierTyped, StackTyped, NativeTyped, ErrsTyped, DataTyped, LoopTyped, Frames

LEMMA FramesAreTyped ==
  ASSUME StackTyped
  PROVE  \A u \in Thread : \A k \in DOMAIN stack[u] : stack[u][k].fn \in Fn
<1> SUFFICES ASSUME NEW u \in Thread, NEW k \in DOMAIN stack[u]
             PROVE  stack[u][k].fn \in Fn
  OBVIOUS
<1>1. stack[u] \in Seq(Frames)
  BY DEF StackTyped
<1>2. stack[u][k] \in Frames
  BY <1>1
<1> QED
  BY <1>2 DEF Frames

\* What was compiled stays compiled.
StaysNative == \A f \in Fn : fns[f] = "native" => fns'[f] = "native"

StacksKept == StackTyped' /\ NativeTyped' /\ Below'

LEMMA SameStacks ==
  ASSUME TypeOK, Below, StaysNative, stack' = stack
  PROVE  StacksKept
<1>1. StackTyped /\ NativeTyped
  BY TypeParts
<1>2. \A t \in Thread : \A k \in DOMAIN stack[t] : stack[t][k].fn \in Fn
  BY <1>1, FramesAreTyped
<1> QED
  BY <1>1, <1>2 DEF StacksKept, StackTyped, NativeTyped, Below, StaysNative

LEMMA MovesStacks ==
  ASSUME TypeOK, Below, StaysNative, NEW t, NEW at, Moves(t, at),
         at = "native" => fns'[Top(t).fn] = "native"
  PROVE  StacksKept
<1>1. StackTyped /\ NativeTyped
  BY TypeParts
<1>2. t \in Thread /\ stack[t] # <<>> /\ at \in Places /\ Len(stack[t]) \in Nat
      /\ Len(stack[t]) >= 1 /\ DOMAIN stack[t] = 1 .. Len(stack[t]) /\ Top(t).fn \in Fn
  BY Tops DEF Moves
<1>3. \A u \in Thread : \A k \in DOMAIN stack[u] : stack[u][k].fn \in Fn
  BY <1>1, FramesAreTyped
<1>4. StackTyped'
  BY MovesFacts DEF StackTyped
<1>5. ASSUME NEW u \in Thread, NEW k \in DOMAIN stack'[u], stack'[u][k].at = "native"
      PROVE  fns'[stack'[u][k].fn] = "native"
  <2>1. CASE u # t
    <3>1. stack'[u] = stack[u]
      BY <2>1, MovesFacts
    <3>2. fns[stack[u][k].fn] = "native" /\ stack[u][k].fn \in Fn
      BY <1>1, <1>3, <1>5, <3>1 DEF NativeTyped
    <3> QED
      BY <3>1, <3>2 DEF StaysNative
  <2>2. CASE u = t /\ k = Len(stack[t])
    <3>1. stack'[u][k].fn = Top(t).fn /\ stack'[u][k].at = at
      BY <1>2, <2>2, MovesFacts, FramesTyped
    <3> QED
      BY <1>5, <3>1
  <2>3. CASE u = t /\ k # Len(stack[t])
    <3>1. k \in DOMAIN stack[t] /\ k \in 1 .. Len(stack[t]) - 1
      BY <1>2, <2>3, MovesFacts
    <3>2. stack'[u][k] = stack[u][k]
      BY <2>3, <3>1, MovesFacts
    <3> QED
      BY <1>1, <1>3, <1>5, <2>3, <3>1, <3>2 DEF NativeTyped, StaysNative
  <2> QED
    BY <2>1, <2>2, <2>3
<1>6. ASSUME NEW u \in Thread, NEW k \in 1 .. Len(stack'[u]) - 1
      PROVE  stack'[u][k].at \in {"interp", "native"}
  <2>1. CASE u # t
    BY <2>1, <1>6, MovesFacts DEF Below
  <2>2. CASE u = t
    <3>1. k \in 1 .. Len(stack[t]) - 1
      BY <2>2, MovesFacts
    <3> QED
      BY <1>2, <2>2, <3>1, MovesFacts DEF Below
  <2> QED
    BY <2>1, <2>2
<1> QED
  BY <1>4, <1>5, <1>6 DEF StacksKept, NativeTyped, Below

LEMMA BeginsStacks ==
  ASSUME TypeOK, Below, StaysNative, NEW t, NEW f, Begins(t, f)
  PROVE  StacksKept
<1>1. StackTyped /\ NativeTyped
  BY TypeParts
<1>2. t \in Thread /\ stack[t] # <<>> /\ f \in Fn /\ Top(t).at \in {"interp", "native"}
  BY DEF Begins, At
<1>3. Len(stack[t]) \in Nat /\ Len(stack[t]) >= 1 /\ DOMAIN stack[t] = 1 .. Len(stack[t])
      /\ Top(t) = stack[t][Len(stack[t])]
  BY <1>2, Tops
<1>4. \A u \in Thread : \A k \in DOMAIN stack[u] : stack[u][k].fn \in Fn
  BY <1>1, FramesAreTyped
<1>5. StackTyped'
  BY BeginsFacts DEF StackTyped
<1>6. ASSUME NEW u \in Thread, NEW k \in DOMAIN stack'[u], stack'[u][k].at = "native"
      PROVE  fns'[stack'[u][k].fn] = "native"
  <2>1. CASE u # t
    <3>1. stack'[u] = stack[u]
      BY <2>1, BeginsFacts
    <3>2. fns[stack[u][k].fn] = "native" /\ stack[u][k].fn \in Fn
      BY <1>1, <1>4, <1>6, <3>1 DEF NativeTyped
    <3> QED
      BY <3>1, <3>2 DEF StaysNative
  <2>2. CASE u = t /\ k = Len(stack[t]) + 1
    <3>1. stack'[u][k].at = Entered
      BY <1>2, <2>2, BeginsFacts, FramesTyped, EnteredIsPlace
    <3> QED
      BY <1>6, <3>1, EnteredIsPlace
  <2>3. CASE u = t /\ k # Len(stack[t]) + 1
    <3>1. k \in DOMAIN stack[t] /\ k \in 1 .. Len(stack[t])
      BY <1>3, <2>3, BeginsFacts
    <3>2. stack'[u][k] = stack[u][k]
      BY <2>3, <3>1, BeginsFacts
    <3> QED
      BY <1>1, <1>4, <1>6, <2>3, <3>1, <3>2 DEF NativeTyped, StaysNative
  <2> QED
    BY <2>1, <2>2, <2>3
<1>7. ASSUME NEW u \in Thread, NEW k \in 1 .. Len(stack'[u]) - 1
      PROVE  stack'[u][k].at \in {"interp", "native"}
  <2>1. CASE u # t
    <3>1. stack'[u] = stack[u]
      BY <2>1, BeginsFacts
    <3> QED
      BY <1>7, <3>1 DEF Below
  <2>2. CASE u = t /\ k = Len(stack[t])
    BY <1>2, <1>3, <2>2, BeginsFacts
  <2>3. CASE u = t /\ k # Len(stack[t])
    <3>1. k \in 1 .. Len(stack[t]) - 1 /\ k \in 1 .. Len(stack[t])
      BY <1>3, <2>3, BeginsFacts
    <3> QED
      BY <1>2, <2>3, <3>1, BeginsFacts DEF Below
  <2> QED
    BY <2>1, <2>2, <2>3
<1> QED
  BY <1>5, <1>6, <1>7 DEF StacksKept, NativeTyped, Below

LEMMA EndsStacks ==
  ASSUME TypeOK, Below, StaysNative, NEW t, EndsCall(t)
  PROVE  StacksKept
<1>1. StackTyped /\ NativeTyped
  BY TypeParts
<1>2. t \in Thread /\ stack[t] # <<>>
  BY DEF EndsCall, At
<1>3. Len(stack[t]) \in Nat /\ Len(stack[t]) >= 1 /\ DOMAIN stack[t] = 1 .. Len(stack[t])
  BY <1>2, Tops
<1>4. \A u \in Thread : \A k \in DOMAIN stack[u] : stack[u][k].fn \in Fn
  BY <1>1, FramesAreTyped
<1>5. StackTyped'
  BY EndsFacts DEF StackTyped
<1>6. ASSUME NEW u \in Thread, NEW k \in DOMAIN stack'[u]
      PROVE  k \in DOMAIN stack[u] /\ stack'[u][k] = stack[u][k]
  <2>1. CASE u # t
    <3>1. stack'[u] = stack[u]
      BY <2>1, EndsFacts
    <3> QED
      BY <1>6, <3>1
  <2>2. CASE u = t
    <3>1. k \in 1 .. Len(stack[t]) - 1
      BY <1>6, <2>2, EndsFacts
    <3>2. stack'[t][k] = stack[t][k]
      BY <3>1, EndsFacts
    <3> QED
      BY <1>3, <2>2, <3>1, <3>2
  <2> QED
    BY <2>1, <2>2
<1>7. ASSUME NEW u \in Thread, NEW k \in 1 .. Len(stack'[u]) - 1
      PROVE  stack'[u][k].at \in {"interp", "native"}
  <2>1. CASE u # t
    BY <2>1, <1>7, EndsFacts DEF Below
  <2>2. CASE u = t
    <3>1. k \in 1 .. Len(stack[t]) - 1
      BY <1>3, <2>2, EndsFacts
    <3> QED
      BY <1>2, <2>2, <3>1, EndsFacts DEF Below
  <2> QED
    BY <2>1, <2>2
<1> QED
  BY <1>1, <1>4, <1>5, <1>6, <1>7 DEF StacksKept, NativeTyped, Below, StaysNative

LEMMA StartsStacks ==
  ASSUME TypeOK, Below, StaysNative, NEW t, NEW f \in Fn, Starts(t, f)
  PROVE  StacksKept
<1>1. StackTyped /\ NativeTyped
  BY TypeParts
<1>2. \A u \in Thread : \A k \in DOMAIN stack[u] : stack[u][k].fn \in Fn
  BY <1>1, FramesAreTyped
<1>3. StackTyped'
  BY StartsFacts DEF StackTyped
<1>4. ASSUME NEW u \in Thread, NEW k \in DOMAIN stack'[u], stack'[u][k].at = "native"
      PROVE  fns'[stack'[u][k].fn] = "native"
  <2>1. CASE u # t
    BY <1>1, <1>2, <1>4, <2>1, StartsFacts DEF NativeTyped, StaysNative
  <2>2. CASE u = t
    <3>1. stack'[u][k].at = Entered
      BY <2>2, StartsFacts, FramesTyped, EnteredIsPlace
    <3> QED
      BY <1>4, <3>1, EnteredIsPlace
  <2> QED
    BY <2>1, <2>2
<1>5. ASSUME NEW u \in Thread, NEW k \in 1 .. Len(stack'[u]) - 1
      PROVE  stack'[u][k].at \in {"interp", "native"}
  <2>1. CASE u # t
    BY <2>1, <1>5, StartsFacts DEF Below
  <2>2. CASE u = t
    <3>1. Len(stack'[u]) = 1
      BY <2>2, StartsFacts
    <3>2. k \in 1 .. 0
      BY <3>1
    <3> QED
      BY <3>2
  <2> QED
    BY <2>1, <2>2
<1> QED
  BY <1>3, <1>4, <1>5 DEF StacksKept, NativeTyped, Below

-----------------------------------------------------------------------------
(* What steps leave as it is.                                              *)

AtSame(u, places) == At(u, places)' <=> At(u, places)

LEMMA TierFrame ==
  ASSUME TierInv, UNCHANGED <<threshold, counters, fns, flags>>,
         \A u \in Thread :
           \/ stack'[u] = stack[u]
           \/ ~At(u, {"compile", "publish"}) /\ ~At(u, {"compile", "publish"})'
  PROVE  TierInv'
<1>1. \A u \in Thread :
        At(u, {"compile", "publish"})' =>
          At(u, {"compile", "publish"}) /\ stack'[u] = stack[u]
  BY DEF At, Top
<1>2. \A f \in Fn : Compiling(f)' = Compiling(f)
  <2>1. ASSUME NEW f \in Fn, NEW u \in Thread
        PROVE  u \in Compiling(f)' <=> u \in Compiling(f)
    BY DEF Compiling, At, Top
  <2>2. \A f \in Fn : Compiling(f)' \subseteq Thread /\ Compiling(f) \subseteq Thread
    BY DEF Compiling
  <2> QED
    BY <2>1, <2>2
<1>3. OneCompiler' /\ FlaggedIsStored' /\ HotIsCompiled' /\ Early' /\ NativeIsCompilable'
  BY <1>2 DEF TierInv, OneCompiler, FlaggedIsStored, HotIsCompiled, Early, NativeIsCompilable
<1>4. Stored'
  <2>1. ASSUME NEW u \in Thread, At(u, {"publish"})'
        PROVE  At(u, {"publish"}) /\ stack'[u] = stack[u]
    BY <1>1, <2>1 DEF At, Top
  <2> QED
    BY <2>1 DEF TierInv, Stored, Top
<1> QED
  BY <1>3, <1>4 DEF TierInv

LEMMA ErrFrame ==
  ASSUME ErrInv, UNCHANGED errs,
         \A u \in Thread : At(u, {"native"}) => (At(u, {"native"})' \/ exn[u] = None)
  PROVE  ErrInv'
BY DEF ErrInv, ErrsAgree, errs

\* Of the loops nothing changes as long as no call begins in an idle thread, no loop
\* begins or ends, and only a thread that runs has a new error.
LEMMA LoopFrame ==
  ASSUME LoopTyped, LoopInv, Below', loop' = loop, ended' = ended, failures' = failures,
         \A u \in Thread : stack[u] = <<>> => stack'[u] = <<>>,
         \A u \in Thread : AtSame(u, {"loop"}),
         \A u \in Thread :
           \/ out'[u] = out[u]
           \/ stack[u] # <<>> /\ ~At(u, {"loop"})
  PROVE  LoopInv'
<1>1. loop' = loop /\ ended' = ended /\ failures' = failures /\ ended \subseteq Thread
  BY DEF LoopTyped
<1>2. \A u, t \in Thread : Kid(u, t)' <=> Kid(u, t)
  BY <1>1 DEF Kid
<1>3. \A t \in Thread : Waits(t)'
  BY <1>1 DEF LoopInv, Waits, AtSame
<1>4. OneParent' /\ Joined' /\ EndedIsEmpty'
  <2>1. OneParent'
    BY <1>2 DEF LoopInv, OneParent, JitAssumption
  <2>2. Joined'
    BY <1>2 DEF LoopInv, Joined
  <2>3. EndedIsEmpty'
    BY <1>1 DEF LoopInv, EndedIsEmpty
  <2> QED
    BY <2>1, <2>2, <2>3
<1>5. Fresh'
  <2> SUFFICES ASSUME NEW u \in Thread \ {Main}, u \notin ended, \A t \in Thread : ~Kid(u, t)
               PROVE  out'[u] = None
    BY <1>1, <1>2 DEF Fresh
  <2>1. out[u] = None
    BY DEF LoopInv, Fresh
  <2>2. stack[u] = <<>>
    BY DEF LoopInv, Joined
  <2> QED
    BY <2>1, <2>2
<1>6. SlotIsFirst'
  BY <1>1 DEF LoopInv, SlotIsFirst, AtSame
<1>7. SlotIsOfWorker'
  <2>1. \A u \in ended : out'[u] = out[u]
    BY <1>1 DEF LoopInv, EndedIsEmpty
  <2> QED
    BY <1>1, <1>2, <2>1 DEF LoopInv, SlotIsOfWorker
<1> QED
  BY <1>3, <1>4, <1>5, <1>6, <1>7 DEF LoopInv

LEMMA FailsFacts ==
  ASSUME TypeOK, ErrInv, NEW t \in Thread, NEW rest, NEW e \in Error, Fails(t, rest, e),
         rest # <<>> /\ Last(rest).at = "native" <=> At(t, {"native"})',
         \A u \in Thread : u # t => stack'[u] = stack[u]
  PROVE  /\ ErrsTyped' /\ ErrInv'
         /\ \A u \in Thread : u # t => out'[u] = out[u] /\ signal'[u] = signal[u] /\ exn'[u] = exn[u]
         /\ \/ out'[t] = e /\ signal'[t] = None /\ exn'[t] = None
            \/ out'[t] = None /\ signal'[t] = e /\ exn'[t] = Placeholder
<1>1. ErrsTyped
  BY TypeParts
<1>2. /\ \A u \in Thread : u # t => out'[u] = out[u] /\ signal'[u] = signal[u] /\ exn'[u] = exn[u]
      /\ \/ out'[t] = e /\ signal'[t] = None /\ exn'[t] = None
         \/ /\ out'[t] = None /\ signal'[t] = e /\ exn'[t] = Placeholder
            /\ At(t, {"native"})'
  BY <1>1 DEF Fails, SignalTaken, ErrsTyped
<1>3. ErrsTyped'
  BY <1>1 DEF Fails, SignalTaken, ErrsTyped
<1>4. ErrsAgree(t)'
  BY <1>2 DEF ErrsAgree
<1>5. ASSUME NEW u \in Thread, u # t PROVE ErrsAgree(u)'
  BY <1>2, <1>5 DEF ErrInv, ErrsAgree, At, Top
<1> QED
  BY <1>2, <1>3, <1>4, <1>5 DEF ErrInv

\* What a step keeps that only moves the top call of a thread within the tiers.
LEMMA QuietMove ==
  ASSUME IInv, NEW t, NEW at, Moves(t, at), at # "loop",
         Top(t).at \notin {"native", "loop"},
         UNCHANGED <<threshold, errs, data, loops, ops>>,
         TierTyped', StaysNative, at = "native" => fns'[Top(t).fn] = "native"
  PROVE  /\ StacksKept /\ TypeOK' /\ ErrInv' /\ LoopInv'
         /\ \A u \in Thread : u # t => stack'[u] = stack[u]
<1>1. TypeOK /\ Below
  BY DEF IInv, LoopInv
<1>2. t \in Thread /\ stack[t] # <<>>
  BY DEF Moves
<1>3. StacksKept
  BY <1>1, MovesStacks
<1>4. /\ \A u \in Thread : u # t => stack'[u] = stack[u]
      /\ stack'[t] # <<>> /\ Top(t)'.at = at
  BY <1>1, MovesFacts
<1>5. TypeOK'
  <2>1. ErrsTyped' /\ DataTyped' /\ LoopTyped' /\ (ops \in 0 .. MaxOps)'
    BY <1>1, TypeParts DEF ErrsTyped, DataTyped, LoopTyped, errs, data, loops
  <2> QED
    BY <1>3, <2>1, TypePartsNext DEF StacksKept
<1>6. ErrInv'
  <2>1. ~At(t, {"native"})
    BY DEF At
  <2>2. \A u \in Thread : At(u, {"native"}) => At(u, {"native"})'
    BY <1>4, <2>1 DEF At, Top
  <2> QED
    BY <2>2, ErrFrame DEF IInv
<1>7. LoopInv'
  <2>1. \A u \in Thread : AtSame(u, {"loop"})
    BY <1>2, <1>4 DEF AtSame, At, Top
  <2>2. \A u \in Thread : stack[u] = <<>> => stack'[u] = <<>>
    BY <1>2, <1>4
  <2>3. out' = out
    BY DEF errs
  <2>4. LoopTyped /\ LoopInv
    BY <1>1, TypeParts DEF IInv
  <2>5. Below'
    BY <1>3 DEF StacksKept
  <2>6. loop' = loop /\ ended' = ended /\ failures' = failures
    BY DEF loops
  <2> QED
    BY <2>1, <2>2, <2>3, <2>4, <2>5, <2>6, LoopFrame
<1> QED
  BY <1>3, <1>4, <1>5, <1>6, <1>7

\* The same without any change to what the tiers share.
LEMMA PlainMove ==
  ASSUME IInv, NEW t, NEW at, Moves(t, at), at \notin {"loop", "compile", "publish"},
         Top(t).at \notin {"native", "loop", "compile", "publish"},
         UNCHANGED <<threshold, shared, errs, data, loops, ops>>,
         at = "native" => fns[Top(t).fn] = "native"
  PROVE  IInv'
<1>1. TierTyped' /\ StaysNative
  BY TypeParts DEF TierTyped, StaysNative, shared, IInv
<1>2. TypeOK' /\ ErrInv' /\ LoopInv' /\ \A u \in Thread : u # t => stack'[u] = stack[u]
  BY <1>1, QuietMove DEF shared
<1>3. t \in Thread /\ stack'[t] # <<>> /\ Top(t)'.at = at
  BY MovesFacts DEF IInv, Moves
<1>4. ~At(t, {"compile", "publish"}) /\ ~At(t, {"compile", "publish"})'
  BY <1>3 DEF At
<1>5. TierInv'
  BY <1>2, <1>4, TierFrame DEF IInv, shared
<1> QED
  BY <1>2, <1>5 DEF IInv

-----------------------------------------------------------------------------
(* The tiers.                                                              *)

LEMMA ReadFlagKeeps ==
  ASSUME IInv, NEW t \in Thread, ReadFlag(t)
  PROVE  IInv'
<1> DEFINE to == IF flags[Top(t).fn] THEN "lookup" ELSE "count"
<1>1. to \in {"lookup", "count"} /\ to \in Places
  BY DEF Places
<1>2. stack[t] # <<>> /\ Top(t).at = "flag" /\ GoesTo(t, to)
  BY DEF ReadFlag, At
<1> HIDE DEF to
<1>3. Moves(t, to)
  BY <1>1, <1>2 DEF Moves
<1> QED
  BY <1>1, <1>2, <1>3, PlainMove DEF ReadFlag

LEMMA LookupKeeps ==
  ASSUME IInv, NEW t \in Thread, Lookup(t)
  PROVE  IInv'
<1> DEFINE to == IF fns[Top(t).fn] = "native" THEN "native" ELSE "interp"
<1>1. /\ to \in {"native", "interp"} /\ to \in Places
      /\ to = "native" => fns[Top(t).fn] = "native"
  BY DEF Places
<1>2. stack[t] # <<>> /\ Top(t).at = "lookup" /\ GoesTo(t, to)
  BY DEF Lookup, At
<1> HIDE DEF to
<1>3. Moves(t, to)
  BY <1>1, <1>2 DEF Moves
<1> QED
  BY <1>1, <1>2, <1>3, PlainMove DEF Lookup

LEMMA CompilingAt ==
  ASSUME NEW f, NEW u
  PROVE  u \in Compiling(f) <=>
           u \in Thread /\ At(u, {"compile", "publish"}) /\ Top(u).fn = f
BY DEF Compiling, At

LEMMA CountKeeps ==
  ASSUME IInv, NEW t \in Thread, Count(t)
  PROVE  IInv'
<1> DEFINE f == Top(t).fn
           to == IF Reached(counters[f]) THEN "compile" ELSE "interp"
<1>1. /\ stack[t] # <<>> /\ Top(t).at = "count"
      /\ counters' = [counters EXCEPT ![f] = @ + 1] /\ GoesTo(t, to)
      /\ UNCHANGED <<threshold, fns, flags, errs, data, loops, ops>>
  BY DEF Count, At
<1>2. to \in {"compile", "interp"} /\ to \in Places
  BY DEF Places
<1>3. Moves(t, to)
  BY <1>1, <1>2 DEF Moves
<1>4. f \in Fn /\ TierTyped
  BY <1>1, Tops, TypeParts DEF IInv
<1>5. counters[f] \in Nat /\ counters[f] + 1 \in Nat /\ threshold \in Nat
  BY <1>4 DEF TierTyped
<1>6. /\ TierTyped' /\ counters'[f] = counters[f] + 1
      /\ \A g \in Fn : g # f => counters'[g] = counters[g]
  BY <1>1, <1>4, <1>5 DEF TierTyped
<1>7. StaysNative
  BY <1>1 DEF StaysNative
<1>8. TypeOK' /\ ErrInv' /\ LoopInv' /\ \A u \in Thread : u # t => stack'[u] = stack[u]
  BY <1>1, <1>2, <1>3, <1>6, <1>7, QuietMove
<1>9. stack'[t] # <<>> /\ Top(t)'.fn = f /\ Top(t)'.at = to
  BY <1>3, MovesFacts DEF IInv
<1>10. to = "compile" <=> counters[f] = threshold - 1
  BY DEF Reached
<1> HIDE DEF f, to
<1>11. \A g \in Fn : Compiling(g)' =
         IF g = f /\ to = "compile" THEN Compiling(g) \cup {t} ELSE Compiling(g)
  <2> SUFFICES ASSUME NEW g \in Fn, NEW u \in Thread
               PROVE  u \in Compiling(g)' <=>
                        u \in Compiling(g) \/ (u = t /\ g = f /\ to = "compile")
    BY DEF Compiling
  <2>1. CASE u # t
    BY <1>8, <2>1 DEF Compiling, Top
  <2>2. CASE u = t
    BY <1>1, <1>2, <1>9, <2>2 DEF Compiling
  <2> QED
    BY <2>1, <2>2
<1>12. to = "compile" => ~flags[f] /\ Compiling(f) = {}
  BY <1>4, <1>5, <1>10 DEF IInv, TierInv, Early
<1>13. OneCompiler'
  <2> SUFFICES ASSUME NEW g \in Fn
               PROVE  /\ \A u, v \in Compiling(g)' : u = v
                      /\ flags'[g] => Compiling(g)' = {}
    BY DEF OneCompiler
  <2>1. (\A u, v \in Compiling(g) : u = v) /\ (flags[g] => Compiling(g) = {})
    BY DEF IInv, TierInv, OneCompiler
  <2>2. flags' = flags
    BY <1>1
  <2>3. CASE g = f /\ to = "compile"
    BY <1>11, <1>12, <2>2, <2>3
  <2>4. CASE ~(g = f /\ to = "compile")
    BY <1>11, <2>1, <2>2, <2>4
  <2> QED
    BY <2>3, <2>4
<1>14. FlaggedIsStored' /\ NativeIsCompilable'
  BY <1>1 DEF IInv, TierInv, FlaggedIsStored, NativeIsCompilable
<1>15. HotIsCompiled'
  <2> SUFFICES ASSUME NEW g \in Fn, threshold > 0, counters'[g] >= threshold
               PROVE  flags[g] \/ Compiling(g)' # {}
    BY <1>1 DEF HotIsCompiled
  <2>1. Compiling(g) \subseteq Compiling(g)'
    BY <1>11
  <2>2. CASE g = f /\ to = "compile"
    BY <1>11, <2>2
  <2>3. CASE g = f /\ to # "compile"
    <3>1. counters[f] >= threshold
      BY <1>5, <1>6, <1>10, <2>3
    <3> QED
      BY <2>1, <2>3, <3>1 DEF IInv, TierInv, HotIsCompiled
  <2>4. CASE g # f
    BY <1>6, <2>1, <2>4 DEF IInv, TierInv, HotIsCompiled
  <2> QED
    BY <2>2, <2>3, <2>4
<1>16. Early'
  <2> SUFFICES ASSUME NEW g \in Fn, counters'[g] < threshold
               PROVE  ~flags[g] /\ Compiling(g)' = {}
    BY <1>1 DEF Early
  <2>1. CASE g = f
    <3>1. counters[f] < threshold /\ to # "compile"
      BY <1>5, <1>6, <1>10, <2>1
    <3> QED
      BY <1>11, <2>1, <3>1 DEF IInv, TierInv, Early
  <2>2. CASE g # f
    BY <1>6, <1>11, <2>2 DEF IInv, TierInv, Early
  <2> QED
    BY <2>1, <2>2
<1>17. Stored'
  <2> SUFFICES ASSUME NEW u \in Thread, At(u, {"publish"})'
               PROVE  fns[Top(u)'.fn] # "none"
    BY <1>1 DEF Stored
  <2>1. u # t
    BY <1>2, <1>9 DEF At
  <2>2. At(u, {"publish"}) /\ Top(u)' = Top(u)
    BY <1>8, <2>1 DEF At, Top
  <2> QED
    BY <2>2 DEF IInv, TierInv, Stored
<1> QED
  BY <1>8, <1>13, <1>14, <1>15, <1>16, <1>17 DEF IInv, TierInv

LEMMA StoreKeeps ==
  ASSUME IInv, NEW t \in Thread, At(t, {"compile"}), Compile(t)
  PROVE  IInv'
<1> DEFINE f == Top(t).fn
           entry == IF f \in Compilable THEN "native" ELSE "fallback"
<1>1. /\ stack[t] # <<>> /\ Top(t).at = "compile"
      /\ fns' = [fns EXCEPT ![f] = entry] /\ GoesTo(t, "publish")
      /\ UNCHANGED <<threshold, counters, flags, errs, data, loops, ops>>
  BY DEF Compile, StoreAndFlag, At
<1>2. Moves(t, "publish")
  BY <1>1 DEF Moves, Places
<1>3. f \in Fn /\ TierTyped
  BY <1>1, Tops, TypeParts DEF IInv
<1>4. entry \in {"native", "fallback"} /\ (entry = "native" <=> f \in Compilable)
  OBVIOUS
<1> HIDE DEF entry
<1>5. /\ TierTyped' /\ fns'[f] = entry
      /\ \A g \in Fn : g # f => fns'[g] = fns[g]
  BY <1>1, <1>3, <1>4 DEF TierTyped
<1>6. StaysNative
  BY <1>4, <1>5 DEF StaysNative, IInv, TierInv, NativeIsCompilable
<1>7. TypeOK' /\ ErrInv' /\ LoopInv' /\ \A u \in Thread : u # t => stack'[u] = stack[u]
  BY <1>1, <1>2, <1>5, <1>6, QuietMove
<1>8. stack'[t] # <<>> /\ Top(t)'.fn = f /\ Top(t)'.at = "publish"
  BY <1>2, MovesFacts DEF IInv
<1> HIDE DEF f
<1>9. \A g \in Fn : Compiling(g)' = Compiling(g)
  <2> SUFFICES ASSUME NEW g \in Fn, NEW u \in Thread
               PROVE  u \in Compiling(g)' <=> u \in Compiling(g)
    BY DEF Compiling
  <2>1. CASE u # t
    BY <1>7, <2>1 DEF Compiling, Top
  <2>2. CASE u = t
    BY <1>1, <1>8, <2>2 DEF Compiling, f
  <2> QED
    BY <2>1, <2>2
<1>10. OneCompiler' /\ HotIsCompiled' /\ Early'
  BY <1>1, <1>9 DEF IInv, TierInv, OneCompiler, HotIsCompiled, Early
<1>11. FlaggedIsStored' /\ NativeIsCompilable'
  BY <1>1, <1>4, <1>5 DEF IInv, TierInv, FlaggedIsStored, NativeIsCompilable
<1>12. Stored'
  <2> SUFFICES ASSUME NEW u \in Thread, At(u, {"publish"})'
               PROVE  fns'[Top(u)'.fn] # "none"
    BY DEF Stored
  <2>1. CASE u = t
    BY <1>4, <1>5, <1>8, <2>1
  <2>2. CASE u # t
    <3>1. At(u, {"publish"}) /\ Top(u)' = Top(u) /\ stack[u] # <<>>
      BY <1>7, <2>2 DEF At, Top
    <3>2. Top(u).fn \in Fn /\ fns[Top(u).fn] # "none"
      BY <3>1, Tops DEF IInv, TierInv, Stored
    <3> QED
      BY <1>4, <1>5, <3>1, <3>2
  <2> QED
    BY <2>1, <2>2
<1> QED
  BY <1>7, <1>10, <1>11, <1>12 DEF IInv, TierInv

LEMMA PublishKeeps ==
  ASSUME IInv, NEW t \in Thread, At(t, {"publish"}), Compile(t)
  PROVE  IInv'
<1> DEFINE f == Top(t).fn
           to == IF fns[f] = "native" THEN "native" ELSE "interp"
<1>1. /\ stack[t] # <<>> /\ Top(t).at = "publish"
      /\ flags' = [flags EXCEPT ![f] = TRUE] /\ GoesTo(t, to)
      /\ UNCHANGED <<threshold, counters, fns, errs, data, loops, ops>>
  BY DEF Compile, StoreAndFlag, At
<1>2. /\ to \in {"native", "interp"} /\ to \in Places
      /\ to = "native" => fns[f] = "native"
  BY DEF Places
<1>3. Moves(t, to)
  BY <1>1, <1>2 DEF Moves
<1>4. f \in Fn /\ TierTyped
  BY <1>1, Tops, TypeParts DEF IInv
<1>5. TierTyped' /\ flags'[f] = TRUE /\ \A g \in Fn : g # f => flags'[g] = flags[g]
  BY <1>1, <1>4 DEF TierTyped
<1>6. StaysNative
  BY <1>1 DEF StaysNative
<1> HIDE DEF to
<1>7. TypeOK' /\ ErrInv' /\ LoopInv' /\ \A u \in Thread : u # t => stack'[u] = stack[u]
  BY <1>1, <1>2, <1>3, <1>5, <1>6, QuietMove
<1>8. stack'[t] # <<>> /\ Top(t)'.fn = f /\ Top(t)'.at = to
  BY <1>3, MovesFacts DEF IInv
<1>9. t \in Compiling(f) /\ Compiling(f) \subseteq Thread
  BY <1>1 DEF Compiling
<1>10. Compiling(f) = {t}
  BY <1>4, <1>9 DEF IInv, TierInv, OneCompiler
<1> HIDE DEF f
<1>11. \A g \in Fn : Compiling(g)' = IF g = f THEN {} ELSE Compiling(g)
  <2> SUFFICES ASSUME NEW g \in Fn, NEW u \in Thread
               PROVE  u \in Compiling(g)' <=> u \in Compiling(g) /\ g # f
    BY DEF Compiling
  <2>1. CASE u # t
    <3>1. u \notin Compiling(f)
      BY <1>10, <2>1
    <3> QED
      BY <1>7, <2>1, <3>1 DEF Compiling, Top
  <2>2. CASE u = t
    <3>1. u \in Compiling(g) => g = f
      BY <2>2 DEF Compiling, f
    <3> QED
      BY <1>2, <1>8, <2>2, <3>1 DEF Compiling
  <2> QED
    BY <2>1, <2>2
<1>12. \A g \in Fn : g # f => Compiling(g)' = Compiling(g)
  BY <1>11
<1>13. \A g \in Fn : g = f => Compiling(g)' = {}
  BY <1>4, <1>11
<1>14. OneCompiler' /\ HotIsCompiled'
  BY <1>1, <1>5, <1>12, <1>13 DEF IInv, TierInv, OneCompiler, HotIsCompiled
<1>15. fns[f] # "none"
  BY <1>1 DEF IInv, TierInv, Stored, At, f
<1>16. FlaggedIsStored' /\ NativeIsCompilable'
  BY <1>1, <1>5, <1>15 DEF IInv, TierInv, FlaggedIsStored, NativeIsCompilable
<1>17. Early'
  <2>1. ~(counters[f] < threshold)
    BY <1>4, <1>10 DEF IInv, TierInv, Early
  <2> QED
    BY <1>1, <1>5, <1>12, <1>13, <2>1 DEF IInv, TierInv, Early
<1>18. Stored'
  <2> SUFFICES ASSUME NEW u \in Thread, At(u, {"publish"})'
               PROVE  fns[Top(u)'.fn] # "none"
    BY <1>1 DEF Stored
  <2>1. u # t
    BY <1>2, <1>8 DEF At
  <2>2. At(u, {"publish"}) /\ Top(u)' = Top(u)
    BY <1>7, <2>1 DEF At, Top
  <2> QED
    BY <2>2 DEF IInv, TierInv, Stored
<1> QED
  BY <1>7, <1>14, <1>16, <1>17, <1>18 DEF IInv, TierInv

LEMMA CompileKeeps ==
  ASSUME IInv, NEW t \in Thread, Compile(t)
  PROVE  IInv'
<1>1. At(t, {"compile"}) \/ At(t, {"publish"})
  BY DEF Compile, StoreAndFlag
<1> QED
  BY <1>1, StoreKeeps, PublishKeeps

-----------------------------------------------------------------------------
(* Calls, errors and stores.                                               *)

\* A thread that runs is in no loop, and its stack changes or not.
LEMMA RunsFacts ==
  ASSUME NEW t, NEW places, Runs(t, places), TypeOK
  PROVE  /\ At(t, places) /\ out[t] = None /\ exn[t] = None /\ stack[t] # <<>>
         /\ (ops \in 0 .. MaxOps)'
BY DEF Runs, At, TypeOK

\* A step with errs' and without any change to stacks, tiers, data and loops.
LEMMA OnlyErrs ==
  ASSUME IInv, NEW t \in Thread, At(t, {"interp", "native"}), ErrsTyped', ErrInv',
         UNCHANGED <<threshold, shared, stack, data, loops>>, (ops \in 0 .. MaxOps)',
         \A u \in Thread : u # t => out'[u] = out[u]
  PROVE  IInv'
<1>1. TypeOK /\ Below /\ LoopInv /\ TierInv
  BY DEF IInv, LoopInv
<1>2. /\ threshold' = threshold /\ counters' = counters /\ fns' = fns /\ flags' = flags
      /\ stack' = stack /\ loop' = loop /\ ended' = ended /\ failures' = failures
      /\ globals' = globals /\ frozen' = frozen
  BY DEF shared, data, loops
<1>3. StacksKept
  BY <1>1, <1>2, SameStacks DEF StaysNative
<1>4. TypeOK'
  <2>1. TierTyped' /\ DataTyped' /\ LoopTyped'
    BY <1>1, <1>2, TypeParts DEF TierTyped, DataTyped, LoopTyped
  <2> QED
    BY <1>3, <2>1, TypePartsNext DEF StacksKept
<1>5. TierInv'
  BY <1>1, <1>2, TierFrame
<1>6. LoopInv'
  <2>1. /\ \A u \in Thread : stack[u] = <<>> => stack'[u] = <<>>
        /\ \A u \in Thread : AtSame(u, {"loop"})
    BY <1>2 DEF AtSame, At, Top
  <2>2. stack[t] # <<>> /\ ~At(t, {"loop"})
    BY DEF At
  <2>3. LoopTyped /\ Below'
    BY <1>1, <1>3, TypeParts DEF StacksKept
  <2> QED
    BY <1>1, <1>2, <2>1, <2>2, <2>3, LoopFrame
<1> QED
  BY <1>4, <1>5, <1>6 DEF IInv

LEMMA CallKeeps ==
  ASSUME IInv, NEW t \in Thread, NEW f \in Fn, Call(t, f)
  PROVE  IInv'
<1>1. TypeOK /\ Below /\ LoopInv /\ TierInv /\ ErrInv
  BY DEF IInv, LoopInv
<1>2. /\ threshold' = threshold /\ counters' = counters /\ fns' = fns /\ flags' = flags
      /\ loop' = loop /\ ended' = ended /\ failures' = failures
      /\ globals' = globals /\ frozen' = frozen
  BY DEF Call, shared, data, loops
<1>3. /\ At(t, {"interp", "native"}) /\ out[t] = None /\ exn[t] = None /\ stack[t] # <<>>
      /\ (ops \in 0 .. MaxOps)'
  BY <1>1, RunsFacts DEF Call
<1>4. CASE Len(stack[t]) < MaxDepth
  <2>1. Begins(t, f) /\ out' = out /\ signal' = signal /\ exn' = exn
    BY <1>3, <1>4 DEF Call, Begins, errs
  <2>2. StacksKept
    BY <1>1, <1>2, <2>1, BeginsStacks DEF StaysNative
  <2>3. /\ \A u \in Thread : u # t => stack'[u] = stack[u]
        /\ stack'[t] # <<>> /\ Top(t)'.at \in {"interp", "flag"}
    BY <1>1, <2>1, BeginsFacts, EnteredIsPlace
  <2>4. TypeOK'
    <3>1. TierTyped' /\ DataTyped' /\ LoopTyped' /\ ErrsTyped'
      BY <1>1, <1>2, <2>1, TypeParts DEF TierTyped, DataTyped, LoopTyped, ErrsTyped
    <3> QED
      BY <1>3, <2>2, <3>1, TypePartsNext DEF StacksKept
  <2>5. TierInv'
    <3>1. ~At(t, {"compile", "publish"}) /\ ~At(t, {"compile", "publish"})'
      BY <1>3, <2>3 DEF At
    <3> QED
      BY <1>1, <1>2, <2>3, <3>1, TierFrame
  <2>6. ErrInv'
    <3>1. \A u \in Thread : At(u, {"native"}) => (At(u, {"native"})' \/ exn[u] = None)
      BY <1>3, <2>3 DEF At, Top
    <3> QED
      BY <1>1, <2>1, <3>1, ErrFrame DEF errs
  <2>7. LoopInv'
    <3>1. ~At(t, {"loop"}) /\ ~At(t, {"loop"})'
      BY <1>3, <2>3 DEF At
    <3>2. /\ \A u \in Thread : stack[u] = <<>> => stack'[u] = <<>>
          /\ \A u \in Thread : AtSame(u, {"loop"})
      BY <1>3, <2>3, <3>1 DEF AtSame, At, Top
    <3>3. LoopTyped /\ Below'
      BY <1>1, <2>2, TypeParts DEF StacksKept
    <3> QED
      BY <1>1, <1>2, <2>1, <3>2, <3>3, LoopFrame
  <2> QED
    BY <2>4, <2>5, <2>6, <2>7 DEF IInv
<1>5. CASE ~(Len(stack[t]) < MaxDepth)
  <2>1. PICK e : e = [in |-> f, fatal |-> FALSE]
    OBVIOUS
  <2>2. e \in Error
    BY <2>1 DEF Error
  <2>3. Fails(t, stack[t], e) /\ stack' = stack
    BY <1>5, <2>1 DEF Call
  <2>4. stack[t] # <<>> /\ Last(stack[t]).at = "native" <=> At(t, {"native"})'
    BY <2>3 DEF At, Top
  <2>5. ErrsTyped' /\ ErrInv' /\ \A u \in Thread : u # t => out'[u] = out[u]
    BY <1>1, <2>2, <2>3, <2>4, FailsFacts
  <2>6. UNCHANGED <<threshold, shared, stack, data, loops>>
    BY <2>3 DEF Call
  <2> QED
    BY <1>3, <2>5, <2>6, OnlyErrs
<1> QED
  BY <1>4, <1>5

LEMMA RaiseKeeps ==
  ASSUME IInv, NEW t \in Thread, Raise(t)
  PROVE  IInv'
<1>1. TypeOK /\ ErrInv /\ ErrsTyped
  BY TypeParts DEF IInv
<1>2. UNCHANGED <<threshold, shared, stack, data, loops>> /\ stack' = stack
  BY DEF Raise
<1>3. ASSUME Runs(t, {"interp"}),
             \E fatal \in BOOLEAN : out' = [out EXCEPT ![t] = [in |-> Top(t).fn, fatal |-> fatal]],
             UNCHANGED <<signal, exn>>
      PROVE  IInv'
  <2>1. At(t, {"interp"}) /\ exn[t] = None /\ stack[t] # <<>> /\ (ops \in 0 .. MaxOps)'
    BY <1>1, <1>3, RunsFacts
  <2>2. PICK fatal \in BOOLEAN : out' = [out EXCEPT ![t] = [in |-> Top(t).fn, fatal |-> fatal]]
    BY <1>3
  <2>3. PICK e : e = [in |-> Top(t).fn, fatal |-> fatal]
    OBVIOUS
  <2>4. e \in Error
    BY <1>1, <2>1, <2>3, Tops DEF Error
  <2>5. out' = [out EXCEPT ![t] = e] /\ signal' = signal /\ exn' = exn
    BY <1>3, <2>2, <2>3
  <2>6. ErrsTyped'
    BY <1>1, <2>4, <2>5 DEF ErrsTyped
  <2>7. \A u \in Thread : u # t => out'[u] = out[u]
    BY <1>1, <2>5 DEF ErrsTyped
  <2>8. ErrInv'
    BY <1>1, <1>2, <2>1, <2>5, <2>7 DEF ErrInv, ErrsAgree, At, Top
  <2>9. At(t, {"interp", "native"})
    BY <2>1 DEF At
  <2> QED
    BY <1>2, <2>1, <2>6, <2>7, <2>8, <2>9, OnlyErrs
<1>4. ASSUME Runs(t, {"native"}), UNCHANGED <<out, signal>>,
             exn' = [exn EXCEPT ![t] = [in |-> Top(t).fn, fatal |-> FALSE]]
      PROVE  IInv'
  <2>1. /\ At(t, {"native"}) /\ out[t] = None /\ exn[t] = None /\ stack[t] # <<>>
        /\ (ops \in 0 .. MaxOps)'
    BY <1>1, <1>4, RunsFacts
  <2>2. PICK e : e = [in |-> Top(t).fn, fatal |-> FALSE]
    OBVIOUS
  <2>3. e \in Error
    BY <1>1, <2>1, <2>2, Tops DEF Error
  <2>4. exn' = [exn EXCEPT ![t] = e] /\ signal' = signal /\ out' = out
    BY <1>4, <2>2
  <2>5. ErrsTyped'
    BY <1>1, <2>3, <2>4 DEF ErrsTyped
  <2>6. exn'[t] = e /\ \A u \in Thread : u # t => exn'[u] = exn[u]
    BY <1>1, <2>4 DEF ErrsTyped
  <2>7. e # None /\ e # Placeholder
    BY <2>3
  <2>8. ErrInv'
    BY <1>1, <1>2, <2>1, <2>4, <2>6, <2>7 DEF ErrInv, ErrsAgree, At, Top
  <2>9. At(t, {"interp", "native"})
    BY <2>1 DEF At
  <2> QED
    BY <1>2, <2>1, <2>4, <2>5, <2>8, <2>9, OnlyErrs
<1> QED
  BY <1>3, <1>4 DEF Raise

LEMMA CatchKeeps ==
  ASSUME IInv, NEW t \in Thread, Catch(t)
  PROVE  IInv'
<1>1. TypeOK /\ ErrInv /\ ErrsTyped /\ ops \in 0 .. MaxOps
  BY TypeParts DEF IInv
<1>2. /\ At(t, {"interp", "native"}) /\ out' = [out EXCEPT ![t] = None]
      /\ signal' = signal /\ exn' = exn /\ stack' = stack /\ (ops \in 0 .. MaxOps)'
      /\ UNCHANGED <<threshold, shared, stack, data, loops>>
  BY <1>1 DEF Catch, At
<1>3. ErrsTyped' /\ out'[t] = None /\ \A u \in Thread : u # t => out'[u] = out[u]
  BY <1>1, <1>2 DEF ErrsTyped
<1>4. ErrInv'
  BY <1>1, <1>2, <1>3 DEF ErrInv, ErrsAgree, At, Top
<1> QED
  BY <1>2, <1>3, <1>4, OnlyErrs

LEMMA EndsTop ==
  ASSUME IInv, NEW t, EndsCall(t)
  PROVE  /\ t \in Thread /\ stack[t] # <<>>
         /\ \A u \in Thread : u # t => stack'[u] = stack[u]
         /\ ~At(t, {"loop", "compile", "publish"}) /\ ~At(t, {"loop", "compile", "publish"})'
<1>1. TypeOK /\ Below
  BY DEF IInv, LoopInv
<1>2. t \in Thread /\ stack[t] # <<>> /\ Top(t).at \in {"interp", "native"}
  BY DEF EndsCall, At
<1>3. ASSUME stack'[t] # <<>> PROVE Top(t)'.at \in {"interp", "native"}
  BY <1>1, <1>2, <1>3, EndsFacts DEF Below
<1> QED
  BY <1>1, <1>2, <1>3, EndsFacts DEF At

LEMMA EndKeeps ==
  ASSUME IInv, NEW t, EndsCall(t), ErrsTyped', ErrInv',
         UNCHANGED <<threshold, shared, data, loops, ops>>,
         \A u \in Thread : u # t => out'[u] = out[u]
  PROVE  IInv'
<1>1. TypeOK /\ Below /\ LoopInv /\ TierInv
  BY DEF IInv, LoopInv
<1>2. /\ threshold' = threshold /\ counters' = counters /\ fns' = fns /\ flags' = flags
      /\ loop' = loop /\ ended' = ended /\ failures' = failures
      /\ globals' = globals /\ frozen' = frozen /\ ops' = ops
  BY DEF shared, data, loops
<1>3. StacksKept
  BY <1>1, <1>2, EndsStacks DEF StaysNative
<1>4. /\ t \in Thread /\ stack[t] # <<>>
      /\ \A u \in Thread : u # t => stack'[u] = stack[u]
      /\ ~At(t, {"loop", "compile", "publish"}) /\ ~At(t, {"loop", "compile", "publish"})'
  BY EndsTop
<1>5. TypeOK'
  <2>1. TierTyped' /\ DataTyped' /\ LoopTyped' /\ (ops \in 0 .. MaxOps)'
    BY <1>1, <1>2, TypeParts DEF TierTyped, DataTyped, LoopTyped
  <2> QED
    BY <1>3, <2>1, TypePartsNext DEF StacksKept
<1>6. TierInv'
  <2>1. ~At(t, {"compile", "publish"}) /\ ~At(t, {"compile", "publish"})'
    BY <1>4 DEF At
  <2> QED
    BY <1>1, <1>2, <1>4, <2>1, TierFrame
<1>7. LoopInv'
  <2>1. ~At(t, {"loop"}) /\ ~At(t, {"loop"})'
    BY <1>4 DEF At
  <2>2. /\ \A u \in Thread : stack[u] = <<>> => stack'[u] = <<>>
        /\ \A u \in Thread : AtSame(u, {"loop"})
    BY <1>4, <2>1 DEF AtSame, At, Top
  <2>3. LoopTyped /\ Below'
    BY <1>1, <1>3, TypeParts DEF StacksKept
  <2> QED
    BY <1>1, <1>2, <1>4, <2>1, <2>2, <2>3, LoopFrame
<1> QED
  BY <1>5, <1>6, <1>7 DEF IInv

\* An end without an error, and one with an error that the call below is given.
LEMMA EndsWell ==
  ASSUME IInv, NEW t, EndsCall(t), exn[t] = None, UNCHANGED errs,
         UNCHANGED <<threshold, shared, data, loops, ops>>
  PROVE  IInv'
<1>1. ErrsTyped' /\ out' = out
  BY TypeParts DEF IInv, ErrsTyped, errs
<1>2. \A u \in Thread : At(u, {"native"}) => (At(u, {"native"})' \/ exn[u] = None)
  BY EndsTop DEF At, Top
<1>3. ErrInv'
  BY <1>2, ErrFrame DEF IInv
<1> QED
  BY <1>1, <1>3, EndKeeps

LEMMA EndsBadly ==
  ASSUME IInv, NEW t, EndsCall(t), NEW e \in Error, Fails(t, Front(stack[t]), e),
         UNCHANGED <<threshold, shared, data, loops, ops>>
  PROVE  IInv'
<1>1. t \in Thread /\ stack[t] # <<>> /\ \A u \in Thread : u # t => stack'[u] = stack[u]
  BY EndsTop
<1>2. stack'[t] = Front(stack[t])
  BY <1>1, TypeParts DEF EndsCall, StackTyped, IInv
<1>3. Front(stack[t]) # <<>> /\ Last(Front(stack[t])).at = "native" <=> At(t, {"native"})'
  BY <1>2 DEF At, Top
<1>4. TypeOK /\ ErrInv
  BY DEF IInv
<1>5. PICK rest : rest = Front(stack[t])
  OBVIOUS
<1>6. Fails(t, rest, e) /\ (rest # <<>> /\ Last(rest).at = "native" <=> At(t, {"native"})')
  BY <1>3, <1>5
<1>7. ErrsTyped' /\ ErrInv' /\ \A u \in Thread : u # t => out'[u] = out[u]
  BY <1>1, <1>4, <1>6, FailsFacts
<1> QED
  BY <1>7, EndKeeps

LEMMA ReturnKeeps ==
  ASSUME IInv, NEW t \in Thread, Return(t)
  PROVE  IInv'
<1>1. /\ EndsCall(t) /\ At(t, {"interp"})
      /\ UNCHANGED <<threshold, shared, data, loops, ops>>
  BY DEF Return, EndsCall, At
<1>2. exn[t] = None /\ out[t] \in Error \cup {None}
  BY <1>1, TypeParts DEF IInv, ErrInv, ErrsAgree, ErrsTyped, At
<1>3. CASE out[t] = None
  <2>1. UNCHANGED errs
    BY <1>3 DEF Return
  <2> QED
    BY <1>1, <1>2, <2>1, EndsWell
<1>4. CASE out[t] # None
  <2>1. Fails(t, Front(stack[t]), out[t]) /\ out[t] \in Error
    BY <1>2, <1>4 DEF Return
  <2> QED
    BY <1>1, <2>1, EndsBadly
<1> QED
  BY <1>3, <1>4

\* The error behind a pending exception is an error of the program, never the placeholder.
LEMMA BehindException ==
  ASSUME IInv, NEW t \in Thread, exn[t] # None
  PROVE  /\ (IF signal[t] # None THEN signal[t] ELSE exn[t]) \in Error
         /\ out[t] = None
<1>1. signal[t] \in Error \cup {None} /\ exn[t] \in Error \cup {None, Placeholder}
  BY TypeParts DEF IInv, ErrsTyped
<1> QED
  BY <1>1 DEF IInv, ErrInv, ErrsAgree

LEMMA NativeReturnKeeps ==
  ASSUME IInv, NEW t \in Thread, NativeReturn(t)
  PROVE  IInv'
<1>1. EndsCall(t) /\ UNCHANGED <<threshold, shared, data, loops, ops>>
  BY DEF NativeReturn, EndsCall, At
<1>2. CASE exn[t] = None
  <2>1. UNCHANGED errs
    BY <1>2 DEF NativeReturn
  <2> QED
    BY <1>1, <1>2, <2>1, EndsWell
<1>3. CASE exn[t] # None
  <2>1. PICK e : e = IF signal[t] # None THEN signal[t] ELSE exn[t]
    OBVIOUS
  <2>2. e \in Error
    BY <1>3, <2>1, BehindException
  <2>3. Fails(t, Front(stack[t]), e)
    BY <1>3, <2>1 DEF NativeReturn
  <2> QED
    BY <1>1, <2>2, <2>3, EndsBadly
<1> QED
  BY <1>2, <1>3

LEMMA SeenTyped ==
  ASSUME TypeOK, NEW t \in Thread
  PROVE  Seen(t) \in Value
BY TypeParts DEF Seen, DataTyped

LEMMA StoreGlobalKeeps ==
  ASSUME IInv, NEW t \in Thread, NEW v \in Value, StoreGlobal(t, v)
  PROVE  IInv'
<1>1. TypeOK /\ Below /\ LoopInv /\ TierInv /\ ErrInv
  BY DEF IInv, LoopInv
<1>2. /\ threshold' = threshold /\ counters' = counters /\ fns' = fns /\ flags' = flags
      /\ stack' = stack /\ loop' = loop /\ ended' = ended /\ failures' = failures
      /\ out' = out /\ signal' = signal /\ exn' = exn
      /\ globals' = [globals EXCEPT ![t] = v] /\ frozen' = [frozen EXCEPT ![t] = None]
  BY DEF StoreGlobal, Thawed, shared, errs, loops
<1>3. (ops \in 0 .. MaxOps)'
  BY <1>1, RunsFacts DEF StoreGlobal
<1>4. StacksKept
  BY <1>1, <1>2, SameStacks DEF StaysNative
<1>5. TypeOK'
  <2>1. TierTyped' /\ DataTyped' /\ LoopTyped' /\ ErrsTyped'
    BY <1>1, <1>2, TypeParts DEF TierTyped, DataTyped, LoopTyped, ErrsTyped
  <2> QED
    BY <1>3, <1>4, <2>1, TypePartsNext DEF StacksKept
<1>6. TierInv'
  BY <1>1, <1>2, TierFrame
<1>7. ErrInv'
  BY <1>1, <1>2 DEF ErrInv, ErrsAgree, At, Top
<1>8. LoopInv'
  <2>1. /\ \A u \in Thread : stack[u] = <<>> => stack'[u] = <<>>
        /\ \A u \in Thread : AtSame(u, {"loop"})
    BY <1>2 DEF AtSame, At, Top
  <2>2. LoopTyped /\ Below'
    BY <1>1, <1>4, TypeParts DEF StacksKept
  <2> QED
    BY <1>1, <1>2, <2>1, <2>2, LoopFrame
<1> QED
  BY <1>5, <1>6, <1>7, <1>8 DEF IInv

-----------------------------------------------------------------------------
(* Parallel loops.                                                         *)

\* Only threads in a loop have workers.
LEMMA ParentsWait ==
  ASSUME IInv, NEW t \in Thread
  PROVE  /\ ~At(t, {"loop"}) => loop[t].kids = {} /\ loop[t].left = 0
         /\ (\E u \in Thread : Kid(u, t)) => At(t, {"loop"})
         /\ At(t, {"loop"}) => stack[t] # <<>> /\ out[t] = None /\ exn[t] = None
<1>1. Waits(t) /\ ErrsAgree(t) /\ loop[t].left \in Nat
  BY TypeParts DEF IInv, LoopInv, ErrInv, LoopTyped
<1>2. At(t, {"loop"}) => ~At(t, {"native"}) /\ stack[t] # <<>>
  BY DEF At
<1> QED
  BY <1>1, <1>2 DEF Waits, ErrsAgree, Kid

LEMMA ParallelIterKeeps ==
  ASSUME IInv, NEW t \in Thread, NEW n \in 1 .. Cardinality(Thread), NEW body \in Fn,
         ParallelIter(t, n, body)
  PROVE  IInv'
<1>1. TypeOK /\ Below /\ LoopInv /\ TierInv /\ ErrInv /\ LoopTyped
  BY TypeParts DEF IInv, LoopInv
<1>2. PICK l : l = [left |-> n, body |-> body, kids |-> {}, slot |-> None]
  OBVIOUS
<1>3. /\ threshold' = threshold /\ counters' = counters /\ fns' = fns /\ flags' = flags
      /\ out' = out /\ signal' = signal /\ exn' = exn /\ globals' = globals
      /\ frozen' = frozen /\ ended' = ended /\ GoesTo(t, "loop")
      /\ loop' = [loop EXCEPT ![t] = l] /\ failures' = [failures EXCEPT ![t] = <<>>]
  BY <1>2 DEF ParallelIter, shared, errs, data
<1>4. /\ At(t, {"interp"}) /\ out[t] = None /\ exn[t] = None /\ stack[t] # <<>>
      /\ (ops \in 0 .. MaxOps)'
  BY <1>1, RunsFacts DEF ParallelIter
<1>5. Moves(t, "loop")
  BY <1>3, <1>4 DEF Moves, Places
<1>6. n \in Nat /\ n > 0
  OBVIOUS
<1>7. /\ l \in [left : Nat, body : Fn \cup {None}, kids : SUBSET Thread,
                slot : Error \cup {None}]
      /\ l.left > 0 /\ l.body \in Fn /\ l.kids = {} /\ l.slot = None
  BY <1>2, <1>6
<1>8. /\ loop'[t] = l /\ failures'[t] = <<>>
      /\ \A v \in Thread : v # t => loop'[v] = loop[v] /\ failures'[v] = failures[v]
  BY <1>1, <1>3 DEF LoopTyped
<1>9. StacksKept
  BY <1>1, <1>3, <1>5, MovesStacks DEF StaysNative
<1>10. /\ \A u \in Thread : u # t => stack'[u] = stack[u]
       /\ stack'[t] # <<>> /\ Top(t)'.at = "loop"
  BY <1>1, <1>5, MovesFacts
<1>11. TypeOK'
  <2>1. TierTyped' /\ DataTyped' /\ ErrsTyped'
    BY <1>1, <1>3, TypeParts DEF TierTyped, DataTyped, ErrsTyped
  <2>2. LoopTyped'
    <3>1. <<>> \in Seq(Error)
      OBVIOUS
    <3> QED
      BY <1>1, <1>3, <1>7, <1>8, <3>1 DEF LoopTyped
  <2> QED
    BY <1>4, <1>9, <2>1, <2>2, TypePartsNext DEF StacksKept
<1>12. TierInv'
  <2>1. ~At(t, {"compile", "publish"}) /\ ~At(t, {"compile", "publish"})'
    BY <1>4, <1>10 DEF At
  <2> QED
    BY <1>1, <1>3, <1>10, <2>1, TierFrame
<1>13. ErrInv'
  BY <1>1, <1>3, <1>4, <1>10 DEF ErrInv, ErrsAgree, At, Top
<1>14. ~At(t, {"loop"}) /\ At(t, {"loop"})' /\ \A v \in Thread : v # t => AtSame(v, {"loop"})
  BY <1>4, <1>10 DEF At, Top, AtSame
<1>15. \A u, v \in Thread : Kid(u, v)' <=> Kid(u, v)
  <2>1. loop[t].kids = {}
    BY <1>14, ParentsWait
  <2> QED
    BY <1>7, <1>8, <2>1 DEF Kid
<1>16. \A v \in Thread : Waits(v)'
  BY <1>1, <1>3, <1>4, <1>7, <1>8, <1>14 DEF LoopInv, Waits, AtSame
<1>17. OneParent' /\ Fresh'
  BY <1>1, <1>3, <1>15 DEF LoopInv, OneParent, Fresh
<1>18. Joined'
  BY <1>1, <1>4, <1>10, <1>15 DEF LoopInv, Joined
<1>19. EndedIsEmpty'
  BY <1>1, <1>3, <1>4, <1>10 DEF LoopInv, EndedIsEmpty, LoopTyped
<1>20. SlotIsFirst'
  BY <1>1, <1>7, <1>8, <1>14 DEF LoopInv, SlotIsFirst, AtSame
<1>21. SlotIsOfWorker'
  <2>1. ended \subseteq Thread
    BY <1>1 DEF LoopTyped
  <2>2. \A u \in Thread : ~Kid(u, t)'
    BY <1>7, <1>8 DEF Kid
  <2> QED
    BY <1>1, <1>3, <1>7, <1>8, <1>15, <2>1, <2>2 DEF LoopInv, SlotIsOfWorker
<1> QED
  BY <1>9, <1>11, <1>12, <1>13, <1>16, <1>17, <1>18, <1>19, <1>20, <1>21
     DEF IInv, LoopInv, StacksKept

LEMMA SpawnWorkerKeeps ==
  ASSUME IInv, NEW t \in Thread, SpawnWorker(t)
  PROVE  IInv'
<1>1. TypeOK /\ Below /\ LoopInv /\ TierInv /\ ErrInv /\ LoopTyped
  BY TypeParts DEF IInv, LoopInv
<1>2. PICK u : u = CHOOSE w \in Unused : TRUE
  OBVIOUS
<1>3. /\ At(t, {"loop"}) /\ loop[t].left > 0 /\ u \in Unused
      /\ stack' = [stack EXCEPT ![u] = <<Frame(loop[t].body, Entered)>>]
      /\ globals' = [globals EXCEPT ![u] = Seen(t)]
      /\ frozen' = [frozen EXCEPT ![u] = Seen(t)]
      /\ loop' = [loop EXCEPT ![t].left = @ - 1, ![t].kids = @ \cup {u}]
      /\ UNCHANGED <<threshold, shared, errs, ended, failures, ops>>
  BY <1>2 DEF SpawnWorker
<1>4. /\ threshold' = threshold /\ counters' = counters /\ fns' = fns /\ flags' = flags
      /\ out' = out /\ signal' = signal /\ exn' = exn /\ ended' = ended
      /\ failures' = failures /\ ops' = ops
  BY <1>3 DEF shared, errs
<1>5. loop[t].body \in Fn /\ loop[t].left \in Nat /\ loop[t].left - 1 \in Nat
  BY <1>1, <1>3 DEF LoopTyped
<1>6. Starts(u, loop[t].body)
  BY <1>3, <1>5 DEF Starts
<1>7. u \in Thread /\ u # Main /\ u \notin ended /\ stack[u] = <<>> /\ \A v \in Thread : ~Kid(u, v)
  BY <1>3 DEF Unused, Kid
<1>8. t # u /\ stack[t] # <<>> /\ out[t] = None
  BY <1>3, <1>7, ParentsWait
<1>9. StacksKept
  BY <1>1, <1>4, <1>5, <1>6, StartsStacks DEF StaysNative
<1>10. /\ \A v \in Thread : v # u => stack'[v] = stack[v]
       /\ stack'[u] # <<>> /\ Top(u)'.at \in {"interp", "flag"}
  BY <1>1, <1>6, StartsFacts, EnteredIsPlace
<1>11. PICK l : l = [loop[t] EXCEPT !.left = @ - 1, !.kids = @ \cup {u}]
  OBVIOUS
<1>12. loop' = [loop EXCEPT ![t] = l]
  BY <1>3, <1>11
<1>13. loop[t] \in [left : Nat, body : Fn \cup {None}, kids : SUBSET Thread,
                    slot : Error \cup {None}]
  BY <1>1 DEF LoopTyped
<1>14. /\ l \in [left : Nat, body : Fn \cup {None}, kids : SUBSET Thread,
                 slot : Error \cup {None}]
       /\ l.body = loop[t].body /\ l.kids = loop[t].kids \cup {u} /\ l.slot = loop[t].slot
  BY <1>5, <1>7, <1>11, <1>13
<1>15. loop'[t] = l /\ \A v \in Thread : v # t => loop'[v] = loop[v]
  BY <1>1, <1>12 DEF LoopTyped
<1>16. TypeOK'
  <2>1. TierTyped' /\ ErrsTyped' /\ (ops \in 0 .. MaxOps)'
    BY <1>1, <1>4, TypeParts DEF TierTyped, ErrsTyped
  <2>2. DataTyped'
    BY <1>1, <1>3, TypeParts, SeenTyped DEF DataTyped
  <2>3. LoopTyped'
    BY <1>1, <1>4, <1>5, <1>12, <1>14, <1>15 DEF LoopTyped
  <2> QED
    BY <1>9, <2>1, <2>2, <2>3, TypePartsNext DEF StacksKept
<1>17. TierInv'
  <2>1. ~At(u, {"compile", "publish"}) /\ ~At(u, {"compile", "publish"})'
    BY <1>7, <1>10 DEF At
  <2> QED
    BY <1>1, <1>4, <1>10, <2>1, TierFrame
<1>18. ErrInv'
  <2>1. \A v \in Thread : At(v, {"native"}) => (At(v, {"native"})' \/ exn[v] = None)
    BY <1>7, <1>10 DEF At, Top
  <2> QED
    BY <1>1, <1>4, <2>1, ErrFrame DEF errs
<1>19. \A v \in Thread : AtSame(v, {"loop"})
  BY <1>7, <1>10 DEF At, Top, AtSame
<1>20. \A v, w \in Thread : Kid(v, w)' <=> Kid(v, w) \/ (v = u /\ w = t)
  BY <1>14, <1>15 DEF Kid
<1>21. \A v \in Thread : Waits(v)'
  <2>1. Waits(t)'
    BY <1>3, <1>4, <1>8, <1>14, <1>15, <1>19 DEF Waits, AtSame
  <2>2. \A v \in Thread : v # t => Waits(v)'
    BY <1>1, <1>4, <1>15, <1>19 DEF LoopInv, Waits, AtSame
  <2> QED
    BY <2>1, <2>2
<1>22. OneParent'
  BY <1>1, <1>7, <1>20 DEF LoopInv, OneParent
<1>23. Fresh'
  BY <1>1, <1>4, <1>20 DEF LoopInv, Fresh
<1>24. Joined'
  BY <1>1, <1>10, <1>20 DEF LoopInv, Joined
<1>25. EndedIsEmpty'
  BY <1>1, <1>4, <1>7, <1>10 DEF LoopInv, EndedIsEmpty, LoopTyped
<1>26. SlotIsFirst'
  BY <1>1, <1>4, <1>14, <1>15, <1>19 DEF LoopInv, SlotIsFirst, AtSame
<1>27. SlotIsOfWorker'
  <2>1. ended \subseteq Thread /\ \A v \in Thread : loop'[v].slot = loop[v].slot
    BY <1>1, <1>14, <1>15 DEF LoopTyped
  <2>2. \A v \in ended, w \in Thread : Kid(v, w)' <=> Kid(v, w)
    BY <1>7, <1>20, <2>1
  <2> QED
    BY <1>1, <1>4, <2>1, <2>2 DEF LoopInv, SlotIsOfWorker
<1> QED
  BY <1>9, <1>16, <1>17, <1>18, <1>21, <1>22, <1>23, <1>24, <1>25, <1>26, <1>27
     DEF IInv, LoopInv, StacksKept

LEMMA Appending ==
  ASSUME NEW S, NEW s \in Seq(S), NEW e \in S
  PROVE  /\ Append(s, e) \in Seq(S) /\ Append(s, e) # <<>>
         /\ Head(Append(s, e)) = IF s = <<>> THEN e ELSE Head(s)
         /\ s # <<>> => Head(s) \in S
<1>1. Append(s, e) \in Seq(S) /\ Append(s, e) # <<>> /\ Head(Append(s, e)) = Append(s, e)[1]
  OBVIOUS
<1>2. CASE s = <<>>
  BY <1>1, <1>2
<1>3. CASE s # <<>>
  <2>1. 1 \in 1 .. Len(s) /\ Head(s) = s[1] /\ s[1] \in S
    BY <1>3
  <2>2. Append(s, e)[1] = s[1]
    BY <2>1
  <2> QED
    BY <1>1, <1>3, <2>1, <2>2
<1> QED
  BY <1>2, <1>3

LEMMA WorkerEndsKeeps ==
  ASSUME IInv, NEW u \in Thread, WorkerEnds(u)
  PROVE  IInv'
<1>1. TypeOK /\ Below /\ LoopInv /\ TierInv /\ ErrInv /\ LoopTyped
  BY TypeParts DEF IInv, LoopInv
<1>2. PICK t \in Thread :
        /\ u \in loop[t].kids
        /\ IF out[u] = None THEN UNCHANGED <<loop, failures>>
           ELSE /\ loop' = [loop EXCEPT ![t].slot = Kept(@, out[u])]
                /\ failures' = [failures EXCEPT ![t] = Append(@, out[u])]
  BY DEF WorkerEnds
<1>3. /\ u # Main /\ stack[u] = <<>> /\ u \notin ended /\ ended' = ended \cup {u}
      /\ threshold' = threshold /\ counters' = counters /\ fns' = fns /\ flags' = flags
      /\ out' = out /\ signal' = signal /\ exn' = exn /\ globals' = globals
      /\ frozen' = frozen /\ ops' = ops /\ stack' = stack
  BY DEF WorkerEnds, shared, errs, data
<1>4. Kid(u, t) /\ At(t, {"loop"}) /\ \A v \in Thread : Kid(u, v) => v = t
  BY <1>1, <1>2, ParentsWait DEF Kid, LoopInv, OneParent
<1>5. out[u] \in Error \cup {None} /\ ended \subseteq Thread
  BY <1>1, TypeParts DEF ErrsTyped, LoopTyped
<1> DEFINE old == loop[t].slot
           slots == IF out[u] = None THEN old ELSE Kept(old, out[u])
           fails == IF out[u] = None THEN failures[t] ELSE Append(failures[t], out[u])
<1>6. old \in Error \cup {None} /\ failures[t] \in Seq(Error)
  BY <1>1 DEF LoopTyped
<1>7. slots \in Error \cup {None} /\ fails \in Seq(Error)
  BY <1>5, <1>6, Appending DEF Kept
<1>8. slots = IF old = None THEN out[u] ELSE old
  BY DEF Kept
<1>9. old = IF failures[t] = <<>> THEN None ELSE Head(failures[t])
  BY <1>1, <1>4 DEF LoopInv, SlotIsFirst
<1>10. slots = IF fails = <<>> THEN None ELSE Head(fails)
  <2>1. CASE out[u] = None
    BY <1>8, <1>9, <2>1
  <2>2. CASE out[u] # None /\ failures[t] = <<>>
    BY <1>5, <1>6, <1>8, <1>9, <2>2, Appending
  <2>3. CASE out[u] # None /\ failures[t] # <<>>
    <3>1. old \in Error /\ old = Head(failures[t])
      BY <1>5, <1>6, <1>9, <2>3, Appending
    <3>2. fails # <<>> /\ Head(fails) = Head(failures[t])
      BY <1>5, <1>6, <2>3, Appending
    <3> QED
      BY <1>8, <3>1, <3>2
  <2> QED
    BY <2>1, <2>2, <2>3
<1>11. /\ loop' = [loop EXCEPT ![t] = [loop[t] EXCEPT !.slot = slots]]
       /\ failures' = [failures EXCEPT ![t] = fails]
  <2>1. CASE out[u] = None
    <3>1. loop' = loop /\ failures' = failures
      BY <1>2, <2>1
    <3>2. [loop[t] EXCEPT !.slot = old] = loop[t]
      BY <1>1 DEF LoopTyped
    <3>3. loop = [loop EXCEPT ![t] = loop[t]] /\ failures = [failures EXCEPT ![t] = failures[t]]
      BY <1>1 DEF LoopTyped
    <3> QED
      BY <2>1, <3>1, <3>2, <3>3
  <2>2. CASE out[u] # None
    BY <1>2, <2>2
  <2> QED
    BY <2>1, <2>2
<1> HIDE DEF slots, fails
<1>12. PICK l : l = [loop[t] EXCEPT !.slot = slots]
  OBVIOUS
<1>13. loop[t] \in [left : Nat, body : Fn \cup {None}, kids : SUBSET Thread,
                    slot : Error \cup {None}]
  BY <1>1 DEF LoopTyped
<1>14. /\ l \in [left : Nat, body : Fn \cup {None}, kids : SUBSET Thread,
                 slot : Error \cup {None}]
       /\ l.left = loop[t].left /\ l.body = loop[t].body /\ l.kids = loop[t].kids
       /\ l.slot = slots
  BY <1>7, <1>12, <1>13
<1>15. /\ loop' = [loop EXCEPT ![t] = l] /\ loop'[t] = l /\ failures'[t] = fails
       /\ \A v \in Thread : v # t => loop'[v] = loop[v] /\ failures'[v] = failures[v]
  BY <1>1, <1>11, <1>12 DEF LoopTyped
<1>16. \A v, w \in Thread : Kid(v, w)' <=> Kid(v, w)
  BY <1>14, <1>15 DEF Kid
<1>17. StacksKept
  BY <1>1, <1>3, SameStacks DEF StaysNative
<1>18. TypeOK'
  <2>1. TierTyped' /\ ErrsTyped' /\ DataTyped' /\ (ops \in 0 .. MaxOps)'
    BY <1>1, <1>3, TypeParts DEF TierTyped, ErrsTyped, DataTyped
  <2>2. LoopTyped'
    BY <1>1, <1>3, <1>7, <1>11, <1>14, <1>15 DEF LoopTyped
  <2> QED
    BY <1>17, <2>1, <2>2, TypePartsNext DEF StacksKept
<1>19. TierInv' /\ ErrInv'
  <2>1. TierInv'
    BY <1>1, <1>3, TierFrame
  <2>2. ErrInv'
    BY <1>1, <1>3 DEF ErrInv, ErrsAgree, At, Top
  <2> QED
    BY <2>1, <2>2
<1>20. \A v \in Thread : Waits(v)'
  BY <1>1, <1>3, <1>14, <1>15 DEF LoopInv, Waits, At, Top
<1>21. OneParent' /\ Joined'
  BY <1>1, <1>3, <1>16 DEF LoopInv, OneParent, Joined
<1>22. EndedIsEmpty' /\ Fresh'
  BY <1>1, <1>3, <1>16 DEF LoopInv, EndedIsEmpty, Fresh
<1>23. SlotIsFirst'
  BY <1>1, <1>3, <1>10, <1>14, <1>15 DEF LoopInv, SlotIsFirst, At, Top
<1>24. SlotIsOfWorker'
  <2> SUFFICES ASSUME NEW v \in Thread
               PROVE  IF loop'[v].slot = None
                      THEN \A w \in ended' : Kid(w, v)' => out[w] = None
                      ELSE \E w \in ended' : Kid(w, v)' /\ out[w] = loop'[v].slot
    BY <1>3 DEF SlotIsOfWorker
  <2>1. \A w \in ended' : w \in Thread /\ (Kid(w, v)' <=> Kid(w, v))
    BY <1>3, <1>5, <1>16
  <2>2. IF loop[v].slot = None THEN \A w \in ended : Kid(w, v) => out[w] = None
        ELSE \E w \in ended : Kid(w, v) /\ out[w] = loop[v].slot
    BY <1>1 DEF LoopInv, SlotIsOfWorker
  <2>3. CASE v # t
    <3>1. loop'[v].slot = loop[v].slot /\ ~Kid(u, v)
      BY <1>4, <1>15, <2>3
    <3> QED
      BY <1>3, <2>1, <2>2, <3>1
  <2>4. CASE v = t
    <3>1. loop'[v].slot = slots
      BY <1>14, <1>15, <2>4
    <3>2. CASE old = None
      BY <1>3, <1>4, <1>8, <2>1, <2>2, <2>4, <3>1, <3>2
    <3>3. CASE old # None
      BY <1>3, <1>8, <2>1, <2>2, <2>4, <3>1, <3>3
    <3> QED
      BY <3>2, <3>3
  <2> QED
    BY <2>3, <2>4
<1> QED
  BY <1>17, <1>18, <1>19, <1>20, <1>21, <1>22, <1>23, <1>24
     DEF IInv, LoopInv, StacksKept

LEMMA LoopEndsKeeps ==
  ASSUME IInv, NEW t \in Thread, LoopEnds(t)
  PROVE  IInv'
<1>1. TypeOK /\ Below /\ LoopInv /\ TierInv /\ ErrInv /\ LoopTyped
  BY TypeParts DEF IInv, LoopInv
<1>2. /\ At(t, {"loop"}) /\ loop[t].kids \subseteq ended /\ GoesTo(t, "interp")
      /\ out' = [out EXCEPT ![t] = loop[t].slot] /\ loop' = [loop EXCEPT ![t] = NoLoop]
      /\ threshold' = threshold /\ counters' = counters /\ fns' = fns /\ flags' = flags
      /\ signal' = signal /\ exn' = exn /\ globals' = globals /\ frozen' = frozen
      /\ ended' = ended /\ failures' = failures /\ ops' = ops
  BY DEF LoopEnds, AllJoined, shared, data
<1>3. stack[t] # <<>> /\ exn[t] = None /\ signal[t] = None
  BY <1>1, <1>2, ParentsWait DEF ErrInv, ErrsAgree
<1>4. loop[t].slot \in Error \cup {None} /\ ended \subseteq Thread
  BY <1>1 DEF LoopTyped
<1>5. Moves(t, "interp")
  BY <1>2, <1>3 DEF Moves, Places
<1>6. StacksKept
  BY <1>1, <1>2, <1>5, MovesStacks DEF StaysNative
<1>7. /\ \A u \in Thread : u # t => stack'[u] = stack[u]
      /\ stack'[t] # <<>> /\ Top(t)'.at = "interp"
  BY <1>1, <1>5, MovesFacts
<1>8. /\ loop'[t] = NoLoop /\ out'[t] = loop[t].slot
      /\ \A v \in Thread : v # t => loop'[v] = loop[v] /\ out'[v] = out[v]
  BY <1>1, <1>2, TypeParts DEF LoopTyped, ErrsTyped
<1>9. /\ NoLoop \in [left : Nat, body : Fn \cup {None}, kids : SUBSET Thread,
                     slot : Error \cup {None}]
      /\ NoLoop.left = 0 /\ NoLoop.kids = {} /\ NoLoop.slot = None
  BY DEF NoLoop
<1>10. TypeOK'
  <2>1. TierTyped' /\ DataTyped' /\ (ops \in 0 .. MaxOps)'
    BY <1>1, <1>2, TypeParts DEF TierTyped, DataTyped
  <2>2. ErrsTyped'
    BY <1>1, <1>2, <1>4, TypeParts DEF ErrsTyped
  <2>3. LoopTyped'
    BY <1>1, <1>2, <1>8, <1>9 DEF LoopTyped
  <2> QED
    BY <1>6, <2>1, <2>2, <2>3, TypePartsNext DEF StacksKept
<1>11. TierInv'
  <2>1. ~At(t, {"compile", "publish"}) /\ ~At(t, {"compile", "publish"})'
    BY <1>2, <1>7 DEF At
  <2> QED
    BY <1>1, <1>2, <1>7, <2>1, TierFrame
<1>12. ErrInv'
  BY <1>1, <1>2, <1>3, <1>7, <1>8 DEF ErrInv, ErrsAgree, At, Top
<1>13. ~At(t, {"loop"})' /\ \A v \in Thread : v # t => AtSame(v, {"loop"})
  BY <1>7 DEF At, Top, AtSame
<1>14. \A u, v \in Thread : Kid(u, v)' <=> Kid(u, v) /\ v # t
  BY <1>8, <1>9 DEF Kid
<1>15. \A u \in Thread : Kid(u, t) => u \in ended /\ stack[u] = <<>>
  BY <1>1, <1>2 DEF Kid, LoopInv, EndedIsEmpty
<1>16. t \notin ended
  BY <1>1, <1>3 DEF LoopInv, EndedIsEmpty
<1>17. \A v \in Thread : Waits(v)'
  BY <1>1, <1>8, <1>9, <1>13 DEF LoopInv, Waits, AtSame
<1>18. OneParent'
  BY <1>1, <1>14 DEF LoopInv, OneParent
<1>19. Joined'
  BY <1>1, <1>3, <1>7, <1>14, <1>15 DEF LoopInv, Joined
<1>20. EndedIsEmpty'
  BY <1>1, <1>2, <1>4, <1>7, <1>16 DEF LoopInv, EndedIsEmpty
<1>21. Fresh'
  <2> SUFFICES ASSUME NEW u \in Thread \ {Main}, u \notin ended, \A v \in Thread : ~Kid(u, v)'
               PROVE  out'[u] = None
    BY <1>2 DEF Fresh
  <2>1. \A v \in Thread : ~Kid(u, v)
    BY <1>14, <1>15
  <2>2. out[u] = None /\ stack[u] = <<>>
    BY <1>1, <2>1 DEF LoopInv, Fresh, Joined
  <2> QED
    BY <1>3, <1>8, <2>2
<1>22. SlotIsFirst'
  BY <1>1, <1>2, <1>8, <1>13 DEF LoopInv, SlotIsFirst, AtSame
<1>23. SlotIsOfWorker'
  <2> SUFFICES ASSUME NEW v \in Thread
               PROVE  IF loop'[v].slot = None
                      THEN \A u \in ended : Kid(u, v)' => out'[u] = None
                      ELSE \E u \in ended : Kid(u, v)' /\ out'[u] = loop'[v].slot
    BY <1>2 DEF SlotIsOfWorker
  <2>1. \A u \in ended : u \in Thread /\ out'[u] = out[u] /\ (Kid(u, v)' <=> Kid(u, v) /\ v # t)
    BY <1>4, <1>8, <1>14, <1>16
  <2>2. CASE v = t
    BY <1>8, <1>9, <2>1, <2>2
  <2>3. CASE v # t
    <3>1. loop'[v] = loop[v]
      BY <1>8, <2>3
    <3>2. IF loop[v].slot = None THEN \A u \in ended : Kid(u, v) => out[u] = None
          ELSE \E u \in ended : Kid(u, v) /\ out[u] = loop[v].slot
      BY <1>1 DEF LoopInv, SlotIsOfWorker
    <3> QED
      BY <2>1, <2>3, <3>1, <3>2
  <2> QED
    BY <2>2, <2>3
<1> QED
  BY <1>6, <1>10, <1>11, <1>12, <1>17, <1>18, <1>19, <1>20, <1>21, <1>22, <1>23
     DEF IInv, LoopInv, StacksKept

-----------------------------------------------------------------------------
(* The theorems.                                                           *)

LEMMA InitHolds == Init => IInv
<1> SUFFICES ASSUME Init PROVE IInv
  OBVIOUS
<1>1. PICK f \in Fn : stack = [t \in Thread |-> IF t = Main THEN <<Frame(f, Entered)>> ELSE <<>>]
  BY DEF Init
<1>2. PICK e : e = Frame(f, Entered)
  OBVIOUS
<1>3. e \in Frames /\ e.at \in {"interp", "flag"}
  BY <1>2, FramesTyped, EnteredIsPlace
<1>4. PICK s : s = <<e>>
  OBVIOUS
<1>5. /\ s \in Seq(Frames) /\ s # <<>> /\ Len(s) = 1 /\ DOMAIN s = {1} /\ s[1] = e
      /\ Last(s) = e
  BY <1>3, <1>4 DEF Last
<1>6. stack = [t \in Thread |-> IF t = Main THEN s ELSE <<>>]
  BY <1>1, <1>2, <1>4
<1>7. stack[Main] = s /\ \A t \in Thread : t # Main => stack[t] = <<>>
  BY <1>6
<1>8. \A t \in Thread : ~At(t, {"compile", "publish", "native", "loop"})
  BY <1>3, <1>5, <1>7 DEF At, Top
<1>9. \A g \in Fn : Compiling(g) = {}
  BY <1>8 DEF Compiling, At
<1>10. TypeOK
  <2>1. StackTyped
    <3>1. <<>> \in Seq(Frames)
      OBVIOUS
    <3> QED
      BY <1>5, <1>6, <3>1 DEF StackTyped
  <2>2. NativeTyped
    <3>1. \A k \in DOMAIN s : s[k].at # "native"
      BY <1>3, <1>5
    <3>2. \A t \in Thread : t # Main => DOMAIN stack[t] = {}
      BY <1>7
    <3> QED
      BY <1>7, <3>1, <3>2 DEF NativeTyped
  <2>3. TierTyped
    <3>1. \A g \in Fn : PreWarmed(g, threshold) \in Nat
      BY DEF PreWarmed, Init
    <3> QED
      BY <3>1 DEF TierTyped, Init
  <2>4. ErrsTyped /\ DataTyped
    BY DEF Init, ErrsTyped, DataTyped
  <2>5. LoopTyped
    <3>1. /\ NoLoop \in [left : Nat, body : Fn \cup {None}, kids : SUBSET Thread,
                         slot : Error \cup {None}]
          /\ NoLoop.left = 0 /\ <<>> \in Seq(Error)
      BY DEF NoLoop
    <3>2. /\ loop = [t \in Thread |-> NoLoop] /\ failures = [t \in Thread |-> <<>>]
          /\ ended = {}
      BY DEF Init
    <3> QED
      BY <3>1, <3>2 DEF LoopTyped
  <2>6. ops \in 0 .. MaxOps
    BY DEF Init
  <2> QED
    BY <2>1, <2>2, <2>3, <2>4, <2>5, <2>6, TypeParts
<1>11. TierInv
  <2>1. \A g \in Fn : threshold > 0 => counters[g] < threshold
    BY DEF Init, PreWarmed
  <2>2. \A g \in Fn : ~flags[g] /\ fns[g] = "none" /\ counters[g] \in Nat /\ threshold \in Nat
    BY <1>10, TypeParts DEF Init, TierTyped
  <2>3. Stored
    BY <1>8 DEF Stored, At
  <2>4. HotIsCompiled
    BY <2>1, <2>2 DEF HotIsCompiled
  <2> QED
    BY <1>9, <2>2, <2>3, <2>4
       DEF TierInv, OneCompiler, FlaggedIsStored, Early, NativeIsCompilable
<1>12. ErrInv
  BY DEF Init, ErrInv, ErrsAgree
<1>13. LoopInv
  <2>1. /\ \A t \in Thread : loop[t].left = 0 /\ loop[t].kids = {} /\ loop[t].slot = None
        /\ ended = {} /\ \A t \in Thread : out[t] = None /\ ~At(t, {"loop"})
    BY <1>8 DEF Init, NoLoop, At
  <2>2. Below
    <3>1. Len(<<>>) = 0
      OBVIOUS
    <3>2. \A t \in Thread : Len(stack[t]) = 0 \/ Len(stack[t]) = 1
      BY <1>5, <1>7, <3>1
    <3>3. ASSUME NEW t \in Thread, NEW k \in 1 .. Len(stack[t]) - 1 PROVE FALSE
      <4>1. CASE Len(stack[t]) = 0
        BY <4>1
      <4>2. CASE Len(stack[t]) = 1
        BY <4>2
      <4> QED
        BY <3>2, <4>1, <4>2
    <3> QED
      BY <3>3 DEF Below
  <2>3. \A t \in Thread : Waits(t)
    BY <2>1 DEF Waits
  <2>4. OneParent /\ Joined /\ EndedIsEmpty /\ Fresh
    BY <1>7, <2>1 DEF OneParent, Joined, EndedIsEmpty, Fresh, Kid
  <2>5. SlotIsFirst /\ SlotIsOfWorker
    BY <2>1 DEF SlotIsFirst, SlotIsOfWorker
  <2> QED
    BY <2>2, <2>3, <2>4, <2>5 DEF LoopInv
<1> QED
  BY <1>10, <1>11, <1>12, <1>13 DEF IInv

LEMMA StutterKeeps ==
  ASSUME IInv, UNCHANGED vars
  PROVE  IInv'
<1>1. /\ threshold' = threshold /\ counters' = counters /\ fns' = fns /\ flags' = flags
      /\ stack' = stack /\ out' = out /\ signal' = signal /\ exn' = exn
      /\ globals' = globals /\ frozen' = frozen /\ loop' = loop /\ ended' = ended
      /\ failures' = failures /\ ops' = ops
  BY DEF vars, shared, errs, data, loops
<1>2. TypeOK'
  BY <1>1 DEF IInv, TypeOK
<1>3. TierInv'
  BY <1>1, TierFrame DEF IInv
<1>4. ErrInv'
  BY <1>1 DEF IInv, ErrInv, ErrsAgree, At, Top
<1>5. LoopInv'
  <2>1. LoopTyped /\ LoopInv /\ Below'
    BY <1>1, TypeParts DEF IInv, LoopInv, Below
  <2>2. \A u \in Thread : AtSame(u, {"loop"})
    BY <1>1 DEF AtSame, At, Top
  <2> QED
    BY <1>1, <2>1, <2>2, LoopFrame
<1> QED
  BY <1>2, <1>3, <1>4, <1>5 DEF IInv

LEMMA NextKeeps == IInv /\ [Next]_vars => IInv'
<1> SUFFICES ASSUME IInv, [Next]_vars PROVE IInv'
  OBVIOUS
<1>1. CASE UNCHANGED vars
  BY <1>1, StutterKeeps
<1>2. CASE Terminated
  BY <1>2, StutterKeeps DEF Terminated
<1>3. ASSUME NEW t \in Thread, ThreadStep(t) PROVE IInv'
  <2>1. ReadFlag(t) => IInv'
    BY ReadFlagKeeps
  <2>2. Lookup(t) => IInv'
    BY LookupKeeps
  <2>3. Count(t) => IInv'
    BY CountKeeps
  <2>4. Compile(t) => IInv'
    BY CompileKeeps
  <2>5. (\E f \in Fn : Call(t, f)) => IInv'
    BY CallKeeps
  <2>6. Raise(t) \/ Catch(t) \/ Return(t) \/ NativeReturn(t) => IInv'
    BY RaiseKeeps, CatchKeeps, ReturnKeeps, NativeReturnKeeps
  <2>7. (\E v \in Value : StoreGlobal(t, v)) => IInv'
    BY StoreGlobalKeeps
  <2>8. (\E n \in 1 .. Cardinality(Thread), f \in Fn : ParallelIter(t, n, f)) => IInv'
    BY ParallelIterKeeps
  <2>9. SpawnWorker(t) \/ WorkerEnds(t) \/ LoopEnds(t) => IInv'
    BY SpawnWorkerKeeps, WorkerEndsKeeps, LoopEndsKeeps
  <2> QED
    BY <1>3, <2>1, <2>2, <2>3, <2>4, <2>5, <2>6, <2>7, <2>8, <2>9 DEF ThreadStep
<1> QED
  BY <1>1, <1>2, <1>3 DEF Next

LEMMA Inductive == Spec => []IInv
BY InitHolds, NextKeeps, PTL DEF Spec

\* However many workers reach a function's threshold together, one of them compiles it,
\* once and in time; whoever sees its flag finds its entry; and workers run only below
\* a parent that waits for them in its loop.
THEOREM MachinesAreConsistent == Spec => []Consistent
<1>1. IInv => TypeOK /\ OneCompiler /\ FlaggedIsStored /\ HotIsCompiled
  BY DEF IInv, TierInv
<1>2. IInv => WorkersAreJoined
  BY ParentsWait DEF IInv, LoopInv, Joined, WorkersAreJoined, Kid
<1>3. IInv => Consistent
  BY <1>1, <1>2 DEF Consistent
<1> QED
  BY <1>3, Inductive, PTL

LEMMA OnlyLoopEndsLeaves ==
  ASSUME IInv, NEW t \in Thread, ThreadStep(t), ~LoopEnds(t), NEW u \in Thread, At(u, {"loop"})
  PROVE  stack'[u] = stack[u]
<1>1. StackTyped
  BY TypeParts DEF IInv
<1>2. \A w, s : stack' = [stack EXCEPT ![w] = s] /\ w # u => stack'[u] = stack[u]
  BY <1>1 DEF StackTyped
<1>3. \A w, at : GoesTo(w, at) /\ w # u => stack'[u] = stack[u]
  BY <1>2 DEF GoesTo
<1>4. At(t, {"flag", "lookup", "count", "compile", "publish", "interp", "native"}) => t # u
  BY DEF At
<1>5. ReadFlag(t) \/ Lookup(t) \/ Count(t) => stack'[u] = stack[u]
  BY <1>3, <1>4 DEF ReadFlag, Lookup, Count, At
<1>6. Compile(t) => stack'[u] = stack[u]
  BY <1>3, <1>4 DEF Compile, StoreAndFlag, At
<1>7. (\E f \in Fn : Call(t, f)) => stack'[u] = stack[u]
  BY <1>2, <1>4 DEF Call, Runs, At
<1>8. Raise(t) \/ Catch(t) => stack'[u] = stack[u]
  BY DEF Raise, Catch
<1>9. Return(t) \/ NativeReturn(t) => stack'[u] = stack[u]
  BY <1>2, <1>4 DEF Return, NativeReturn, At
<1>10. (\E v \in Value : StoreGlobal(t, v)) \/ WorkerEnds(t) => stack'[u] = stack[u]
  BY DEF StoreGlobal, WorkerEnds
<1>11. (\E n \in 1 .. Cardinality(Thread), f \in Fn : ParallelIter(t, n, f)) =>
         stack'[u] = stack[u]
  BY <1>3, <1>4 DEF ParallelIter, Runs, At
<1>12. SpawnWorker(t) => stack'[u] = stack[u]
  <2>1. \A w \in Unused : w # u
    BY DEF Unused, At
  <2> QED
    BY <1>2, <2>1 DEF SpawnWorker
<1> QED
  BY <1>5, <1>6, <1>7, <1>8, <1>9, <1>10, <1>11, <1>12 DEF ThreadStep

\* A loop raises the first error of its workers, and none if none of them failed.
THEOREM LoopsRaiseTheFirst == Spec => FirstErrorIsRaised
<1> DEFINE Leaves ==
      \A t \in Thread : At(t, {"loop"}) /\ ~At(t, {"loop"})' =>
        out'[t] = IF failures[t] = <<>> THEN None ELSE Head(failures[t])
<1>1. ASSUME IInv, NEW t \in Thread, LoopEnds(t) PROVE Leaves
  <2>1. TypeOK /\ Moves(t, "interp") /\ out' = [out EXCEPT ![t] = loop[t].slot]
    BY <1>1 DEF IInv, Moves, LoopEnds, Places, At
  <2>2. \A u \in Thread : u # t => stack'[u] = stack[u]
    BY <2>1, MovesFacts
  <2>3. out'[t] = loop[t].slot
    BY <2>1, TypeParts DEF ErrsTyped
  <2>4. At(t, {"loop"}) => loop[t].slot = IF failures[t] = <<>> THEN None ELSE Head(failures[t])
    BY <1>1 DEF IInv, LoopInv, SlotIsFirst
  <2> QED
    BY <2>2, <2>3, <2>4 DEF At, Top
<1>2. ASSUME IInv, NEW t \in Thread, ThreadStep(t), ~LoopEnds(t) PROVE Leaves
  BY <1>2, OnlyLoopEndsLeaves DEF At, Top
<1>3. ASSUME IInv, [Next]_vars PROVE Leaves
  <2>1. CASE UNCHANGED vars \/ Terminated
    BY <2>1 DEF vars, Terminated, At, Top
  <2> QED
    BY <1>1, <1>2, <1>3, <2>1 DEF Next
<1>4. IInv /\ [Next]_vars => [Leaves]_vars
  BY <1>3
<1> QED
  BY <1>4, Inductive, PTL DEF Spec, FirstErrorIsRaised

-----------------------------------------------------------------------------
(* The functions of a stack of calls.                                      *)

LEMMA FnsTyped ==
  ASSUME NEW s \in Seq(Frames)
  PROVE  /\ FnsOf(s) \in Seq(Fn) /\ Len(FnsOf(s)) = Len(s) /\ Len(s) \in Nat
         /\ DOMAIN FnsOf(s) = 1 .. Len(s)
         /\ \A k \in 1 .. Len(s) : FnsOf(s)[k] = s[k].fn
         /\ FnsOf(s) = <<>> <=> s = <<>>
<1>1. Len(s) \in Nat /\ DOMAIN s = 1 .. Len(s) /\ s \in [1 .. Len(s) -> Frames]
  BY LenProperties
<1>2. PICK r : r = FnsOf(s)
  OBVIOUS
<1>3. r \in [1 .. Len(s) -> Fn] /\ \A k \in 1 .. Len(s) : r[k] = s[k].fn
  BY <1>1, <1>2 DEF FnsOf, Frames
<1>4. r \in Seq(Fn)
  BY <1>1, <1>3, SeqDef
<1>5. Len(r) \in Nat /\ DOMAIN r = 1 .. Len(r)
  BY <1>4, LenProperties
<1>6. Len(r) = Len(s)
  BY <1>1, <1>3, <1>5
<1>7. r = <<>> <=> s = <<>>
  BY <1>1, <1>4, <1>6
<1> QED
  BY <1>1, <1>2, <1>3, <1>4, <1>6, <1>7

LEMMA FnsSame ==
  ASSUME NEW s \in Seq(Frames), NEW r \in Seq(Frames), Len(r) = Len(s),
         \A k \in 1 .. Len(s) : r[k].fn = s[k].fn
  PROVE  FnsOf(r) = FnsOf(s)
BY FnsTyped, SeqEqual

LEMMA FnsAppend ==
  ASSUME NEW s \in Seq(Frames), NEW r \in Seq(Frames), Len(r) = Len(s) + 1,
         \A k \in 1 .. Len(s) : r[k] = s[k]
  PROVE  FnsOf(r) = Append(FnsOf(s), r[Len(s) + 1].fn)
<1>1. PICK f \in Seq(Fn) : f = FnsOf(s)
  BY FnsTyped
<1>2. PICK g \in Seq(Fn) : g = FnsOf(r)
  BY FnsTyped
<1>3. /\ Len(f) = Len(s) /\ Len(s) \in Nat /\ Len(g) = Len(s) + 1
      /\ \A k \in 1 .. Len(s) : f[k] = s[k].fn
      /\ \A k \in 1 .. Len(s) + 1 : g[k] = r[k].fn
  BY <1>1, <1>2, FnsTyped
<1>4. PICK e \in Fn : e = r[Len(s) + 1].fn
  <2>1. Len(s) + 1 \in 1 .. Len(r)
    BY <1>3
  <2>2. r[Len(s) + 1] \in Frames
    BY <2>1, ElementOfSeq
  <2> QED
    BY <2>2 DEF Frames
<1>5. PICK h : h = Append(f, e)
  OBVIOUS
<1>6. /\ h \in Seq(Fn) /\ Len(h) = Len(s) + 1 /\ h[Len(s) + 1] = e
      /\ \A k \in 1 .. Len(s) : h[k] = f[k]
  BY <1>3, <1>5
<1>7. \A k \in 1 .. Len(g) : g[k] = h[k]
  <2> SUFFICES ASSUME NEW k \in 1 .. Len(s) + 1 PROVE g[k] = h[k]
    BY <1>3
  <2>1. CASE k = Len(s) + 1
    BY <1>3, <1>4, <1>6, <2>1
  <2>2. CASE k # Len(s) + 1
    <3>1. k \in 1 .. Len(s)
      BY <1>3, <2>2
    <3> QED
      BY <1>3, <1>6, <3>1
  <2> QED
    BY <2>1, <2>2
<1>8. g = h
  BY <1>3, <1>6, <1>7, SeqEqual
<1> QED
  BY <1>1, <1>2, <1>4, <1>5, <1>8

LEMMA FnsFront ==
  ASSUME NEW s \in Seq(Frames), s # <<>>, NEW r \in Seq(Frames), Len(r) = Len(s) - 1,
         \A k \in 1 .. Len(s) - 1 : r[k] = s[k]
  PROVE  FnsOf(r) = SubSeq(FnsOf(s), 1, Len(FnsOf(s)) - 1)
<1>1. PICK f \in Seq(Fn) : f = FnsOf(s)
  BY FnsTyped
<1>2. PICK g \in Seq(Fn) : g = FnsOf(r)
  BY FnsTyped
<1>3. /\ Len(f) = Len(s) /\ Len(s) \in Nat /\ Len(s) >= 1 /\ Len(g) = Len(s) - 1 /\ f # <<>>
      /\ \A k \in 1 .. Len(s) : f[k] = s[k].fn
      /\ \A k \in 1 .. Len(s) - 1 : g[k] = r[k].fn
  <2>1. Len(s) \in Nat /\ Len(s) >= 1
    BY EmptySeq
  <2>2. /\ Len(f) = Len(s) /\ (f = <<>> <=> s = <<>>)
        /\ \A k \in 1 .. Len(s) : f[k] = s[k].fn
    BY <1>1, FnsTyped
  <2>3. Len(g) = Len(r) /\ \A k \in 1 .. Len(r) : g[k] = r[k].fn
    BY <1>2, FnsTyped
  <2> QED
    BY <2>1, <2>2, <2>3
<1>4. PICK h : h = SubSeq(f, 1, Len(f) - 1)
  OBVIOUS
<1>5. h \in Seq(Fn) /\ Len(h) = Len(f) - 1 /\ \A k \in 1 .. Len(f) - 1 : h[k] = f[k]
  BY <1>3, <1>4, Fronts
<1>6. \A k \in 1 .. Len(g) : g[k] = h[k]
  <2> SUFFICES ASSUME NEW k \in 1 .. Len(s) - 1 PROVE g[k] = h[k]
    BY <1>3
  <2>1. k \in 1 .. Len(s)
    BY <1>3
  <2> QED
    BY <1>3, <1>5, <2>1
<1>7. g = h
  BY <1>3, <1>5, <1>6, SeqEqual
<1> QED
  BY <1>1, <1>2, <1>4, <1>7

-----------------------------------------------------------------------------
(* What the four kinds of steps do to the open calls.                      *)

LEMMA OpenCalls ==
  ASSUME TypeOK, NEW t \in Thread
  PROVE  /\ stack[t] \in Seq(Frames) /\ openCalls[t] = FnsOf(stack[t])
         /\ openCalls[t] \in Seq(Fn) /\ Len(openCalls[t]) = Len(stack[t])
         /\ openCalls[t] = <<>> <=> stack[t] = <<>>
<1>1. stack[t] \in Seq(Frames)
  BY TypeParts DEF StackTyped
<1> QED
  BY <1>1, FnsTyped DEF openCalls

LEMMA SameCalls ==
  ASSUME stack' = stack
  PROVE  openCalls' = openCalls
BY DEF openCalls

LEMMA MovesCalls ==
  ASSUME TypeOK, NEW t, NEW at, Moves(t, at)
  PROVE  openCalls' = openCalls
<1>1. t \in Thread /\ stack[t] # <<>> /\ \A u \in Thread : u # t => stack'[u] = stack[u]
  BY MovesFacts DEF Moves
<1>2. stack[t] \in Seq(Frames) /\ Len(stack[t]) \in Nat /\ Len(stack[t]) >= 1
      /\ Top(t) = stack[t][Len(stack[t])] /\ Top(t).fn \in Fn
  BY <1>1, Tops
<1>3. /\ stack'[t] \in Seq(Frames) /\ Len(stack'[t]) = Len(stack[t])
      /\ stack'[t][Len(stack[t])].fn = Top(t).fn
      /\ \A k \in 1 .. Len(stack[t]) - 1 : stack'[t][k] = stack[t][k]
  BY <1>1, <1>2, MovesFacts, FramesTyped DEF Moves
<1>4. ASSUME NEW k \in 1 .. Len(stack[t]) PROVE stack'[t][k].fn = stack[t][k].fn
  <2>1. k = Len(stack[t]) \/ k \in 1 .. Len(stack[t]) - 1
    BY <1>2
  <2> QED
    BY <1>2, <1>3, <2>1
<1>5. FnsOf(stack'[t]) = FnsOf(stack[t])
  BY <1>2, <1>3, <1>4, FnsSame
<1>6. \A u \in Thread : FnsOf(stack'[u]) = FnsOf(stack[u])
  BY <1>1, <1>5
<1> QED
  BY <1>6 DEF openCalls

LEMMA BeginsCalls ==
  ASSUME TypeOK, NEW t, NEW f, Begins(t, f)
  PROVE  openCalls' = [openCalls EXCEPT ![t] = Append(openCalls[t], f)]
<1>1. t \in Thread /\ f \in Fn /\ \A u \in Thread : u # t => stack'[u] = stack[u]
  BY BeginsFacts DEF Begins
<1>2. /\ stack[t] \in Seq(Frames) /\ stack'[t] \in Seq(Frames)
      /\ Len(stack'[t]) = Len(stack[t]) + 1
      /\ stack'[t][Len(stack[t]) + 1].fn = f
      /\ \A k \in 1 .. Len(stack[t]) : stack'[t][k] = stack[t][k]
  BY <1>1, OpenCalls, BeginsFacts, FramesTyped, EnteredIsPlace
<1>3. FnsOf(stack'[t]) = Append(FnsOf(stack[t]), f)
  BY <1>2, FnsAppend
<1>4. \A u \in Thread : u # t => FnsOf(stack'[u]) = FnsOf(stack[u])
  BY <1>1
<1> QED
  BY <1>1, <1>3, <1>4 DEF openCalls

LEMMA EndsCalls ==
  ASSUME TypeOK, NEW t, EndsCall(t)
  PROVE  openCalls' = [openCalls EXCEPT ![t] = SubSeq(openCalls[t], 1, Len(openCalls[t]) - 1)]
<1>1. t \in Thread /\ stack[t] # <<>> /\ \A u \in Thread : u # t => stack'[u] = stack[u]
  BY EndsFacts DEF EndsCall, At
<1>2. /\ stack[t] \in Seq(Frames) /\ stack'[t] \in Seq(Frames)
      /\ Len(stack'[t]) = Len(stack[t]) - 1
      /\ \A k \in 1 .. Len(stack[t]) - 1 : stack'[t][k] = stack[t][k]
  BY <1>1, OpenCalls, EndsFacts
<1>3. FnsOf(stack'[t]) = SubSeq(FnsOf(stack[t]), 1, Len(FnsOf(stack[t])) - 1)
  BY <1>1, <1>2, FnsFront
<1>4. \A u \in Thread : u # t => FnsOf(stack'[u]) = FnsOf(stack[u])
  BY <1>1
<1> QED
  BY <1>1, <1>3, <1>4 DEF openCalls

LEMMA StartsCalls ==
  ASSUME TypeOK, NEW u, NEW f, Starts(u, f)
  PROVE  openCalls' = [openCalls EXCEPT ![u] = <<f>>]
<1>1. /\ u \in Thread /\ f \in Fn /\ stack[u] = <<>>
      /\ \A t \in Thread : t # u => stack'[t] = stack[t]
      /\ stack'[u] \in Seq(Frames) /\ Len(stack'[u]) = 1 /\ stack'[u][1] = Frame(f, Entered)
  BY StartsFacts DEF Starts
<1>2. stack'[u][1].fn = f
  BY <1>1, FramesTyped, EnteredIsPlace
<1>3. PICK r : r = FnsOf(stack'[u])
  OBVIOUS
<1>4. r \in Seq(Fn) /\ Len(r) = 1 /\ r[1] = f
  BY <1>1, <1>2, <1>3, FnsTyped
<1>5. r = <<f>>
  <2>1. <<f>> \in Seq(Fn) /\ Len(<<f>>) = 1 /\ <<f>>[1] = f
    BY <1>1
  <2>2. \A k \in 1 .. Len(r) : r[k] = <<f>>[k]
    BY <1>4, <2>1
  <2> QED
    BY <1>4, <2>1, <2>2, SeqEqual
<1>6. \A t \in Thread : t # u => FnsOf(stack'[t]) = FnsOf(stack[t])
  BY <1>1
<1> QED
  BY <1>1, <1>3, <1>5, <1>6 DEF openCalls

-----------------------------------------------------------------------------
(* Errors, globals and workers as the abstract calls see them.             *)

LEMMA Failing ==
  ASSUME IInv, NEW t \in Thread
  PROVE  /\ failing[t] = IF out[t] # None THEN out[t]
                         ELSE IF signal[t] # None THEN signal[t] ELSE exn[t]
         /\ ~At(t, {"native"}) => failing[t] = out[t]
         /\ out[t] = None /\ exn[t] = None => failing[t] = None
         /\ exn[t] # None => failing[t] = IF signal[t] # None THEN signal[t] ELSE exn[t]
<1>1. ErrsAgree(t)
  BY DEF IInv, ErrInv
<1>2. failing[t] = IF out[t] # None THEN out[t]
                   ELSE IF signal[t] # None THEN signal[t] ELSE exn[t]
  BY DEF failing
<1>3. exn[t] = None => signal[t] = None
  BY <1>1 DEF ErrsAgree
<1>4. exn[t] # None => out[t] = None /\ At(t, {"native"})
  BY <1>1 DEF ErrsAgree
<1>5. exn[t] = None => failing[t] = out[t]
  BY <1>2, <1>3
<1>6. exn[t] # None => failing[t] = IF signal[t] # None THEN signal[t] ELSE exn[t]
  BY <1>2, <1>4
<1> QED
  BY <1>2, <1>4, <1>5, <1>6

LEMMA SameErrs ==
  ASSUME out' = out, signal' = signal, exn' = exn
  PROVE  failing' = failing
BY DEF failing

\* The error of thread t becomes e, that of no other thread changes.
LEMMA NewError ==
  ASSUME NEW t \in Thread, NEW e,
         e = IF out'[t] # None THEN out'[t] ELSE IF signal'[t] # None THEN signal'[t] ELSE exn'[t],
         \A u \in Thread : u # t => out'[u] = out[u] /\ signal'[u] = signal[u] /\ exn'[u] = exn[u]
  PROVE  failing' = [failing EXCEPT ![t] = e]
BY DEF failing

LEMMA SameGlobals ==
  ASSUME globals' = globals, frozen' = frozen
  PROVE  seen' = seen
BY DEF seen, Seen

LEMMA SameWorkers ==
  ASSUME loop' = loop
  PROVE  waiting' = waiting
BY DEF waiting

LEMMA Running ==
  ASSUME IInv, NEW t \in Thread, At(t, {"interp", "native"})
  PROVE  /\ C!Active(t) /\ openCalls[t] # <<>>
         /\ out[t] = None /\ exn[t] = None => failing[t] = None
<1>1. stack[t] # <<>> /\ ~At(t, {"loop"})
  BY DEF At
<1>2. loop[t].kids = {}
  BY <1>1, ParentsWait
<1> QED
  BY <1>1, <1>2, OpenCalls, Failing DEF C!Active, waiting, IInv

-----------------------------------------------------------------------------
(* Steps.                                                                  *)

LEMMA TierSteps ==
  ASSUME IInv, NEW t \in Thread, ReadFlag(t) \/ Lookup(t) \/ Count(t) \/ Compile(t)
  PROVE  UNCHANGED C!vars
<1>1. PICK at \in Places : Moves(t, at)
  <2>1. ReadFlag(t) => \E at \in Places : Moves(t, at)
    BY DEF ReadFlag, Moves, At, Places
  <2>2. Lookup(t) => \E at \in Places : Moves(t, at)
    BY DEF Lookup, Moves, At, Places
  <2>3. Count(t) => \E at \in Places : Moves(t, at)
    BY DEF Count, Moves, At, Places
  <2>4. Compile(t) => \E at \in Places : Moves(t, at)
    BY DEF Compile, StoreAndFlag, Moves, At, Places
  <2> QED
    BY <2>1, <2>2, <2>3, <2>4
<1>2. openCalls' = openCalls
  BY <1>1, MovesCalls DEF IInv
<1>3. /\ out' = out /\ signal' = signal /\ exn' = exn
      /\ globals' = globals /\ frozen' = frozen /\ loop' = loop
  BY DEF ReadFlag, Lookup, Count, Compile, errs, data, loops
<1> QED
  BY <1>2, <1>3, SameErrs, SameGlobals, SameWorkers DEF C!vars

LEMMA CallStep ==
  ASSUME IInv, NEW t \in Thread, NEW f \in Fn, Call(t, f)
  PROVE  C!Call(t, f) \/ \E e \in Error : C!Raise(t, e)
<1>1. TypeOK /\ ErrInv
  BY DEF IInv
<1>2. At(t, {"interp", "native"}) /\ out[t] = None /\ exn[t] = None
  BY <1>1, RunsFacts DEF Call
<1>3. C!Active(t) /\ failing[t] = None
  BY <1>2, Running
<1>4. seen' = seen /\ waiting' = waiting
  BY SameGlobals, SameWorkers DEF Call, data, loops
<1>5. CASE Len(stack[t]) < MaxDepth
  <2>1. Begins(t, f) /\ out' = out /\ signal' = signal /\ exn' = exn
    BY <1>2, <1>5 DEF Call, Begins, errs
  <2>2. openCalls' = [openCalls EXCEPT ![t] = Append(openCalls[t], f)]
    BY <1>1, <2>1, BeginsCalls
  <2>3. failing' = failing /\ Len(openCalls[t]) < MaxDepth
    BY <1>1, <1>5, <2>1, SameErrs, OpenCalls
  <2> QED
    BY <1>3, <1>4, <2>2, <2>3 DEF C!Call
<1>6. CASE ~(Len(stack[t]) < MaxDepth)
  <2>1. PICK e : e = [in |-> f, fatal |-> FALSE]
    OBVIOUS
  <2>2. e \in Error
    BY <2>1 DEF Error
  <2>3. Fails(t, stack[t], e) /\ stack' = stack
    BY <1>6, <2>1 DEF Call
  <2>4. stack[t] # <<>> /\ Last(stack[t]).at = "native" <=> At(t, {"native"})'
    BY <2>3 DEF At, Top
  <2>5. /\ \A u \in Thread : u # t => out'[u] = out[u] /\ signal'[u] = signal[u] /\ exn'[u] = exn[u]
        /\ \/ out'[t] = e /\ signal'[t] = None /\ exn'[t] = None
           \/ out'[t] = None /\ signal'[t] = e /\ exn'[t] = Placeholder
    BY <1>1, <2>2, <2>3, <2>4, FailsFacts
  <2>6. failing' = [failing EXCEPT ![t] = e]
    <3>1. e = IF out'[t] # None THEN out'[t]
              ELSE IF signal'[t] # None THEN signal'[t] ELSE exn'[t]
      BY <2>2, <2>5
    <3> QED
      BY <2>5, <3>1, NewError
  <2>7. openCalls' = openCalls
    BY <2>3, SameCalls
  <2> QED
    BY <1>3, <1>4, <2>2, <2>6, <2>7 DEF C!Raise
<1> QED
  BY <1>5, <1>6

LEMMA RaiseStep ==
  ASSUME IInv, NEW t \in Thread, Raise(t)
  PROVE  \E e \in Error : C!Raise(t, e)
<1>1. TypeOK /\ ErrsTyped
  BY TypeParts DEF IInv
<1>2. /\ At(t, {"interp", "native"}) /\ out[t] = None /\ exn[t] = None /\ stack[t] # <<>>
  BY <1>1, RunsFacts DEF Raise, At
<1>3. C!Active(t) /\ failing[t] = None
  BY <1>2, Running
<1>4. seen' = seen /\ waiting' = waiting /\ openCalls' = openCalls
  <2>1. globals' = globals /\ frozen' = frozen /\ loop' = loop /\ stack' = stack
    BY DEF Raise, data, loops
  <2> QED
    BY <2>1, SameGlobals, SameWorkers, SameCalls
<1>5. signal[t] = None
  BY <1>2 DEF IInv, ErrInv, ErrsAgree
<1>6. PICK e \in Error :
        \/ out' = [out EXCEPT ![t] = e] /\ signal' = signal /\ exn' = exn
        \/ exn' = [exn EXCEPT ![t] = e] /\ signal' = signal /\ out' = out
  <2>1. \A fatal \in BOOLEAN : [in |-> Top(t).fn, fatal |-> fatal] \in Error
    BY <1>1, <1>2, Tops DEF Error
  <2> QED
    BY <2>1 DEF Raise
<1>7. failing' = [failing EXCEPT ![t] = e]
  <2>1. e = IF out'[t] # None THEN out'[t] ELSE IF signal'[t] # None THEN signal'[t] ELSE exn'[t]
    BY <1>1, <1>2, <1>5, <1>6 DEF ErrsTyped
  <2>2. \A u \in Thread : u # t => out'[u] = out[u] /\ signal'[u] = signal[u] /\ exn'[u] = exn[u]
    BY <1>1, <1>6 DEF ErrsTyped
  <2> QED
    BY <2>1, <2>2, NewError
<1> QED
  BY <1>3, <1>4, <1>7 DEF C!Raise

LEMMA CatchStep ==
  ASSUME IInv, NEW t \in Thread, Catch(t)
  PROVE  C!Catch(t)
<1>1. TypeOK /\ ErrsTyped
  BY TypeParts DEF IInv
<1>2. /\ At(t, {"interp", "native"}) /\ ~At(t, {"native"}) /\ out[t] \in Catchable
      /\ out' = [out EXCEPT ![t] = None] /\ signal' = signal /\ exn' = exn
  BY DEF Catch, At
<1>3. C!Active(t) /\ failing[t] \in Catchable
  BY <1>2, Running, Failing
<1>4. seen' = seen /\ waiting' = waiting /\ openCalls' = openCalls
  <2>1. globals' = globals /\ frozen' = frozen /\ loop' = loop /\ stack' = stack
    BY DEF Catch, data, loops
  <2> QED
    BY <2>1, SameGlobals, SameWorkers, SameCalls
<1>5. signal[t] = None /\ exn[t] = None
  BY <1>2 DEF IInv, ErrInv, ErrsAgree
<1>6. failing' = [failing EXCEPT ![t] = None]
  <2>1. out'[t] = None /\ \A u \in Thread : u # t => out'[u] = out[u]
    BY <1>1, <1>2 DEF ErrsTyped
  <2> QED
    BY <1>2, <1>5, <2>1, NewError
<1> QED
  BY <1>3, <1>4, <1>6 DEF C!Catch

\* A call that ends passes on the error that it ended with, through whichever of the
\* three variables.
LEMMA LeaveStep ==
  ASSUME IInv, NEW t \in Thread, Return(t) \/ NativeReturn(t)
  PROVE  C!Leave(t)
<1>1. TypeOK /\ ErrInv /\ ErrsTyped
  BY TypeParts DEF IInv
<1>2. EndsCall(t) /\ At(t, {"interp", "native"})
  BY DEF Return, NativeReturn, EndsCall, At
<1>3. openCalls' = [openCalls EXCEPT ![t] = SubSeq(openCalls[t], 1, Len(openCalls[t]) - 1)]
  BY <1>1, <1>2, EndsCalls
<1>4. seen' = seen /\ waiting' = waiting
  BY SameGlobals, SameWorkers DEF Return, NativeReturn, data, loops
<1>5. C!Active(t)
  BY <1>2, Running
<1>6. \/ UNCHANGED errs
      \/ \E e \in Error : e = failing[t] /\ Fails(t, Front(stack[t]), e)
  <2>1. CASE Return(t)
    <3>1. failing[t] = out[t] /\ out[t] \in Error \cup {None}
      BY <1>1, <2>1, Failing DEF Return, At, ErrsTyped
    <3> QED
      BY <2>1, <3>1 DEF Return
  <2>2. CASE NativeReturn(t) /\ exn[t] # None
    <3>1. PICK e : e = IF signal[t] # None THEN signal[t] ELSE exn[t]
      OBVIOUS
    <3>2. e \in Error /\ e = failing[t]
      BY <2>2, <3>1, BehindException, Failing
    <3> QED
      BY <2>2, <3>1, <3>2 DEF NativeReturn
  <2>3. CASE NativeReturn(t) /\ exn[t] = None
    BY <2>3 DEF NativeReturn
  <2> QED
    BY <2>1, <2>2, <2>3
<1>7. ASSUME NEW e \in Error, e = failing[t], Fails(t, Front(stack[t]), e)
      PROVE  failing' = failing
  <2>1. stack[t] # <<>> /\ \A u \in Thread : u # t => stack'[u] = stack[u]
    BY <1>2, EndsTop
  <2>2. stack'[t] = Front(stack[t])
    BY <1>1, <1>2, TypeParts DEF EndsCall, StackTyped
  <2>3. PICK rest : rest = Front(stack[t])
    OBVIOUS
  <2>4. Fails(t, rest, e) /\ (rest # <<>> /\ Last(rest).at = "native" <=> At(t, {"native"})')
    BY <1>7, <2>2, <2>3 DEF At, Top
  <2>5. /\ \A u \in Thread : u # t => out'[u] = out[u] /\ signal'[u] = signal[u] /\ exn'[u] = exn[u]
        /\ \/ out'[t] = e /\ signal'[t] = None /\ exn'[t] = None
           \/ out'[t] = None /\ signal'[t] = e /\ exn'[t] = Placeholder
    BY <1>1, <2>1, <2>4, FailsFacts
  <2>6. failing' = [failing EXCEPT ![t] = e]
    <3>1. e = IF out'[t] # None THEN out'[t]
              ELSE IF signal'[t] # None THEN signal'[t] ELSE exn'[t]
      BY <2>5
    <3> QED
      BY <2>5, <3>1, NewError
  <2> QED
    BY <1>7, <2>6 DEF failing
<1>8. UNCHANGED errs => failing' = failing
  BY SameErrs DEF errs
<1> QED
  BY <1>3, <1>4, <1>5, <1>6, <1>7, <1>8 DEF C!Leave

LEMMA StoreStep ==
  ASSUME IInv, NEW t \in Thread, NEW v \in Value, StoreGlobal(t, v)
  PROVE  C!Write(t, v)
<1>1. TypeOK /\ DataTyped
  BY TypeParts DEF IInv
<1>2. At(t, {"interp", "native"}) /\ out[t] = None /\ exn[t] = None
  BY <1>1, RunsFacts DEF StoreGlobal
<1>3. C!Active(t) /\ failing[t] = None
  BY <1>2, Running
<1>4. failing' = failing /\ waiting' = waiting /\ openCalls' = openCalls
  BY SameErrs, SameWorkers, SameCalls DEF StoreGlobal, errs, loops
<1>5. globals' = [globals EXCEPT ![t] = v] /\ frozen' = [frozen EXCEPT ![t] = None]
  BY DEF StoreGlobal, Thawed
<1>6. seen' = [seen EXCEPT ![t] = v]
  <2>1. Seen(t)' = v /\ \A u \in Thread : u # t => Seen(u)' = Seen(u)
    BY <1>1, <1>5 DEF Seen, DataTyped
  <2> QED
    BY <2>1 DEF seen
<1> QED
  BY <1>3, <1>4, <1>6 DEF C!Write

LEMMA ParallelIterStep ==
  ASSUME IInv, NEW t \in Thread, NEW n, NEW body, ParallelIter(t, n, body)
  PROVE  UNCHANGED C!vars
<1>1. TypeOK /\ LoopTyped
  BY TypeParts DEF IInv
<1>2. stack[t] # <<>> /\ ~At(t, {"loop"}) /\ GoesTo(t, "loop")
  BY DEF ParallelIter, Runs, At
<1>3. Moves(t, "loop")
  BY <1>2 DEF Moves, Places
<1>4. openCalls' = openCalls
  BY <1>1, <1>3, MovesCalls
<1>5. PICK l : l = [left |-> n, body |-> body, kids |-> {}, slot |-> None]
  OBVIOUS
<1>6. loop' = [loop EXCEPT ![t] = l] /\ l.kids = {}
  BY <1>5 DEF ParallelIter
<1>7. loop[t].kids = {}
  BY <1>2, ParentsWait
<1>8. waiting' = waiting
  BY <1>1, <1>6, <1>7 DEF waiting, LoopTyped
<1>9. /\ out' = out /\ signal' = signal /\ exn' = exn
      /\ globals' = globals /\ frozen' = frozen
  BY DEF ParallelIter, errs, data
<1> QED
  BY <1>4, <1>8, <1>9, SameErrs, SameGlobals DEF C!vars

LEMMA SpawnWorkerStep ==
  ASSUME IInv, NEW t \in Thread, SpawnWorker(t)
  PROVE  \E u \in Thread, f \in Fn : C!Fork(t, u, f)
<1>1. TypeOK /\ LoopInv /\ ErrInv /\ LoopTyped /\ DataTyped
  BY TypeParts DEF IInv
<1>2. PICK u : u = CHOOSE w \in Unused : TRUE
  OBVIOUS
<1>3. /\ At(t, {"loop"}) /\ loop[t].left > 0 /\ u \in Unused
      /\ stack' = [stack EXCEPT ![u] = <<Frame(loop[t].body, Entered)>>]
      /\ globals' = [globals EXCEPT ![u] = Seen(t)]
      /\ frozen' = [frozen EXCEPT ![u] = Seen(t)]
      /\ loop' = [loop EXCEPT ![t].left = @ - 1, ![t].kids = @ \cup {u}]
      /\ UNCHANGED errs
  BY <1>2 DEF SpawnWorker
<1>4. PICK f \in Fn : f = loop[t].body
  BY <1>1, <1>3 DEF LoopTyped
<1>5. /\ u \in Thread /\ u # Main /\ u \notin ended /\ stack[u] = <<>>
      /\ \A v \in Thread : ~Kid(u, v)
  BY <1>3 DEF Unused, Kid
<1>6. stack[t] # <<>> /\ out[t] = None /\ exn[t] = None /\ u # t
  BY <1>3, <1>5, ParentsWait
<1>7. failing[t] = None /\ openCalls[t] # <<>> /\ openCalls[u] = <<>>
  BY <1>1, <1>5, <1>6, Failing, OpenCalls
<1>8. failing[u] = None
  <2>1. out[u] = None
    BY <1>1, <1>5 DEF LoopInv, Fresh
  <2>2. ~At(u, {"native"})
    BY <1>5 DEF At
  <2> QED
    BY <1>5, <2>1, <2>2, Failing
<1>9. openCalls' = [openCalls EXCEPT ![u] = <<f>>]
  <2>1. Starts(u, f)
    BY <1>3, <1>4 DEF Starts
  <2> QED
    BY <1>1, <2>1, StartsCalls
<1>10. seen' = [seen EXCEPT ![u] = seen[t]]
  <2>1. Seen(t) \in Value /\ Seen(t) # None /\ seen[t] = Seen(t)
    BY <1>1, SeenTyped DEF seen
  <2>2. Seen(u)' = Seen(t) /\ \A v \in Thread : v # u => Seen(v)' = Seen(v)
    BY <1>1, <1>3, <1>5, <2>1 DEF Seen, DataTyped
  <2> QED
    BY <1>5, <2>1, <2>2 DEF seen
<1>11. waiting' = [waiting EXCEPT ![t] = waiting[t] \cup {u}]
  <2>1. loop'[t].kids = loop[t].kids \cup {u} /\ \A v \in Thread : v # t => loop'[v] = loop[v]
    BY <1>1, <1>3 DEF LoopTyped
  <2> QED
    BY <2>1 DEF waiting
<1>12. failing' = failing
  BY <1>3, SameErrs DEF errs
<1>13. C!Fork(t, u, f)
  BY <1>5, <1>6, <1>7, <1>8, <1>9, <1>10, <1>11, <1>12 DEF C!Fork
<1> QED
  BY <1>5, <1>13

LEMMA WorkerEndsStep ==
  ASSUME IInv, NEW u \in Thread, WorkerEnds(u)
  PROVE  UNCHANGED C!vars
<1>1. LoopTyped
  BY TypeParts DEF IInv
<1>2. loop' = loop \/ \E t \in Thread : \E s : loop' = [loop EXCEPT ![t].slot = s]
  BY DEF WorkerEnds
<1>3. waiting' = waiting
  <2>1. CASE loop' = loop
    BY <2>1, SameWorkers
  <2>2. ASSUME NEW t \in Thread, NEW s, loop' = [loop EXCEPT ![t].slot = s]
        PROVE  waiting' = waiting
    <3>1. \A v \in Thread : loop'[v].kids = loop[v].kids
      BY <1>1, <2>2 DEF LoopTyped
    <3> QED
      BY <3>1 DEF waiting
  <2> QED
    BY <1>2, <2>1, <2>2
<1>4. /\ out' = out /\ signal' = signal /\ exn' = exn /\ stack' = stack
      /\ globals' = globals /\ frozen' = frozen
  BY DEF WorkerEnds, errs, data
<1> QED
  BY <1>3, <1>4, SameCalls, SameErrs, SameGlobals DEF C!vars

\* A loop goes on with an error of one of its workers, or without if none failed.
LEMMA LoopEndsStep ==
  ASSUME IInv, NEW t \in Thread, LoopEnds(t)
  PROVE  C!Join(t)
<1>1. TypeOK /\ LoopInv /\ ErrInv /\ LoopTyped /\ ErrsTyped
  BY TypeParts DEF IInv
<1>2. /\ At(t, {"loop"}) /\ loop[t].left = 0 /\ loop[t].kids \subseteq ended
      /\ GoesTo(t, "interp") /\ out' = [out EXCEPT ![t] = loop[t].slot]
      /\ loop' = [loop EXCEPT ![t] = NoLoop] /\ signal' = signal /\ exn' = exn
      /\ globals' = globals /\ frozen' = frozen
  BY DEF LoopEnds, AllJoined, data
<1>3. stack[t] # <<>> /\ out[t] = None /\ exn[t] = None
  BY <1>2, ParentsWait
<1>4. signal[t] = None
  BY <1>1, <1>3 DEF ErrInv, ErrsAgree
<1>5. openCalls[t] # <<>> /\ waiting[t] # {}
  BY <1>1, <1>2, <1>3, OpenCalls DEF LoopInv, Waits, waiting
<1>6. \A u \in waiting[t] : u \in Thread /\ u \in ended /\ stack[u] = <<>> /\ Kid(u, t)
  BY <1>1, <1>2 DEF waiting, LoopInv, EndedIsEmpty, LoopTyped, Kid
<1>7. \A u \in waiting[t] : openCalls[u] = <<>> /\ failing[u] = out[u]
  BY <1>1, <1>6, OpenCalls, Failing DEF At
<1>8. openCalls' = openCalls
  <2>1. Moves(t, "interp")
    BY <1>2, <1>3 DEF Moves, Places
  <2> QED
    BY <1>1, <2>1, MovesCalls
<1>9. waiting' = [waiting EXCEPT ![t] = {}]
  <2>1. NoLoop.kids = {}
    BY DEF NoLoop
  <2> QED
    BY <1>1, <1>2, <2>1 DEF waiting, LoopTyped
<1>10. failing' = [failing EXCEPT ![t] = loop[t].slot]
  <2>1. out'[t] = loop[t].slot /\ \A u \in Thread : u # t => out'[u] = out[u]
    BY <1>1, <1>2 DEF ErrsTyped
  <2> QED
    BY <1>2, <1>3, <1>4, <2>1, NewError
<1>11. CASE loop[t].slot = None
  <2>1. failing[t] = None
    BY <1>3, Failing
  <2>2. failing' = failing
    BY <1>10, <1>11, <2>1 DEF failing
  <2>3. \A u \in waiting[t] : failing[u] = None
    BY <1>1, <1>6, <1>7, <1>11 DEF LoopInv, SlotIsOfWorker
  <2>4. {failing[u] : u \in waiting[t]} \ {None} = {}
    BY <2>3
  <2> QED
    BY <1>5, <1>7, <1>8, <1>9, <2>2, <2>4, SameGlobals, <1>2 DEF C!Join
<1>12. CASE loop[t].slot # None
  <2>1. PICK u \in ended : Kid(u, t) /\ out[u] = loop[t].slot
    BY <1>1, <1>12 DEF LoopInv, SlotIsOfWorker
  <2>2. u \in waiting[t]
    BY <2>1 DEF Kid, waiting
  <2>3. loop[t].slot \in {failing[w] : w \in waiting[t]} \ {None}
    BY <1>7, <1>12, <2>1, <2>2
  <2> QED
    BY <1>5, <1>7, <1>8, <1>9, <1>10, <2>3, SameGlobals, <1>2 DEF C!Join
<1> QED
  BY <1>11, <1>12

-----------------------------------------------------------------------------
(* The theorem.                                                            *)

LEMMA InitRefines == Init => C!Init
<1> SUFFICES ASSUME Init PROVE C!Init
  OBVIOUS
<1>1. PICK f \in Fn : stack = [t \in Thread |-> IF t = Main THEN <<Frame(f, Entered)>> ELSE <<>>]
  BY DEF Init
<1>2. PICK v \in Value : globals = [t \in Thread |-> v]
  BY DEF Init
<1>3. FnsOf(<<Frame(f, Entered)>>) = <<f>>
  <2>1. PICK e : e = Frame(f, Entered)
    OBVIOUS
  <2>2. e \in Frames /\ e.fn = f
    BY <2>1, FramesTyped, EnteredIsPlace
  <2>3. <<e>> \in Seq(Frames) /\ Len(<<e>>) = 1 /\ <<e>>[1].fn = f
    BY <2>2
  <2>4. PICK s \in Seq(Frames) : s = <<e>>
    BY <2>3
  <2>5. PICK r : r = FnsOf(s)
    OBVIOUS
  <2>6. r \in Seq(Fn) /\ Len(r) = 1 /\ r[1] = f
    <3>1. Len(s) = 1 /\ s[1].fn = f
      BY <2>3, <2>4
    <3>2. r \in Seq(Fn) /\ Len(r) = Len(s) /\ \A k \in 1 .. Len(s) : r[k] = s[k].fn
      BY <2>5, FnsTyped
    <3> QED
      BY <3>1, <3>2
  <2>7. <<f>> \in Seq(Fn) /\ Len(<<f>>) = 1 /\ \A k \in 1 .. Len(r) : r[k] = <<f>>[k]
    BY <2>6
  <2>8. r = <<f>>
    BY <2>6, <2>7, SeqEqual
  <2> QED
    BY <2>1, <2>4, <2>5, <2>8
<1>4. FnsOf(<<>>) = <<>>
  BY EmptySeq, FnsTyped
<1>5. openCalls = [t \in Thread |-> IF t = Main THEN <<f>> ELSE <<>>]
  BY <1>1, <1>3, <1>4 DEF openCalls
<1>6. seen = [t \in Thread |-> v]
  BY <1>2 DEF seen, Seen, Init
<1>7. failing = [t \in Thread |-> None]
  BY DEF failing, Init
<1>8. waiting = [t \in Thread |-> {}]
  BY DEF waiting, Init, NoLoop
<1> QED
  BY <1>5, <1>6, <1>7, <1>8 DEF C!Init

LEMMA StepRefines == IInv /\ [Next]_vars => [C!Next]_(C!vars)
<1> SUFFICES ASSUME IInv, [Next]_vars PROVE C!Next \/ UNCHANGED C!vars
  OBVIOUS
<1>1. CASE UNCHANGED vars \/ Terminated
  <2>1. /\ out' = out /\ signal' = signal /\ exn' = exn /\ stack' = stack
        /\ globals' = globals /\ frozen' = frozen /\ loop' = loop
    BY <1>1 DEF Terminated, vars, errs, data, loops
  <2> QED
    BY <2>1, SameCalls, SameErrs, SameGlobals, SameWorkers DEF C!vars
<1>2. ASSUME NEW t \in Thread, ThreadStep(t) PROVE C!Next \/ UNCHANGED C!vars
  <2>1. ReadFlag(t) \/ Lookup(t) \/ Count(t) \/ Compile(t) => UNCHANGED C!vars
    BY TierSteps
  <2>2. (\E f \in Fn : Call(t, f)) => C!Next
    BY CallStep DEF C!Next
  <2>3. Raise(t) \/ Catch(t) => C!Next
    BY RaiseStep, CatchStep DEF C!Next
  <2>4. Return(t) \/ NativeReturn(t) => C!Next
    BY LeaveStep DEF C!Next
  <2>5. (\E v \in Value : StoreGlobal(t, v)) => C!Next
    BY StoreStep DEF C!Next
  <2>6. (\E n \in 1 .. Cardinality(Thread), f \in Fn : ParallelIter(t, n, f)) =>
          UNCHANGED C!vars
    BY ParallelIterStep
  <2>7. SpawnWorker(t) \/ LoopEnds(t) => C!Next
    BY SpawnWorkerStep, LoopEndsStep DEF C!Next
  <2>8. WorkerEnds(t) => UNCHANGED C!vars
    BY WorkerEndsStep
  <2> QED
    BY <1>2, <2>1, <2>2, <2>3, <2>4, <2>5, <2>6, <2>7, <2>8 DEF ThreadStep
<1> QED
  BY <1>1, <1>2 DEF Next

\* In every tier and across tiers, with any number of parallel workers, a program
\* behaves as one that is only interpreted.  (call_function_on_stack, the bridge of
\* native code, ParallelIter)
THEOREM TiersImplementCalls == Spec => ActsAsInterpreter
BY InitRefines, StepRefines, Inductive, PTL DEF Spec, ActsAsInterpreter, C!Spec
==============================================================================
