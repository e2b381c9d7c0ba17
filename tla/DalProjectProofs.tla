-------------------------- MODULE DalProjectProofs --------------------------
(***************************************************************************)
(* Proofs about DalProject, for every set of processes, packages and       *)
(* versions, every registry and any number of commands and faults: the     *)
(* type invariant, that locked trees are never lost, that what a command   *)
(* read stays true, that the project implements PackageStore, and that the *)
(* manifest and the lock stay a pair.                                      *)
(*                                                                         *)
(* The argument: the operation lock leaves at most one command at work     *)
(* (Exclusive), so a step has to be followed for its own process only;     *)
(* what that process has established so far is WorkAt.  A step then does   *)
(* one of four things to the verified trees and the lock (Effect), which   *)
(* are the steps of PackageStore.  dal.toml and dal.lock together need an  *)
(* invariant of their own on top of that (MInv): what is written is a good *)
(* plan, and outside a commit the pair can be recovered.                   *)
(***************************************************************************)
EXTENDS DalProject, WellFoundedInduction, TLAPS

-----------------------------------------------------------------------------
(* Constants and data.                                                     *)

\* FirstOf picks a member: any set of numbered packages has a first one.
LEMMA FirstIsMember ==
    ASSUME NEW S \in SUBSET Tree, S # {}
    PROVE  FirstOf(S) \in S
<1> DEFINE N == {t[1] : t \in S}
<1>1. \A x, y \in Nat : x < y => <<x, y>> \in OpToRel(<, Nat)
  BY Zenon DEF OpToRel
<1>2. \E R : IsWellFoundedOn(R, Nat) /\ \A x, y \in Nat : x < y => <<x, y>> \in R
  BY <1>1, NatLessThanWellFounded, Zenon
<1>3. PICK R : IsWellFoundedOn(R, Nat) /\ \A x, y \in Nat : x < y => <<x, y>> \in R
  BY <1>2
<1>4. N \subseteq Nat /\ N # {}
  BY NamesAreNumbers DEF Tree
<1>5. ASSUME NEW x \in N, \A y \in N : x <= y
      PROVE  \E t \in S : \A u \in S : t[1] <= u[1]
  BY <1>5
<1> HIDE DEF N
<1>6. IsWellFoundedOn(R, Nat)
  BY <1>3
<1>7. PICK x \in N : \A y \in N : ~(<<y, x>> \in R)
  BY <1>4, <1>6, WFMin, Zenon
<1>8. ASSUME NEW y \in N PROVE x <= y
  <2>1. x \in Nat /\ y \in Nat
    BY <1>4
  <2>2. y < x => <<y, x>> \in R
    BY <1>3, <2>1
  <2>3. ~(y < x)
    BY <1>7, <2>2
  <2>. QED  BY <2>1, <2>3
<1>9. \E t \in S : \A u \in S : t[1] <= u[1]
  BY <1>5, <1>8
<1>. QED  BY <1>9 DEF FirstOf

\* A function on some of the elements is a partial function.
LEMMA PartialIntro ==
    ASSUME NEW D, NEW R, NEW S \in SUBSET D, NEW f \in [S -> R]
    PROVE  f \in Partial(D, R)
BY DEF Partial

LEMMA PartialElim ==
    ASSUME NEW D, NEW R, NEW f \in Partial(D, R)
    PROVE  DOMAIN f \in SUBSET D /\ f \in [DOMAIN f -> R]
BY DEF Partial

LEMMA Defaults ==
    /\ NoLock \in Lock
    /\ NoManifest \in Manifest
    /\ Nothing \in Meta
    /\ NoJob \in Job
<1>1. NoLock \in Lock
  <2>1. NoLock \in [{} -> Ver]
    BY DEF NoLock
  <2>. QED  BY <2>1, PartialIntro DEF Lock
<1>2. NoManifest \in Manifest
  BY DEF Manifest
<1>3. NoJob \in Job
  BY SomePackage DEF NoJob, Job
<1>. QED  BY <1>1, <1>2, <1>3 DEF Nothing, Meta

\* The trees of a lock are trees.
LEMMA NamedTrees ==
    ASSUME NEW l \in Lock
    PROVE  Named(l) \subseteq Tree
BY PartialElim DEF Lock, Named, Tree

\* The manifest an add writes is a manifest.
LEMMA AddManifestType ==
    ASSUME NEW m \in Manifest, NEW j \in Job, NEW v \in Ver
    PROVE  AddManifest(m, j, v) \in Manifest /\ AddManifest(m, j, v) # NoManifest
<1>1. Specs(m) \in Partial(Pkg, Dep)
  <2>1. NoLock \in [{} -> Dep]
    BY DEF NoLock
  <2>. QED  BY <2>1, PartialIntro DEF Specs, Manifest
<1>2. DOMAIN Specs(m) \in SUBSET Pkg /\ Specs(m) \in [DOMAIN Specs(m) -> Dep]
  BY <1>1, PartialElim
<1>3. \A k \in DOMAIN Specs(m) : m[k] \in Dep
  <2>1. CASE m = NoManifest
    BY <2>1 DEF Specs, NoLock
  <2>2. CASE m # NoManifest
    BY <2>2, <1>2 DEF Specs
  <2>. QED  BY <2>1, <2>2
<1> DEFINE req == IF j.req # {} THEN j.req
                  ELSE IF j.pkg \in DOMAIN Specs(m) THEN m[j.pkg].req ELSE {v}
<1>4. j.pkg \in Pkg /\ req \in SUBSET Ver
  BY <1>3 DEF Job, Dep
<1> HIDE DEF req
<1> DEFINE S == DOMAIN Specs(m) \cup {j.pkg}
           f == [n \in S |-> IF n = j.pkg THEN [req |-> req, optional |-> FALSE] ELSE m[n]]
<1>5. S \in SUBSET Pkg
  BY <1>2, <1>4
<1>6. f \in [S -> Dep]
  BY <1>3, <1>4 DEF Dep
<1>7. f \in Partial(Pkg, Dep)
  <2> HIDE DEF f, S
  <2>. QED  BY <1>5, <1>6, PartialIntro
<1>8. AddManifest(m, j, v) = f
  BY DEF AddManifest, req
<1>. QED  BY <1>7, <1>8, NoManifestIsNone DEF Manifest

\* ... and so is the one a remove writes.
LEMMA RemoveManifestType ==
    ASSUME NEW m \in Manifest, NEW n, n \in DOMAIN Specs(m)
    PROVE  RemoveManifest(m, n) \in Manifest /\ RemoveManifest(m, n) # NoManifest
<1>1. m # NoManifest /\ m \in Partial(Pkg, Dep)
  BY DEF Specs, NoLock, Manifest
<1>2. DOMAIN m \in SUBSET Pkg /\ m \in [DOMAIN m -> Dep]
  BY <1>1, PartialElim
<1> DEFINE S == DOMAIN m \ {n}
<1>3. S \in SUBSET Pkg /\ RemoveManifest(m, n) \in [S -> Dep]
  BY <1>2 DEF RemoveManifest
<1>4. RemoveManifest(m, n) \in Partial(Pkg, Dep)
  BY <1>3, PartialIntro
<1>. QED  BY <1>4, NoManifestIsNone DEF Manifest

\* Pruning keeps some of the packages at the version they have.
LEMMA PruneFacts ==
    ASSUME NEW l \in Lock, NEW names
    PROVE  /\ Prune(l, names) \in Lock
           /\ Named(Prune(l, names)) \subseteq Named(l)
           /\ RemovedTrees(l, Prune(l, names)) \subseteq Tree
           /\ RemovedTrees(l, Prune(l, names)) \cap Named(Prune(l, names)) = {}
<1> DEFINE S == Reach(l, names)
<1>1. DOMAIN l \in SUBSET Pkg /\ l \in [DOMAIN l -> Ver]
  BY PartialElim DEF Lock
<1>2. S \subseteq DOMAIN l
  BY DEF Reach
<1> HIDE DEF S
<1>3. Prune(l, names) = [n \in S |-> l[n]]
  BY DEF Prune, S
<1>4. S \in SUBSET Pkg /\ Prune(l, names) \in [S -> Ver]
  BY <1>1, <1>2, <1>3
<1>5. Prune(l, names) \in Lock
  BY <1>4, PartialIntro DEF Lock
<1>6. DOMAIN Prune(l, names) = S /\ \A n \in S : Prune(l, names)[n] = l[n]
  BY <1>3
<1>. QED  BY <1>1, <1>2, <1>5, <1>6 DEF Named, RemovedTrees, Tree

-----------------------------------------------------------------------------
(* Type correctness.                                                       *)

FilesOK ==
    /\ manifest \in Manifest
    /\ lock \in Lock
    /\ kept \subseteq Manifest \ {NoManifest}
    /\ store \in [Tree -> Content]
    /\ saved \subseteq Tree \X Content
    /\ bin \subseteq Pkg

LocalsOK ==
    /\ job \in [Proc -> Job]
    /\ seen \in [Proc -> Meta]
    /\ plan \in [Proc -> Meta]
    /\ todo \in [Proc -> SUBSET Tree]
    /\ moved \in [Proc -> Content]
    /\ result \in [Proc -> {"none", "ok", "error", "crashed"}]

ControlOK ==
    /\ holder \in Proc \cup {NoProc}
    /\ pc \in [Proc -> {"idle", "acquire"} \cup Locked]
    /\ ops \in Nat
    /\ faults \in Nat

LEMMA TypeParts == TypeOK <=> FilesOK /\ LocalsOK /\ ControlOK
BY DEF TypeOK, FilesOK, LocalsOK, ControlOK

\* Steps that are half way through a tree have a tree to work on.
HasTree == \A p \in Proc : pc[p] \in {"swap", "undo", "deleting"} => todo[p] # {}

LEMMA EndTypes ==
    ASSUME TypeOK, NEW p \in Proc, NEW how \in {"ok", "error", "crashed"}, End(p, how)
    PROVE  /\ LocalsOK'
           /\ holder' \in Proc \cup {NoProc}
           /\ pc' \in [Proc -> {"idle", "acquire"} \cup Locked]
           /\ pc' = [pc EXCEPT ![p] = "idle"]
           /\ ops' \in Nat
<1>1. /\ LocalsOK
      /\ ControlOK
  BY TypeParts
<1>2. Nothing \in Meta /\ NoJob \in Job
  BY Defaults
<1>3. "absent" \in Content /\ {} \in SUBSET Tree
  BY DEF Content
<1>4. /\ holder' = NoProc
      /\ pc' = [pc EXCEPT ![p] = "idle"]
      /\ ops' = ops
      /\ job' = [job EXCEPT ![p] = NoJob]
      /\ seen' = [seen EXCEPT ![p] = Nothing]
      /\ plan' = [plan EXCEPT ![p] = Nothing]
      /\ todo' = [todo EXCEPT ![p] = {}]
      /\ moved' = [moved EXCEPT ![p] = "absent"]
      /\ result' = [result EXCEPT ![p] = how]
  BY DEF End, Goto
<1>5. LocalsOK'
  BY <1>1, <1>2, <1>3, <1>4 DEF LocalsOK
<1>. QED  BY <1>1, <1>4, <1>5 DEF ControlOK

LEMMA BackupTypes ==
    ASSUME TypeOK, NEW p \in Proc
    PROVE  BackupOf(p) \subseteq Manifest \ {NoManifest}
<1>1. seen[p] \in Meta
  BY DEF TypeOK
<1>. QED  BY <1>1 DEF BackupOf, Meta

LEMMA FirstOfWork ==
    ASSUME TypeOK, NEW p \in Proc, todo[p] # {}
    PROVE  FirstOf(todo[p]) \in todo[p] /\ FirstOf(todo[p]) \in Tree
<1>1. todo[p] \in SUBSET Tree
  BY DEF TypeOK
<1>. QED  BY <1>1, FirstIsMember

\* Stepping from one label to another.
LEMMA GotoTypes ==
    ASSUME TypeOK, NEW p \in Proc, NEW label \in Locked \cup {"acquire"}, Goto(p, label)
    PROVE  pc' \in [Proc -> {"idle", "acquire"} \cup Locked]
BY DEF TypeOK, Goto

LEMMA TypeStep ==
    ASSUME TypeOK, HasTree, [Next]_vars
    PROVE  TypeOK'
<1>1. FilesOK /\ LocalsOK /\ ControlOK
  BY TypeParts
<1> SUFFICES FilesOK' /\ LocalsOK' /\ ControlOK'
  BY TypeParts, PTL
<1>2. \A p \in Proc : todo[p] # {} => FirstOf(todo[p]) \in Tree
  BY FirstOfWork
<1>3. \A p \in Proc, how \in {"ok", "error", "crashed"} : End(p, how) =>
          /\ LocalsOK'
          /\ holder' \in Proc \cup {NoProc}
          /\ pc' \in [Proc -> {"idle", "acquire"} \cup Locked]
          /\ ops' \in Nat
  BY EndTypes
<1>4. \A p \in Proc, label \in Locked \cup {"acquire"} :
          Goto(p, label) => pc' \in [Proc -> {"idle", "acquire"} \cup Locked]
  BY GotoTypes
<1>5. {"read", "install", "swap", "undo", "backup", "first", "second", "rollback",
       "drop", "cli", "delete", "deleting"} = Locked
  BY DEF Locked
<1>6. Content = {"absent", "verified", "partial"}
  BY DEF Content
<1>7. CASE UNCHANGED vars
  BY <1>1, <1>7 DEF vars, FilesOK, LocalsOK, ControlOK
<1>8. ASSUME NEW p \in Proc, NEW j \in Requests, Begin(p, j)
      PROVE  FilesOK' /\ LocalsOK' /\ ControlOK'
  <2>1. j \in Job
    BY CommandLines DEF Job
  <2>. QED  BY <1>1, <1>4, <1>8, <2>1 DEF Begin, files, FilesOK, LocalsOK, ControlOK
<1>9. ASSUME NEW p \in Proc, Acquire(p)
      PROVE  FilesOK' /\ LocalsOK' /\ ControlOK'
  BY <1>1, <1>4, <1>5, <1>9 DEF Acquire, files, FilesOK, LocalsOK, ControlOK
<1>10. ASSUME NEW p \in Proc, AddRead(p)
       PROVE  FilesOK' /\ LocalsOK' /\ ControlOK'
  <2>1. CASE End(p, "error")
    BY <1>1, <1>3, <1>10, <2>1 DEF AddRead, files, FilesOK, LocalsOK, ControlOK
  <2>2. CASE ~End(p, "error")
    <3>1. PICK g \in Lock :
             /\ seen' = [seen EXCEPT ![p] = [manifest |-> manifest, lock |-> lock]]
             /\ Solves(g, AddRoots(manifest, job[p]))
             /\ plan' = [plan EXCEPT ![p] =
                   [manifest |-> AddManifest(manifest, job[p], g[job[p].pkg]), lock |-> g]]
             /\ todo' = [todo EXCEPT ![p] = Named(g)]
             /\ Goto(p, "install")
             /\ UNCHANGED <<holder, job, moved, result, ops>>
      BY <1>10, <2>2 DEF AddRead
    <3>2. [manifest |-> manifest, lock |-> lock] \in Meta
      BY <1>1 DEF FilesOK, Meta
    <3>3. job[p] \in Job /\ manifest \in Manifest
      BY <1>1 DEF LocalsOK, FilesOK
    <3>4. g[job[p].pkg] \in Ver
      <4>1. job[p].pkg \in DOMAIN g
        BY <3>1, <3>3 DEF Solves, AddRoots
      <4>. QED  BY <4>1, PartialElim DEF Lock
    <3>5. [manifest |-> AddManifest(manifest, job[p], g[job[p].pkg]), lock |-> g] \in Meta
      BY <3>3, <3>4, AddManifestType DEF Meta
    <3>6. Named(g) \in SUBSET Tree
      BY NamedTrees
    <3>7. LocalsOK'
      BY <1>1, <3>1, <3>2, <3>5, <3>6 DEF LocalsOK
    <3>. QED  BY <1>1, <1>4, <1>5, <1>10, <3>1, <3>7 DEF AddRead, files, FilesOK, ControlOK
  <2>. QED  BY <2>1, <2>2
<1>11. ASSUME NEW p \in Proc, Install(p)
       PROVE  FilesOK' /\ LocalsOK' /\ ControlOK'
  BY <1>1, <1>2, <1>4, <1>5, <1>6, <1>11 DEF Install, FilesOK, LocalsOK, ControlOK
<1>12. ASSUME NEW p \in Proc, InstallDiffers(p)
       PROVE  FilesOK' /\ LocalsOK' /\ ControlOK'
  BY <1>1, <1>3, <1>12 DEF InstallDiffers, files, FilesOK, ControlOK
<1>13. ASSUME NEW p \in Proc, Swap(p)
       PROVE  FilesOK' /\ LocalsOK' /\ ControlOK'
  BY <1>1, <1>4, <1>5, <1>6, <1>13 DEF Swap, FilesOK, LocalsOK, ControlOK
<1>14. ASSUME NEW p \in Proc, SwapFails(p)
       PROVE  FilesOK' /\ LocalsOK' /\ ControlOK'
  BY <1>1, <1>4, <1>5, <1>14 DEF SwapFails, Fault, files, FilesOK, LocalsOK, ControlOK
<1>15. ASSUME NEW p \in Proc, Undo(p)
       PROVE  FilesOK' /\ LocalsOK' /\ ControlOK'
  <2>1. moved[p] \in Content
    BY <1>1 DEF LocalsOK
  <2>. QED  BY <1>1, <1>3, <1>15, <2>1 DEF Undo, FilesOK, ControlOK
<1>16. ASSUME NEW p \in Proc, UndoFails(p)
       PROVE  FilesOK' /\ LocalsOK' /\ ControlOK'
  <2>1. moved[p] \in Content
    BY <1>1 DEF LocalsOK
  <2>2. FirstOf(todo[p]) \in Tree
    BY <1>2, <1>16 DEF UndoFails, HasTree
  <2>3. saved' \subseteq Tree \X Content
    BY <1>1, <1>16, <2>1, <2>2 DEF UndoFails, FilesOK
  <2>. QED  BY <1>1, <1>3, <1>16, <2>3 DEF UndoFails, Fault, FilesOK, ControlOK
<1>17. ASSUME NEW p \in Proc, Installed(p)
       PROVE  FilesOK' /\ LocalsOK' /\ ControlOK'
  BY <1>1, <1>4, <1>5, <1>17 DEF Installed, files, FilesOK, LocalsOK, ControlOK
<1>18. ASSUME NEW p \in Proc, RemoveRead(p)
       PROVE  FilesOK' /\ LocalsOK' /\ ControlOK'
  <2> DEFINE n == job[p].pkg
             names == DOMAIN Specs(manifest) \ {n}
             new == Prune(lock, names)
  <2>1. CASE n \in DOMAIN Specs(manifest) /\ CanPrune(lock, names)
    <3>1. manifest \in Manifest /\ lock \in Lock
      BY <1>1 DEF FilesOK
    <3>2. [manifest |-> manifest, lock |-> lock] \in Meta
      BY <3>1 DEF Meta
    <3>3. new \in Lock /\ RemovedTrees(lock, new) \in SUBSET Tree
      BY <3>1, PruneFacts
    <3>4. RemoveManifest(manifest, n) \in Manifest
      BY <2>1, <3>1, RemoveManifestType
    <3>5. [manifest |-> RemoveManifest(manifest, n), lock |-> new] \in Meta
      BY <3>3, <3>4 DEF Meta
    <3>6. /\ seen' = [seen EXCEPT ![p] = [manifest |-> manifest, lock |-> lock]]
          /\ plan' = [plan EXCEPT ![p] =
                [manifest |-> RemoveManifest(manifest, n), lock |-> new]]
          /\ todo' = [todo EXCEPT ![p] = RemovedTrees(lock, new)]
          /\ Goto(p, "backup")
          /\ UNCHANGED <<holder, job, moved, result, ops>>
      BY <1>18, <2>1 DEF RemoveRead
    <3> HIDE DEF n, new
    <3>7. LocalsOK'
      BY <1>1, <3>2, <3>3, <3>5, <3>6 DEF LocalsOK
    <3>. QED  BY <1>1, <1>4, <1>5, <1>18, <3>6, <3>7 DEF RemoveRead, files, FilesOK, ControlOK
  <2>2. CASE ~(n \in DOMAIN Specs(manifest) /\ CanPrune(lock, names))
    BY <1>1, <1>3, <1>18, <2>2 DEF RemoveRead, files, FilesOK, ControlOK
  <2>. QED  BY <2>1, <2>2
<1>19. ASSUME NEW p \in Proc, Delete(p)
       PROVE  FilesOK' /\ LocalsOK' /\ ControlOK'
  BY <1>1, <1>4, <1>5, <1>6, <1>19 DEF Delete, FilesOK, LocalsOK, ControlOK
<1>20. ASSUME NEW p \in Proc, Deleting(p)
       PROVE  FilesOK' /\ LocalsOK' /\ ControlOK'
  BY <1>1, <1>4, <1>5, <1>6, <1>20 DEF Deleting, FilesOK, LocalsOK, ControlOK
<1>21. ASSUME NEW p \in Proc, Deleted(p)
       PROVE  FilesOK' /\ LocalsOK' /\ ControlOK'
  BY <1>1, <1>3, <1>21 DEF Deleted, files, FilesOK, ControlOK
<1>22. ASSUME NEW p \in Proc, Backup(p) \/ DropBackup(p)
       PROVE  FilesOK' /\ LocalsOK' /\ ControlOK'
  BY <1>1, <1>4, <1>5, <1>22 DEF Backup, DropBackup, files, FilesOK, LocalsOK, ControlOK
<1>23. ASSUME NEW p \in Proc, WriteFirst(p) \/ WriteSecond(p)
       PROVE  FilesOK' /\ LocalsOK' /\ ControlOK'
  <2>1. plan[p].manifest \in Manifest /\ plan[p].lock \in Lock
    BY <1>1 DEF LocalsOK, Meta
  <2>. QED  BY <1>1, <1>4, <1>5, <1>23, <2>1
            DEF WriteFirst, WriteSecond, FilesOK, LocalsOK, ControlOK
<1>24. ASSUME NEW p \in Proc, WriteSecondFails(p)
       PROVE  FilesOK' /\ LocalsOK' /\ ControlOK'
  BY <1>1, <1>4, <1>5, <1>24 DEF WriteSecondFails, Fault, files, FilesOK, LocalsOK, ControlOK
<1>25. ASSUME NEW p \in Proc, Rollback(p)
       PROVE  FilesOK' /\ LocalsOK' /\ ControlOK'
  <2>1. seen[p].manifest \in Manifest
    BY <1>1 DEF LocalsOK, Meta
  <2>. QED  BY <1>1, <1>3, <1>25, <2>1 DEF Rollback, FilesOK, ControlOK
<1>26. ASSUME NEW p \in Proc, RollbackFails(p) \/ DropBackupFails(p)
       PROVE  FilesOK' /\ LocalsOK' /\ ControlOK'
  <2>1. kept' = kept \cup BackupOf(p)
    BY <1>26 DEF RollbackFails, DropBackupFails
  <2>2. kept' \subseteq Manifest \ {NoManifest}
    BY <1>1, <2>1, BackupTypes DEF FilesOK
  <2>. QED  BY <1>1, <1>3, <1>26, <2>2
            DEF RollbackFails, DropBackupFails, Fault, FilesOK, ControlOK
<1>27. ASSUME NEW p \in Proc, Cli(p)
       PROVE  FilesOK' /\ LocalsOK' /\ ControlOK'
  <2>1. bin' \subseteq Pkg
    <3>1. job[p].pkg \in Pkg
      BY <1>1 DEF LocalsOK, Job
    <3>. QED  BY <1>1, <1>27, <3>1 DEF Cli, FilesOK
  <2>. QED  BY <1>1, <1>3, <1>4, <1>5, <1>27, <2>1 DEF Cli, FilesOK, LocalsOK, ControlOK
<1>28. ASSUME NEW p \in Proc, StepFails(p)
       PROVE  FilesOK' /\ LocalsOK' /\ ControlOK'
  BY <1>1, <1>3, <1>28 DEF StepFails, Fail, Fault, files, FilesOK, ControlOK
<1>29. ASSUME NEW p \in Proc, Crash(p)
       PROVE  FilesOK' /\ LocalsOK' /\ ControlOK'
  <2>1. moved[p] \in Content
    BY <1>1 DEF LocalsOK
  <2>2. saved' \subseteq Tree \X Content
    BY <1>1, <1>2, <1>29, <2>1 DEF Crash, HasTree, FilesOK
  <2>3. kept' \subseteq Manifest \ {NoManifest}
    BY <1>1, <1>29, BackupTypes DEF Crash, FilesOK
  <2>. QED  BY <1>1, <1>3, <1>29, <2>2, <2>3 DEF Crash, Fault, FilesOK, ControlOK
<1>. QED
  BY <1>7, <1>8, <1>9, <1>10, <1>11, <1>12, <1>13, <1>14, <1>15, <1>16, <1>17, <1>18,
     <1>19, <1>20, <1>21, <1>22, <1>23, <1>24, <1>25, <1>26, <1>27, <1>28, <1>29
  DEF Next, Step, Add, Remove, Commit

-----------------------------------------------------------------------------
(* One command at a time, and what it has established so far.              *)

Exclusive == \A p \in Proc : pc[p] \in Locked => holder = p

\* A verified copy of the tree is somewhere on disk (Copies, spelled out).
Held(t) ==
    \/ store[t] = "verified"
    \/ \E p \in Proc : pc[p] \in {"swap", "undo"} /\ FirstOf(todo[p]) = t /\ moved[p] = "verified"
    \/ <<t, "verified">> \in saved

WorkAt(p) ==
    /\ pc[p] \in {"install", "swap", "undo"} =>
          /\ job[p].kind = "add"
          /\ \A t \in Named(plan[p].lock) \ todo[p] : store[t] = "verified"
    /\ pc[p] \in {"swap", "undo", "deleting"} => todo[p] # {}
    /\ pc[p] \in {"swap", "undo"} => store[FirstOf(todo[p])] = "absent"
    /\ pc[p] \in {"backup", "first", "second"} => \A t \in Named(plan[p].lock) : Held(t)
    /\ pc[p] \in {"install", "swap", "undo", "backup", "first"} =>
          manifest = seen[p].manifest /\ lock = seen[p].lock
    /\ pc[p] \in {"drop", "cli", "delete", "deleting"} => lock = plan[p].lock
    /\ pc[p] \in {"delete", "deleting"} => job[p].kind = "remove"
    /\ pc[p] \in {"backup", "first", "second", "drop", "cli", "delete", "deleting"}
          /\ job[p].kind = "remove" => todo[p] \cap Named(plan[p].lock) = {}

LockHeld == \A t \in Named(lock) : Held(t)

IInv ==
    /\ TypeOK
    /\ Exclusive
    /\ \A p \in Proc : WorkAt(p)
    /\ LockHeld

LEMMA HeldIsCopied == \A t : Held(t) <=> "verified" \in Copies(t)
<1>1. "verified" \in Content
  BY DEF Content
<1>. QED  BY <1>1 DEF Held, Copies

LEMMA WorkHasTree == (\A p \in Proc : WorkAt(p)) => HasTree
BY DEF WorkAt, HasTree

\* While one command works under the lock no other does.
LEMMA Alone ==
    ASSUME TypeOK, Exclusive, NEW p \in Proc, pc[p] \in Locked
    PROVE  \A q \in Proc : q # p => pc[q] \notin Locked
BY DEF Exclusive

\* What is held, as seen by the one command at work.
HeldBy(p, t) ==
    \/ store[t] = "verified"
    \/ pc[p] \in {"swap", "undo"} /\ FirstOf(todo[p]) = t /\ moved[p] = "verified"
    \/ <<t, "verified">> \in saved

LEMMA HeldAlone ==
    ASSUME NEW p \in Proc, \A q \in Proc : q # p => pc[q] \notin Locked
    PROVE  \A t : Held(t) <=> HeldBy(p, t)
BY DEF Held, HeldBy, Locked

\* A step of the command at work leaves the others where they are.
LEMMA StillAlone ==
    ASSUME TypeOK, NEW p \in Proc, \A q \in Proc : q # p => pc[q] \notin Locked,
           NEW label, Goto(p, label)
    PROVE  /\ \A q \in Proc : q # p => pc'[q] \notin Locked
           /\ pc'[p] = label
BY DEF TypeOK, Goto

-----------------------------------------------------------------------------
(* What a step does to the verified trees and the lock.                    *)

HeldTrees == {t \in Tree : Held(t)}

Effect ==
    \/ HeldTrees' = HeldTrees /\ lock' = lock
    \/ \E t \in Tree : HeldTrees' = HeldTrees \cup {t} /\ lock' = lock
    \/ \E t \in Tree \ Named(lock) : HeldTrees' = HeldTrees \ {t} /\ lock' = lock
    \/ HeldTrees' = HeldTrees /\ lock' \in Lock /\ Named(lock') \subseteq HeldTrees

\* A step that ends the command and keeps every file, or restores what it moved.
LEMMA EndStep ==
    ASSUME IInv, NEW p \in Proc, pc[p] \in Locked, NEW how \in {"ok", "error", "crashed"},
           End(p, how), lock' = lock,
           \A t \in Tree : HeldBy(p, t) <=> store'[t] = "verified" \/ <<t, "verified">> \in saved'
    PROVE  Effect /\ Exclusive' /\ \A q \in Proc : WorkAt(q)'
<1>1. \A q \in Proc : q # p => pc[q] \notin Locked
  BY Alone DEF IInv
<1>2. Goto(p, "idle")
  BY DEF End
<1>3. \A q \in Proc : pc'[q] \notin Locked
  <2>1. "idle" \notin Locked
    BY DEF Locked
  <2>. QED  BY <1>1, <1>2, <2>1, StillAlone DEF IInv
<1>4. Exclusive'
  BY <1>3 DEF Exclusive
<1>5. \A q \in Proc : WorkAt(q)'
  BY <1>3 DEF WorkAt, Locked
<1>6. \A t \in Tree : Held(t) <=> HeldBy(p, t)
  BY <1>1, HeldAlone
<1>7. \A t \in Tree : Held(t)' <=> store'[t] = "verified" \/ <<t, "verified">> \in saved'
  BY <1>3 DEF Held, Locked
<1>8. HeldTrees' = HeldTrees
  BY <1>6, <1>7 DEF HeldTrees
<1>. QED  BY <1>4, <1>5, <1>8 DEF Effect

\* A step to another label: what is held afterwards is what the same process holds.
LEMMA GotoStep ==
    ASSUME IInv, NEW p \in Proc, pc[p] \in Locked, NEW label \in Locked,
           pc'[p] = label, \A q \in Proc : q # p => pc'[q] = pc[q],
           holder' = holder
    PROVE  /\ Exclusive'
           /\ \A q \in Proc : q # p => WorkAt(q)'
           /\ \A t : Held(t) <=> HeldBy(p, t)
           /\ \A t : Held(t)' <=> HeldBy(p, t)'
<1>1. \A q \in Proc : q # p => pc[q] \notin Locked
  BY Alone DEF IInv
<1>2. \A q \in Proc : q # p => pc'[q] \notin Locked
  BY <1>1
<1>3. Exclusive'
  BY <1>2 DEF Exclusive, IInv
<1>4. \A q \in Proc : q # p => WorkAt(q)'
  BY <1>2 DEF WorkAt, Locked
<1>5. \A t : Held(t)' <=> HeldBy(p, t)'
  BY <1>2 DEF Held, HeldBy, Locked
<1>. QED  BY <1>1, <1>3, <1>4, <1>5, HeldAlone

-----------------------------------------------------------------------------
(* Every step, seen from the one process that takes it.                    *)

Kept == Effect /\ Exclusive' /\ \A q \in Proc : WorkAt(q)'

\* The steps a process takes without the operation lock, and stuttering.
LEMMA KeptOutside ==
    ASSUME IInv, UNCHANGED vars \/ \E p \in Proc : (\E j \in Requests : Begin(p, j)) \/ Acquire(p)
    PROVE  Kept
<1>1. /\ lock' = lock /\ manifest' = manifest /\ store' = store /\ saved' = saved
      /\ moved' = moved /\ todo' = todo /\ plan' = plan /\ seen' = seen
  BY DEF vars, Begin, Acquire, files
<1>2. CASE UNCHANGED vars
  <2>1. pc' = pc /\ job' = job /\ holder' = holder
    BY <1>2 DEF vars
  <2>2. \A t : Held(t)' <=> Held(t)
    BY <1>1, <2>1 DEF Held
  <2>3. HeldTrees' = HeldTrees
    BY <2>2 DEF HeldTrees
  <2>4. \A q \in Proc : WorkAt(q)'
    BY <1>1, <2>1, <2>2 DEF IInv, WorkAt
  <2>. QED  BY <1>1, <2>1, <2>3, <2>4 DEF Kept, Effect, IInv, Exclusive
<1>3. CASE \E p \in Proc : (\E j \in Requests : Begin(p, j)) \/ Acquire(p)
  <2>1. PICK p \in Proc : (\E j \in Requests : Begin(p, j)) \/ Acquire(p)
    BY <1>3
  <2>2. /\ pc[p] \in {"idle", "acquire"} /\ pc'[p] \in {"acquire", "read"}
        /\ \A q \in Proc : q # p => pc'[q] = pc[q] /\ job'[q] = job[q]
    BY <2>1 DEF Begin, Acquire, Goto, IInv, TypeOK
  <2>3. \A t : Held(t)' <=> Held(t)
    BY <1>1, <2>2 DEF Held
  <2>4. HeldTrees' = HeldTrees
    BY <2>3 DEF HeldTrees
  <2>5. \A q \in Proc : WorkAt(q)'
    <3> TAKE q \in Proc
    <3>1. CASE q = p
      BY <2>2, <3>1 DEF WorkAt
    <3>2. CASE q # p
      <4>1. pc'[q] = pc[q] /\ job'[q] = job[q] /\ WorkAt(q)
        BY <2>2, <3>2 DEF IInv
      <4>. QED  BY <1>1, <2>3, <4>1 DEF WorkAt
    <3>. QED  BY <3>1, <3>2
  <2>6. Exclusive'
    <3>1. CASE Acquire(p) /\ holder = NoProc
      <4>1. \A q \in Proc : pc[q] \notin Locked
        BY <3>1, NoProcIsNone DEF IInv, Exclusive
      <4>2. holder' = p
        BY <3>1 DEF Acquire
      <4>. QED  BY <2>2, <4>1, <4>2 DEF Exclusive
    <3>2. CASE ~Acquire(p)
      <4>1. holder' = holder /\ pc'[p] = "acquire"
        BY <2>1, <3>2 DEF Begin, Goto, IInv, TypeOK
      <4>. QED  BY <2>2, <4>1 DEF IInv, Exclusive, Locked
    <3>. QED  BY <3>1, <3>2 DEF Acquire, OperationLockFree
  <2>. QED  BY <1>1, <2>4, <2>5, <2>6 DEF Kept, Effect
<1>. QED  BY <1>2, <1>3

\* Steps that end the command without moving a tree out of sight.
LEMMA KeptEnding ==
    ASSUME IInv, NEW p \in Proc,
           \/ AddRead(p) /\ End(p, "error")
           \/ RemoveRead(p) /\ End(p, "error")
           \/ InstallDiffers(p) \/ Undo(p) \/ UndoFails(p) \/ Deleted(p)
           \/ Rollback(p) \/ RollbackFails(p) \/ DropBackupFails(p)
           \/ Cli(p) /\ End(p, "ok")
           \/ StepFails(p) \/ Crash(p)
    PROVE  Kept
<1>1. TypeOK /\ WorkAt(p)
  BY DEF IInv
<1>2. pc[p] \in Locked
  BY DEF AddRead, RemoveRead, InstallDiffers, Undo, UndoFails, Deleted, Rollback,
         RollbackFails, DropBackupFails, Cli, StepFails, Crash, Locked
<1>3. \E how \in {"ok", "error", "crashed"} : End(p, how)
  BY DEF InstallDiffers, Undo, UndoFails, Deleted, Rollback, RollbackFails,
         DropBackupFails, StepFails, Fail, Crash
<1>4. lock' = lock
  BY DEF AddRead, RemoveRead, InstallDiffers, Undo, UndoFails, Deleted, Rollback,
         RollbackFails, DropBackupFails, Cli, StepFails, Fail, Crash, files
<1>5. \A t \in Tree : HeldBy(p, t) <=> store'[t] = "verified" \/ <<t, "verified">> \in saved'
  <2>1. CASE pc[p] \notin {"swap", "undo"}
    <3>1. store' = store /\ saved' = saved
      BY <2>1 DEF AddRead, RemoveRead, InstallDiffers, Undo, UndoFails, Deleted, Rollback,
                  RollbackFails, DropBackupFails, Cli, StepFails, Fail, Crash, files
    <3>. QED  BY <2>1, <3>1 DEF HeldBy
  <2>2. CASE pc[p] \in {"swap", "undo"} /\ (UndoFails(p) \/ Crash(p))
    <3>1. store' = store /\ saved' = saved \cup {<<FirstOf(todo[p]), moved[p]>>}
      BY <2>2 DEF UndoFails, Crash
    <3>. QED  BY <2>2, <3>1 DEF HeldBy
  <2>3. CASE Undo(p)
    <3>1. FirstOf(todo[p]) \in Tree
      BY <1>1, <2>3, FirstOfWork DEF Undo, WorkAt
    <3>2. /\ pc[p] = "undo" /\ saved' = saved
          /\ store' = [store EXCEPT ![FirstOf(todo[p])] = moved[p]]
      BY <2>3 DEF Undo
    <3>3. store[FirstOf(todo[p])] = "absent"
      BY <1>1, <3>2 DEF WorkAt
    <3>. QED  BY <1>1, <3>1, <3>2, <3>3 DEF HeldBy, TypeOK
  <2>. QED
    BY <2>1, <2>2, <2>3 DEF AddRead, RemoveRead, InstallDiffers, Undo, UndoFails, Deleted,
       Rollback, RollbackFails, DropBackupFails, Cli, StepFails, Crash
<1>. QED  BY <1>2, <1>3, <1>4, <1>5, EndStep DEF Kept

\* The conclusion of GotoStep, in the form the steps below use it.
LEMMA KeptIf ==
    ASSUME IInv, NEW p \in Proc, pc[p] \in Locked, NEW label \in Locked,
           Goto(p, label), holder' = holder, WorkAt(p)',
           (\A t : Held(t) <=> HeldBy(p, t)) /\ (\A t : Held(t)' <=> HeldBy(p, t)') => Effect
    PROVE  Kept
<1>1. pc'[p] = label /\ \A q \in Proc : q # p => pc'[q] = pc[q]
  BY DEF IInv, TypeOK, Goto
<1>. QED  BY <1>1, GotoStep DEF Kept

\* Reading the metadata and planning what to write.
LEMMA KeptReading ==
    ASSUME IInv, NEW p \in Proc,
           \/ AddRead(p) /\ ~End(p, "error")
           \/ RemoveRead(p) /\ ~End(p, "error")
    PROVE  Kept
<1>1. TypeOK /\ pc[p] = "read" /\ pc[p] \in Locked
  BY DEF IInv, AddRead, RemoveRead, Locked
<1>2. manifest' = manifest /\ lock' = lock /\ store' = store /\ saved' = saved
  BY DEF AddRead, RemoveRead, files
<1>3. CASE AddRead(p) /\ ~End(p, "error")
  <2>1. PICK g \in Lock :
           /\ seen' = [seen EXCEPT ![p] = [manifest |-> manifest, lock |-> lock]]
           /\ plan' = [plan EXCEPT ![p] =
                 [manifest |-> AddManifest(manifest, job[p], g[job[p].pkg]), lock |-> g]]
           /\ todo' = [todo EXCEPT ![p] = Named(g)]
           /\ Goto(p, "install")
           /\ UNCHANGED <<holder, job, moved, result, ops>>
    BY <1>3 DEF AddRead
  <2>2. /\ pc'[p] = "install" /\ todo'[p] = Named(g) /\ plan'[p].lock = g
        /\ seen'[p].manifest = manifest /\ seen'[p].lock = lock /\ job' = job
    BY <1>1, <2>1 DEF Goto, TypeOK
  <2>3. WorkAt(p)'
    BY <1>2, <1>3, <2>2 DEF WorkAt, AddRead
  <2>4. \A t : HeldBy(p, t)' <=> HeldBy(p, t)
    BY <1>1, <1>2, <2>2 DEF HeldBy
  <2>5. (\A t : Held(t) <=> HeldBy(p, t)) /\ (\A t : Held(t)' <=> HeldBy(p, t)') => Effect
    BY <1>2, <2>4 DEF Effect, HeldTrees
  <2>6. "install" \in Locked
    BY DEF Locked
  <2>. QED  BY <1>1, <2>1, <2>3, <2>5, <2>6, KeptIf
<1>4. CASE RemoveRead(p) /\ ~End(p, "error")
  <2> DEFINE n == job[p].pkg
             names == DOMAIN Specs(manifest) \ {n}
             new == Prune(lock, names)
  <2>1. /\ seen' = [seen EXCEPT ![p] = [manifest |-> manifest, lock |-> lock]]
        /\ plan' = [plan EXCEPT ![p] = [manifest |-> RemoveManifest(manifest, n), lock |-> new]]
        /\ todo' = [todo EXCEPT ![p] = RemovedTrees(lock, new)]
        /\ Goto(p, "backup")
        /\ UNCHANGED <<holder, job, moved, result, ops>>
    BY <1>4 DEF RemoveRead
  <2>2. Named(new) \subseteq Named(lock) /\ RemovedTrees(lock, new) \cap Named(new) = {}
    BY <1>1, PruneFacts DEF TypeOK
  <2> HIDE DEF new
  <2>3. /\ pc'[p] = "backup" /\ todo'[p] = RemovedTrees(lock, new) /\ plan'[p].lock = new
        /\ seen'[p].manifest = manifest /\ seen'[p].lock = lock
    BY <1>1, <2>1 DEF Goto, TypeOK
  <2>4. \A t : Held(t)' <=> Held(t)
    <3>1. \A q \in Proc : q # p => pc[q] \notin Locked
      BY <1>1, Alone DEF IInv
    <3>2. \A q \in Proc : pc'[q] \notin {"swap", "undo"}
      BY <2>1, <2>3, <3>1, <1>1 DEF Goto, TypeOK, Locked
    <3>3. \A q \in Proc : pc[q] \notin {"swap", "undo"}
      BY <1>1, <3>1 DEF Locked
    <3>. QED  BY <1>2, <3>2, <3>3 DEF Held
  <2>5. \A t \in Named(new) : Held(t)'
    BY <2>2, <2>4 DEF IInv, LockHeld
  <2>6. WorkAt(p)'
    BY <1>2, <2>2, <2>3, <2>5 DEF WorkAt
  <2>7. Effect
    BY <1>2, <2>4 DEF Effect, HeldTrees
  <2>8. "backup" \in Locked
    BY DEF Locked
  <2>. QED  BY <1>1, <2>1, <2>6, <2>7, <2>8, KeptIf
<1>. QED  BY <1>3, <1>4

\* Installing the next tree: it appears, is found, or is put aside.
LEMMA KeptInstall ==
    ASSUME IInv, NEW p \in Proc, Install(p)
    PROVE  Kept
<1> DEFINE t == FirstOf(todo[p])
<1>1. /\ TypeOK /\ WorkAt(p) /\ pc[p] = "install" /\ todo[p] # {}
      /\ job' = job /\ plan' = plan /\ seen' = seen /\ manifest' = manifest /\ lock' = lock
      /\ saved' = saved /\ holder' = holder
  BY DEF IInv, Install
<1>2. t \in todo[p] /\ t \in Tree
  BY <1>1, FirstOfWork
<1>3. "install" \in Locked /\ "swap" \in Locked /\ pc[p] \in Locked
  BY <1>1 DEF Locked
<1>4. CASE todo' = [todo EXCEPT ![p] = @ \ {t}] /\ store'[t] = "verified"
           /\ (\A u \in Tree \ {t} : store'[u] = store[u]) /\ UNCHANGED <<moved, pc>>
  <2>1. pc'[p] = "install" /\ todo'[p] = todo[p] \ {t}
    BY <1>1, <1>4 DEF TypeOK
  <2>2. Named(plan[p].lock) \subseteq Tree
    BY <1>1, NamedTrees DEF TypeOK, Meta
  <2>3. WorkAt(p)'
    BY <1>1, <1>2, <1>4, <2>1, <2>2 DEF WorkAt
  <2>4. \A u \in Tree : HeldBy(p, u)' <=> HeldBy(p, u) \/ u = t
    BY <1>1, <1>2, <1>4, <2>1 DEF HeldBy
  <2>5. (\A u : Held(u) <=> HeldBy(p, u)) /\ (\A u : Held(u)' <=> HeldBy(p, u)') => Effect
    <3>1. ASSUME \A u : Held(u) <=> HeldBy(p, u), \A u : Held(u)' <=> HeldBy(p, u)'
          PROVE  HeldTrees' = HeldTrees \cup {t}
      BY <1>2, <2>4, <3>1 DEF HeldTrees
    <3>. QED  BY <1>1, <1>2, <3>1 DEF Effect
  <2>6. Goto(p, "install")
    BY <1>1, <1>4 DEF Goto, TypeOK
  <2>. QED  BY <1>1, <1>3, <2>3, <2>5, <2>6, KeptIf
<1>5. CASE /\ moved' = [moved EXCEPT ![p] = store[t]]
           /\ store' = [store EXCEPT ![t] = "absent"]
           /\ Goto(p, "swap")
           /\ UNCHANGED todo
  <2>1. pc'[p] = "swap" /\ moved'[p] = store[t] /\ store'[t] = "absent"
    BY <1>1, <1>2, <1>5 DEF Goto, TypeOK
  <2>2. \A u \in Tree \ {t} : store'[u] = store[u]
    BY <1>1, <1>5 DEF TypeOK
  <2>3. Named(plan[p].lock) \subseteq Tree
    BY <1>1, NamedTrees DEF TypeOK, Meta
  <2>4. WorkAt(p)'
    BY <1>1, <1>2, <1>5, <2>1, <2>2, <2>3 DEF WorkAt
  <2>5. \A u \in Tree : HeldBy(p, u)' <=> HeldBy(p, u)
    BY <1>1, <1>2, <1>5, <2>1, <2>2 DEF HeldBy
  <2>6. (\A u : Held(u) <=> HeldBy(p, u)) /\ (\A u : Held(u)' <=> HeldBy(p, u)') => Effect
    BY <1>1, <2>5 DEF Effect, HeldTrees
  <2>. QED  BY <1>1, <1>3, <1>5, <2>4, <2>6, KeptIf
<1>6. \/ /\ todo' = [todo EXCEPT ![p] = @ \ {t}]
         /\ store'[t] = "verified"
         /\ \A u \in Tree \ {t} : store'[u] = store[u]
         /\ UNCHANGED <<moved, pc>>
      \/ /\ moved' = [moved EXCEPT ![p] = store[t]]
         /\ store' = [store EXCEPT ![t] = "absent"]
         /\ Goto(p, "swap")
         /\ UNCHANGED todo
  <2>1. store \in [Tree -> Content]
    BY <1>1 DEF TypeOK
  <2>. QED  BY <1>2, <2>1 DEF Install, Identical
<1>. QED  BY <1>4, <1>5, <1>6

\* Putting the new tree in the place of the one that was put aside.
LEMMA KeptSwap ==
    ASSUME IInv, NEW p \in Proc, Swap(p)
    PROVE  Kept
<1> DEFINE t == FirstOf(todo[p])
<1>1. /\ TypeOK /\ WorkAt(p) /\ pc[p] = "swap" /\ todo[p] # {}
      /\ job' = job /\ plan' = plan /\ seen' = seen /\ manifest' = manifest /\ lock' = lock
      /\ saved' = saved /\ holder' = holder
  BY DEF IInv, Swap, WorkAt
<1>2. t \in todo[p] /\ t \in Tree
  BY <1>1, FirstOfWork
<1>3. "install" \in Locked /\ pc[p] \in Locked
  BY <1>1 DEF Locked
<1>4. /\ pc'[p] = "install" /\ todo'[p] = todo[p] \ {t} /\ store'[t] = "verified"
      /\ \A u \in Tree \ {t} : store'[u] = store[u]
  BY <1>1, <1>2 DEF Swap, Goto, TypeOK
<1>5. Named(plan[p].lock) \subseteq Tree
  BY <1>1, NamedTrees DEF TypeOK, Meta
<1>6. WorkAt(p)'
  BY <1>1, <1>2, <1>4, <1>5 DEF WorkAt
<1>7. \A u \in Tree : HeldBy(p, u)' <=> HeldBy(p, u) \/ u = t
  BY <1>1, <1>2, <1>4 DEF HeldBy
<1>8. (\A u : Held(u) <=> HeldBy(p, u)) /\ (\A u : Held(u)' <=> HeldBy(p, u)') => Effect
  <2>1. ASSUME \A u : Held(u) <=> HeldBy(p, u), \A u : Held(u)' <=> HeldBy(p, u)'
        PROVE  HeldTrees' = HeldTrees \cup {t}
    BY <1>2, <1>7, <2>1 DEF HeldTrees
  <2>. QED  BY <1>1, <1>2, <2>1 DEF Effect
<1>9. Goto(p, "install")
  BY DEF Swap
<1>. QED  BY <1>1, <1>3, <1>6, <1>8, <1>9, KeptIf

\* Steps that only move on, or replace a metadata file.
LEMMA KeptCommitting ==
    ASSUME IInv, NEW p \in Proc,
           \/ SwapFails(p) \/ Installed(p) \/ Backup(p) \/ WriteFirst(p) \/ WriteSecond(p)
           \/ WriteSecondFails(p) \/ DropBackup(p) \/ (Cli(p) /\ job[p].kind = "remove")
    PROVE  Kept
<1>1. TypeOK /\ WorkAt(p) /\ LockHeld
  BY DEF IInv
<1>2. /\ store' = store /\ saved' = saved /\ moved' = moved /\ todo' = todo /\ plan' = plan
      /\ seen' = seen /\ job' = job /\ holder' = holder
  BY DEF SwapFails, Installed, Backup, WriteFirst, WriteSecond, WriteSecondFails, DropBackup,
         Cli, files
<1>3. /\ pc[p] \in Locked
      /\ \/ pc[p] = "swap" /\ Goto(p, "undo")
         \/ pc[p] \notin {"swap", "undo"} /\ \E l \in Locked \ {"swap", "undo"} : Goto(p, l)
  BY DEF SwapFails, Installed, Backup, WriteFirst, WriteSecond, WriteSecondFails, DropBackup,
         Cli, Locked
<1>4. PICK label \in Locked : Goto(p, label) /\ (label \in {"swap", "undo"} <=> pc[p] \in {"swap", "undo"})
  BY <1>3 DEF Locked
<1>5. pc'[p] = label /\ \A q \in Proc : q # p => pc'[q] = pc[q]
  BY <1>1, <1>4 DEF TypeOK, Goto
<1>6. \A t : HeldBy(p, t)' <=> HeldBy(p, t)
  BY <1>2, <1>4, <1>5 DEF HeldBy
<1>7. \A t : Held(t)' <=> Held(t)
  BY <1>2, <1>3, <1>5, <1>6, GotoStep
<1>8. WorkAt(p)'
  <2>1. CASE SwapFails(p)
    BY <1>1, <1>2, <2>1 DEF WorkAt, SwapFails, Goto, TypeOK, files
  <2>2. CASE Installed(p)
    <3>1. pc[p] = "install" /\ pc'[p] = "backup" /\ todo[p] = {} /\ manifest' = manifest /\ lock' = lock
      BY <1>1, <2>2 DEF Installed, Goto, TypeOK, files
    <3>2. \A t \in Named(plan[p].lock) : Held(t)
      BY <1>1, <3>1 DEF WorkAt, Held
    <3>. QED  BY <1>1, <1>2, <1>7, <3>1, <3>2 DEF WorkAt
  <2>3. CASE Backup(p)
    <3>1. pc[p] = "backup" /\ pc'[p] = "first" /\ manifest' = manifest /\ lock' = lock
      BY <1>1, <2>3 DEF Backup, Goto, TypeOK, files
    <3>. QED  BY <1>1, <1>2, <1>7, <3>1 DEF WorkAt
  <2>4. CASE WriteFirst(p)
    <3>1. pc[p] = "first" /\ pc'[p] = "second"
      BY <1>1, <2>4 DEF WriteFirst, Goto, TypeOK
    <3>. QED  BY <1>1, <1>2, <1>7, <3>1 DEF WorkAt
  <2>5. CASE WriteSecond(p)
    <3>1. pc[p] = "second" /\ pc'[p] = "drop" /\ lock' = plan[p].lock
      BY <1>1, <2>5 DEF WriteSecond, Goto, TypeOK
    <3>. QED  BY <1>1, <1>2, <3>1 DEF WorkAt
  <2>6. CASE WriteSecondFails(p)
    <3>1. pc'[p] = "rollback"
      BY <1>1, <2>6 DEF WriteSecondFails, Goto, TypeOK
    <3>. QED  BY <3>1 DEF WorkAt
  <2>7. CASE DropBackup(p)
    <3>1. pc[p] = "drop" /\ pc'[p] = "cli" /\ lock' = lock
      BY <1>1, <2>7 DEF DropBackup, Goto, TypeOK, files
    <3>. QED  BY <1>1, <1>2, <3>1 DEF WorkAt
  <2>8. CASE Cli(p) /\ job[p].kind = "remove"
    <3>1. pc[p] = "cli" /\ pc'[p] = "delete" /\ lock' = lock
      BY <1>1, <2>8 DEF Cli, Goto, TypeOK
    <3>. QED  BY <1>1, <1>2, <2>8, <3>1 DEF WorkAt
  <2>. QED  BY <2>1, <2>2, <2>3, <2>4, <2>5, <2>6, <2>7, <2>8
<1>9. Effect
  <2>1. HeldTrees' = HeldTrees
    BY <1>7 DEF HeldTrees
  <2>2. CASE WriteSecond(p)
    <3>1. pc[p] = "second" /\ lock' = plan[p].lock
      BY <2>2 DEF WriteSecond
    <3>2. plan[p].lock \in Lock /\ Named(plan[p].lock) \subseteq Tree
      BY <1>1, NamedTrees DEF TypeOK, Meta
    <3>. QED  BY <1>1, <2>1, <3>1, <3>2 DEF Effect, WorkAt, HeldTrees
  <2>3. CASE ~WriteSecond(p)
    <3>1. lock' = lock
      BY <2>3 DEF SwapFails, Installed, Backup, WriteFirst, WriteSecondFails, DropBackup, Cli, files
    <3>. QED  BY <2>1, <3>1 DEF Effect
  <2>. QED  BY <2>2, <2>3
<1>. QED  BY <1>2, <1>3, <1>4, <1>8, <1>9, KeptIf

\* Deleting a tree that the lock no longer names.
LEMMA KeptDelete ==
    ASSUME IInv, NEW p \in Proc, Delete(p) \/ Deleting(p)
    PROVE  Kept
<1>0. PICK t : t = FirstOf(todo[p])
  OBVIOUS
<1>1. /\ TypeOK /\ WorkAt(p) /\ pc[p] \in {"delete", "deleting"} /\ todo[p] # {}
      /\ job' = job /\ plan' = plan /\ seen' = seen /\ manifest' = manifest /\ lock' = lock
      /\ saved' = saved /\ holder' = holder /\ moved' = moved
  BY DEF IInv, Delete, Deleting, WorkAt
<1>2. t \in todo[p] /\ t \in Tree
  BY <1>0, <1>1, FirstOfWork
<1>3. pc[p] \in Locked /\ {"delete", "deleting"} \subseteq Locked
  BY <1>1 DEF Locked
<1>4. t \notin Named(lock)
  BY <1>1, <1>2 DEF WorkAt
<1>5. \E label \in {"delete", "deleting"} : Goto(p, label)
  BY DEF Delete, Deleting, Goto, IInv, TypeOK
<1>6. /\ pc'[p] \in {"delete", "deleting"} /\ todo'[p] \subseteq todo[p]
      /\ pc'[p] = "deleting" => todo'[p] = todo[p]
      /\ \A u \in Tree \ {t} : store'[u] = store[u]
      /\ store' # store => store'[t] # "verified"
  BY <1>0, <1>1, <1>2 DEF Delete, Deleting, Goto, TypeOK
<1>7. WorkAt(p)'
  BY <1>1, <1>6 DEF WorkAt
<1>8. \A u \in Tree : u # t => (HeldBy(p, u)' <=> HeldBy(p, u))
  BY <1>1, <1>6 DEF HeldBy
<1>9. HeldBy(p, t)' => HeldBy(p, t)
  <2>1. pc[p] \notin {"swap", "undo"} /\ pc'[p] \notin {"swap", "undo"}
    BY <1>1, <1>6
  <2>2. store'[t] = "verified" => store[t] = "verified"
    BY <1>6
  <2>. QED  BY <1>1, <2>1, <2>2 DEF HeldBy
<1>10. (\A u : Held(u) <=> HeldBy(p, u)) /\ (\A u : Held(u)' <=> HeldBy(p, u)') => Effect
  <2>1. ASSUME \A u : Held(u) <=> HeldBy(p, u), \A u : Held(u)' <=> HeldBy(p, u)'
        PROVE  HeldTrees' = HeldTrees \/ HeldTrees' = HeldTrees \ {t}
    <3>1. \A u \in Tree : u # t => (u \in HeldTrees' <=> u \in HeldTrees)
      BY <1>8, <2>1 DEF HeldTrees
    <3>2. t \in HeldTrees' => t \in HeldTrees
      BY <1>2, <1>9, <2>1 DEF HeldTrees
    <3>3. HeldTrees \subseteq Tree /\ HeldTrees' \subseteq Tree
      BY DEF HeldTrees
    <3>4. CASE t \in HeldTrees' \/ t \notin HeldTrees
      BY <3>1, <3>2, <3>3, <3>4
    <3>5. CASE t \notin HeldTrees' /\ t \in HeldTrees
      BY <3>1, <3>3, <3>5
    <3>. QED  BY <3>4, <3>5
  <2>. QED  BY <1>1, <1>2, <1>4, <2>1 DEF Effect
<1>. QED  BY <1>1, <1>3, <1>5, <1>7, <1>10, KeptIf

LEMMA KeptStep ==
    ASSUME IInv, [Next]_vars
    PROVE  Kept
<1>1. CASE UNCHANGED vars \/ \E p \in Proc : (\E j \in Requests : Begin(p, j)) \/ Acquire(p)
  BY <1>1, KeptOutside
<1>2. ASSUME NEW p \in Proc, Add(p) PROVE Kept
  <2>1. CASE AddRead(p)
    BY <2>1, KeptReading, KeptEnding
  <2>2. CASE InstallDiffers(p) \/ Undo(p) \/ UndoFails(p)
    BY <2>2, KeptEnding
  <2>3. CASE SwapFails(p) \/ Installed(p)
    BY <2>3, KeptCommitting
  <2>. QED  BY <1>2, <2>1, <2>2, <2>3, KeptInstall, KeptSwap DEF Add
<1>3. ASSUME NEW p \in Proc, Remove(p) PROVE Kept
  BY <1>3, KeptReading, KeptDelete, KeptEnding DEF Remove
<1>4. ASSUME NEW p \in Proc, Commit(p) PROVE Kept
  <2>1. Cli(p) => End(p, "ok") \/ job[p].kind = "remove"
    BY DEF Cli
  <2>2. CASE Cli(p)
    BY <2>1, <2>2, KeptCommitting, KeptEnding
  <2>3. CASE Rollback(p) \/ RollbackFails(p) \/ DropBackupFails(p)
    BY <2>3, KeptEnding
  <2>4. CASE Backup(p) \/ WriteFirst(p) \/ WriteSecond(p) \/ WriteSecondFails(p) \/ DropBackup(p)
    BY <2>4, KeptCommitting
  <2>. QED  BY <1>4, <2>2, <2>3, <2>4 DEF Commit
<1>5. ASSUME NEW p \in Proc, StepFails(p) \/ Crash(p) PROVE Kept
  BY <1>5, KeptEnding
<1>. QED  BY <1>1, <1>2, <1>3, <1>4, <1>5 DEF Next, Step

-----------------------------------------------------------------------------
(* The theorems.                                                           *)

LEMMA InitIInv == Init => IInv
<1> SUFFICES ASSUME Init PROVE IInv
  OBVIOUS
<1> USE Defaults
<1>1. FilesOK
  <2>1. manifest \in Manifest
    BY UserFiles DEF Init, Manifest, Dep, Partial
  <2>. QED  BY <2>1 DEF Init, FilesOK, Content
<1>2. LocalsOK /\ ControlOK
  BY DEF Init, LocalsOK, ControlOK, Content
<1>3. TypeOK
  BY <1>1, <1>2, TypeParts
<1>4. \A p \in Proc : pc[p] \notin Locked
  BY DEF Init, Locked
<1>5. \A p \in Proc : WorkAt(p)
  BY <1>4 DEF WorkAt, Locked
<1>6. LockHeld
  BY DEF Init, LockHeld, Named, NoLock
<1>. QED  BY <1>3, <1>4, <1>5, <1>6 DEF IInv, Exclusive

\* A lock whose trees are held is still one after any effect.
LEMMA EffectHolds ==
    ASSUME TypeOK, LockHeld, Effect
    PROVE  LockHeld'
<1>1. Named(lock) \subseteq HeldTrees
  BY NamedTrees DEF TypeOK, LockHeld, HeldTrees
<1>2. Named(lock') \subseteq HeldTrees'
  BY <1>1 DEF Effect
<1>. QED  BY <1>2 DEF LockHeld, HeldTrees

LEMMA StepIInv == IInv /\ [Next]_vars => IInv'
<1> SUFFICES ASSUME IInv, [Next]_vars PROVE IInv'
  OBVIOUS
<1>1. TypeOK'
  BY TypeStep, WorkHasTree DEF IInv
<1>2. Kept
  BY KeptStep
<1>3. LockHeld'
  BY <1>2, EffectHolds DEF IInv, Kept
<1>. QED  BY <1>1, <1>2, <1>3 DEF IInv, Kept

\* The inductive invariant holds in every reachable state of the code's
\* commands, whatever fails and whoever dies.
THEOREM Invariance == Spec => []IInv
BY InitIInv, StepIInv, PTL DEF Spec

\* dal.lock never names a tree whose verified contents are lost, and what a command
\* read under the operation lock is still so when it writes, through any
\* interleaving of commands, I/O errors and crashes of install_downloaded_package,
\* commit_metadata_pair and remove_installed_packages.
THEOREM ProjectIsConsistent == Spec => []Consistent
<1>1. IInv => LockNeverDangles
  BY HeldIsCopied DEF IInv, LockHeld, LockNeverDangles
<1>2. IInv => ReadsStayTrue
  BY DEF IInv, WorkAt, ReadsStayTrue
<1>3. IInv => Consistent
  BY <1>1, <1>2 DEF IInv, Consistent
<1>. QED  BY <1>3, Invariance, PTL

\* The project's files implement the package store that importers rely on:
\* one index, replaced in one step, over trees that are all there.
THEOREM ProjectIsAStore == Spec => StoreRefined
<1>1. {t \in Tree : "verified" \in Copies(t)} = HeldTrees
  BY HeldIsCopied DEF HeldTrees
<1>2. Init => Store!Init
  BY <1>1 DEF Init, Store!Init, NoLock, HeldTrees, Held
<1>3. IInv /\ [Next]_vars => [Store!Next]_(Store!svars)
  <2> SUFFICES ASSUME IInv, [Next]_vars PROVE [Store!Next]_(Store!svars)
    OBVIOUS
  <2>1. Effect
    BY KeptStep DEF Kept
  <2>2. {t \in Tree : "verified" \in Copies(t)}' = HeldTrees'
    BY DEF HeldTrees, Held, Copies, Content
  <2>3. CASE HeldTrees' = HeldTrees /\ lock' = lock
    BY <1>1, <2>2, <2>3 DEF Store!svars
  <2>4. ASSUME NEW t \in Tree, HeldTrees' = HeldTrees \cup {t}, lock' = lock
        PROVE  Store!Next
    BY <1>1, <2>2, <2>4 DEF Store!Next, Store!Fetch, Tree
  <2>5. ASSUME NEW t \in Tree \ Named(lock), HeldTrees' = HeldTrees \ {t}, lock' = lock
        PROVE  Store!Next
    BY <1>1, <2>2, <2>5 DEF Store!Next, Store!Discard, Store!Named, Named, Tree
  <2>6. CASE HeldTrees' = HeldTrees /\ lock' \in Lock /\ Named(lock') \subseteq HeldTrees
    <3>1. DOMAIN lock' \in SUBSET Pkg /\ lock' \in [DOMAIN lock' -> Ver]
      BY <2>6, PartialElim DEF Lock
    <3>2. Store!Publish(lock')
      BY <1>1, <2>2, <2>6 DEF Store!Publish, Store!Named, Named
    <3>. QED  BY <3>1, <3>2 DEF Store!Next
  <2>. QED  BY <2>1, <2>3, <2>4, <2>5, <2>6 DEF Effect
<1>. QED  BY <1>2, <1>3, Invariance, PTL DEF Spec, StoreRefined, Store!Spec

-----------------------------------------------------------------------------
(* The metadata pair: dal.toml and dal.lock.                               *)

\* What pruning keeps is closed, and has every name it was asked to keep.
LEMMA PruneCloses ==
    ASSUME NEW l \in Lock, Closed(l, DOMAIN l), NEW names \in SUBSET DOMAIN l
    PROVE  /\ names \subseteq DOMAIN Prune(l, names)
           /\ Closed(Prune(l, names), DOMAIN Prune(l, names))
           /\ \A n \in DOMAIN Prune(l, names) : Prune(l, names)[n] = l[n]
<1> DEFINE S == Reach(l, names)
<1>1. DOMAIN Prune(l, names) = S /\ \A n \in S : Prune(l, names)[n] = l[n]
  BY DEF Prune
<1>2. names \subseteq S /\ S \subseteq DOMAIN l
  BY DEF Reach
<1>3. ASSUME NEW n \in S, NEW d \in DOMAIN Requires[n, l[n]]
      PROVE  d \in S
  <2>1. d \in DOMAIN l
    BY <1>2 DEF Closed
  <2>2. ASSUME NEW T \in SUBSET DOMAIN l, names \subseteq T, Closed(l, T)
        PROVE  d \in T
    <3>1. n \in T
      BY <2>2 DEF Reach
    <3>. QED  BY <2>2, <3>1 DEF Closed
  <2>. QED  BY <2>1, <2>2 DEF Reach
<1>4. Closed(Prune(l, names), S)
  BY <1>1, <1>3 DEF Closed
<1>. QED  BY <1>1, <1>2, <1>4

\* The pair a remove writes: the lock covers the manifest, and agrees with it if what
\* was read agreed.
LEMMA RemovePlan ==
    ASSUME NEW m \in Manifest, NEW l \in Lock, Closed(l, DOMAIN l),
           NEW n \in DOMAIN Specs(m), CanPrune(l, DOMAIN Specs(m) \ {n})
    PROVE  LET new == Prune(l, DOMAIN Specs(m) \ {n}) IN
           /\ Covers(new, RemoveManifest(m, n))
           /\ Agree(m, l) => Agree(RemoveManifest(m, n), new)
<1> DEFINE names == DOMAIN Specs(m) \ {n}
           new == Prune(l, names)
           rm == RemoveManifest(m, n)
<1>1. m # NoManifest /\ Specs(m) = m
  BY DEF Specs, NoLock
<1>2. Specs(rm) = rm
  BY RemoveManifestType DEF Specs
<1>3. DOMAIN rm = names /\ \A k \in names : rm[k] = m[k]
  BY <1>1 DEF RemoveManifest
<1>4. names \in SUBSET DOMAIN l
  BY DEF CanPrune
<1>5. /\ names \subseteq DOMAIN new
      /\ Closed(new, DOMAIN new)
      /\ \A k \in DOMAIN new : new[k] = l[k]
  BY <1>4, PruneCloses
<1>6. Direct(rm) \subseteq names /\ Direct(rm) \subseteq Direct(m)
  BY <1>1, <1>2, <1>3 DEF Direct
<1> HIDE DEF names, new, rm
<1>7. Covers(new, rm)
  BY <1>5, <1>6 DEF Covers
<1>8. ASSUME Agree(m, l) PROVE Agree(rm, new)
  <2>1. \A k \in Direct(rm) : new[k] \in rm[k].req
    BY <1>3, <1>5, <1>6, <1>8 DEF Agree
  <2>. QED  BY <1>7, <2>1 DEF Agree
<1>. QED  BY <1>7, <1>8 DEF names, new, rm

\* The pair an add writes: the graph the resolver returned covers the new manifest and
\* agrees with it, unless it was resolved without the requirement dal.toml keeps.
LEMMA AddPlan ==
    ASSUME NEW m \in Manifest, NEW j \in Job, j.kind = "add", NEW g \in Lock,
           Solves(g, AddRoots(m, j))
    PROVE  LET new == AddManifest(m, j, g[j.pkg]) IN
           /\ g[j.pkg] \in Ver
           /\ Covers(g, new)
           /\ Agree(new, g) \/ AddsOptional(m, j)
<1> DEFINE new == AddManifest(m, j, g[j.pkg])
           roots == AddRoots(m, j)
<1>1. DOMAIN roots = Direct(m) \cup {j.pkg} /\ DOMAIN roots \subseteq DOMAIN g
  BY DEF Solves, AddRoots
<1>2. g[j.pkg] \in Ver
  BY <1>1, PartialElim DEF Lock
<1>3. Specs(new) = new
  BY <1>2, AddManifestType DEF Specs
<1>4. /\ DOMAIN new = DOMAIN Specs(m) \cup {j.pkg}
      /\ \A k \in DOMAIN Specs(m) : k # j.pkg => new[k] = m[k]
      /\ new[j.pkg].req = IF j.req # {} THEN j.req
                          ELSE IF j.pkg \in DOMAIN Specs(m) THEN m[j.pkg].req ELSE {g[j.pkg]}
  BY DEF AddManifest
<1>5. \A k \in DOMAIN roots : g[k] \in roots[k]
  BY DEF Solves
<1>6. /\ \A k \in Direct(m) : k # j.pkg => roots[k] = m[k].req
      /\ j.req # {} => roots[j.pkg] = j.req
      /\ j.req = {} /\ j.pkg \in Direct(m) => roots[j.pkg] = m[j.pkg].req
  BY DEF AddRoots
<1>7. Closed(g, DOMAIN g)
  BY DEF Solves, Closed
<1> HIDE DEF new, roots
<1>8. Direct(new) \subseteq Direct(m) \cup {j.pkg}
  BY <1>3, <1>4 DEF Direct
<1>9. Covers(g, new)
  BY <1>1, <1>7, <1>8 DEF Covers
<1>10. ASSUME ~AddsOptional(m, j) PROVE g[j.pkg] \in new[j.pkg].req
  <2>1. CASE j.req # {}
    BY <1>1, <1>4, <1>5, <1>6, <2>1
  <2>2. CASE j.req = {} /\ j.pkg \in Direct(m)
    <3>1. j.pkg \in DOMAIN Specs(m)
      BY <2>2 DEF Direct
    <3>. QED  BY <1>1, <1>4, <1>5, <1>6, <2>2, <3>1
  <2>3. CASE j.req = {} /\ j.pkg \notin Direct(m)
    <3>1. j.pkg \notin DOMAIN Specs(m)
      BY <1>10, <2>3 DEF AddsOptional
    <3>. QED  BY <1>4, <2>3, <3>1
  <2>. QED  BY <2>1, <2>2, <2>3
<1>11. \A k \in Direct(new) : k # j.pkg => g[k] \in new[k].req
  <2>1. \A k \in Direct(m) : k \in DOMAIN Specs(m)
    BY DEF Direct
  <2>. QED  BY <1>1, <1>4, <1>5, <1>6, <1>8, <2>1
<1>. QED  BY <1>2, <1>9, <1>10, <1>11 DEF Agree, new

\* Somewhere there is a manifest that the lock covers: in its place or in a backup
\* file; or nothing has been locked.
Recoverable(backups, m, l) ==
    /\ Covers(l, m) \/ (\E k \in backups : Covers(l, k)) \/ l = NoLock
    /\ m = NoManifest => l = NoLock

\* The plan w of a command j that has read s: it covers itself, and agrees but for the
\* two exceptions of PlansAgree.
GoodPlan(j, s, w) ==
    /\ Covers(w.lock, w.manifest) /\ w.manifest # NoManifest
    /\ \/ Agree(w.manifest, w.lock)
       \/ j.kind = "remove" /\ ~Agree(s.manifest, s.lock)
       \/ AddsOptional(s.manifest, j)

MetaAt(p) ==
    /\ pc[p] \in Locked \ {"read"} =>
          /\ GoodPlan(job[p], seen[p], plan[p])
          /\ Recoverable(kept, seen[p].manifest, seen[p].lock)
    /\ pc[p] \in {"second", "rollback"} => manifest = plan[p].manifest /\ lock = seen[p].lock
    /\ pc[p] \in {"drop", "cli", "delete", "deleting"} => manifest = plan[p].manifest
    /\ pc[p] \in {"backup", "first", "second", "drop", "cli"} /\ job[p].kind = "add" =>
          \A t \in Named(plan[p].lock) : store[t] = "verified"

\* Between commands, and unless one has replaced dal.toml only, the pair on disk is
\* recoverable.
MInv ==
    /\ Closed(lock, DOMAIN lock)
    /\ (\A p \in Proc : pc[p] \notin {"second", "rollback"}) => Recoverable(kept, manifest, lock)
    /\ \A p \in Proc : MetaAt(p)

\* A step is one of these four: outside the operation lock, ending the command,
\* reading the metadata, or working on (the goal of each lemma below).
Outside(p) == (\E j \in Requests : Begin(p, j)) \/ Acquire(p)

Ending(p) ==
    \/ AddRead(p) /\ End(p, "error")
    \/ RemoveRead(p) /\ End(p, "error")
    \/ InstallDiffers(p) \/ Undo(p) \/ UndoFails(p) \/ Deleted(p)
    \/ Rollback(p) \/ RollbackFails(p) \/ DropBackupFails(p)
    \/ Cli(p) /\ End(p, "ok")
    \/ StepFails(p) \/ Crash(p)

Reading(p) == (AddRead(p) \/ RemoveRead(p)) /\ ~End(p, "error")

Working(p) ==
    \/ Install(p) \/ Swap(p) \/ SwapFails(p) \/ Installed(p)
    \/ Delete(p) \/ Deleting(p)
    \/ Backup(p) \/ WriteFirst(p) \/ WriteSecond(p) \/ WriteSecondFails(p) \/ DropBackup(p)
    \/ Cli(p) /\ job[p].kind = "remove"

LEMMA StepKinds ==
    ASSUME [Next]_vars
    PROVE  UNCHANGED vars \/ \E p \in Proc : Outside(p) \/ Ending(p) \/ Reading(p) \/ Working(p)
<1>1. CASE UNCHANGED vars
  BY <1>1
<1>2. ASSUME NEW p \in Proc, (\E j \in Requests : Begin(p, j)) \/ Step(p) \/ Crash(p)
      PROVE  Outside(p) \/ Ending(p) \/ Reading(p) \/ Working(p)
  <2>1. Add(p) => Ending(p) \/ Reading(p) \/ Working(p)
    BY DEF Add, Ending, Reading, Working
  <2>2. Remove(p) => Ending(p) \/ Reading(p) \/ Working(p)
    BY DEF Remove, Ending, Reading, Working
  <2>3. Cli(p) => End(p, "ok") \/ job[p].kind = "remove"
    BY DEF Cli
  <2>4. Commit(p) => Ending(p) \/ Working(p)
    BY <2>3 DEF Commit, Ending, Working
  <2>. QED  BY <1>2, <2>1, <2>2, <2>4 DEF Step, Outside, Ending
<1>. QED  BY <1>1, <1>2 DEF Next

\* How a command ends, and what is still on disk where it was.
LEMMA EndingFacts ==
    ASSUME IInv, NEW p \in Proc, Ending(p)
    PROVE  /\ pc[p] \in Locked
           /\ \A q \in Proc : pc'[q] \notin Locked
           /\ \A q \in Proc : q # p => pc'[q] = pc[q]
           /\ lock' = lock
           /\ kept \subseteq kept'
           /\ ~Rollback(p) => manifest' = manifest
<1>1. pc[p] \in Locked
  BY DEF Ending, AddRead, RemoveRead, InstallDiffers, Undo, UndoFails, Deleted, Rollback,
         RollbackFails, DropBackupFails, Cli, StepFails, Crash, Locked
<1>2. Goto(p, "idle")
  BY DEF Ending, InstallDiffers, Undo, UndoFails, Deleted, Rollback, RollbackFails,
         DropBackupFails, StepFails, Fail, Crash, End
<1>3. \A q \in Proc : q # p => pc[q] \notin Locked
  BY <1>1, Alone DEF IInv
<1>4. "idle" \notin Locked
  BY DEF Locked
<1>5. \A q \in Proc : pc'[q] \notin Locked
  BY <1>2, <1>3, <1>4, StillAlone DEF IInv
<1>6. \A q \in Proc : q # p => pc'[q] = pc[q]
  BY <1>2 DEF IInv, TypeOK, Goto
<1>7. lock' = lock /\ kept \subseteq kept'
  BY DEF Ending, AddRead, RemoveRead, InstallDiffers, Undo, UndoFails, Deleted, Rollback,
         RollbackFails, DropBackupFails, Cli, StepFails, Fail, Crash, files
<1>8. ~Rollback(p) => manifest' = manifest
  BY DEF Ending, AddRead, RemoveRead, InstallDiffers, Undo, UndoFails, Deleted,
         RollbackFails, DropBackupFails, Cli, StepFails, Fail, Crash, files
<1>. QED  BY <1>1, <1>5, <1>6, <1>7, <1>8

\* More backup files cover no less.
LEMMA MoreBackups ==
    ASSUME NEW A, NEW B, A \subseteq B, NEW m, NEW l, Recoverable(A, m, l)
    PROVE  Recoverable(B, m, l)
BY DEF Recoverable

LEMMA MetaOutside ==
    ASSUME IInv, MInv, UNCHANGED vars \/ \E p \in Proc : Outside(p)
    PROVE  MInv'
<1>1. /\ lock' = lock /\ manifest' = manifest /\ kept' = kept /\ store' = store
      /\ plan' = plan /\ seen' = seen
  BY DEF vars, Outside, Begin, Acquire, files
<1>2. \A q \in Proc : (pc'[q] = pc[q] /\ job'[q] = job[q]) \/ (pc[q] \in {"idle", "acquire"} /\ pc'[q] \in {"acquire", "read"})
  <2>1. CASE UNCHANGED vars
    BY <2>1 DEF vars
  <2>2. CASE \E p \in Proc : Outside(p)
    BY <2>2 DEF Outside, Begin, Acquire, Goto, IInv, TypeOK
  <2>. QED  BY <2>1, <2>2
<1>3. \A q \in Proc : MetaAt(q)'
  <2> TAKE q \in Proc
  <2>1. MetaAt(q)
    BY DEF MInv
  <2>2. CASE pc'[q] = pc[q] /\ job'[q] = job[q]
    BY <1>1, <2>1, <2>2 DEF MetaAt
  <2>3. CASE pc'[q] \in {"acquire", "read"}
    BY <2>3 DEF MetaAt, Locked
  <2>. QED  BY <1>2, <2>2, <2>3
<1>4. (\A q \in Proc : pc'[q] \notin {"second", "rollback"})
        => \A q \in Proc : pc[q] \notin {"second", "rollback"}
  BY <1>2
<1>. QED  BY <1>1, <1>3, <1>4 DEF MInv

\* A command that ends leaves a pair that can be recovered: a crash or a failed rollback
\* between the two writes leaves the backup of the manifest that the lock covers.
LEMMA MetaEnding ==
    ASSUME IInv, MInv, NEW p \in Proc, Ending(p)
    PROVE  MInv'
<1>1. /\ pc[p] \in Locked /\ lock' = lock /\ kept \subseteq kept'
      /\ \A q \in Proc : pc'[q] \notin Locked
      /\ ~Rollback(p) => manifest' = manifest
  BY EndingFacts
<1>2. \A q \in Proc : q # p => pc[q] \notin Locked
  BY <1>1, Alone DEF IInv
<1>3. \A q \in Proc : MetaAt(q)'
  BY <1>1 DEF MetaAt, Locked
<1>4. Recoverable(kept', manifest', lock)
  <2>1. CASE pc[p] \notin {"second", "rollback"}
    <3>1. \A q \in Proc : pc[q] \notin {"second", "rollback"}
      BY <1>2, <2>1 DEF Locked
    <3>2. ~Rollback(p)
      BY <2>1 DEF Rollback
    <3>3. Recoverable(kept, manifest, lock)
      BY <3>1 DEF MInv
    <3>. QED  BY <1>1, <3>2, <3>3, MoreBackups
  <2>2. CASE pc[p] \in {"second", "rollback"}
    <3>1. /\ Recoverable(kept, seen[p].manifest, lock)
          /\ manifest = plan[p].manifest /\ manifest # NoManifest
      BY <1>1, <2>2 DEF MInv, MetaAt, GoodPlan, Locked
    <3>2. CASE Rollback(p)
      <4>1. manifest' = seen[p].manifest
        BY <3>2 DEF Rollback
      <4>. QED  BY <1>1, <3>1, <4>1, MoreBackups
    <3>3. CASE ~Rollback(p)
      <4>1. kept' = kept \cup BackupOf(p)
        BY <2>2, <3>3 DEF Ending, AddRead, RemoveRead, InstallDiffers, Undo, UndoFails, Deleted,
                 RollbackFails, DropBackupFails, Cli, StepFails, Crash
      <4>2. CASE seen[p].manifest = NoManifest
        BY <1>1, <3>1, <3>3, <4>2 DEF Recoverable
      <4>3. CASE seen[p].manifest # NoManifest
        <5>1. seen[p].manifest \in kept'
          BY <4>1, <4>3 DEF BackupOf
        <5>. QED  BY <1>1, <3>1, <3>3, <5>1 DEF Recoverable
      <4>. QED  BY <4>2, <4>3
    <3>. QED  BY <3>2, <3>3
  <2>. QED  BY <2>1, <2>2
<1>. QED  BY <1>1, <1>3, <1>4 DEF MInv

\* A step of the command at work: the others have nothing to keep.
LEMMA MetaIf ==
    ASSUME IInv, MInv, NEW p \in Proc, pc[p] \in Locked, NEW label, Goto(p, label),
           MetaAt(p)', Closed(lock', DOMAIN lock'),
           label \notin {"second", "rollback"} => Recoverable(kept', manifest', lock')
    PROVE  MInv'
<1>1. \A q \in Proc : q # p => pc[q] \notin Locked
  BY Alone DEF IInv
<1>2. pc'[p] = label /\ \A q \in Proc : q # p => pc'[q] \notin Locked
  BY <1>1, StillAlone DEF IInv
<1>3. \A q \in Proc : q # p => MetaAt(q)'
  BY <1>2 DEF MetaAt, Locked
<1>. QED  BY <1>2, <1>3 DEF MInv

\* Reading under the lock: no command is between its two writes, and the plan is good.
LEMMA MetaReading ==
    ASSUME IInv, MInv, NEW p \in Proc, Reading(p)
    PROVE  MInv'
<1>1. TypeOK /\ pc[p] = "read" /\ pc[p] \in Locked
  BY DEF IInv, Reading, AddRead, RemoveRead, Locked
<1>2. manifest' = manifest /\ lock' = lock /\ kept' = kept /\ store' = store
  BY DEF Reading, AddRead, RemoveRead, files
<1>3. \A q \in Proc : pc[q] \notin {"second", "rollback"}
  <2>1. \A q \in Proc : q # p => pc[q] \notin Locked
    BY <1>1, Alone DEF IInv
  <2>. QED  BY <1>1, <2>1 DEF Locked
<1>4. Recoverable(kept, manifest, lock) /\ Closed(lock, DOMAIN lock)
  BY <1>3 DEF MInv
<1>5. manifest \in Manifest /\ lock \in Lock /\ job[p] \in Job
  BY <1>1 DEF TypeOK
<1>6. CASE AddRead(p)
  <2>1. PICK g \in Lock :
           /\ seen' = [seen EXCEPT ![p] = [manifest |-> manifest, lock |-> lock]]
           /\ Solves(g, AddRoots(manifest, job[p]))
           /\ plan' = [plan EXCEPT ![p] =
                 [manifest |-> AddManifest(manifest, job[p], g[job[p].pkg]), lock |-> g]]
           /\ Goto(p, "install") /\ job' = job
    BY <1>6 DEF AddRead, Reading
  <2>2. job[p].kind = "add"
    BY <1>6 DEF AddRead
  <2> DEFINE new == AddManifest(manifest, job[p], g[job[p].pkg])
  <2>3. g[job[p].pkg] \in Ver /\ Covers(g, new) /\ (Agree(new, g) \/ AddsOptional(manifest, job[p]))
    BY <1>5, <2>1, <2>2, AddPlan
  <2>4. new # NoManifest
    BY <1>5, <2>3, AddManifestType
  <2> HIDE DEF new
  <2>5. /\ pc'[p] = "install"
        /\ seen'[p] = [manifest |-> manifest, lock |-> lock]
        /\ plan'[p] = [manifest |-> new, lock |-> g]
    BY <1>1, <2>1 DEF TypeOK, Goto, new
  <2>6. GoodPlan(job'[p], seen'[p], plan'[p])
    BY <2>1, <2>3, <2>4, <2>5 DEF GoodPlan
  <2>7. MetaAt(p)'
    BY <1>2, <1>4, <2>5, <2>6 DEF MetaAt
  <2>. QED  BY <1>1, <1>2, <1>4, <2>1, <2>7, MetaIf
<1>7. CASE RemoveRead(p)
  <2> DEFINE n == job[p].pkg
             new == Prune(lock, DOMAIN Specs(manifest) \ {n})
             rm == RemoveManifest(manifest, n)
  <2>1. /\ n \in DOMAIN Specs(manifest) /\ CanPrune(lock, DOMAIN Specs(manifest) \ {n})
        /\ seen' = [seen EXCEPT ![p] = [manifest |-> manifest, lock |-> lock]]
        /\ plan' = [plan EXCEPT ![p] = [manifest |-> rm, lock |-> new]]
        /\ Goto(p, "backup") /\ job' = job /\ job[p].kind = "remove"
    BY <1>7 DEF RemoveRead, Reading
  <2>2. Covers(new, rm) /\ (Agree(manifest, lock) => Agree(rm, new))
    BY <1>4, <1>5, <2>1, RemovePlan
  <2>3. rm # NoManifest
    BY <1>5, <2>1, RemoveManifestType
  <2> HIDE DEF n, new, rm
  <2>4. /\ pc'[p] = "backup"
        /\ seen'[p] = [manifest |-> manifest, lock |-> lock]
        /\ plan'[p] = [manifest |-> rm, lock |-> new]
    BY <1>1, <2>1 DEF TypeOK, Goto
  <2>5. GoodPlan(job'[p], seen'[p], plan'[p])
    BY <2>1, <2>2, <2>3, <2>4 DEF GoodPlan
  <2>6. MetaAt(p)'
    BY <1>2, <1>4, <2>1, <2>4, <2>5 DEF MetaAt
  <2>. QED  BY <1>1, <1>2, <1>4, <2>1, <2>6, MetaIf
<1>. QED  BY <1>6, <1>7 DEF Reading

\* Working on: the pair of files is replaced one file at a time, the lock after the
\* manifest, and an add has installed every tree by then.
LEMMA MetaWorking ==
    ASSUME IInv, MInv, NEW p \in Proc, Working(p)
    PROVE  MInv'
<1>1. TypeOK /\ WorkAt(p) /\ MetaAt(p) /\ Closed(lock, DOMAIN lock)
  BY DEF IInv, MInv
<1>2. pc[p] \in Locked \ {"read"}
  BY DEF Working, Install, Swap, SwapFails, Installed, Delete, Deleting, Backup, WriteFirst,
         WriteSecond, WriteSecondFails, DropBackup, Cli, Locked
<1>3. kept' = kept /\ seen' = seen /\ plan' = plan /\ job' = job
  BY DEF Working, Install, Swap, SwapFails, Installed, Delete, Deleting, Backup, WriteFirst,
         WriteSecond, WriteSecondFails, DropBackup, Cli, files
<1>4. /\ GoodPlan(job[p], seen[p], plan[p])
      /\ Recoverable(kept, seen[p].manifest, seen[p].lock)
  BY <1>1, <1>2 DEF MetaAt
<1>5. pc[p] \notin {"second", "rollback"} => Recoverable(kept, manifest, lock)
  <2>1. \A q \in Proc : q # p => pc[q] \notin Locked
    BY <1>2, Alone DEF IInv
  <2>2. pc[p] \notin {"second", "rollback"} => \A q \in Proc : pc[q] \notin {"second", "rollback"}
    BY <2>1 DEF Locked
  <2>. QED  BY <2>2 DEF MInv
<1>6. CASE \/ Install(p) \/ Swap(p) \/ SwapFails(p) \/ Installed(p) \/ Delete(p) \/ Deleting(p)
           \/ Backup(p) \/ DropBackup(p) \/ (Cli(p) /\ job[p].kind = "remove")
  <2>1. manifest' = manifest /\ lock' = lock
    BY <1>6 DEF Install, Swap, SwapFails, Installed, Delete, Deleting, Backup, DropBackup, Cli, files
  <2>2. \E label \in Locked \ {"read", "second", "rollback"} :
           /\ Goto(p, label)
           /\ label \in {"drop", "cli", "delete", "deleting"} =>
                 pc[p] \in {"drop", "cli", "delete", "deleting"}
           /\ label \in {"backup", "first", "drop", "cli"} /\ job[p].kind = "add" =>
                 \A t \in Named(plan[p].lock) : store'[t] = "verified"
    <3>1. CASE Install(p) \/ Swap(p) \/ SwapFails(p)
      BY <1>1, <3>1 DEF Install, Swap, SwapFails, Goto, TypeOK, Locked
    <3>2. CASE Installed(p)
      BY <1>1, <3>2 DEF Installed, WorkAt, files, Locked
    <3>3. CASE Delete(p) \/ Deleting(p)
      BY <1>1, <3>3 DEF Delete, Deleting, Goto, TypeOK, Locked
    <3>4. CASE Backup(p) \/ DropBackup(p) \/ (Cli(p) /\ job[p].kind = "remove")
      BY <1>1, <3>4 DEF Backup, DropBackup, Cli, MetaAt, files, Locked
    <3>. QED  BY <1>6, <3>1, <3>2, <3>3, <3>4
  <2>3. PICK label \in Locked \ {"read", "second", "rollback"} :
           /\ Goto(p, label)
           /\ label \in {"drop", "cli", "delete", "deleting"} =>
                 pc[p] \in {"drop", "cli", "delete", "deleting"}
           /\ label \in {"backup", "first", "drop", "cli"} /\ job[p].kind = "add" =>
                 \A t \in Named(plan[p].lock) : store'[t] = "verified"
    BY <2>2
  <2>4. pc'[p] = label
    BY <1>1, <2>3 DEF TypeOK, Goto
  <2>5. MetaAt(p)'
    BY <1>1, <1>3, <1>4, <2>1, <2>3, <2>4 DEF MetaAt
  <2>6. Recoverable(kept', manifest', lock')
    <3>1. pc[p] \notin {"second", "rollback"}
      BY <1>6 DEF Install, Swap, SwapFails, Installed, Delete, Deleting, Backup, DropBackup, Cli
    <3>. QED  BY <1>3, <1>5, <2>1, <3>1
  <2>. QED  BY <1>1, <1>2, <2>1, <2>3, <2>5, <2>6, MetaIf
<1>7. CASE WriteFirst(p)
  <2>1. /\ pc[p] = "first" /\ manifest' = plan[p].manifest /\ lock' = lock /\ store' = store
        /\ Goto(p, "second")
    BY <1>7 DEF WriteFirst
  <2>2. pc'[p] = "second"
    BY <1>1, <2>1 DEF TypeOK, Goto
  <2>3. MetaAt(p)'
    BY <1>1, <1>3, <1>4, <2>1, <2>2 DEF MetaAt, WorkAt
  <2>. QED  BY <1>1, <1>2, <2>1, <2>3, MetaIf
<1>8. CASE WriteSecond(p)
  <2>1. /\ pc[p] = "second" /\ lock' = plan[p].lock /\ manifest' = manifest /\ store' = store
        /\ Goto(p, "drop")
    BY <1>8 DEF WriteSecond
  <2>2. pc'[p] = "drop" /\ manifest = plan[p].manifest
    BY <1>1, <2>1 DEF TypeOK, Goto, MetaAt
  <2>3. MetaAt(p)'
    BY <1>1, <1>3, <1>4, <2>1, <2>2 DEF MetaAt
  <2>4. Closed(lock', DOMAIN lock') /\ Recoverable(kept', manifest', lock')
    BY <1>4, <2>1, <2>2 DEF GoodPlan, Covers, Recoverable
  <2>. QED  BY <1>2, <2>1, <2>3, <2>4, MetaIf
<1>9. CASE WriteSecondFails(p)
  <2>1. pc[p] = "second" /\ manifest' = manifest /\ lock' = lock /\ Goto(p, "rollback")
    BY <1>9 DEF WriteSecondFails, files
  <2>2. pc'[p] = "rollback"
    BY <1>1, <2>1 DEF TypeOK, Goto
  <2>3. MetaAt(p)'
    BY <1>1, <1>3, <1>4, <2>1, <2>2 DEF MetaAt
  <2>. QED  BY <1>1, <1>2, <2>1, <2>3, MetaIf
<1>. QED  BY <1>6, <1>7, <1>8, <1>9 DEF Working

LEMMA InitMInv == Init => MInv
<1> SUFFICES ASSUME Init PROVE MInv
  OBVIOUS
<1>1. lock = NoLock /\ DOMAIN NoLock = {} /\ \A p \in Proc : pc[p] = "idle"
  BY DEF Init, NoLock
<1>2. Closed(lock, DOMAIN lock) /\ Recoverable(kept, manifest, lock)
  BY <1>1 DEF Closed, Recoverable
<1>. QED  BY <1>1, <1>2 DEF MInv, MetaAt, Locked

LEMMA StepMInv == IInv /\ MInv /\ [Next]_vars => MInv'
<1> SUFFICES ASSUME IInv, MInv, [Next]_vars PROVE MInv'
  OBVIOUS
<1>1. UNCHANGED vars \/ \E p \in Proc : Outside(p) \/ Ending(p) \/ Reading(p) \/ Working(p)
  BY StepKinds
<1>. QED  BY <1>1, MetaOutside, MetaEnding, MetaReading, MetaWorking

LEMMA PairInvariance == Spec => [](IInv /\ MInv)
BY Invariance, InitMInv, StepMInv, PTL DEF Spec

\* dal.lock covers dal.toml, or the backup file of a manifest it covers is kept, however
\* commands, I/O errors and crashes interleave; and what a command is going to write
\* always covers itself and agrees but for the two named exceptions.
\* (commit_metadata_pair, resolve_manifest_dependencies, prune_lock_to_dependencies)
THEOREM PairsAreRecoverable == Spec => []PairsAgree
<1>1. IInv /\ MInv => MetadataRecoverable
  <2> SUFFICES ASSUME IInv, MInv, holder = NoProc
               PROVE  \/ Covers(lock, manifest)
                      \/ \E m \in kept : Covers(lock, m)
                      \/ lock = NoLock
    BY DEF MetadataRecoverable
  <2>1. \A p \in Proc : pc[p] \notin Locked
    BY NoProcIsNone DEF IInv, Exclusive
  <2>2. Recoverable(kept, manifest, lock)
    BY <2>1 DEF MInv, Locked
  <2>. QED  BY <2>2 DEF Recoverable
<1>2. MInv => PlansAgree
  BY DEF MInv, MetaAt, GoodPlan, PlansAgree
<1>. QED  BY <1>1, <1>2, PairInvariance, PTL DEF PairsAgree

\* Only the command itself ends it.
LEMMA EndsItself ==
    ASSUME IInv, [Next]_vars, NEW p \in Proc, pc[p] \in Locked, pc'[p] = "idle"
    PROVE  Ending(p)
<1>1. pc'[p] # pc[p]
  BY DEF Locked
<1>2. PICK q \in Proc : Outside(q) \/ Ending(q) \/ Reading(q) \/ Working(q)
  BY <1>1, StepKinds DEF vars
<1>3. \E label \in {"acquire"} \cup Locked : Outside(q) \/ Reading(q) \/ Working(q) =>
          pc' = pc \/ Goto(q, label)
  <2>1. Outside(q) => Goto(q, "acquire") \/ Goto(q, "read")
    BY DEF Outside, Begin, Acquire
  <2>2. Reading(q) => Goto(q, "install") \/ Goto(q, "backup")
    BY DEF Reading, AddRead, RemoveRead
  <2>3. Working(q) => pc' = pc \/ \E label \in Locked : Goto(q, label)
    BY DEF Working, Install, Swap, SwapFails, Installed, Delete, Deleting, Backup, WriteFirst,
           WriteSecond, WriteSecondFails, DropBackup, Cli, Locked
  <2>. QED  BY <2>1, <2>2, <2>3 DEF Locked
<1>4. ~(Outside(q) \/ Reading(q) \/ Working(q)) \/ q # p
  BY <1>1, <1>3 DEF Goto, IInv, TypeOK, Locked
<1>5. q = p
  <2>1. CASE Ending(q)
    BY <1>1, <2>1, EndingFacts
  <2>2. CASE ~Ending(q)
    BY <1>1, <1>2, <1>3, <2>2 DEF Goto, IInv, TypeOK
  <2>. QED  BY <2>1, <2>2
<1>. QED  BY <1>2, <1>4, <1>5

\* A command that returns leaves the pair it found or the pair it planned, unless its
\* rollback failed.  (commit_metadata_pair)
THEOREM NothingIsHalfCommitted == Spec => NoHalfCommit
<1>1. ASSUME IInv, MInv, [Next]_vars, NEW p \in Proc, pc[p] \in Locked \ {"read"},
             pc'[p] = "idle", result'[p] # "crashed"
      PROVE  \/ <<manifest', lock'>> = <<seen[p].manifest, seen[p].lock>>
             \/ <<manifest', lock'>> = <<plan[p].manifest, plan[p].lock>>
             \/ RollbackFails(p)
  <2>1. Ending(p) /\ WorkAt(p) /\ MetaAt(p)
    BY <1>1, EndsItself DEF IInv, MInv
  <2>2. lock' = lock /\ (~Rollback(p) => manifest' = manifest)
    BY <1>1, <2>1, EndingFacts
  <2>3. ~Crash(p)
    BY <1>1 DEF Crash, End, IInv, TypeOK
  <2>4. CASE Rollback(p)
    BY <2>1, <2>2, <2>4 DEF Rollback, MetaAt
  <2>5. CASE ~Rollback(p) /\ pc[p] \in {"install", "swap", "undo", "backup", "first"}
    BY <2>1, <2>2, <2>5 DEF WorkAt
  <2>6. CASE ~Rollback(p) /\ pc[p] \in {"drop", "cli", "delete", "deleting"}
    BY <2>1, <2>2, <2>6 DEF WorkAt, MetaAt
  <2>7. CASE ~Rollback(p) /\ pc[p] \in {"second", "rollback"}
    BY <2>1, <2>3, <2>7 DEF Ending, AddRead, RemoveRead, InstallDiffers, Undo, UndoFails, Deleted,
             DropBackupFails, Cli, StepFails
  <2>. QED  BY <1>1, <2>4, <2>5, <2>6, <2>7 DEF Locked
<1>2. IInv /\ MInv /\ [Next]_vars =>
        [\A p \in Proc :
          pc[p] \in Locked \ {"read"} /\ pc'[p] = "idle" /\ result'[p] # "crashed"
            => \/ <<manifest', lock'>> = <<seen[p].manifest, seen[p].lock>>
               \/ <<manifest', lock'>> = <<plan[p].manifest, plan[p].lock>>
               \/ RollbackFails(p)]_vars
  BY <1>1
<1>. QED  BY <1>2, PairInvariance, PTL DEF Spec, NoHalfCommit

\* An add that succeeds leaves files that agree, whatever the earlier failures and
\* crashes left, but for an optional dependency it made a plain one; and every locked
\* tree verified in its place.  (run_add, identical_tree)
THEOREM AddsRepair == Spec => AddRepairs
<1>1. ASSUME IInv, MInv, [Next]_vars, NEW p \in Proc, pc[p] \in Locked,
             job[p].kind = "add", pc'[p] = "idle", result'[p] = "ok"
      PROVE  /\ Covers(lock', manifest')
             /\ Agree(manifest', lock') \/ AddsOptional(seen[p].manifest, job[p])
             /\ \A t \in Named(lock') : store'[t] = "verified"
  <2>1. Ending(p) /\ WorkAt(p) /\ MetaAt(p)
    BY <1>1, EndsItself DEF IInv, MInv
  <2>2. \A how : End(p, how) => how = "ok"
    BY <1>1 DEF End, IInv, TypeOK
  <2>3. Cli(p)
    BY <1>1, <2>1, <2>2 DEF Ending, InstallDiffers, Undo, UndoFails, Deleted, Rollback,
       RollbackFails, DropBackupFails, StepFails, Fail, Crash, WorkAt
  <2>4. pc[p] = "cli" /\ manifest' = manifest /\ lock' = lock /\ store' = store
    BY <2>3 DEF Cli
  <2>5. /\ manifest = plan[p].manifest /\ lock = plan[p].lock
        /\ GoodPlan(job[p], seen[p], plan[p])
        /\ \A t \in Named(plan[p].lock) : store[t] = "verified"
    BY <1>1, <2>1, <2>4 DEF WorkAt, MetaAt, Locked
  <2>. QED  BY <1>1, <2>4, <2>5 DEF GoodPlan
<1>2. IInv /\ MInv /\ [Next]_vars =>
        [\A p \in Proc :
          pc[p] \in Locked /\ job[p].kind = "add" /\ pc'[p] = "idle" /\ result'[p] = "ok"
            => /\ Covers(lock', manifest')
               /\ Agree(manifest', lock') \/ AddsOptional(seen[p].manifest, job[p])
               /\ \A t \in Named(lock') : store'[t] = "verified"]_vars
  BY <1>1
<1>. QED  BY <1>2, PairInvariance, PTL DEF Spec, AddRepairs
=============================================================================
