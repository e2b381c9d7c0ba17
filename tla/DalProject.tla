----------------------------- MODULE DalProject -----------------------------
(***************************************************************************)
(* `fidan dal add` and `fidan dal remove` on one project: several CLI      *)
(* processes, the operation lock that serialises them, the files they      *)
(* replace one after the other (dal.toml, dal.lock, the package trees      *)
(* below .dal/packages and the commands below .dal/bin), an error at any   *)
(* file operation, and a crash between any two.                            *)
(*                                                                         *)
(* A package is a number (BTreeMaps walk them in order), a requirement the *)
(* set of versions it admits, and a tree <<package, version>> is absent,   *)
(* "verified" (equal to the registry's archive) or "partial" (a deletion   *)
(* that was interrupted).  The registry is the constant Requires, and the  *)
(* resolver may return any graph that satisfies the roots.                 *)
(***************************************************************************)
EXTENDS Naturals, FiniteSets

CONSTANTS Proc,           \* CLI processes
          NoProc,         \* the operation lock's holder when it is free
          Pkg, Ver,       \* package names and versions
          Requires,       \* Requires[n, v]: the packages n@v depends on, each with the versions it admits
          HasCli,         \* packages whose manifest has a [cli] section
          NoManifest,     \* dal.toml does not exist
          UserManifests,  \* manifests the user may have written before the first command
          Requests,       \* the command lines that are given
          MaxOps,         \* bound on the commands started
          MaxFaults       \* bound on I/O errors and crashes

ASSUME NamesAreNumbers == Pkg \subseteq Nat
ASSUME NoProcIsNone == NoProc \notin Proc
ASSUME CliPackages == HasCli \subseteq Pkg
ASSUME CommandLines ==
    Requests \subseteq [kind : {"add", "remove"}, pkg : Pkg, req : SUBSET Ver, force : BOOLEAN]
ASSUME UserFiles ==
    UserManifests \subseteq UNION {[S -> [req : SUBSET Ver, optional : BOOLEAN]] : S \in SUBSET Pkg}
ASSUME SomePackage == Pkg # {}

VARIABLES manifest,  \* dal.toml: NoManifest, or the direct dependencies and their specs
          lock,      \* dal.lock: package -> version; a missing file is the empty lock
          kept,      \* manifest backups left next to dal.toml
          store,     \* tree -> "absent", "verified" or "partial"
          saved,     \* replaced trees left behind in a backup directory: <<tree, content>>
          bin,       \* packages whose command is in .dal/bin
          holder,    \* who holds .dal/.operation.lock
          pc,        \* per process: the next file operation of its command
          job,       \* per process: the command line
          seen,      \* per process: the metadata it read under the lock
          plan,      \* per process: the metadata it is going to write
          todo,      \* per process: trees still to install or to delete
          moved,     \* per process: what `previous` in its own backup directory holds
          result,    \* per process: how its last command ended
          ops, faults

files == <<manifest, lock, kept, store, saved, bin>>
vars == <<manifest, lock, kept, store, saved, bin, holder, pc, job, seen, plan,
          todo, moved, result, ops, faults>>

Tree == Pkg \X Ver
Partial(D, R) == UNION {[S -> R] : S \in SUBSET D}
Content == {"absent", "verified", "partial"}
Dep == [req : SUBSET Ver, optional : BOOLEAN]
Manifest == {NoManifest} \cup Partial(Pkg, Dep)
ASSUME NoManifestIsNone == NoManifest \notin Partial(Pkg, Dep)
Lock == Partial(Pkg, Ver)
NoLock == [n \in {} |-> n]
Meta == [manifest : Manifest, lock : Lock]
Nothing == [manifest |-> NoManifest, lock |-> NoLock]
Job == [kind : {"add", "remove"}, pkg : Pkg, req : SUBSET Ver, force : BOOLEAN]
NoJob == [kind |-> "add", pkg |-> CHOOSE n \in Pkg : TRUE, req |-> {}, force |-> FALSE]

\* The steps of a command that runs under the operation lock.
Locked == {"read", "install", "swap", "undo", "backup", "first", "second",
           "rollback", "drop", "cli", "delete", "deleting"}

\* Every variable has its type.  (DalManifest, DalLock, the package store)
TypeOK ==
    /\ manifest \in Manifest
    /\ lock \in Lock
    /\ kept \subseteq Manifest \ {NoManifest}
    /\ store \in [Tree -> Content]
    /\ saved \subseteq Tree \X Content
    /\ bin \subseteq Pkg
    /\ holder \in Proc \cup {NoProc}
    /\ pc \in [Proc -> {"idle", "acquire"} \cup Locked]
    /\ job \in [Proc -> Job]
    /\ seen \in [Proc -> Meta]
    /\ plan \in [Proc -> Meta]
    /\ todo \in [Proc -> SUBSET Tree]
    /\ moved \in [Proc -> Content]
    /\ result \in [Proc -> {"none", "ok", "error", "crashed"}]
    /\ ops \in Nat
    /\ faults \in Nat

-----------------------------------------------------------------------------
(* Manifests, locks and dependency graphs.                                 *)

Specs(m) == IF m = NoManifest THEN NoLock ELSE m

\* The direct dependencies that take part in resolution.
Direct(m) == {n \in DOMAIN Specs(m) : ~m[n].optional}

\* A set of packages of l that has the dependencies of its members.
Closed(l, S) == \A n \in S : DOMAIN Requires[n, l[n]] \subseteq S

\* The packages of l that the names lead to.
Reach(l, names) ==
    {n \in DOMAIN l : \A S \in SUBSET DOMAIN l :
                          names \subseteq S /\ Closed(l, S) => n \in S}

\* A graph the resolver may return for these roots: it satisfies every
\* requirement, has no cycle, and holds nothing the roots do not lead to.
Solves(g, roots) ==
    /\ DOMAIN roots \subseteq DOMAIN g
    /\ \A n \in DOMAIN roots : g[n] \in roots[n]
    /\ \A n \in DOMAIN g : \A d \in DOMAIN Requires[n, g[n]] :
          d \in DOMAIN g /\ g[d] \in Requires[n, g[n]][d]
    /\ \A S \in SUBSET DOMAIN g : S # {} => \E n \in S : DOMAIN Requires[n, g[n]] \cap S = {}
    /\ Reach(g, DOMAIN roots) = DOMAIN g

\* Keep what the remaining direct dependencies need; a name the lock does not
\* have is an error.
CanPrune(l, names) == names \subseteq DOMAIN l
Prune(l, names) == [n \in Reach(l, names) |-> l[n]]

\* The requirements `add` hands to the resolver.
AddRoots(m, j) ==
    [n \in Direct(m) \cup {j.pkg} |->
        IF n = j.pkg /\ j.req # {} THEN j.req
        ELSE IF n \in Direct(m) THEN m[n].req ELSE Ver]

\* The manifest `add` writes when the resolver chose version v.
AddManifest(m, j, v) ==
    LET req == IF j.req # {} THEN j.req
               ELSE IF j.pkg \in DOMAIN Specs(m) THEN m[j.pkg].req ELSE {v}
    IN [n \in DOMAIN Specs(m) \cup {j.pkg} |->
           IF n = j.pkg THEN [req |-> req, optional |-> FALSE] ELSE m[n]]

\* An add, without a version, of a dependency that dal.toml lists as optional: it
\* is resolved in any version, and the requirement dal.toml has for it is kept.
AddsOptional(m, j) ==
    j.kind = "add" /\ j.req = {} /\ j.pkg \in DOMAIN Specs(m) \ Direct(m)

RemoveManifest(m, n) == [k \in DOMAIN m \ {n} |-> m[k]]

Named(l) == {<<n, l[n]>> : n \in DOMAIN l}

\* Mutant: whatever was locked is deleted, needed by another package or not.
AllTrees(old, new) == Named(old)

\* The trees of packages that are in the old lock and not, by name, in the new.
RemovedTrees(old, new) == {<<n, old[n]>> : n \in DOMAIN old \ DOMAIN new}

\* Lists of packages are walked in name order.
FirstOf(S) == CHOOSE t \in S : \A u \in S : t[1] <= u[1]

-----------------------------------------------------------------------------
(* Starting, ending, failing.                                              *)

Goto(p, label) == pc' = [pc EXCEPT ![p] = label]

\* Mutant: a lock file, which outlives its owner's crash.
StaleLock(p, how) ==
    /\ Goto(p, "idle")
    /\ result' = [result EXCEPT ![p] = how]
    /\ holder' = IF how = "crashed" THEN holder ELSE NoProc
    /\ todo' = [todo EXCEPT ![p] = {}]
    /\ moved' = [moved EXCEPT ![p] = "absent"]
    /\ job' = [job EXCEPT ![p] = NoJob]
    /\ seen' = [seen EXCEPT ![p] = Nothing]
    /\ plan' = [plan EXCEPT ![p] = Nothing]
    /\ UNCHANGED ops

\* The command returns: its guard releases the operation lock, and staging and
\* backup directories that were not forgotten are deleted.
End(p, how) ==
    /\ Goto(p, "idle")
    /\ result' = [result EXCEPT ![p] = how]
    /\ holder' = NoProc
    /\ todo' = [todo EXCEPT ![p] = {}]
    /\ moved' = [moved EXCEPT ![p] = "absent"]
    /\ job' = [job EXCEPT ![p] = NoJob]
    /\ seen' = [seen EXCEPT ![p] = Nothing]
    /\ plan' = [plan EXCEPT ![p] = Nothing]
    /\ UNCHANGED ops

Fault == faults < MaxFaults /\ faults' = faults + 1

\* A file operation failed and the command returns its error with the files as
\* they are.
Fail(p) == Fault /\ End(p, "error") /\ UNCHANGED files

Begin(p, j) ==
    /\ pc[p] = "idle"
    /\ ops < MaxOps
    /\ ops' = ops + 1
    /\ job' = [job EXCEPT ![p] = j]
    /\ Goto(p, "acquire")
    /\ UNCHANGED <<files, holder, seen, plan, todo, moved, result, faults>>

OperationLockFree == holder = NoProc

\* lock_dal_operation: the exclusive file lock, waited for without a time limit.
Acquire(p) ==
    /\ pc[p] = "acquire"
    /\ OperationLockFree
    /\ holder' = p
    /\ Goto(p, "read")
    /\ UNCHANGED <<files, job, seen, plan, todo, moved, result, ops, faults>>

\* Mutant: no copy of the manifest is made.
NoBackup(p) == {}

\* The copy of dal.toml that is made before it is replaced, if there is one.
BackupOf(p) == IF seen[p].manifest = NoManifest THEN {} ELSE {seen[p].manifest}

\* The process dies.  The system releases the file lock; files stay, with them
\* the backup directory and the manifest backup the process had made.
Crash(p) ==
    /\ pc[p] \in Locked
    /\ Fault
    /\ End(p, "crashed")
    /\ saved' = IF pc[p] \in {"swap", "undo"}
                THEN saved \cup {<<FirstOf(todo[p]), moved[p]>>} ELSE saved
    /\ kept' = IF pc[p] \in {"first", "second", "rollback", "drop"}
               THEN kept \cup BackupOf(p) ELSE kept
    /\ UNCHANGED <<manifest, lock, store, bin>>

-----------------------------------------------------------------------------
(* dal add: read, resolve, install every package, write the metadata pair. *)

\* Reads dal.toml and dal.lock and resolves.  The registry may be unreachable
\* or have no solution; nothing was written yet.
AddRead(p) ==
    /\ pc[p] = "read" /\ job[p].kind = "add"
    /\ \/ \E g \in Lock :
             /\ seen' = [seen EXCEPT ![p] = [manifest |-> manifest, lock |-> lock]]
             /\ Solves(g, AddRoots(manifest, job[p]))
             /\ plan' = [plan EXCEPT ![p] =
                   [manifest |-> AddManifest(manifest, job[p], g[job[p].pkg]), lock |-> g]]
             /\ todo' = [todo EXCEPT ![p] = Named(g)]
             /\ Goto(p, "install")
             /\ UNCHANGED <<holder, job, moved, result, ops>>
       \/ End(p, "error")
    /\ UNCHANGED <<files, faults>>

\* Mutant: a tree that is there is taken for the right one.
AnyTree(t) == TRUE

\* identical_tree: what is installed equals the verified archive.
Identical(t) == store[t] = "verified"

\* install_downloaded_package on the next resolved package, up to its first
\* rename.  The archive is unpacked and checked in a staging directory, so a
\* failure before the rename touches nothing.
Install(p) ==
    LET t == FirstOf(todo[p]) IN
    /\ pc[p] = "install" /\ todo[p] # {}
    /\ \/ /\ store[t] = "absent"          \* staging is renamed to the target
          /\ store' = [store EXCEPT ![t] = "verified"]
          /\ todo' = [todo EXCEPT ![p] = @ \ {t}]
          /\ UNCHANGED <<moved, pc>>
       \/ /\ store[t] # "absent" /\ ~job[p].force      \* it is kept if it is the same
          /\ Identical(t)
          /\ todo' = [todo EXCEPT ![p] = @ \ {t}]
          /\ UNCHANGED <<store, moved, pc>>
       \/ /\ store[t] # "absent" /\ job[p].force       \* target is renamed to previous
          /\ moved' = [moved EXCEPT ![p] = store[t]]
          /\ store' = [store EXCEPT ![t] = "absent"]
          /\ Goto(p, "swap")
          /\ UNCHANGED todo
    /\ UNCHANGED <<manifest, lock, kept, saved, bin, holder, job, seen, plan, result, ops, faults>>

\* A tree that is there and differs from the archive needs --force.
InstallDiffers(p) ==
    /\ pc[p] = "install" /\ todo[p] # {}
    /\ store[FirstOf(todo[p])] # "absent" /\ ~job[p].force
    /\ ~Identical(FirstOf(todo[p]))
    /\ End(p, "error")
    /\ UNCHANGED <<files, faults>>

\* Staging is renamed to the target, and the backup directory is dropped.
Swap(p) ==
    LET t == FirstOf(todo[p]) IN
    /\ pc[p] = "swap"
    /\ store' = [store EXCEPT ![t] = "verified"]
    /\ todo' = [todo EXCEPT ![p] = @ \ {t}]
    /\ moved' = [moved EXCEPT ![p] = "absent"]
    /\ Goto(p, "install")
    /\ UNCHANGED <<manifest, lock, kept, saved, bin, holder, job, seen, plan, result, ops, faults>>

SwapFails(p) ==
    /\ pc[p] = "swap"
    /\ Fault
    /\ Goto(p, "undo")
    /\ UNCHANGED <<files, holder, job, seen, plan, todo, moved, result, ops>>

\* Mutant: the backup directory is dropped with the old tree in it.
NothingUndone(p) ==
    /\ pc[p] = "undo"
    /\ End(p, "error")
    /\ UNCHANGED <<files, faults>>

\* `previous` is renamed back; the command fails with the old tree in place.
Undo(p) ==
    /\ pc[p] = "undo"
    /\ store' = [store EXCEPT ![FirstOf(todo[p])] = moved[p]]
    /\ End(p, "error")
    /\ UNCHANGED <<manifest, lock, kept, saved, bin, faults>>

\* Renaming it back fails too: the backup directory is forgotten, not dropped.
UndoFails(p) ==
    /\ pc[p] = "undo"
    /\ Fault
    /\ saved' = saved \cup {<<FirstOf(todo[p]), moved[p]>>}
    /\ End(p, "error")
    /\ UNCHANGED <<manifest, lock, kept, store, bin>>

Installed(p) ==
    /\ pc[p] = "install" /\ todo[p] = {}
    /\ Goto(p, "backup")
    /\ UNCHANGED <<files, holder, job, seen, plan, todo, moved, result, ops, faults>>

-----------------------------------------------------------------------------
(* dal remove: read, prune, write the metadata pair, delete what it dropped. *)

\* The direct dependency is looked up, dropped, and the lock pruned to what
\* the others need.
RemoveRead(p) ==
    LET n == job[p].pkg
        names == DOMAIN Specs(manifest) \ {n} IN
    /\ pc[p] = "read" /\ job[p].kind = "remove"
    /\ IF n \in DOMAIN Specs(manifest) /\ CanPrune(lock, names)
       THEN /\ seen' = [seen EXCEPT ![p] = [manifest |-> manifest, lock |-> lock]]
            /\ plan' = [plan EXCEPT ![p] =
                  [manifest |-> RemoveManifest(manifest, n), lock |-> Prune(lock, names)]]
            /\ todo' = [todo EXCEPT ![p] = RemovedTrees(lock, Prune(lock, names))]
            /\ Goto(p, "backup")
            /\ UNCHANGED <<holder, job, moved, result, ops>>
       ELSE End(p, "error")
    /\ UNCHANGED <<files, faults>>

\* remove_installed_packages on the next tree: remove_dir_all empties it entry
\* by entry before the directory itself goes.
Delete(p) ==
    LET t == FirstOf(todo[p]) IN
    /\ pc[p] = "delete" /\ todo[p] # {}
    /\ IF store[t] = "absent"
       THEN todo' = [todo EXCEPT ![p] = @ \ {t}] /\ UNCHANGED <<store, pc>>
       ELSE /\ store' = [store EXCEPT ![t] = "partial"]
            /\ Goto(p, "deleting")
            /\ UNCHANGED todo
    /\ UNCHANGED <<manifest, lock, kept, saved, bin, holder, job, seen, plan, moved, result, ops, faults>>

Deleting(p) ==
    LET t == FirstOf(todo[p]) IN
    /\ pc[p] = "deleting"
    /\ store' = [store EXCEPT ![t] = "absent"]
    /\ todo' = [todo EXCEPT ![p] = @ \ {t}]
    /\ Goto(p, "delete")
    /\ UNCHANGED <<manifest, lock, kept, saved, bin, holder, job, seen, plan, moved, result, ops, faults>>

Deleted(p) ==
    /\ pc[p] = "delete" /\ todo[p] = {}
    /\ End(p, "ok")
    /\ UNCHANGED <<files, faults>>

-----------------------------------------------------------------------------
(* commit_metadata_pair: dal.toml, then dal.lock, then the backup's removal. *)

\* Metadata not touched since the command read it is copied to a backup file.
Backup(p) ==
    /\ pc[p] = "backup"
    /\ Goto(p, "first")
    /\ UNCHANGED <<files, holder, job, seen, plan, todo, moved, result, ops, faults>>

\* write_manifest, an atomic replacement.
WriteFirst(p) ==
    /\ pc[p] = "first"
    /\ manifest' = plan[p].manifest
    /\ Goto(p, "second")
    /\ UNCHANGED <<lock, kept, store, saved, bin, holder, job, seen, plan, todo, moved, result, ops, faults>>

\* write_lock, or the removal of the file when no package is left.
WriteSecond(p) ==
    /\ pc[p] = "second"
    /\ lock' = plan[p].lock
    /\ Goto(p, "drop")
    /\ UNCHANGED <<manifest, kept, store, saved, bin, holder, job, seen, plan, todo, moved, result, ops, faults>>

WriteSecondFails(p) ==
    /\ pc[p] = "second"
    /\ Fault
    /\ Goto(p, "rollback")
    /\ UNCHANGED <<files, holder, job, seen, plan, todo, moved, result, ops>>

\* Mutant: the error of the second write is returned at once.
NoRollback(p) ==
    /\ pc[p] = "rollback"
    /\ End(p, "error")
    /\ UNCHANGED <<files, faults>>

\* The backup is renamed over dal.toml, or a dal.toml that was new is removed.
Rollback(p) ==
    /\ pc[p] = "rollback"
    /\ manifest' = seen[p].manifest
    /\ End(p, "error")
    /\ UNCHANGED <<lock, kept, store, saved, bin, faults>>

RollbackFails(p) ==
    /\ pc[p] = "rollback"
    /\ Fault
    /\ kept' = kept \cup BackupOf(p)
    /\ End(p, "error")
    /\ UNCHANGED <<manifest, lock, store, saved, bin>>

DropBackup(p) ==
    /\ pc[p] = "drop"
    /\ Goto(p, "cli")
    /\ UNCHANGED <<files, holder, job, seen, plan, todo, moved, result, ops, faults>>

\* Both files are committed, the backup cannot be deleted, the command fails.
DropBackupFails(p) ==
    /\ pc[p] = "drop"
    /\ Fault
    /\ kept' = kept \cup BackupOf(p)
    /\ End(p, "error")
    /\ UNCHANGED <<manifest, lock, store, saved, bin>>

\* After an add, the requested package's command is built; after a remove it is
\* deleted if the package's tree can still tell its name.
Cli(p) ==
    LET n == job[p].pkg IN
    /\ pc[p] = "cli"
    /\ \/ /\ job[p].kind = "add"
          /\ bin' = IF n \in HasCli THEN bin \cup {n} ELSE bin
          /\ End(p, "ok")
       \/ /\ job[p].kind = "remove"
          /\ bin' = IF /\ n \in HasCli \cap DOMAIN seen[p].lock
                       /\ store[<<n, seen[p].lock[n]>>] = "verified"
                    THEN bin \ {n} ELSE bin
          /\ Goto(p, "delete")
          /\ UNCHANGED <<holder, job, seen, plan, todo, moved, result, ops>>
    /\ UNCHANGED <<manifest, lock, kept, store, saved, faults>>

\* Steps whose failure makes the command return its error with the files as
\* they are: unpacking and the first rename, the backup copy, dal.toml (the
\* backup is removed again), the command, a deletion.
StepFails(p) == pc[p] \in {"install", "backup", "first", "cli", "delete", "deleting"} /\ Fail(p)

-----------------------------------------------------------------------------
Init ==
    /\ manifest \in {NoManifest} \cup UserManifests
    /\ lock = NoLock
    /\ kept = {}
    /\ store = [t \in Tree |-> "absent"]
    /\ saved = {}
    /\ bin = {}
    /\ holder = NoProc
    /\ pc = [p \in Proc |-> "idle"]
    /\ job = [p \in Proc |-> NoJob]
    /\ seen = [p \in Proc |-> Nothing]
    /\ plan = [p \in Proc |-> Nothing]
    /\ todo = [p \in Proc |-> {}]
    /\ moved = [p \in Proc |-> "absent"]
    /\ result = [p \in Proc |-> "none"]
    /\ ops = 0
    /\ faults = 0

Add(p) == AddRead(p) \/ Install(p) \/ InstallDiffers(p) \/ Swap(p) \/ SwapFails(p)
          \/ Undo(p) \/ UndoFails(p) \/ Installed(p)
Remove(p) == RemoveRead(p) \/ Delete(p) \/ Deleting(p) \/ Deleted(p)
Commit(p) == Backup(p) \/ WriteFirst(p) \/ WriteSecond(p) \/ WriteSecondFails(p)
             \/ Rollback(p) \/ RollbackFails(p) \/ DropBackup(p) \/ DropBackupFails(p) \/ Cli(p)

Step(p) == Acquire(p) \/ Add(p) \/ Remove(p) \/ Commit(p) \/ StepFails(p)

Next == \E p \in Proc :
    \/ \E j \in Requests : Begin(p, j)
    \/ Step(p)
    \/ Crash(p)

Fairness == \A p \in Proc : WF_vars(Step(p))

Spec == Init /\ [][Next]_vars
FairSpec == Spec /\ Fairness

-----------------------------------------------------------------------------
(* Properties.                                                             *)

\* Somewhere on disk: in its place, in the backup directory of a replacement
\* that is under way, or in one that was left behind.
Copies(t) ==
    {store[t]} \cup {moved[p] : p \in {q \in Proc : pc[q] \in {"swap", "undo"} /\ FirstOf(todo[q]) = t}}
               \cup {c \in Content : <<t, c>> \in saved}

\* The lock never names a tree that is lost: whatever fails or dies, and in
\* the middle of a forced replacement, the verified tree of every locked
\* version is in its place or in a backup directory.
\* (install_downloaded_package, removed_installed_packages)
LockNeverDangles == \A t \in Named(lock) : "verified" \in Copies(t)

\* A lock that covers a manifest: it has every direct dependency, and all
\* that its packages depend on.
Covers(l, m) == Direct(m) \subseteq DOMAIN l /\ Closed(l, DOMAIN l)

\* ... and it has each direct dependency in a version the manifest admits.
Agree(m, l) == Covers(l, m) /\ \A n \in Direct(m) : l[n] \in m[n].req

\* dal.lock may fail to cover dal.toml only after a crash or a failed rollback
\* between the two writes, and then the manifest that it covers is in a backup
\* file; or nothing has ever been locked.  (commit_metadata_pair)
MetadataRecoverable ==
    holder = NoProc =>
        \/ Covers(lock, manifest)
        \/ \E m \in kept : Covers(lock, m)
        \/ lock = NoLock

\* No command makes a pair of files disagree: what an add is going to write
\* agrees, and so does what a remove is going to write if what it read agreed.
\* (A remove run on a pair that a crash left in disagreement only prunes it, so
\* the versions may go on disagreeing until the next add; and an add of an optional
\* dependency may choose a version dal.toml does not admit.  The lock covers the
\* manifest all the same.)
\* (resolve_manifest_dependencies, prune_lock_to_dependencies)
PlansAgree ==
    \A p \in Proc : pc[p] \in Locked \ {"read"} =>
        /\ Covers(plan[p].lock, plan[p].manifest)
        /\ \/ Agree(plan[p].manifest, plan[p].lock)
           \/ job[p].kind = "remove" /\ ~Agree(seen[p].manifest, seen[p].lock)
           \/ AddsOptional(seen[p].manifest, job[p])

\* What a command has read stays true until it writes: no other command gets
\* between the read of the metadata and its replacement.  (lock_dal_operation)
ReadsStayTrue ==
    \A p \in Proc : pc[p] \in {"install", "swap", "undo", "backup", "first"} =>
        manifest = seen[p].manifest /\ lock = seen[p].lock

\* Whatever fails or dies, what commands read and what importers read is sound.
Consistent == TypeOK /\ LockNeverDangles /\ ReadsStayTrue

\* The two files are or will be a pair: on disk up to a crash, and in every plan.
PairsAgree == MetadataRecoverable /\ PlansAgree

\* A command that returns, with success or with an error, leaves the metadata
\* pair it found or the pair it planned; only a rollback that itself fails, or
\* a crash, leaves one file of each.  (commit_metadata_pair, its rollback)
NoHalfCommit ==
    [][\A p \in Proc :
          pc[p] \in Locked \ {"read"} /\ pc'[p] = "idle" /\ result'[p] # "crashed"
            => \/ <<manifest', lock'>> = <<seen[p].manifest, seen[p].lock>>
               \/ <<manifest', lock'>> = <<plan[p].manifest, plan[p].lock>>
               \/ RollbackFails(p)]_vars

\* An add that succeeds repairs whatever earlier failures and crashes left: the two
\* files agree, but for an optional dependency it made a plain one, and every locked
\* tree is in its place and verified.
\* (DAL_PACKAGE_CONTRACT.md: rerun `dal add`; identical_tree)
AddRepairs ==
    [][\A p \in Proc :
          pc[p] \in Locked /\ job[p].kind = "add" /\ pc'[p] = "idle" /\ result'[p] = "ok"
            => /\ Covers(lock', manifest')
               /\ Agree(manifest', lock') \/ AddsOptional(seen[p].manifest, job[p])
               /\ \A t \in Named(lock') : store'[t] = "verified"]_vars

\* Every command ends, whoever else waits for the operation lock, whatever
\* fails and whoever dies.  (lock_dal_operation: the lock goes with its process)
Ends == \A p \in Proc : pc[p] # "idle" ~> pc[p] = "idle"

\* A package that dal.toml lists can be removed when nothing fails.  It is not
\* so in a project with an optional dependency that nothing has activated.
\* (README: "Remove a local or global package install")
RemoveWorks ==
    [][\A p \in Proc :
          pc[p] = "read" /\ job[p].kind = "remove" /\ job[p].pkg \in DOMAIN Specs(manifest)
            /\ pc'[p] = "idle" => result'[p] # "error"]_vars

\* Importers see a package store: the lock is its index, and the trees are
\* those of which a verified copy exists.  (write_project_state)
Store == INSTANCE PackageStore WITH
    index <- lock, trees <- {t \in Tree : "verified" \in Copies(t)}
StoreRefined == Store!Spec
=============================================================================
