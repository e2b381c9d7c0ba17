------------------------------ MODULE Installer ------------------------------
(***************************************************************************)
(* The installed compiler versions (fidan-driver/src/install.rs) and the   *)
(* commands `fidan self list | install | use | remove`                     *)
(* (fidan-cli/src/self_cmd.rs, distribution.rs), each a process of its own *)
(* that may fail or die between any two of its file operations.            *)
(*                                                                         *)
(* Three things say which version is active and which are there: the file  *)
(* active-version.json, the directory pointer `current` and the            *)
(* directories under versions/; installs.json records archive checksums.   *)
(* Only the publication of a release is under a lock.                      *)
(*                                                                         *)
(* Names of directories are numbers in the order in which `latest` sorts   *)
(* them: versions first, then the temporary directories, whose names begin *)
(* with letters.                                                           *)
(***************************************************************************)
EXTENDS Naturals, FiniteSets, FiniteSetsExt

CONSTANTS
  MaxVersion,    \* the versions that the manifest offers are 1 .. MaxVersion
  MaxCommands,   \* the commands, each a process, are 1 .. MaxCommands
  MaxRunning,    \* bound on the commands that run at the same time
  MaxFaults      \* bound on operations that fail and processes that die

ASSUME BoundsAssumption ==
  /\ MaxVersion \in Nat \ {0} /\ MaxCommands \in Nat \ {0}
  /\ MaxRunning \in Nat \ {0} /\ MaxFaults \in Nat

Versions == 1 .. MaxVersion
Procs == 1 .. MaxCommands
Stage(p) == MaxVersion + p                    \* fidan-<version>.tmp-<pid>-<ms>
Backup(p) == MaxVersion + MaxCommands + p     \* release-backup.tmp-<pid>-<ms>
Names == 1 .. MaxVersion + 2 * MaxCommands
None == 0

VARIABLES
  tree,      \* name -> its directory: none, a husk without the binary, or whole
  active,    \* active-version.json, or None
  recorded,  \* installs.json: version -> checksum known; or NoFile
  pointer,   \* the target of `current`, or None
  lock,      \* version -> the process that publishes it, or None
  doomed,    \* the cleanup after the last uninstallation is scheduled
  job,       \* process -> its command, where it is in it, and what it has read
  faults,    \* how many faults have happened
  owed,      \* history: the versions published and not removed since
  alone      \* history: process -> nobody else has run since it began

disk == <<tree, active, recorded, pointer, doomed>>
vars == <<disk, lock, job, faults, owed, alone>>

NoFile == [v \in {None} |-> FALSE]

Commands == {"list", "install", "use", "remove"}
Ended == {"idle", "done", "failed"}

\* scan_installed_versions: whatever directory holds the binary.
Scanned == {n \in Names : tree[n] = "whole"}

\* read_current_version_from_pointer: a pointer to nothing is as good as none.
Exists(n) == n # None /\ tree[n] # "none"
Current == IF Exists(pointer) THEN pointer ELSE None

Busy(p) == job[p].at \notin Ended

Fresh(cmd, ver, where) ==
  [cmd |-> cmd, ver |-> ver, at |-> where, seen |-> {}, want |-> None, recs |-> NoFile, had |-> 0]

\* A command that has ended is remembered for the backup that it may have left.
Remembered(j, where) == Fresh("list", IF j.cmd = "install" THEN j.ver ELSE None, where)

\* Process p goes on at `where`, with what it has learnt, or ends.
Go(p, where) ==
  job' = [job EXCEPT ![p] = IF where \in Ended THEN Remembered(@, where) ELSE [@ EXCEPT !.at = where]]

Fault == faults < MaxFaults /\ faults' = faults + 1

At(p, where) == job[p].at = where

-----------------------------------------------------------------------------
Init ==
  /\ \E S \in SUBSET Versions :
       /\ tree = [n \in Names |-> IF n \in S THEN "whole" ELSE "none"]
       /\ active \in IF S = {} THEN {None} ELSE S
       /\ recorded = IF S = {} THEN NoFile ELSE [v \in S |-> TRUE]
       /\ owed = S
  /\ pointer = active
  /\ lock = [v \in Versions |-> None]
  /\ doomed = FALSE
  /\ job = [p \in Procs |-> Fresh("list", None, "idle")]
  /\ faults = 0
  /\ alone = [p \in Procs |-> FALSE]

\* A command begins; they are numbered as they do.  A version may be named, or be
\* the `latest` of what is installed (of what the manifest offers, for install).
Begin(p) ==
  /\ At(p, "idle") /\ \A q \in 1 .. p - 1 : ~At(q, "idle")
  /\ Cardinality({q \in Procs : Busy(q)}) < MaxRunning
  /\ \E cmd \in Commands : \E v \in Names \cup {None} :
       /\ cmd \in {"use", "remove"} => v \in Scanned /\ (v \in Versions \/ v = Max(Scanned))
       /\ cmd = "install" => v \in Versions
       /\ cmd = "list" => v = None
       /\ job' = [job EXCEPT ![p] = Fresh(cmd, v, CASE cmd = "use" -> "ensure"
                                                    [] cmd = "remove" -> "count"
                                                    [] OTHER -> "scan")]
  /\ alone' = [q \in Procs |-> q = p /\ ~doomed /\ \A r \in Procs : ~Busy(r)]
  /\ UNCHANGED <<disk, lock, faults, owed>>

-----------------------------------------------------------------------------
(* load_or_repair_metadata, which list, install and remove run first.      *)

\* Where a command goes on after the repair; an installation does either way.
AfterRepair(p) ==
  CASE job[p].cmd = "list" -> "done" [] job[p].cmd = "install" -> "check" [] OTHER -> "decide"

RepairFails(p) ==
  Go(p, IF job[p].cmd = "install" THEN "check" ELSE "failed")

Scan(p) ==
  /\ At(p, "scan")
  /\ IF Scanned # {} THEN job' = [job EXCEPT ![p].at = "read", ![p].seen = Scanned]
     ELSE IF job[p].cmd = "list" THEN Go(p, "done")
     ELSE RepairFails(p)
  /\ UNCHANGED <<disk, lock, faults, owed, alone>>

\* The active version: the file's, else the pointer's, else the only one.
Inferred(seen) ==
  IF active \in seen THEN {active}
  ELSE IF Current \in seen THEN {Current}
  ELSE IF Cardinality(seen) = 1 THEN seen
  ELSE {}

ReadMetadata(p) ==
  /\ At(p, "read")
  /\ IF Inferred(job[p].seen) = {}
     THEN RepairFails(p)
     ELSE \E v \in Inferred(job[p].seen) :
            job' = [job EXCEPT ![p].at = "activate", ![p].want = v, ![p].seen = {},
                     ![p].recs = IF recorded = NoFile THEN [n \in job[p].seen |-> FALSE]
                                                      ELSE recorded]
  /\ UNCHANGED <<disk, lock, faults, owed, alone>>

\* Each file is replaced by renaming a complete sibling over it.  (write_json_atomic)
WriteActive(p) ==
  /\ At(p, "activate") \/ At(p, "persist")
  /\ active' = job[p].want
  /\ Go(p, IF At(p, "activate") THEN "record" ELSE "unlink")
  /\ UNCHANGED <<tree, recorded, pointer, doomed, lock, faults, owed, alone>>

WriteRecorded(p) ==
  /\ At(p, "record")
  /\ recorded' = job[p].recs
  /\ Go(p, "repoint")
  /\ UNCHANGED <<tree, active, pointer, doomed, lock, faults, owed, alone>>

Repairing(p) == At(p, "repoint") \/ At(p, "relink")
Pointed(p) == IF Repairing(p) THEN AfterRepair(p) ELSE "done"
NotPointed(p) == IF Repairing(p) THEN RepairFails(p) ELSE Go(p, "failed")

\* Mutant: a pointer is a pointer.
PointerLeft(p) == pointer # None

\* ensure_current_points_to: nothing to do if it does.
PointerRight(p) == Current = job[p].want

\* ... else what is there is removed first.  A pointer to nothing does not
\* count as there.
Unlink(p) ==
  /\ At(p, "repoint") \/ At(p, "unlink")
  /\ IF tree[job[p].want] = "none" THEN NotPointed(p) /\ UNCHANGED pointer
     ELSE IF PointerRight(p) THEN Go(p, Pointed(p)) /\ UNCHANGED pointer
     ELSE /\ pointer' = IF Exists(pointer) THEN None ELSE pointer
          /\ Go(p, IF Repairing(p) THEN "relink" ELSE "link")
  /\ UNCHANGED <<tree, active, recorded, doomed, lock, faults, owed, alone>>

\* symlink(2) does not replace.
Link(p) ==
  /\ At(p, "relink") \/ At(p, "link")
  /\ IF pointer = None
     THEN pointer' = job[p].want /\ Go(p, Pointed(p))
     ELSE pointer' = pointer /\ NotPointed(p)
  /\ UNCHANGED <<tree, active, recorded, doomed, lock, faults, owed, alone>>

-----------------------------------------------------------------------------
(* self use: persist_active_version, then ensure_current_points_to.        *)

Ensure(p) ==
  /\ At(p, "ensure")
  /\ IF job[p].ver \in Scanned
     THEN job' = [job EXCEPT ![p].at = "persist", ![p].want = job[p].ver]
     ELSE Go(p, "failed")
  /\ UNCHANGED <<disk, lock, faults, owed, alone>>

-----------------------------------------------------------------------------
(* self install: materialize_release_root under the publication lock, then *)
(* register_install.                                                       *)

\* The release is there and recorded with the checksum that the manifest gives.
Check(p) ==
  LET v == job[p].ver IN
  /\ At(p, "check")
  /\ IF Exists(v) /\ v \in DOMAIN job[p].recs /\ job[p].recs[v]
     THEN Go(p, "failed")
     ELSE job' = [job EXCEPT ![p].at = "extract", ![p].want = None, ![p].recs = NoFile]
  /\ UNCHANGED <<disk, lock, faults, owed, alone>>

\* The archive holds the binary at its root, or in a directory of its own.
Extract(p) ==
  /\ At(p, "extract")
  /\ \E content \in {"husk", "whole"} : tree' = [tree EXCEPT ![Stage(p)] = content]
  /\ Go(p, "lock")
  /\ UNCHANGED <<active, recorded, pointer, doomed, lock, faults, owed, alone>>

\* ReleasePublicationLock::acquire does not wait.  The staged tree stays.
AcquireLock(p) ==
  /\ At(p, "lock")
  /\ IF lock[job[p].ver] = None
     THEN lock' = [lock EXCEPT ![job[p].ver] = p] /\ Go(p, "retain")
     ELSE lock' = lock /\ Go(p, "failed")
  /\ UNCHANGED <<disk, faults, owed, alone>>

\* Mutant: the previous release is deleted, to make room.
Deleted(p) == [tree EXCEPT ![job[p].ver] = "none"]

\* The previous release is renamed away ...
SetAside(p) == [tree EXCEPT ![job[p].ver] = "none", ![Backup(p)] = tree[job[p].ver]]

Retain(p) ==
  /\ At(p, "retain")
  /\ tree' = IF Exists(job[p].ver) THEN SetAside(p) ELSE tree
  /\ Go(p, "publish")
  /\ UNCHANGED <<active, recorded, pointer, doomed, lock, faults, owed, alone>>

Unlocked(p) == [lock EXCEPT ![job[p].ver] = IF @ = p THEN None ELSE @]

\* ... and the prepared one renamed in.
Publish(p) ==
  /\ At(p, "publish")
  /\ ~Exists(job[p].ver)
  /\ tree' = [tree EXCEPT ![job[p].ver] = "whole", ![Stage(p)] = "none"]
  /\ owed' = owed \cup {job[p].ver}
  /\ Go(p, "tidy")
  /\ UNCHANGED <<active, recorded, pointer, doomed, lock, faults, alone>>

\* That fails: the previous release is put back, unless that fails too.
PublishFails(p) ==
  /\ At(p, "publish")
  /\ IF Exists(job[p].ver) THEN UNCHANGED faults ELSE Fault
  /\ \/ /\ tree' = IF Exists(Backup(p)) /\ ~Exists(job[p].ver)
                   THEN [tree EXCEPT ![job[p].ver] = tree[Backup(p)], ![Backup(p)] = "none"]
                   ELSE tree
     \/ tree' = tree
  /\ lock' = Unlocked(p)
  /\ Go(p, "failed")
  /\ UNCHANGED <<active, recorded, pointer, doomed, owed, alone>>

\* The backup goes, or is left behind with a warning.
Tidy(p) ==
  /\ At(p, "tidy")
  /\ \/ tree' = [tree EXCEPT ![Backup(p)] = "none"] /\ UNCHANGED faults
     \/ tree' = tree /\ Fault
  /\ lock' = Unlocked(p)
  /\ Go(p, "register")
  /\ UNCHANGED <<active, recorded, pointer, doomed, owed, alone>>

\* register_install: is this the first one?
Register(p) ==
  /\ At(p, "register")
  /\ job' = [job EXCEPT ![p].at = "note", ![p].want = job[p].ver,
              ![p].had = Cardinality(Scanned)]
  /\ UNCHANGED <<disk, lock, faults, owed, alone>>

Records(r) == DOMAIN r \ {None}

Entered(p) ==
  [v \in Records(recorded) \cup {job[p].ver} |-> v = job[p].ver \/ recorded[v]]

ReadRecorded(p) ==
  /\ At(p, "note")
  /\ job' = [job EXCEPT ![p].at = "enter", ![p].recs = Entered(p)]
  /\ UNCHANGED <<disk, lock, faults, owed, alone>>

EnterRecord(p) ==
  /\ At(p, "enter")
  /\ recorded' = job[p].recs
  /\ Go(p, IF job[p].had <= 1 THEN "persist" ELSE "done")
  /\ UNCHANGED <<tree, active, pointer, doomed, lock, faults, owed, alone>>

-----------------------------------------------------------------------------
(* self remove.                                                            *)

Count(p) ==
  /\ At(p, "count")
  /\ job' = [job EXCEPT ![p].at = "scan", ![p].had = Cardinality(Scanned)]
  /\ UNCHANGED <<disk, lock, faults, owed, alone>>

\* Mutant: any version may go.
NeverActive(p) == FALSE

IsActive(p) == job[p].want = job[p].ver

\* The active version goes only as the last one, and the whole root with it,
\* a second later.
Decide(p) ==
  /\ At(p, "decide")
  /\ IF IsActive(p) /\ job[p].had > 1 THEN Go(p, "failed") /\ UNCHANGED doomed
     ELSE IF IsActive(p) /\ job[p].had = 1 THEN Go(p, "done") /\ doomed' = TRUE
     ELSE Go(p, "delete") /\ UNCHANGED doomed
  /\ UNCHANGED <<tree, active, recorded, pointer, lock, faults, owed, alone>>

\* The releases that a directory may hold.
Holds(n) == {n} \cup {job[q].ver : q \in {r \in Procs : n = Backup(r)}}

\* remove_dir_all, which may stop half way.
Delete(p) ==
  /\ At(p, "delete")
  /\ owed' = owed \ Holds(job[p].ver)
  /\ \/ /\ Exists(job[p].ver)
        /\ tree' = [tree EXCEPT ![job[p].ver] = "none"]
        /\ Go(p, "strike")
        /\ UNCHANGED faults
     \/ /\ \E left \in {tree[job[p].ver], "husk"} :
             /\ Exists(job[p].ver)
             /\ tree' = [tree EXCEPT ![job[p].ver] = left]
        /\ Go(p, "failed")
        /\ Fault
     \/ ~Exists(job[p].ver) /\ Go(p, "failed") /\ UNCHANGED <<tree, faults>>
  /\ UNCHANGED <<active, recorded, pointer, doomed, lock, alone>>

\* remove_install_record.
Strike(p) ==
  /\ At(p, "strike")
  /\ job' = [job EXCEPT ![p].at = "erase",
              ![p].recs = [v \in Records(recorded) \ {job[p].ver} |-> recorded[v]]]
  /\ UNCHANGED <<disk, lock, faults, owed, alone>>

\* The last record takes installs.json and then active-version.json with it.
Erase(p) ==
  /\ At(p, "erase")
  /\ IF DOMAIN job[p].recs = {}
     THEN recorded' = NoFile /\ Go(p, "forget")
     ELSE recorded' = job[p].recs /\ Go(p, "done")
  /\ UNCHANGED <<tree, active, pointer, doomed, lock, faults, owed, alone>>

Forget(p) ==
  /\ At(p, "forget")
  /\ active' = None
  /\ Go(p, "done")
  /\ UNCHANGED <<tree, recorded, pointer, doomed, lock, faults, owed, alone>>

\* schedule_last_uninstall_cleanup: rm -rf of the root, by a shell of its own.
Wipe ==
  /\ doomed
  /\ doomed' = FALSE
  /\ tree' = [n \in Names |-> "none"]
  /\ active' = None /\ pointer' = None /\ recorded' = NoFile
  /\ owed' = {}
  /\ alone' = [p \in Procs |-> FALSE]
  /\ UNCHANGED <<lock, job, faults>>

-----------------------------------------------------------------------------
\* A process dies, or an operation fails and ends its command.  Its lock goes,
\* by the operating system if need be.
Die(p) ==
  /\ Busy(p)
  /\ Fault
  /\ lock' = [v \in Versions |-> IF lock[v] = p THEN None ELSE lock[v]]
  /\ Go(p, "failed")
  /\ UNCHANGED <<disk, owed, alone>>

Repair(p) == Scan(p) \/ ReadMetadata(p) \/ WriteActive(p) \/ WriteRecorded(p)
             \/ Unlink(p) \/ Link(p)
Install(p) == Check(p) \/ Extract(p) \/ AcquireLock(p) \/ Retain(p) \/ Publish(p)
              \/ PublishFails(p) \/ Tidy(p) \/ Register(p) \/ ReadRecorded(p)
              \/ EnterRecord(p)
Remove(p) == Count(p) \/ Decide(p) \/ Delete(p) \/ Strike(p) \/ Erase(p) \/ Forget(p)

Next ==
  \/ \E p \in Procs : Begin(p) \/ Repair(p) \/ Ensure(p) \/ Install(p) \/ Remove(p) \/ Die(p)
  \/ Wipe

Spec == Init /\ [][Next]_vars

-----------------------------------------------------------------------------
(* Properties.                                                             *)

Places == {"idle", "scan", "read", "activate", "record", "repoint", "relink", "ensure",
           "persist", "unlink", "link", "check", "extract", "lock", "retain", "publish",
           "tidy", "register", "note", "enter", "count", "decide", "delete", "strike",
           "erase", "forget", "done", "failed"}

IsRecord(r) == DOMAIN r \subseteq Names \cup {None} /\ \A v \in DOMAIN r : r[v] \in BOOLEAN

\* Every variable has its type, and a release is locked by who publishes it, and
\* by nobody once that command has ended or died.  (ReleasePublicationLock)
TypeOK ==
  /\ tree \in [Names -> {"none", "husk", "whole"}]
  /\ active \in Names \cup {None} /\ pointer \in Names \cup {None}
  /\ IsRecord(recorded)
  /\ doomed \in BOOLEAN /\ faults \in 0 .. MaxFaults /\ owed \subseteq Versions
  /\ alone \in [Procs -> BOOLEAN]
  /\ \A p \in Procs :
       /\ job[p].cmd \in Commands /\ job[p].at \in Places
       /\ job[p].ver \in Names \cup {None} /\ job[p].want \in Names \cup {None}
       /\ job[p].seen \subseteq Names /\ job[p].had \in 0 .. Cardinality(Names) /\ IsRecord(job[p].recs)
  /\ lock \in [Versions -> Procs \cup {None}]
  /\ \A v \in Versions : lock[v] # None =>
       job[lock[v]].ver = v /\ job[lock[v]].at \in {"retain", "publish", "tidy"}

\* A release that was installed is never lost to a refresh, whatever fails or
\* dies: it is in its place or in the backup of a refresh.  (materialize_release_root)
ReleasesSurvive ==
  \A v \in owed :
    \/ tree[v] = "whole"
    \/ \E p \in Procs : job[p].ver = v /\ tree[Backup(p)] = "whole"

\* No release is lost, and none stays locked.
Consistent == TypeOK /\ ReleasesSurvive

\* Process p ends well, and nothing else has happened since it began.
EndsWell(p) == At(p, "done")' /\ ~At(p, "done") /\ alone[p]

\* Whatever earlier commands left behind when they died: after a list, a use or a
\* first installation that succeeds undisturbed, the file and the pointer agree on
\* a version that is there, the one asked for.
\* (load_or_repair_metadata, set_active_version, register_install)
ActiveAgrees ==
  [][\A p \in Procs :
       EndsWell(p) /\ (job[p].cmd \in {"list", "use"} \/ (job[p].cmd = "install" /\ job[p].had <= 1)) =>
         /\ Scanned' # {} => active' = pointer' /\ active' \in Scanned'
         /\ job[p].cmd # "list" => active' = job[p].ver]_vars

\* After an undisturbed installation the release is whole, and recorded with the
\* checksum of what is there: a later one can tell.  (register_install)
InstallIsRecorded ==
  [][\A p \in Procs :
       EndsWell(p) /\ job[p].cmd = "install" =>
         /\ tree'[job[p].ver] = "whole"
         /\ job[p].ver \in DOMAIN recorded' /\ recorded'[job[p].ver]]_vars

\* A command that runs undisturbed puts right what earlier ones left, and its own part.
CommandsRepair == ActiveAgrees /\ InstallIsRecorded

\* An undisturbed removal leaves neither the version nor its record, and a
\* pointer to another version that is there; active-version.json names that
\* one or is gone.  (run_remove, remove_install_record)
RemovalIsSafe ==
  [][\A p \in Procs :
       EndsWell(p) /\ job[p].cmd = "remove" /\ ~doomed' =>
         /\ tree'[job[p].ver] = "none" /\ job[p].ver \notin DOMAIN recorded'
         /\ pointer' \in Scanned' /\ active' \in {pointer', None}]_vars

\* "Switch the active Fidan version": a use of an installed version that runs
\* undisturbed, with no operation of its own failing, succeeds.  Not so: a pointer
\* whose target is gone counts as no pointer, is not removed, and cannot be
\* made anew.  (ensure_current_points_to)
UseSucceeds ==
  [][\A p \in Procs :
       job[p].cmd = "use" /\ alone[p] /\ faults' = faults => ~(~At(p, "failed") /\ At(p, "failed")')]_vars
=============================================================================
