-------------------------- MODULE InstallerProofs --------------------------
(***************************************************************************)
(* Proofs about Installer, for any number of versions, commands, commands  *)
(* at a time, and faults: no release is lost, none stays locked, and a     *)
(* command that runs undisturbed ends with what it promises, whatever      *)
(* earlier ones have left behind.                                          *)
(*                                                                         *)
(* Two arguments.  Whatever runs at the same time, a release that must not *)
(* be lost is in its place, or in the backup of a process that remembers   *)
(* which version it holds (Safe).  And of a command that runs alone, each  *)
(* place in it has a fact about the files that holds there (Knows).        *)
(***************************************************************************)
EXTENDS Installer, FiniteSetTheorems, TLAPS

USE BoundsAssumption

-----------------------------------------------------------------------------
(* Names, records and counts.                                              *)

\* The directories of versions, of staged releases and of backups are apart.
LEMMA NamesApart ==
  /\ Versions \subseteq Names /\ None \notin Names /\ None \notin Procs
  /\ \A p \in Procs : /\ Stage(p) \in Names /\ Stage(p) \notin Versions
                      /\ Backup(p) \in Names /\ Backup(p) \notin Versions
  /\ \A p, q \in Procs : Stage(p) # Backup(q)
  /\ \A p, q \in Procs : Backup(p) = Backup(q) => p = q
BY DEF Versions, Names, Procs, None, Stage, Backup

Record == UNION {[S -> BOOLEAN] : S \in SUBSET (Names \cup {None})}

LEMMA RecordIntro ==
  ASSUME NEW S \in SUBSET (Names \cup {None}), NEW f \in [S -> BOOLEAN]
  PROVE  f \in Record
BY DEF Record

LEMMA RecordFacts ==
  ASSUME NEW r \in Record
  PROVE  /\ DOMAIN r \subseteq Names \cup {None} /\ \A v \in DOMAIN r : r[v] \in BOOLEAN
         /\ IsRecord(r)
<1>1. PICK S \in SUBSET (Names \cup {None}) : r \in [S -> BOOLEAN]
  BY DEF Record
<1>. QED  BY <1>1 DEF IsRecord

LEMMA NoFileIsRecord == NoFile \in Record /\ DOMAIN NoFile = {None}
<1>1. NoFile \in [{None} -> BOOLEAN]
  BY DEF NoFile
<1>2. {None} \in SUBSET (Names \cup {None})
  OBVIOUS
<1>3. NoFile \in Record
  BY <1>1, <1>2, RecordIntro
<1>. QED  BY <1>3 DEF NoFile

LEMMA Counts ==
  ASSUME NEW S \in SUBSET Names
  PROVE  Cardinality(S) \in 0 .. Cardinality(Names) /\ (S # {} => Cardinality(S) # 0)
<1>1. IsFiniteSet(Names)
  <2>1. 1 \in Int /\ MaxVersion + 2 * MaxCommands \in Int
    OBVIOUS
  <2>. QED  BY <2>1, FS_Interval DEF Names
<1>2. IsFiniteSet(S) /\ Cardinality(S) <= Cardinality(Names)
  BY <1>1, FS_Subset
<1>3. Cardinality(S) \in Nat /\ Cardinality(Names) \in Nat
  BY <1>1, <1>2, FS_CardinalityType
<1>4. Cardinality(S) = 0 <=> S = {}
  BY <1>2, FS_EmptySet
<1>. QED  BY <1>2, <1>3, <1>4

-----------------------------------------------------------------------------
(* The inductive invariant.                                                *)

Job == [cmd : Commands, ver : Names \cup {None}, at : Places, seen : SUBSET Names,
        want : Names \cup {None}, recs : Record, had : 0 .. Cardinality(Names)]

VarTypes ==
  /\ tree \in [Names -> {"none", "husk", "whole"}]
  /\ active \in Names \cup {None} /\ pointer \in Names \cup {None}
  /\ recorded \in Record
  /\ doomed \in BOOLEAN /\ faults \in 0 .. MaxFaults /\ owed \subseteq Versions
  /\ alone \in [Procs -> BOOLEAN]
  /\ lock \in [Versions -> Procs \cup {None}]
  /\ job \in [Procs -> Job]

\* What a command does fits what it is.
Fits(j) ==
  /\ j.cmd = "install" => j.ver \in Versions
  /\ j.cmd \in {"use", "remove"} => j.ver \in Names
  /\ j.at \in {"check", "extract", "lock", "retain", "publish", "tidy", "register", "note", "enter"} =>
       j.cmd = "install"
  /\ j.at \in {"count", "decide", "delete", "strike", "erase", "forget"} => j.cmd = "remove"
  /\ j.at = "ensure" => j.cmd = "use"
  /\ j.at \in {"persist", "unlink", "link"} => j.cmd \in {"install", "use"}
  /\ j.at \in {"scan", "read", "activate", "record", "repoint", "relink"} =>
       j.cmd \in {"list", "install", "remove"}

\* Where a command holds the publication lock.
Publishing == {"retain", "publish", "tidy"}

\* A command without a backup: it has not come to that, or makes none.
WithoutBackup(j) ==
  \/ j.at = "idle"
  \/ j.at \notin Ended /\ j.cmd # "install"
  \/ j.at \in {"scan", "read", "activate", "record", "repoint", "relink", "check", "extract",
               "lock", "retain"}

\* The releases ow that must be there are, in the trees tr; lk are the publication locks,
\* jb the commands.
Safe(tr, ow, lk, jb) ==
  /\ \A p \in Procs : Fits(jb[p])
  /\ \A p \in Procs : jb[p].at \in Publishing => lk[jb[p].ver] = p
  /\ \A v \in Versions : lk[v] # None => jb[lk[v]].ver = v /\ jb[lk[v]].at \in Publishing
  /\ \A p \in Procs : WithoutBackup(jb[p]) => tr[Backup(p)] = "none"
  /\ \A p \in Procs : jb[p].at = "tidy" /\ jb[p].ver \in ow => tr[jb[p].ver] = "whole"
  /\ \A v \in ow : \/ tr[v] = "whole"
                   \/ \E p \in Procs : jb[p].ver = v /\ tr[Backup(p)] = "whole"

Whole(tr, n) == n \in Names /\ tr[n] = "whole"

\* What a command j that runs alone knows of the trees tr, of active-version.json, ac, of
\* installs.json, rc, and of the pointer, po.
Knows(j, tr, ac, rc, po) ==
  /\ j.at = "read" => \A n \in j.seen : Whole(tr, n)
  /\ j.at \in {"activate", "record", "repoint", "relink", "persist", "unlink", "link"} =>
       Whole(tr, j.want)
  /\ j.at \in {"record", "repoint", "relink", "unlink", "link"} => ac = j.want
  /\ j.at \in {"note", "enter", "persist", "unlink", "link"} => j.want = j.ver
  /\ j.cmd = "install" /\ j.at \in {"tidy", "register", "note", "enter", "persist", "unlink", "link"} =>
       Whole(tr, j.ver)
  /\ j.at = "enter" => j.ver \in DOMAIN j.recs /\ j.recs[j.ver]
  /\ j.cmd = "install" /\ j.at \in {"persist", "unlink", "link"} => j.ver \in DOMAIN rc /\ rc[j.ver]
  /\ j.cmd = "remove" /\ j.at \notin {"strike", "erase", "forget"} => Whole(tr, j.ver)
  /\ j.cmd = "remove" /\ j.at # "count" => j.had # 0
  /\ j.at \in {"decide", "delete", "strike", "erase", "forget"} =>
       Whole(tr, j.want) /\ ac = j.want /\ po = j.want
  /\ j.at \in {"delete", "strike", "erase", "forget"} => j.want # j.ver
  /\ j.at \in {"strike", "erase", "forget"} => tr[j.ver] = "none"
  /\ j.at = "erase" => j.ver \notin DOMAIN j.recs
  /\ j.at = "forget" => DOMAIN rc = {None}

\* Whoever has run alone since it began still does, and knows its part.
Undisturbed ==
  \A p \in Procs : alone[p] /\ Busy(p) =>
    /\ ~doomed
    /\ \A q \in Procs \ {p} : ~Busy(q)
    /\ Knows(job[p], tree, active, recorded, pointer)

IInv == VarTypes /\ Safe(tree, owed, lock, job) /\ Undisturbed

-----------------------------------------------------------------------------
(* Steps of a command.                                                     *)

LEMMA JobSet ==
  ASSUME NEW jb \in [Procs -> Job], NEW p \in Procs, NEW k \in Job,
         NEW jb2, jb2 = [jb EXCEPT ![p] = k]
  PROVE  jb2 \in [Procs -> Job] /\ jb2[p] = k /\ \A q \in Procs \ {p} : jb2[q] = jb[q]
OBVIOUS

LEMMA FreshIsJob ==
  ASSUME NEW cmd \in Commands, NEW ver \in Names \cup {None}, NEW where \in Places
  PROVE  /\ Fresh(cmd, ver, where) \in Job
         /\ Fresh(cmd, ver, where).cmd = cmd /\ Fresh(cmd, ver, where).ver = ver
         /\ Fresh(cmd, ver, where).at = where
<1>1. 0 \in 0 .. Cardinality(Names)
  <2>1. {} \in SUBSET Names
    OBVIOUS
  <2>2. Cardinality({}) \in 0 .. Cardinality(Names)
    BY <2>1, Counts
  <2>. QED  BY <2>2, FS_EmptySet
<1>. QED  BY <1>1, NoFileIsRecord DEF Fresh, Job

\* The command of p goes from j to k, which differ in where they are.
Goes(j, k, where) ==
  /\ k \in Job /\ k.at = where
  /\ where \notin Ended => /\ k.cmd = j.cmd /\ k.ver = j.ver /\ k.seen = j.seen /\ k.want = j.want
                           /\ k.recs = j.recs /\ k.had = j.had
  /\ where \in Ended => k.cmd = "list" /\ k.ver = IF j.cmd = "install" THEN j.ver ELSE None

LEMMA GoFacts ==
  ASSUME job \in [Procs -> Job], NEW p \in Procs, NEW where \in Places, Go(p, where)
  PROVE  /\ job' \in [Procs -> Job] /\ \A q \in Procs \ {p} : job'[q] = job[q]
         /\ Goes(job[p], job'[p], where)
<1> PICK j \in Job : j = job[p]
  OBVIOUS
<1>1. CASE where \in Ended
  <2>1. PICK k : k = Fresh("list", IF j.cmd = "install" THEN j.ver ELSE None, where)
    OBVIOUS
  <2>2. k \in Job /\ k.cmd = "list" /\ k.ver = (IF j.cmd = "install" THEN j.ver ELSE None) /\ k.at = where
    <3>1. (IF j.cmd = "install" THEN j.ver ELSE None) \in Names \cup {None}
      BY DEF Job
    <3>2. "list" \in Commands
      BY DEF Commands
    <3>. QED  BY <2>1, <3>1, <3>2, FreshIsJob
  <2>3. job' = [job EXCEPT ![p] = k]
    BY <1>1, <2>1 DEF Go, Remembered
  <2>4. job' \in [Procs -> Job] /\ job'[p] = k /\ \A q \in Procs \ {p} : job'[q] = job[q]
    BY <2>2, <2>3, JobSet
  <2>. QED  BY <1>1, <2>2, <2>4 DEF Goes
<1>2. CASE where \notin Ended
  <2>1. PICK k : k = [j EXCEPT !.at = where]
    OBVIOUS
  <2>2. k \in Job /\ Goes(j, k, where)
    BY <1>2, <2>1 DEF Goes, Job
  <2>3. job' = [job EXCEPT ![p] = k]
    BY <1>2, <2>1 DEF Go
  <2>4. job' \in [Procs -> Job] /\ job'[p] = k /\ \A q \in Procs \ {p} : job'[q] = job[q]
    BY <2>2, <2>3, JobSet
  <2>. QED  BY <2>2, <2>4
<1>. QED  BY <1>1, <1>2

-----------------------------------------------------------------------------
(* What keeps the releases safe.                                           *)

\* A command goes on without a change to versions and backups, and keeps no lock.
LEMMA MoveSafe ==
  ASSUME NEW tr, NEW tr2, NEW ow \in SUBSET Versions, NEW lk \in [Versions -> Procs \cup {None}],
         NEW lk2 \in [Versions -> Procs \cup {None}], NEW jb, NEW jb2, NEW p \in Procs,
         Safe(tr, ow, lk, jb),
         \A q \in Procs \ {p} : jb2[q] = jb[q],
         Fits(jb2[p]), jb2[p].at \notin Publishing,
         WithoutBackup(jb2[p]) => WithoutBackup(jb[p]),
         jb2[p].ver = jb[p].ver \/ WithoutBackup(jb[p]),
         \A v \in Versions : lk2[v] = IF lk[v] = p THEN None ELSE lk[v],
         \A v \in Versions : tr2[v] = tr[v], \A q \in Procs : tr2[Backup(q)] = tr[Backup(q)]
  PROVE  Safe(tr2, ow, lk2, jb2)
<1>1. \A q \in Procs : Fits(jb2[q])
  BY DEF Safe
<1>2. ASSUME NEW q \in Procs, jb2[q].at \in Publishing  PROVE  lk2[jb2[q].ver] = q
  <2>1. q # p /\ jb2[q] = jb[q] /\ lk[jb[q].ver] = q
    BY <1>2 DEF Safe
  <2>2. jb[q].ver \in Versions
    BY <1>2, <2>1 DEF Safe, Fits, Publishing
  <2>. QED  BY <2>1, <2>2
<1>3. ASSUME NEW v \in Versions, lk2[v] # None
      PROVE  jb2[lk2[v]].ver = v /\ jb2[lk2[v]].at \in Publishing
  <2>1. lk2[v] = lk[v] /\ lk[v] \in Procs \ {p}
    BY <1>3
  <2>. QED  BY <1>3, <2>1 DEF Safe
<1>4. ASSUME NEW q \in Procs, WithoutBackup(jb2[q])  PROVE  tr2[Backup(q)] = "none"
  BY <1>4 DEF Safe
<1>5. ASSUME NEW q \in Procs, jb2[q].at = "tidy", jb2[q].ver \in ow  PROVE  tr2[jb2[q].ver] = "whole"
  BY <1>5 DEF Safe, Publishing
<1>6. ASSUME NEW v \in ow, tr2[v] # "whole"
      PROVE  \E q \in Procs : jb2[q].ver = v /\ tr2[Backup(q)] = "whole"
  <2>1. PICK q \in Procs : jb[q].ver = v /\ tr[Backup(q)] = "whole"
    BY <1>6 DEF Safe
  <2>2. ~WithoutBackup(jb[q])
    BY <2>1 DEF Safe
  <2>. QED  BY <2>1, <2>2
<1>. QED  BY <1>1, <1>2, <1>3, <1>4, <1>5, <1>6 DEF Safe

\* A command that publishes goes on with it.
LEMMA StaySafe ==
  ASSUME NEW tr, NEW ow \in SUBSET Versions,
         NEW lk \in [Versions -> Procs \cup {None}], NEW jb, NEW jb2, NEW p \in Procs,
         Safe(tr, ow, lk, jb),
         \A q \in Procs \ {p} : jb2[q] = jb[q],
         Fits(jb2[p]), jb[p].at \in Publishing, jb2[p].at \in Publishing, jb2[p].ver = jb[p].ver,
         WithoutBackup(jb2[p]) => WithoutBackup(jb[p]),
         jb2[p].at = "tidy" /\ jb[p].ver \in ow => tr[jb[p].ver] = "whole"
  PROVE  Safe(tr, ow, lk, jb2)
<1>1. \A q \in Procs : jb2[q].ver = jb[q].ver /\ (jb2[q].at \in Publishing <=> jb[q].at \in Publishing)
  OBVIOUS
<1>2. \A q \in Procs : Fits(jb2[q])
  BY DEF Safe
<1>3. \A q \in Procs : jb2[q].at \in Publishing => lk[jb2[q].ver] = q
  BY <1>1 DEF Safe
<1>4. ASSUME NEW v \in Versions, lk[v] # None
      PROVE  jb2[lk[v]].ver = v /\ jb2[lk[v]].at \in Publishing
  <2>1. jb[lk[v]].ver = v /\ jb[lk[v]].at \in Publishing
    BY <1>4 DEF Safe
  <2>2. lk[v] \in Procs
    BY <1>4
  <2>. QED  BY <1>1, <2>1, <2>2
<1>5. \A q \in Procs : WithoutBackup(jb2[q]) => tr[Backup(q)] = "none"
  BY DEF Safe
<1>6. \A q \in Procs : jb2[q].at = "tidy" /\ jb2[q].ver \in ow => tr[jb2[q].ver] = "whole"
  BY <1>1 DEF Safe
<1>7. \A v \in ow : tr[v] = "whole" \/ \E q \in Procs : jb2[q].ver = v /\ tr[Backup(q)] = "whole"
  BY <1>1 DEF Safe
<1>. QED  BY <1>2, <1>3, <1>4, <1>5, <1>6, <1>7 DEF Safe

\* A command that comes to the lock takes it.
LEMMA LockSafe ==
  ASSUME NEW tr, NEW ow \in SUBSET Versions, NEW lk \in [Versions -> Procs \cup {None}],
         NEW lk2, NEW jb, NEW jb2, NEW p \in Procs,
         Safe(tr, ow, lk, jb), jb[p].at = "lock", jb2[p].at = "retain",
         \A q \in Procs \ {p} : jb2[q] = jb[q],
         Fits(jb2[p]), jb2[p].ver = jb[p].ver,
         lk[jb[p].ver] = None, lk2 = [lk EXCEPT ![jb[p].ver] = p]
  PROVE  Safe(tr, ow, lk2, jb2)
<1> PICK u : u = jb[p].ver
  OBVIOUS
<1>1. u \in Versions
  BY DEF Safe, Fits
<1>2. lk2[u] = p /\ \A v \in Versions \ {u} : lk2[v] = lk[v]
  BY <1>1
<1>3. \A q \in Procs : Fits(jb2[q]) /\ jb2[q].ver = jb[q].ver
  BY DEF Safe
<1>4. ASSUME NEW q \in Procs, jb2[q].at \in Publishing  PROVE  lk2[jb2[q].ver] = q
  <2>1. CASE q = p
    BY <1>2, <2>1
  <2>2. CASE q # p
    <3>1. jb2[q] = jb[q] /\ lk[jb[q].ver] = q
      BY <1>4, <2>2 DEF Safe
    <3>2. jb[q].ver \in Versions
      BY <1>4, <3>1 DEF Safe, Fits, Publishing
    <3>3. jb[q].ver # u
      BY <3>1, NamesApart
    <3>. QED  BY <1>2, <3>1, <3>2, <3>3
  <2>. QED  BY <2>1, <2>2
<1>5. ASSUME NEW v \in Versions, lk2[v] # None
      PROVE  jb2[lk2[v]].ver = v /\ jb2[lk2[v]].at \in Publishing
  <2>1. CASE v = u
    BY <1>2, <2>1 DEF Publishing
  <2>2. CASE v # u
    <3>1. lk2[v] = lk[v] /\ lk[v] \in Procs
      BY <1>2, <1>5, <2>2
    <3>2. jb[lk[v]].ver = v
      BY <1>5, <3>1 DEF Safe
    <3>3. lk[v] # p
      BY <2>2, <3>2
    <3>. QED  BY <1>5, <3>1, <3>3 DEF Safe
  <2>. QED  BY <2>1, <2>2
<1>6. \A q \in Procs : WithoutBackup(jb2[q]) => WithoutBackup(jb[q])
  BY DEF WithoutBackup
<1>7. \A q \in Procs : WithoutBackup(jb2[q]) => tr[Backup(q)] = "none"
  BY <1>6 DEF Safe
<1>8. \A q \in Procs : jb2[q].at = "tidy" => jb[q].at = "tidy"
  OBVIOUS
<1>9. \A q \in Procs : jb2[q].at = "tidy" /\ jb2[q].ver \in ow => tr[jb2[q].ver] = "whole"
  BY <1>3, <1>8 DEF Safe
<1>10. \A v \in ow : tr[v] = "whole" \/ \E q \in Procs : jb2[q].ver = v /\ tr[Backup(q)] = "whole"
  BY <1>3 DEF Safe
<1>. QED  BY <1>3, <1>4, <1>5, <1>7, <1>9, <1>10 DEF Safe

\* Two commands do not publish the same version.
LEMMA OnePublishes ==
  ASSUME NEW tr, NEW ow, NEW lk, NEW jb, Safe(tr, ow, lk, jb), NEW p \in Procs, NEW q \in Procs,
         jb[p].at \in Publishing, jb[q].at \in Publishing, jb[p].ver = jb[q].ver
  PROVE  p = q
BY DEF Safe

\* Staged trees are no releases.
LEMMA StageSafe ==
  ASSUME NEW tr, NEW tr2, NEW ow \in SUBSET Versions, NEW lk, NEW jb, Safe(tr, ow, lk, jb),
         \A v \in Versions : tr2[v] = tr[v], \A q \in Procs : tr2[Backup(q)] = tr[Backup(q)]
  PROVE  Safe(tr2, ow, lk, jb)
BY DEF Safe

\* The previous release is set aside.
LEMMA AsideSafe ==
  ASSUME NEW tr \in [Names -> {"none", "husk", "whole"}], NEW tr2,
         NEW ow \in SUBSET Versions, NEW lk, NEW jb, NEW p \in Procs,
         Safe(tr, ow, lk, jb), jb[p].at = "publish", tr[Backup(p)] = "none",
         tr2 = [tr EXCEPT ![jb[p].ver] = "none", ![Backup(p)] = tr[jb[p].ver]]
  PROVE  Safe(tr2, ow, lk, jb)
<1> PICK u : u = jb[p].ver
  OBVIOUS
<1>1. u \in Versions /\ jb[p].at \in Publishing /\ ~WithoutBackup(jb[p])
  BY DEF Safe, Fits, Publishing, WithoutBackup, Ended
<1>2. u \in Names /\ Backup(p) \in Names /\ Backup(p) # u
  BY <1>1, NamesApart
<1>3. tr2[u] = "none" /\ tr2[Backup(p)] = tr[u]
  BY <1>2
<1>4. \A v \in Versions \ {u} : tr2[v] = tr[v]
  BY <1>2, NamesApart
<1>5. ASSUME NEW q \in Procs, q # p  PROVE  tr2[Backup(q)] = tr[Backup(q)]
  <2>1. Backup(q) \in Names /\ Backup(q) # Backup(p) /\ Backup(q) # u
    BY <1>1, <1>5, NamesApart
  <2>. QED  BY <1>2, <2>1
<1>6. \A q \in Procs : WithoutBackup(jb[q]) => tr2[Backup(q)] = "none"
  BY <1>1, <1>5 DEF Safe
<1>7. ASSUME NEW q \in Procs, jb[q].at = "tidy", jb[q].ver \in ow  PROVE  tr2[jb[q].ver] = "whole"
  <2>1. jb[q].ver \in Versions /\ tr[jb[q].ver] = "whole"
    BY <1>7 DEF Safe
  <2>2. jb[q].ver # u
    <3>1. jb[q].at \in Publishing /\ q # p
      BY <1>7 DEF Publishing
    <3>. QED  BY <1>1, <3>1, OnePublishes
  <2>. QED  BY <1>4, <2>1, <2>2
<1>8. ASSUME NEW v \in ow
      PROVE  tr2[v] = "whole" \/ \E q \in Procs : jb[q].ver = v /\ tr2[Backup(q)] = "whole"
  <2>1. CASE tr[v] = "whole"
    BY <1>3, <1>4, <2>1
  <2>2. CASE tr[v] # "whole"
    <3>1. PICK q \in Procs : jb[q].ver = v /\ tr[Backup(q)] = "whole"
      BY <2>2 DEF Safe
    <3>. QED  BY <1>5, <3>1
  <2>. QED  BY <2>1, <2>2
<1>. QED  BY <1>6, <1>7, <1>8 DEF Safe

\* The release is in its place, and has to stay.
LEMMA PublishSafe ==
  ASSUME NEW tr \in [Names -> {"none", "husk", "whole"}], NEW tr2, NEW ow \in SUBSET Versions,
         NEW ow2, NEW lk, NEW jb, NEW p \in Procs,
         Safe(tr, ow, lk, jb), jb[p].at = "publish", \A v \in ow2 : v \in ow \/ v = jb[p].ver,
         tr2 = [tr EXCEPT ![jb[p].ver] = "whole", ![Stage(p)] = "none"]
  PROVE  Safe(tr2, ow2, lk, jb)
<1> PICK u : u = jb[p].ver
  OBVIOUS
<1>1. u \in Versions
  BY DEF Safe, Fits
<1>2. u \in Names /\ Stage(p) \in Names /\ Stage(p) # u
  BY <1>1, NamesApart
<1>3. tr2[u] = "whole"
  BY <1>2
<1>4. \A v \in Versions \ {u} : tr2[v] = tr[v]
  BY <1>2, NamesApart
<1>5. ASSUME NEW q \in Procs  PROVE  tr2[Backup(q)] = tr[Backup(q)]
  <2>1. Backup(q) \in Names /\ Backup(q) # Stage(p) /\ Backup(q) # u
    BY <1>1, NamesApart
  <2>. QED  BY <1>2, <2>1
<1>6. \A q \in Procs : WithoutBackup(jb[q]) => tr2[Backup(q)] = "none"
  BY <1>5 DEF Safe
<1>7. ASSUME NEW q \in Procs, jb[q].at = "tidy", jb[q].ver \in ow2  PROVE  tr2[jb[q].ver] = "whole"
  <2>1. CASE jb[q].ver = u
    BY <1>3, <2>1
  <2>2. CASE jb[q].ver # u
    <3>1. jb[q].ver \in ow
      BY <1>7, <2>2
    <3>2. tr[jb[q].ver] = "whole"
      BY <1>7, <3>1 DEF Safe
    <3>. QED  BY <1>4, <2>2, <3>1, <3>2
  <2>. QED  BY <2>1, <2>2
<1>8. ASSUME NEW v \in ow2
      PROVE  tr2[v] = "whole" \/ \E q \in Procs : jb[q].ver = v /\ tr2[Backup(q)] = "whole"
  <2>1. CASE v = u
    BY <1>3, <2>1
  <2>2. CASE v # u
    <3>1. v \in ow /\ tr2[v] = tr[v]
      BY <1>4, <2>2
    <3>2. tr[v] = "whole" \/ \E q \in Procs : jb[q].ver = v /\ tr[Backup(q)] = "whole"
      BY <3>1 DEF Safe
    <3>. QED  BY <1>5, <3>1, <3>2
  <2>. QED  BY <2>1, <2>2
<1>. QED  BY <1>6, <1>7, <1>8 DEF Safe

\* The previous release is put back.
LEMMA PutBackSafe ==
  ASSUME NEW tr \in [Names -> {"none", "husk", "whole"}], NEW tr2,
         NEW ow \in SUBSET Versions, NEW lk, NEW jb, NEW p \in Procs,
         Safe(tr, ow, lk, jb), jb[p].at = "publish", tr[jb[p].ver] = "none",
         tr2 = [tr EXCEPT ![jb[p].ver] = tr[Backup(p)], ![Backup(p)] = "none"]
  PROVE  Safe(tr2, ow, lk, jb)
<1> PICK u : u = jb[p].ver
  OBVIOUS
<1>1. u \in Versions /\ jb[p].at \in Publishing
  BY DEF Safe, Fits, Publishing
<1>2. u \in Names /\ Backup(p) \in Names /\ Backup(p) # u
  BY <1>1, NamesApart
<1>3. tr2[u] = tr[Backup(p)] /\ tr2[Backup(p)] = "none"
  BY <1>2
<1>4. \A v \in Versions \ {u} : tr2[v] = tr[v]
  BY <1>2, NamesApart
<1>5. ASSUME NEW q \in Procs, q # p  PROVE  tr2[Backup(q)] = tr[Backup(q)]
  <2>1. Backup(q) \in Names /\ Backup(q) # Backup(p) /\ Backup(q) # u
    BY <1>1, <1>5, NamesApart
  <2>. QED  BY <1>2, <2>1
<1>6. ASSUME NEW q \in Procs, WithoutBackup(jb[q])  PROVE  tr2[Backup(q)] = "none"
  <2>1. tr[Backup(q)] = "none"
    BY <1>6 DEF Safe
  <2>. QED  BY <1>3, <1>5, <2>1
<1>7. ASSUME NEW q \in Procs, jb[q].at = "tidy", jb[q].ver \in ow  PROVE  tr2[jb[q].ver] = "whole"
  <2>1. jb[q].ver \in Versions /\ tr[jb[q].ver] = "whole"
    BY <1>7 DEF Safe
  <2>2. jb[q].ver # u
    BY <2>1
  <2>. QED  BY <1>4, <2>1, <2>2
<1>8. ASSUME NEW v \in ow
      PROVE  tr2[v] = "whole" \/ \E q \in Procs : jb[q].ver = v /\ tr2[Backup(q)] = "whole"
  <2>1. CASE tr[v] = "whole"
    <3>1. v # u
      BY <2>1
    <3>. QED  BY <1>4, <2>1, <3>1
  <2>2. CASE tr[v] # "whole"
    <3>1. PICK q \in Procs : jb[q].ver = v /\ tr[Backup(q)] = "whole"
      BY <2>2 DEF Safe
    <3>. QED  BY <1>3, <1>5, <3>1
  <2>. QED  BY <2>1, <2>2
<1>. QED  BY <1>6, <1>7, <1>8 DEF Safe

\* The backup goes.
LEMMA TidySafe ==
  ASSUME NEW tr \in [Names -> {"none", "husk", "whole"}], NEW tr2,
         NEW ow \in SUBSET Versions, NEW lk, NEW jb, NEW p \in Procs,
         Safe(tr, ow, lk, jb), jb[p].at = "tidy", tr2 = [tr EXCEPT ![Backup(p)] = "none"]
  PROVE  Safe(tr2, ow, lk, jb)
<1>1. Backup(p) \in Names
  BY NamesApart
<1>2. tr2[Backup(p)] = "none" /\ \A v \in Versions : tr2[v] = tr[v]
  BY <1>1, NamesApart
<1>3. ASSUME NEW q \in Procs, q # p  PROVE  tr2[Backup(q)] = tr[Backup(q)]
  <2>1. Backup(q) \in Names /\ Backup(q) # Backup(p)
    BY <1>3, NamesApart
  <2>. QED  BY <1>1, <2>1
<1>4. \A q \in Procs : WithoutBackup(jb[q]) => tr2[Backup(q)] = "none"
  BY <1>2, <1>3 DEF Safe
<1>5. \A q \in Procs : jb[q].at = "tidy" /\ jb[q].ver \in ow => tr2[jb[q].ver] = "whole"
  BY <1>2 DEF Safe
<1>6. ASSUME NEW v \in ow
      PROVE  tr2[v] = "whole" \/ \E q \in Procs : jb[q].ver = v /\ tr2[Backup(q)] = "whole"
  <2>1. CASE tr[v] = "whole"
    BY <1>2, <2>1
  <2>2. CASE tr[v] # "whole"
    <3>1. PICK q \in Procs : jb[q].ver = v /\ tr[Backup(q)] = "whole"
      BY <2>2 DEF Safe
    <3>2. q # p
      BY <2>2, <3>1 DEF Safe
    <3>. QED  BY <1>3, <3>1, <3>2
  <2>. QED  BY <2>1, <2>2
<1>. QED  BY <1>4, <1>5, <1>6 DEF Safe

\* A directory is deleted, or part of it; what it may hold need not be there any more.
LEMMA DeleteSafe ==
  ASSUME NEW tr \in [Names -> {"none", "husk", "whole"}], NEW tr2,
         NEW ow \in SUBSET Versions, NEW ow2, NEW lk, NEW jb, NEW n,
         Safe(tr, ow, lk, jb),
         ow2 = ow \ ({n} \cup {jb[q].ver : q \in {r \in Procs : n = Backup(r)}}),
         tr2 = tr \/ (n \in Names /\ tr[n] # "none" /\ \E x : tr2 = [tr EXCEPT ![n] = x])
  PROVE  Safe(tr2, ow2, lk, jb)
<1>1. \A m \in Names \ {n} : tr2[m] = tr[m]
  OBVIOUS
<1>2. ASSUME NEW q \in Procs, WithoutBackup(jb[q])  PROVE  tr2[Backup(q)] = "none"
  <2>1. tr[Backup(q)] = "none" /\ Backup(q) \in Names
    BY <1>2, NamesApart DEF Safe
  <2>2. CASE tr2 = tr
    BY <2>1, <2>2
  <2>3. CASE tr[n] # "none"
    BY <1>1, <2>1, <2>3
  <2>. QED  BY <2>2, <2>3
<1>3. \A v \in ow2 : v \in ow /\ v # n /\ v \in Names
  BY NamesApart
<1>4. \A q \in Procs : jb[q].at = "tidy" /\ jb[q].ver \in ow2 => tr2[jb[q].ver] = "whole"
  BY <1>1, <1>3 DEF Safe
<1>5. ASSUME NEW v \in ow2
      PROVE  tr2[v] = "whole" \/ \E q \in Procs : jb[q].ver = v /\ tr2[Backup(q)] = "whole"
  <2>1. CASE tr[v] = "whole"
    BY <1>1, <1>3, <2>1
  <2>2. CASE tr[v] # "whole"
    <3>1. PICK q \in Procs : jb[q].ver = v /\ tr[Backup(q)] = "whole"
      BY <1>3, <2>2 DEF Safe
    <3>2. Backup(q) # n /\ Backup(q) \in Names
      BY <3>1, NamesApart
    <3>. QED  BY <1>1, <3>1, <3>2
  <2>. QED  BY <2>1, <2>2
<1>. QED  BY <1>2, <1>4, <1>5 DEF Safe

-----------------------------------------------------------------------------
(* What every step of a command does.                                      *)

\* What a command that runs alone has done when it ends well.
EndsRight(p) ==
  /\ job[p].cmd \in {"list", "use"} \/ (job[p].cmd = "install" /\ job[p].had <= 1) =>
       /\ Scanned' # {} => active' = pointer' /\ active' \in Scanned'
       /\ job[p].cmd # "list" => active' = job[p].ver
  /\ job[p].cmd = "install" =>
       /\ tree'[job[p].ver] = "whole"
       /\ job[p].ver \in DOMAIN recorded' /\ recorded'[job[p].ver]
  /\ job[p].cmd = "remove" /\ ~doomed' =>
       /\ tree'[job[p].ver] = "none" /\ job[p].ver \notin DOMAIN recorded'
       /\ pointer' \in Scanned' /\ active' \in {pointer', None}

\* A step of p, and of no other command.
Advances(p) ==
  /\ Busy(p)
  /\ VarTypes' /\ Safe(tree', owed', lock', job')
  /\ alone' = alone /\ \A q \in Procs \ {p} : job'[q] = job[q]
  /\ alone[p] =>
       /\ job'[p].at \notin Ended =>
            ~doomed' /\ Knows(job'[p], tree', active', recorded', pointer')
       /\ job'[p].at = "done" => EndsRight(p)

LEMMA Here ==
  ASSUME IInv, NEW p \in Procs
  PROVE  /\ VarTypes /\ Safe(tree, owed, lock, job)
         /\ job[p] \in Job /\ Fits(job[p])
         /\ alone[p] /\ Busy(p) => ~doomed /\ Knows(job[p], tree, active, recorded, pointer)
BY DEF IInv, VarTypes, Safe, Undisturbed

\* A step that leaves trees, obligations and locks alone.
LEMMA QuietStep ==
  ASSUME IInv, NEW p \in Procs, NEW k \in Job,
         job' \in [Procs -> Job], job'[p] = k, \A q \in Procs \ {p} : job'[q] = job[q],
         job[p].at \notin Ended, job[p].at \notin Publishing, k.at \notin Publishing, Fits(k),
         k.ver = job[p].ver \/ WithoutBackup(job[p]),
         WithoutBackup(k) => WithoutBackup(job[p]),
         UNCHANGED <<tree, owed, lock, alone>>,
         active' \in Names \cup {None}, pointer' \in Names \cup {None}, recorded' \in Record,
         doomed' \in BOOLEAN, faults' \in 0 .. MaxFaults,
         alone[p] => /\ k.at \notin Ended => ~doomed' /\ Knows(k, tree, active', recorded', pointer')
                     /\ k.at = "done" => EndsRight(p)
  PROVE  Advances(p)
<1>1. VarTypes /\ Safe(tree, owed, lock, job)
  BY Here
<1>2. VarTypes'
  BY <1>1 DEF VarTypes
<1>3. \A v \in Versions : lock[v] # p
  BY <1>1, NamesApart DEF Safe
<1>4. Safe(tree, owed, lock, job')
  <2>1. owed \in SUBSET Versions /\ lock \in [Versions -> Procs \cup {None}]
    BY <1>1 DEF VarTypes
  <2>2. \A v \in Versions : lock[v] = IF lock[v] = p THEN None ELSE lock[v]
    BY <1>3
  <2> PICK jb2 : jb2 = job'
    OBVIOUS
  <2>3. Safe(tree, owed, lock, jb2)
    BY <1>1, <2>1, <2>2, MoveSafe
  <2>. QED  BY <2>3
<1>. QED  BY <1>2, <1>4 DEF Advances, Busy

\* Such a step by which a command ends.
LEMMA EndStep ==
  ASSUME IInv, NEW p \in Procs, NEW w \in {"done", "failed"}, Go(p, w),
         job[p].at \notin Ended, job[p].at \notin Publishing,
         UNCHANGED <<tree, owed, lock, alone>>,
         active' \in Names \cup {None}, pointer' \in Names \cup {None}, recorded' \in Record,
         doomed' \in BOOLEAN, faults' \in 0 .. MaxFaults,
         alone[p] /\ w = "done" => EndsRight(p)
  PROVE  Advances(p)
<1>1. w \in Places /\ w \in Ended
  BY DEF Places, Ended
<1>2. job \in [Procs -> Job] /\ Fits(job[p])
  BY Here DEF VarTypes
<1>3. /\ job' \in [Procs -> Job] /\ \A q \in Procs \ {p} : job'[q] = job[q]
      /\ Goes(job[p], job'[p], w)
  BY <1>1, <1>2, GoFacts
<1> PICK k \in Job : k = job'[p]
  BY <1>3
<1>4. k.at = w /\ k.cmd = "list" /\ k.ver = IF job[p].cmd = "install" THEN job[p].ver ELSE None
  BY <1>1, <1>3 DEF Goes
<1>5. Fits(k) /\ k.at \notin Publishing /\ ~WithoutBackup(k)
  BY <1>1, <1>4 DEF Fits, Publishing, WithoutBackup, Ended
<1>6. k.ver = job[p].ver \/ WithoutBackup(job[p])
  BY <1>4 DEF WithoutBackup
<1>. QED  BY <1>1, <1>3, <1>4, <1>5, <1>6, QuietStep

\* Such a step by which a command goes on.
LEMMA GoStep ==
  ASSUME IInv, NEW p \in Procs, NEW w \in Places \ Ended, Go(p, w),
         job[p].at \notin Ended, job[p].at \notin Publishing, w \notin Publishing,
         UNCHANGED <<tree, owed, lock, alone>>,
         active' \in Names \cup {None}, pointer' \in Names \cup {None}, recorded' \in Record,
         doomed' \in BOOLEAN, faults' \in 0 .. MaxFaults,
         \A k \in Job : Goes(job[p], k, w) =>
           /\ Fits(k) /\ (WithoutBackup(k) => WithoutBackup(job[p]))
           /\ alone[p] => ~doomed' /\ Knows(k, tree, active', recorded', pointer')
  PROVE  Advances(p)
<1>1. job \in [Procs -> Job]
  BY Here DEF VarTypes
<1>2. /\ job' \in [Procs -> Job] /\ \A q \in Procs \ {p} : job'[q] = job[q]
      /\ Goes(job[p], job'[p], w)
  BY <1>1, GoFacts
<1> PICK k \in Job : k = job'[p]
  BY <1>2 DEF Goes
<1>3. k.at = w /\ k.ver = job[p].ver
  BY <1>2 DEF Goes
<1>4. Fits(k) /\ (WithoutBackup(k) => WithoutBackup(job[p]))
      /\ (alone[p] => ~doomed' /\ Knows(k, tree, active', recorded', pointer'))
  BY <1>2
<1>5. k.at # "done"
  BY <1>3 DEF Ended
<1>. QED  BY <1>2, <1>3, <1>4, <1>5, QuietStep

LEMMA PlacesFacts ==
  /\ Places \ Ended = {"scan", "read", "activate", "record", "repoint", "relink", "ensure",
                       "persist", "unlink", "link", "check", "extract", "lock", "retain", "publish",
                       "tidy", "register", "note", "enter", "count", "decide", "delete", "strike",
                       "erase", "forget"}
  /\ Ended = {"idle", "done", "failed"}
BY DEF Places, Ended

-----------------------------------------------------------------------------
(* The repair, and `self use`.                                             *)

\* A command without a repair ends; an installation goes on.
LEMMA RepairFailsStep ==
  ASSUME IInv, NEW p \in Procs, RepairFails(p),
         job[p].at \in {"scan", "read", "repoint", "relink"},
         UNCHANGED <<tree, active, recorded, pointer, doomed, lock, faults, owed, alone>>
  PROVE  Advances(p)
<1>1. /\ VarTypes /\ job[p] \in Job /\ Fits(job[p])
      /\ alone[p] /\ Busy(p) => ~doomed /\ Knows(job[p], tree, active, recorded, pointer)
  BY Here
<1>2. /\ job[p].at \notin Ended /\ job[p].at \notin Publishing /\ WithoutBackup(job[p]) /\ Busy(p)
  BY DEF Ended, Publishing, WithoutBackup, Busy
<1>3. /\ active' \in Names \cup {None} /\ pointer' \in Names \cup {None} /\ recorded' \in Record
      /\ doomed' \in BOOLEAN /\ faults' \in 0 .. MaxFaults
  BY <1>1 DEF VarTypes
<1>4. CASE job[p].cmd = "install"
  <2>1. Go(p, "check") /\ "check" \in Places \ Ended /\ "check" \notin Publishing
    BY <1>4, PlacesFacts DEF RepairFails, Publishing
  <2>2. ASSUME NEW k \in Job, Goes(job[p], k, "check")
        PROVE  /\ Fits(k) /\ (WithoutBackup(k) => WithoutBackup(job[p]))
               /\ alone[p] => ~doomed' /\ Knows(k, tree, active', recorded', pointer')
    <3>1. k.at = "check" /\ k.cmd = "install" /\ k.ver = job[p].ver
      BY <1>4, <2>1, <2>2 DEF Goes
    <3>2. Fits(k)
      BY <1>1, <1>4, <3>1 DEF Fits
    <3>3. Knows(k, tree, active, recorded, pointer)
      BY <3>1 DEF Knows
    <3>. QED  BY <1>1, <1>2, <3>2, <3>3
  <2>. QED  BY <1>2, <1>3, <2>1, <2>2, GoStep
<1>5. CASE job[p].cmd # "install"
  <2>1. Go(p, "failed")
    BY <1>5 DEF RepairFails
  <2>. QED  BY <1>2, <1>3, <2>1, EndStep
<1>. QED  BY <1>4, <1>5

LEMMA ScanStep ==
  ASSUME IInv, NEW p \in Procs, Scan(p)
  PROVE  Advances(p)
<1> PICK j \in Job : j = job[p]
  BY Here
<1>1. /\ VarTypes /\ Fits(j)
      /\ alone[p] => ~doomed /\ Knows(j, tree, active, recorded, pointer)
  BY Here DEF Scan, At, Busy, Ended
<1>2. /\ j.at = "scan"
      /\ UNCHANGED <<tree, active, recorded, pointer, doomed, lock, faults, owed, alone>>
  BY DEF Scan, At, disk
<1>3. /\ active' \in Names \cup {None} /\ pointer' \in Names \cup {None} /\ recorded' \in Record
      /\ doomed' \in BOOLEAN /\ faults' \in 0 .. MaxFaults /\ job \in [Procs -> Job]
  BY <1>1, <1>2 DEF VarTypes
<1>4. j.at \notin Ended /\ j.at \notin Publishing /\ WithoutBackup(j)
  BY <1>2 DEF Ended, Publishing, WithoutBackup
<1>5. Scanned \in SUBSET Names /\ \A n \in Scanned : Whole(tree, n)
  BY DEF Scanned, Whole
<1>6. CASE Scanned # {}
  <2> PICK k : k = [j EXCEPT !.at = "read", !.seen = Scanned]
    OBVIOUS
  <2>1. /\ k \in Job /\ k.at = "read" /\ k.seen = Scanned /\ k.cmd = j.cmd /\ k.ver = j.ver
        /\ k.had = j.had
    BY <1>5 DEF Job, Places
  <2>2. job' = [job EXCEPT ![p] = k]
    BY <1>3, <1>6 DEF Scan
  <2>3. job' \in [Procs -> Job] /\ job'[p] = k /\ \A q \in Procs \ {p} : job'[q] = job[q]
    BY <1>3, <2>1, <2>2, JobSet
  <2>4. Fits(k) /\ k.at \notin Publishing /\ k.at # "done"
    BY <1>1, <1>2, <2>1 DEF Fits, Publishing
  <2>5. alone[p] => ~doomed' /\ Knows(k, tree, active', recorded', pointer')
    BY <1>1, <1>2, <1>5, <2>1 DEF Knows
  <2>. QED  BY <1>2, <1>3, <1>4, <2>1, <2>3, <2>4, <2>5, QuietStep
<1>7. CASE Scanned = {} /\ j.cmd = "list"
  <2>1. Go(p, "done")
    BY <1>7 DEF Scan
  <2>2. EndsRight(p)
    BY <1>2, <1>7 DEF EndsRight, Scanned
  <2>. QED  BY <1>2, <1>3, <1>4, <2>1, <2>2, EndStep
<1>8. CASE Scanned = {} /\ j.cmd # "list"
  <2>1. RepairFails(p)
    BY <1>8 DEF Scan
  <2>. QED  BY <1>2, <2>1, RepairFailsStep
<1>. QED  BY <1>6, <1>7, <1>8

LEMMA ReadMetadataStep ==
  ASSUME IInv, NEW p \in Procs, ReadMetadata(p)
  PROVE  Advances(p)
<1> PICK j \in Job : j = job[p]
  BY Here
<1>1. /\ VarTypes /\ Fits(j)
      /\ alone[p] => ~doomed /\ Knows(j, tree, active, recorded, pointer)
  BY Here DEF ReadMetadata, At, Busy, Ended
<1>2. /\ j.at = "read"
      /\ UNCHANGED <<tree, active, recorded, pointer, doomed, lock, faults, owed, alone>>
  BY DEF ReadMetadata, At, disk
<1>3. /\ active' \in Names \cup {None} /\ pointer' \in Names \cup {None} /\ recorded' \in Record
      /\ doomed' \in BOOLEAN /\ faults' \in 0 .. MaxFaults /\ job \in [Procs -> Job]
  BY <1>1, <1>2 DEF VarTypes
<1>4. j.at \notin Ended /\ j.at \notin Publishing /\ WithoutBackup(j)
  BY <1>2 DEF Ended, Publishing, WithoutBackup
<1>5. CASE Inferred(j.seen) = {}
  <2>1. RepairFails(p)
    BY <1>5 DEF ReadMetadata
  <2>. QED  BY <1>2, <2>1, RepairFailsStep
<1>6. CASE Inferred(j.seen) # {}
  <2> PICK r : r = IF recorded = NoFile THEN [n \in j.seen |-> FALSE] ELSE recorded
    OBVIOUS
  <2>1. r \in Record
    <3>1. j.seen \in SUBSET (Names \cup {None})
      BY DEF Job
    <3>2. [n \in j.seen |-> FALSE] \in [j.seen -> BOOLEAN]
      OBVIOUS
    <3>3. [n \in j.seen |-> FALSE] \in Record
      BY <3>1, <3>2, RecordIntro
    <3>. QED  BY <1>1, <3>3 DEF VarTypes
  <2>2. PICK v \in Inferred(j.seen) :
          job' = [job EXCEPT ![p].at = "activate", ![p].want = v, ![p].seen = {}, ![p].recs = r]
    BY <1>6 DEF ReadMetadata
  <2>3. v \in j.seen /\ v \in Names
    BY DEF Inferred, Job
  <2> PICK k : k = [j EXCEPT !.at = "activate", !.want = v, !.seen = {}, !.recs = r]
    OBVIOUS
  <2>4. /\ k \in Job /\ k.at = "activate" /\ k.want = v /\ k.cmd = j.cmd /\ k.ver = j.ver
        /\ k.had = j.had
    BY <2>1, <2>3 DEF Job, Places
  <2>5. job' = [job EXCEPT ![p] = k]
    BY <1>3, <2>2
  <2>6. job' \in [Procs -> Job] /\ job'[p] = k /\ \A q \in Procs \ {p} : job'[q] = job[q]
    BY <1>3, <2>4, <2>5, JobSet
  <2>7. Fits(k) /\ k.at \notin Publishing /\ k.at # "done"
    BY <1>1, <1>2, <2>4 DEF Fits, Publishing
  <2>8. alone[p] => ~doomed' /\ Knows(k, tree, active', recorded', pointer')
    BY <1>1, <1>2, <2>3, <2>4 DEF Knows
  <2>. QED  BY <1>2, <1>3, <1>4, <2>4, <2>6, <2>7, <2>8, QuietStep
<1>. QED  BY <1>5, <1>6

\* What every step of a command starts from.
LEMMA Before ==
  ASSUME IInv, NEW p \in Procs, job[p].at \notin Ended
  PROVE  /\ VarTypes /\ job \in [Procs -> Job] /\ job[p] \in Job /\ Fits(job[p])
         /\ Safe(tree, owed, lock, job)
         /\ active \in Names \cup {None} /\ pointer \in Names \cup {None} /\ recorded \in Record
         /\ doomed \in BOOLEAN /\ faults \in 0 .. MaxFaults
         /\ alone[p] => ~doomed /\ Knows(job[p], tree, active, recorded, pointer)
BY Here DEF VarTypes, Busy

LEMMA WriteActiveStep ==
  ASSUME IInv, NEW p \in Procs, WriteActive(p)
  PROVE  Advances(p)
<1> PICK j \in Job : j = job[p]
  BY Here
<1>1. /\ j.at \in {"activate", "persist"} /\ active' = j.want
      /\ Go(p, IF j.at = "activate" THEN "record" ELSE "unlink")
      /\ UNCHANGED <<tree, recorded, pointer, doomed, lock, faults, owed, alone>>
  BY DEF WriteActive, At
<1>2. j.at \notin Ended /\ j.at \notin Publishing
  BY <1>1 DEF Ended, Publishing
<1>3. /\ VarTypes /\ Fits(j)
      /\ alone[p] => ~doomed /\ Knows(j, tree, active, recorded, pointer)
      /\ active' \in Names \cup {None} /\ pointer' \in Names \cup {None} /\ recorded' \in Record
      /\ doomed' \in BOOLEAN /\ faults' \in 0 .. MaxFaults
  BY <1>1, <1>2, Before DEF Job
<1> PICK w : w = IF j.at = "activate" THEN "record" ELSE "unlink"
  OBVIOUS
<1>4. w \in Places \ Ended /\ w \notin Publishing /\ Go(p, w)
  BY <1>1, PlacesFacts DEF Publishing
<1>5. ASSUME NEW k \in Job, Goes(j, k, w)
      PROVE  /\ Fits(k) /\ (WithoutBackup(k) => WithoutBackup(j))
             /\ alone[p] => ~doomed' /\ Knows(k, tree, active', recorded', pointer')
  <2>1. /\ k.at = w /\ k.cmd = j.cmd /\ k.ver = j.ver /\ k.want = j.want /\ k.had = j.had
    BY <1>4, <1>5 DEF Goes
  <2>2. Fits(k)
    BY <1>1, <1>3, <2>1 DEF Fits
  <2>3. WithoutBackup(k) => WithoutBackup(j)
    BY <1>1, <2>1 DEF WithoutBackup, Ended
  <2>4. alone[p] => Knows(k, tree, active', recorded', pointer')
    BY <1>1, <1>3, <2>1 DEF Knows
  <2>. QED  BY <1>1, <1>3, <2>2, <2>3, <2>4
<1>. QED  BY <1>1, <1>2, <1>3, <1>4, <1>5, GoStep

LEMMA WriteRecordedStep ==
  ASSUME IInv, NEW p \in Procs, WriteRecorded(p)
  PROVE  Advances(p)
<1> PICK j \in Job : j = job[p]
  BY Here
<1>1. /\ j.at = "record" /\ recorded' = j.recs /\ Go(p, "repoint")
      /\ UNCHANGED <<tree, active, pointer, doomed, lock, faults, owed, alone>>
  BY DEF WriteRecorded, At
<1>2. j.at \notin Ended /\ j.at \notin Publishing
  BY <1>1 DEF Ended, Publishing
<1>3. /\ VarTypes /\ Fits(j)
      /\ alone[p] => ~doomed /\ Knows(j, tree, active, recorded, pointer)
      /\ active' \in Names \cup {None} /\ pointer' \in Names \cup {None} /\ recorded' \in Record
      /\ doomed' \in BOOLEAN /\ faults' \in 0 .. MaxFaults
  BY <1>1, <1>2, Before DEF Job
<1>4. "repoint" \in Places \ Ended /\ "repoint" \notin Publishing
  BY PlacesFacts DEF Publishing
<1>5. ASSUME NEW k \in Job, Goes(j, k, "repoint")
      PROVE  /\ Fits(k) /\ (WithoutBackup(k) => WithoutBackup(j))
             /\ alone[p] => ~doomed' /\ Knows(k, tree, active', recorded', pointer')
  <2>1. /\ k.at = "repoint" /\ k.cmd = j.cmd /\ k.ver = j.ver /\ k.want = j.want /\ k.had = j.had
    BY <1>4, <1>5 DEF Goes
  <2>2. Fits(k) /\ WithoutBackup(j)
    BY <1>1, <1>3, <2>1 DEF Fits, WithoutBackup
  <2>3. alone[p] => Knows(k, tree, active', recorded', pointer')
    BY <1>1, <1>3, <2>1 DEF Knows
  <2>. QED  BY <1>1, <1>3, <2>2, <2>3
<1>. QED  BY <1>1, <1>2, <1>3, <1>4, <1>5, GoStep

\* The pointer is where it should be: the repair, the use or the registration ends.
LEMMA PointedStep ==
  ASSUME IInv, NEW p \in Procs, Go(p, Pointed(p)),
         job[p].at \in {"repoint", "relink", "unlink", "link"},
         UNCHANGED <<tree, active, recorded, doomed, lock, faults, owed, alone>>,
         pointer' \in Names \cup {None},
         alone[p] => pointer' = job[p].want
  PROVE  Advances(p)
<1> PICK j \in Job : j = job[p]
  BY Here
<1>1. j.at \notin Ended /\ j.at \notin Publishing
  BY DEF Ended, Publishing
<1>2. /\ VarTypes /\ Fits(j)
      /\ alone[p] => ~doomed /\ Knows(j, tree, active, recorded, pointer)
      /\ active' \in Names \cup {None} /\ recorded' \in Record
      /\ doomed' \in BOOLEAN /\ faults' \in 0 .. MaxFaults
  BY <1>1, Before
<1>3. CASE j.at \in {"unlink", "link"} \/ j.cmd = "list"
  <2>1. Go(p, "done")
    <3>1. j.at \in {"repoint", "relink"} => j.cmd # "install"
      BY <1>3
    <3>. QED  BY <1>3 DEF Pointed, Repairing, AfterRepair, At
  <2>2. ASSUME alone[p]  PROVE  EndsRight(p)
    <3>1. /\ Whole(tree, j.want) /\ active = j.want /\ pointer' = j.want
          /\ j.at \in {"unlink", "link"} => /\ j.want = j.ver
                                            /\ j.cmd = "install" => /\ Whole(tree, j.ver)
                                                                    /\ j.ver \in DOMAIN recorded
                                                                    /\ recorded[j.ver]
      BY <1>2, <2>2 DEF Knows
    <3>2. j.at \in {"unlink", "link"} => j.cmd \in {"install", "use"}
      BY <1>2 DEF Fits
    <3>3. j.want \in Scanned'
      BY <3>1 DEF Scanned, Whole
    <3>. QED  BY <1>3, <3>1, <3>2, <3>3 DEF EndsRight, Whole
  <2>. QED  BY <1>1, <1>2, <2>1, <2>2, EndStep
<1>4. CASE j.at \in {"repoint", "relink"} /\ j.cmd # "list"
  <2> PICK w : w = IF j.cmd = "install" THEN "check" ELSE "decide"
    OBVIOUS
  <2>1. Go(p, w) /\ w \in Places \ Ended /\ w \notin Publishing
    BY <1>4, PlacesFacts DEF Pointed, Repairing, AfterRepair, At, Publishing
  <2>2. j.cmd \in {"install", "remove"}
    BY <1>2, <1>4 DEF Fits
  <2>3. ASSUME NEW k \in Job, Goes(j, k, w)
        PROVE  /\ Fits(k) /\ (WithoutBackup(k) => WithoutBackup(j))
               /\ alone[p] => ~doomed' /\ Knows(k, tree, active', recorded', pointer')
    <3>1. /\ k.at = w /\ k.cmd = j.cmd /\ k.ver = j.ver /\ k.want = j.want /\ k.had = j.had
      BY <2>1, <2>3 DEF Goes
    <3>2. Fits(k) /\ WithoutBackup(j)
      BY <1>2, <1>4, <2>2, <3>1 DEF Fits, WithoutBackup
    <3>3. alone[p] => Knows(k, tree, active', recorded', pointer')
      BY <1>2, <1>4, <2>2, <3>1 DEF Knows
    <3>. QED  BY <1>2, <3>2, <3>3
  <2>. QED  BY <1>1, <1>2, <2>1, <2>3, GoStep
<1>. QED  BY <1>3, <1>4

\* It cannot be put there.
LEMMA NotPointedStep ==
  ASSUME IInv, NEW p \in Procs, NotPointed(p),
         job[p].at \in {"repoint", "relink", "unlink", "link"},
         UNCHANGED <<tree, active, recorded, pointer, doomed, lock, faults, owed, alone>>
  PROVE  Advances(p)
<1>1. CASE job[p].at \in {"repoint", "relink"}
  <2>1. RepairFails(p)
    BY <1>1 DEF NotPointed, Repairing, At
  <2>. QED  BY <1>1, <2>1, RepairFailsStep
<1>2. CASE job[p].at \in {"unlink", "link"}
  <2>1. Go(p, "failed") /\ job[p].at \notin Ended /\ job[p].at \notin Publishing
    BY <1>2 DEF NotPointed, Repairing, At, Ended, Publishing
  <2>2. /\ active' \in Names \cup {None} /\ pointer' \in Names \cup {None} /\ recorded' \in Record
        /\ doomed' \in BOOLEAN /\ faults' \in 0 .. MaxFaults
    BY <2>1, Before
  <2>. QED  BY <2>1, <2>2, EndStep
<1>. QED  BY <1>1, <1>2

LEMMA UnlinkStep ==
  ASSUME IInv, NEW p \in Procs, Unlink(p)
  PROVE  Advances(p)
<1> PICK j \in Job : j = job[p]
  BY Here
<1>1. /\ j.at \in {"repoint", "unlink"}
      /\ UNCHANGED <<tree, active, recorded, doomed, lock, faults, owed, alone>>
  BY DEF Unlink, At
<1>2. j.at \notin Ended /\ j.at \notin Publishing
  BY <1>1 DEF Ended, Publishing
<1>3. /\ VarTypes /\ Fits(j)
      /\ alone[p] => ~doomed /\ Knows(j, tree, active, recorded, pointer)
      /\ active' \in Names \cup {None} /\ pointer \in Names \cup {None} /\ recorded' \in Record
      /\ doomed' \in BOOLEAN /\ faults' \in 0 .. MaxFaults
  BY <1>1, <1>2, Before
<1>4. CASE tree[j.want] = "none"
  <2>1. NotPointed(p) /\ pointer' = pointer
    BY <1>4 DEF Unlink
  <2>. QED  BY <1>1, <2>1, NotPointedStep
<1>5. CASE tree[j.want] # "none" /\ PointerRight(p)
  <2>1. Go(p, Pointed(p)) /\ pointer' = pointer
    BY <1>5 DEF Unlink
  <2>2. ASSUME alone[p]  PROVE  pointer' = j.want
    <3>1. j.want \in Names
      BY <1>1, <1>3, <2>2 DEF Knows, Whole
    <3>. QED  BY <1>5, <2>1, <3>1, NamesApart DEF PointerRight, Current
  <2>. QED  BY <1>1, <1>3, <2>1, <2>2, PointedStep
<1>6. CASE tree[j.want] # "none" /\ ~PointerRight(p)
  <2> PICK w : w = IF j.at = "repoint" THEN "relink" ELSE "link"
    OBVIOUS
  <2>1. /\ Go(p, w) /\ w \in Places \ Ended /\ w \notin Publishing
        /\ pointer' \in Names \cup {None}
    BY <1>1, <1>3, <1>6, PlacesFacts DEF Unlink, Repairing, At, Publishing
  <2>2. ASSUME NEW k \in Job, Goes(j, k, w)
        PROVE  /\ Fits(k) /\ (WithoutBackup(k) => WithoutBackup(j))
               /\ alone[p] => ~doomed' /\ Knows(k, tree, active', recorded', pointer')
    <3>1. /\ k.at = w /\ k.cmd = j.cmd /\ k.ver = j.ver /\ k.want = j.want /\ k.had = j.had
      BY <2>1, <2>2 DEF Goes
    <3>2. Fits(k)
      BY <1>1, <1>3, <3>1 DEF Fits
    <3>3. WithoutBackup(k) => WithoutBackup(j)
      BY <1>1, <3>1 DEF WithoutBackup, Ended
    <3>4. alone[p] => Knows(k, tree, active', recorded', pointer')
      BY <1>1, <1>3, <3>1 DEF Knows
    <3>. QED  BY <1>1, <1>3, <3>2, <3>3, <3>4
  <2>. QED  BY <1>1, <1>2, <1>3, <2>1, <2>2, GoStep
<1>. QED  BY <1>4, <1>5, <1>6

LEMMA LinkStep ==
  ASSUME IInv, NEW p \in Procs, Link(p)
  PROVE  Advances(p)
<1>1. /\ job[p].at \in {"relink", "link"}
      /\ UNCHANGED <<tree, active, recorded, doomed, lock, faults, owed, alone>>
  BY DEF Link, At
<1>2. CASE pointer = None
  <2>1. pointer' = job[p].want /\ Go(p, Pointed(p))
    BY <1>2 DEF Link
  <2>2. job[p].want \in Names \cup {None}
    BY Here DEF Job
  <2>. QED  BY <1>1, <2>1, <2>2, PointedStep
<1>3. CASE pointer # None
  <2>1. pointer' = pointer /\ NotPointed(p)
    BY <1>3 DEF Link
  <2>. QED  BY <1>1, <2>1, NotPointedStep
<1>. QED  BY <1>2, <1>3

LEMMA EnsureStep ==
  ASSUME IInv, NEW p \in Procs, Ensure(p)
  PROVE  Advances(p)
<1> PICK j \in Job : j = job[p]
  BY Here
<1>1. /\ j.at = "ensure"
      /\ UNCHANGED <<tree, active, recorded, pointer, doomed, lock, faults, owed, alone>>
  BY DEF Ensure, At, disk
<1>2. j.at \notin Ended /\ j.at \notin Publishing
  BY <1>1 DEF Ended, Publishing
<1>3. /\ VarTypes /\ Fits(j) /\ job \in [Procs -> Job]
      /\ alone[p] => ~doomed /\ Knows(j, tree, active, recorded, pointer)
      /\ active' \in Names \cup {None} /\ pointer' \in Names \cup {None} /\ recorded' \in Record
      /\ doomed' \in BOOLEAN /\ faults' \in 0 .. MaxFaults
  BY <1>1, <1>2, Before
<1>4. CASE j.ver \in Scanned
  <2> PICK k : k = [j EXCEPT !.at = "persist", !.want = j.ver]
    OBVIOUS
  <2>1. /\ k \in Job /\ k.at = "persist" /\ k.want = j.ver /\ k.cmd = j.cmd /\ k.ver = j.ver
        /\ k.had = j.had
    BY DEF Job, Places
  <2>2. job' = [job EXCEPT ![p] = k]
    BY <1>3, <1>4 DEF Ensure
  <2>3. job' \in [Procs -> Job] /\ job'[p] = k /\ \A q \in Procs \ {p} : job'[q] = job[q]
    BY <1>3, <2>1, <2>2, JobSet
  <2>4. k.cmd = "use" /\ Fits(k) /\ k.at \notin Publishing /\ k.at # "done" /\ WithoutBackup(j)
    BY <1>1, <1>2, <1>3, <2>1 DEF Fits, Publishing, WithoutBackup
  <2>5. alone[p] => ~doomed' /\ Knows(k, tree, active', recorded', pointer')
    BY <1>1, <1>3, <1>4, <2>1, <2>4 DEF Knows, Scanned, Whole
  <2>. QED  BY <1>1, <1>2, <1>3, <2>1, <2>3, <2>4, <2>5, QuietStep
<1>5. CASE j.ver \notin Scanned
  <2>1. Go(p, "failed")
    BY <1>5 DEF Ensure
  <2>. QED  BY <1>1, <1>2, <1>3, <2>1, EndStep
<1>. QED  BY <1>4, <1>5

-----------------------------------------------------------------------------
(* `self install`.                                                         *)

LEMMA FaultCounts ==
  ASSUME faults \in 0 .. MaxFaults, Fault \/ faults' = faults
  PROVE  faults' \in 0 .. MaxFaults
BY DEF Fault

LEMMA CheckStep ==
  ASSUME IInv, NEW p \in Procs, Check(p)
  PROVE  Advances(p)
<1> PICK j \in Job : j = job[p]
  BY Here
<1>1. /\ j.at = "check"
      /\ UNCHANGED <<tree, active, recorded, pointer, doomed, lock, faults, owed, alone>>
  BY DEF Check, At, disk
<1>2. j.at \notin Ended /\ j.at \notin Publishing
  BY <1>1 DEF Ended, Publishing
<1>3. /\ VarTypes /\ Fits(j) /\ job \in [Procs -> Job]
      /\ alone[p] => ~doomed /\ Knows(j, tree, active, recorded, pointer)
      /\ active' \in Names \cup {None} /\ pointer' \in Names \cup {None} /\ recorded' \in Record
      /\ doomed' \in BOOLEAN /\ faults' \in 0 .. MaxFaults
  BY <1>1, <1>2, Before
<1>4. CASE Go(p, "failed")
  BY <1>1, <1>2, <1>3, <1>4, EndStep
<1>5. CASE ~Go(p, "failed")
  <2> PICK k : k = [j EXCEPT !.at = "extract", !.want = None, !.recs = NoFile]
    OBVIOUS
  <2>1. /\ k \in Job /\ k.at = "extract" /\ k.cmd = j.cmd /\ k.ver = j.ver
    BY NoFileIsRecord DEF Job, Places
  <2>2. job' = [job EXCEPT ![p] = k]
    BY <1>3, <1>5 DEF Check
  <2>3. job' \in [Procs -> Job] /\ job'[p] = k /\ \A q \in Procs \ {p} : job'[q] = job[q]
    BY <1>3, <2>1, <2>2, JobSet
  <2>4. /\ k.cmd = "install" /\ Fits(k) /\ k.at \notin Publishing /\ k.at # "done"
        /\ WithoutBackup(j)
    BY <1>1, <1>3, <2>1 DEF Fits, Publishing, WithoutBackup
  <2>5. Knows(k, tree, active', recorded', pointer')
    BY <2>1, <2>4 DEF Knows
  <2>. QED  BY <1>1, <1>2, <1>3, <2>1, <2>3, <2>4, <2>5, QuietStep
<1>. QED  BY <1>4, <1>5

LEMMA ExtractStep ==
  ASSUME IInv, NEW p \in Procs, Extract(p)
  PROVE  Advances(p)
<1> PICK j \in Job : j = job[p]
  BY Here
<1>1. /\ j.at = "extract" /\ Go(p, "lock")
      /\ UNCHANGED <<active, recorded, pointer, doomed, lock, faults, owed, alone>>
  BY DEF Extract, At
<1>2. PICK content \in {"husk", "whole"} : tree' = [tree EXCEPT ![Stage(p)] = content]
  BY DEF Extract
<1>3. j.at \notin Ended /\ j.at \notin Publishing /\ WithoutBackup(j)
  BY <1>1 DEF Ended, Publishing, WithoutBackup
<1>4. /\ VarTypes /\ Fits(j) /\ job \in [Procs -> Job] /\ Safe(tree, owed, lock, job)
      /\ alone[p] => ~doomed
  BY <1>3, Before
<1>5. "lock" \in Places \ Ended /\ "lock" \notin Publishing
  BY PlacesFacts DEF Publishing
<1>6. /\ job' \in [Procs -> Job] /\ \A q \in Procs \ {p} : job'[q] = job[q]
      /\ Goes(j, job'[p], "lock")
  BY <1>1, <1>4, <1>5, GoFacts
<1> PICK k \in Job : k = job'[p]
  BY <1>6
<1>7. k.at = "lock" /\ k.cmd = j.cmd /\ k.ver = j.ver /\ k.cmd = "install"
  BY <1>1, <1>4, <1>5, <1>6 DEF Goes, Fits
<1>8. Fits(k) /\ Knows(k, tree', active', recorded', pointer')
  BY <1>4, <1>7 DEF Fits, Knows
<1>9. VarTypes'
  BY <1>1, <1>2, <1>4, <1>6 DEF VarTypes
<1>10. Safe(tree', owed, lock, job')
  <2> PICK tr2, jb2 : tr2 = tree' /\ jb2 = job'
    OBVIOUS
  <2>1. Stage(p) \in Names /\ tree \in [Names -> {"none", "husk", "whole"}]
    BY <1>4, NamesApart DEF VarTypes
  <2>2. \A n \in Names : n # Stage(p) => tr2[n] = tree[n]
    BY <1>2, <2>1
  <2>3. \A v \in Versions : tr2[v] = tree[v]
    BY <2>2, NamesApart
  <2>4. \A q \in Procs : tr2[Backup(q)] = tree[Backup(q)]
    BY <2>2, NamesApart
  <2>5. owed \in SUBSET Versions /\ lock \in [Versions -> Procs \cup {None}]
    BY <1>4 DEF VarTypes
  <2>6. \A v \in Versions : lock[v] = IF lock[v] = p THEN None ELSE lock[v]
    BY <1>3, <1>4, NamesApart DEF Safe
  <2>7. /\ Fits(jb2[p]) /\ jb2[p].at \notin Publishing /\ jb2[p].ver = job[p].ver
        /\ WithoutBackup(job[p]) /\ \A q \in Procs \ {p} : jb2[q] = job[q]
    BY <1>3, <1>5, <1>6, <1>7, <1>8
  <2>8. Safe(tr2, owed, lock, job)
    BY <1>4, <2>3, <2>4, <2>5, StageSafe
  <2>9. Safe(tr2, owed, lock, jb2)
    <3>1. (\A v \in Versions : tr2[v] = tr2[v]) /\ (\A q \in Procs : tr2[Backup(q)] = tr2[Backup(q)])
      OBVIOUS
    <3>. QED  BY ONLY <2>5, <2>6, <2>7, <2>8, <3>1, MoveSafe
  <2>. QED  BY <2>9
<1>. QED  BY <1>1, <1>3, <1>4, <1>6, <1>7, <1>8, <1>9, <1>10 DEF Advances, Busy

LEMMA AcquireLockStep ==
  ASSUME IInv, NEW p \in Procs, AcquireLock(p)
  PROVE  Advances(p)
<1> PICK j \in Job : j = job[p]
  BY Here
<1>1. /\ j.at = "lock"
      /\ UNCHANGED <<tree, active, recorded, pointer, doomed, faults, owed, alone>>
  BY DEF AcquireLock, At, disk
<1>2. j.at \notin Ended /\ j.at \notin Publishing
  BY <1>1 DEF Ended, Publishing
<1>3. /\ VarTypes /\ Fits(j) /\ job \in [Procs -> Job] /\ Safe(tree, owed, lock, job)
      /\ alone[p] => ~doomed
      /\ active' \in Names \cup {None} /\ pointer' \in Names \cup {None} /\ recorded' \in Record
      /\ doomed' \in BOOLEAN /\ faults' \in 0 .. MaxFaults
  BY <1>1, <1>2, Before
<1>4. CASE lock[j.ver] = None
  <2>1. lock' = [lock EXCEPT ![j.ver] = p] /\ Go(p, "retain")
    BY <1>4 DEF AcquireLock
  <2>2. "retain" \in Places \ Ended
    BY PlacesFacts
  <2>3. /\ job' \in [Procs -> Job] /\ \A q \in Procs \ {p} : job'[q] = job[q]
        /\ Goes(j, job'[p], "retain")
    BY <1>3, <2>1, <2>2, GoFacts
  <2> PICK k \in Job : k = job'[p]
    BY <2>3
  <2>4. k.at = "retain" /\ k.cmd = j.cmd /\ k.ver = j.ver /\ k.cmd = "install" /\ j.ver \in Versions
    BY <1>1, <1>3, <2>2, <2>3 DEF Goes, Fits
  <2>5. Fits(k) /\ Knows(k, tree', active', recorded', pointer')
    BY <1>3, <2>4 DEF Fits, Knows
  <2>6. VarTypes'
    BY <1>1, <1>3, <2>1, <2>3, <2>4 DEF VarTypes
  <2>7. Safe(tree, owed, lock', job')
    <3> PICK lk2, jb2 : lk2 = lock' /\ jb2 = job'
      OBVIOUS
    <3>1. owed \in SUBSET Versions /\ lock \in [Versions -> Procs \cup {None}]
      BY <1>3 DEF VarTypes
    <3>2. k = jb2[p] /\ \A q \in Procs \ {p} : jb2[q] = job[q]
      BY <2>3
    <3>3. lk2 = [lock EXCEPT ![job[p].ver] = p] /\ lock[job[p].ver] = None
      BY <1>4, <2>1
    <3>4. /\ job[p].at = "lock" /\ jb2[p].at = "retain" /\ Fits(jb2[p])
          /\ jb2[p].ver = job[p].ver /\ \A q \in Procs \ {p} : jb2[q] = job[q]
      BY <1>1, <2>4, <2>5, <3>2
    <3>5. Safe(tree, owed, lock, job)
      BY <1>3
    <3>6. Safe(tree, owed, lk2, jb2)
      BY ONLY <3>1, <3>3, <3>4, <3>5, LockSafe
    <3>. QED  BY <3>6
  <2>. QED  BY <1>1, <1>2, <1>3, <2>2, <2>3, <2>4, <2>5, <2>6, <2>7 DEF Advances, Busy
<1>5. CASE lock[j.ver] # None
  <2>1. Go(p, "failed") /\ lock' = lock
    BY <1>5 DEF AcquireLock
  <2>. QED  BY <1>1, <1>2, <1>3, <2>1, EndStep
<1>. QED  BY <1>4, <1>5

LEMMA RetainStep ==
  ASSUME IInv, NEW p \in Procs, Retain(p)
  PROVE  Advances(p)
<1> PICK j \in Job : j = job[p]
  BY Here
<1>1. /\ j.at = "retain" /\ Go(p, "publish")
      /\ tree' = IF Exists(j.ver) THEN SetAside(p) ELSE tree
      /\ UNCHANGED <<active, recorded, pointer, doomed, lock, faults, owed, alone>>
  BY DEF Retain, At
<1>2. j.at \notin Ended /\ j.at \in Publishing /\ WithoutBackup(j)
  BY <1>1 DEF Ended, Publishing, WithoutBackup
<1>3. /\ VarTypes /\ Fits(j) /\ job \in [Procs -> Job] /\ Safe(tree, owed, lock, job)
      /\ alone[p] => ~doomed
  BY <1>2, Before
<1>4. "publish" \in Places \ Ended /\ "publish" \in Publishing
  BY PlacesFacts DEF Publishing
<1>5. /\ job' \in [Procs -> Job] /\ \A q \in Procs \ {p} : job'[q] = job[q]
      /\ Goes(j, job'[p], "publish")
  BY <1>1, <1>3, <1>4, GoFacts
<1> PICK k \in Job : k = job'[p]
  BY <1>5
<1>6. k.at = "publish" /\ k.cmd = j.cmd /\ k.ver = j.ver /\ k.cmd = "install" /\ j.ver \in Versions
  BY <1>1, <1>3, <1>4, <1>5 DEF Goes, Fits
<1>7. Fits(k) /\ Knows(k, tree', active', recorded', pointer')
  BY <1>3, <1>6 DEF Fits, Knows
<1>8. /\ tree \in [Names -> {"none", "husk", "whole"}] /\ owed \in SUBSET Versions
      /\ lock \in [Versions -> Procs \cup {None}]
      /\ j.ver \in Names /\ Backup(p) \in Names
  BY <1>3, <1>6, NamesApart DEF VarTypes
<1>9. VarTypes'
  <2>1. tree' \in [Names -> {"none", "husk", "whole"}]
    BY <1>1, <1>8 DEF SetAside
  <2>. QED  BY <1>1, <1>3, <1>5, <2>1 DEF VarTypes
<1>10. Safe(tree', owed, lock, job')
  <2> PICK tr2, jb2 : tr2 = tree' /\ jb2 = job'
    OBVIOUS
  <2>1. k = jb2[p] /\ \A q \in Procs \ {p} : jb2[q] = job[q]
    BY <1>5
  <2>2. Safe(tree, owed, lock, jb2)
    BY <1>2, <1>3, <1>4, <1>6, <1>7, <1>8, <2>1, StaySafe
  <2>3. tree[Backup(p)] = "none"
    BY <1>2, <1>3 DEF Safe
  <2>4. CASE Exists(j.ver)
    <3>1. tr2 = [tree EXCEPT ![jb2[p].ver] = "none", ![Backup(p)] = tree[jb2[p].ver]]
      BY <1>1, <1>6, <2>1, <2>4 DEF SetAside
    <3>2. Safe(tr2, owed, lock, jb2)
      BY <1>6, <1>8, <2>1, <2>2, <2>3, <3>1, AsideSafe
    <3>. QED  BY <3>2
  <2>5. CASE ~Exists(j.ver)
    BY <1>1, <2>2, <2>5
  <2>. QED  BY <2>4, <2>5
<1>. QED  BY <1>1, <1>2, <1>3, <1>4, <1>5, <1>6, <1>7, <1>9, <1>10 DEF Advances, Busy

LEMMA PublishStep ==
  ASSUME IInv, NEW p \in Procs, Publish(p)
  PROVE  Advances(p)
<1> PICK j \in Job : j = job[p]
  BY Here
<1>1. /\ j.at = "publish" /\ Go(p, "tidy")
      /\ tree' = [tree EXCEPT ![j.ver] = "whole", ![Stage(p)] = "none"]
      /\ owed' = owed \cup {j.ver}
      /\ UNCHANGED <<active, recorded, pointer, doomed, lock, faults, alone>>
  BY DEF Publish, At
<1>2. j.at \notin Ended /\ j.at \in Publishing
  BY <1>1 DEF Ended, Publishing
<1>3. /\ VarTypes /\ Fits(j) /\ job \in [Procs -> Job] /\ Safe(tree, owed, lock, job)
      /\ alone[p] => ~doomed
  BY <1>2, Before
<1>4. "tidy" \in Places \ Ended /\ "tidy" \in Publishing
  BY PlacesFacts DEF Publishing
<1>5. /\ job' \in [Procs -> Job] /\ \A q \in Procs \ {p} : job'[q] = job[q]
      /\ Goes(j, job'[p], "tidy")
  BY <1>1, <1>3, <1>4, GoFacts
<1> PICK k \in Job : k = job'[p]
  BY <1>5
<1>6. k.at = "tidy" /\ k.cmd = j.cmd /\ k.ver = j.ver /\ k.cmd = "install" /\ j.ver \in Versions
  BY <1>1, <1>3, <1>4, <1>5 DEF Goes, Fits
<1>7. /\ tree \in [Names -> {"none", "husk", "whole"}] /\ owed \in SUBSET Versions
      /\ lock \in [Versions -> Procs \cup {None}]
      /\ j.ver \in Names /\ Stage(p) \in Names
  BY <1>3, <1>6, NamesApart DEF VarTypes
<1> PICK tr2, ow2, jb2 : tr2 = tree' /\ ow2 = owed' /\ jb2 = job'
  OBVIOUS
<1>8. Safe(tr2, ow2, lock, job) /\ tr2[j.ver] = "whole"
  <2>1. /\ job[p].at = "publish" /\ (\A v \in ow2 : v \in owed \/ v = job[p].ver) /\ Safe(tree, owed, lock, job)
        /\ tr2 = [tree EXCEPT ![job[p].ver] = "whole", ![Stage(p)] = "none"]
    BY <1>1, <1>3
  <2>2. tree \in [Names -> {"none", "husk", "whole"}] /\ owed \in SUBSET Versions
    BY <1>7
  <2>3. Safe(tr2, ow2, lock, job)
    BY ONLY <2>1, <2>2, PublishSafe
  <2>4. tr2[j.ver] = "whole"
    BY <1>1, <1>6, <1>7, NamesApart
  <2>. QED  BY <2>3, <2>4
<1>9. Fits(k) /\ Knows(k, tree', active', recorded', pointer') /\ ~WithoutBackup(k)
  BY <1>3, <1>6, <1>7, <1>8 DEF Fits, Knows, Whole, WithoutBackup, Ended
<1>10. VarTypes'
  <2>1. tree' \in [Names -> {"none", "husk", "whole"}] /\ owed' \subseteq Versions
    BY <1>1, <1>6, <1>7
  <2>. QED  BY <1>1, <1>3, <1>5, <2>1 DEF VarTypes
<1>11. Safe(tree', owed', lock, job')
  <2>1. k = jb2[p] /\ \A q \in Procs \ {p} : jb2[q] = job[q]
    BY <1>5
  <2>2. ow2 \in SUBSET Versions
    BY <1>1, <1>6, <1>7
  <2>3. Safe(tr2, ow2, lock, jb2)
    BY <1>2, <1>4, <1>6, <1>7, <1>8, <1>9, <2>1, <2>2, StaySafe
  <2>. QED  BY <2>3
<1>. QED  BY <1>1, <1>2, <1>3, <1>4, <1>5, <1>6, <1>9, <1>10, <1>11 DEF Advances, Busy

\* Whoever publishes has the lock of its version, and no other.
LEMMA UnlockedIs ==
  ASSUME IInv, NEW p \in Procs, job[p].at \in Publishing
  PROVE  /\ Unlocked(p) \in [Versions -> Procs \cup {None}]
         /\ \A v \in Versions : Unlocked(p)[v] = IF lock[v] = p THEN None ELSE lock[v]
<1>1. /\ lock \in [Versions -> Procs \cup {None}] /\ Safe(tree, owed, lock, job)
  BY Here DEF VarTypes
<1>2. \A v \in Versions : lock[v] = p => v = job[p].ver
  BY <1>1, NamesApart DEF Safe
<1>. QED  BY <1>1, <1>2 DEF Unlocked

LEMMA PublishFailsStep ==
  ASSUME IInv, NEW p \in Procs, PublishFails(p)
  PROVE  Advances(p)
<1> PICK j \in Job : j = job[p]
  BY Here
<1>1. /\ j.at = "publish" /\ Go(p, "failed") /\ lock' = Unlocked(p)
      /\ Fault \/ faults' = faults
      /\ UNCHANGED <<active, recorded, pointer, doomed, owed, alone>>
  BY DEF PublishFails, At
<1>2. j.at \notin Ended /\ j.at \in Publishing
  BY <1>1 DEF Ended, Publishing
<1>3. /\ VarTypes /\ Fits(j) /\ job \in [Procs -> Job] /\ Safe(tree, owed, lock, job)
  BY <1>2, Before
<1>4. "failed" \in Places /\ "failed" \in Ended
  BY DEF Places, Ended
<1>5. /\ job' \in [Procs -> Job] /\ \A q \in Procs \ {p} : job'[q] = job[q]
      /\ Goes(j, job'[p], "failed")
  BY <1>1, <1>3, <1>4, GoFacts
<1> PICK k \in Job : k = job'[p]
  BY <1>5
<1>6. /\ k.at = "failed" /\ k.cmd = "list" /\ k.ver = j.ver /\ j.ver \in Versions
      /\ Fits(k) /\ k.at \notin Publishing /\ ~WithoutBackup(k)
  BY <1>1, <1>3, <1>4, <1>5 DEF Goes, Fits, Publishing, WithoutBackup, Ended
<1>7. /\ tree \in [Names -> {"none", "husk", "whole"}] /\ owed \in SUBSET Versions
      /\ lock \in [Versions -> Procs \cup {None}]
      /\ j.ver \in Names /\ Backup(p) \in Names
  BY <1>3, <1>6, NamesApart DEF VarTypes
<1>8. /\ lock' \in [Versions -> Procs \cup {None}]
      /\ \A v \in Versions : lock'[v] = IF lock[v] = p THEN None ELSE lock[v]
  BY <1>1, <1>2, UnlockedIs
<1> PICK tr2, lk2, jb2 : tr2 = tree' /\ lk2 = lock' /\ jb2 = job'
  OBVIOUS
<1>9. \/ tr2 = tree
      \/ tree[j.ver] = "none" /\ tr2 = [tree EXCEPT ![j.ver] = tree[Backup(p)], ![Backup(p)] = "none"]
  BY <1>6, <1>7, NamesApart DEF PublishFails, Exists
<1>10. Safe(tr2, owed, lock, job)
  <2>1. CASE tr2 = tree
    BY <1>3, <2>1
  <2>2. CASE tr2 # tree
    BY <1>1, <1>3, <1>7, <1>9, <2>2, PutBackSafe
  <2>. QED  BY <2>1, <2>2
<1>11. VarTypes'
  <2>1. tree' \in [Names -> {"none", "husk", "whole"}]
    BY <1>7, <1>9
  <2>2. faults' \in 0 .. MaxFaults
    BY <1>1, <1>3, FaultCounts DEF VarTypes
  <2>. QED  BY <1>1, <1>3, <1>5, <1>8, <2>1, <2>2 DEF VarTypes
<1>12. Safe(tree', owed, lock', job')
  <2>1. k = jb2[p] /\ \A q \in Procs \ {p} : jb2[q] = job[q]
    BY <1>5
  <2>2. /\ lk2 \in [Versions -> Procs \cup {None}]
        /\ \A v \in Versions : lk2[v] = IF lock[v] = p THEN None ELSE lock[v]
    BY <1>8
  <2>3. Safe(tr2, owed, lk2, jb2)
    BY <1>6, <1>7, <1>10, <2>1, <2>2, MoveSafe
  <2>. QED  BY <2>3
<1>. QED  BY <1>1, <1>2, <1>4, <1>5, <1>6, <1>11, <1>12 DEF Advances, Busy

LEMMA TidyStep ==
  ASSUME IInv, NEW p \in Procs, Tidy(p)
  PROVE  Advances(p)
<1> PICK j \in Job : j = job[p]
  BY Here
<1>1. /\ j.at = "tidy" /\ Go(p, "register") /\ lock' = Unlocked(p)
      /\ Fault \/ faults' = faults
      /\ tree' = [tree EXCEPT ![Backup(p)] = "none"] \/ tree' = tree
      /\ UNCHANGED <<active, recorded, pointer, doomed, owed, alone>>
  BY DEF Tidy, At
<1>2. j.at \notin Ended /\ j.at \in Publishing
  BY <1>1 DEF Ended, Publishing
<1>3. /\ VarTypes /\ Fits(j) /\ job \in [Procs -> Job] /\ Safe(tree, owed, lock, job)
      /\ alone[p] => ~doomed /\ Knows(j, tree, active, recorded, pointer)
  BY <1>2, Before
<1>4. "register" \in Places \ Ended /\ "register" \notin Publishing
  BY PlacesFacts DEF Publishing
<1>5. /\ job' \in [Procs -> Job] /\ \A q \in Procs \ {p} : job'[q] = job[q]
      /\ Goes(j, job'[p], "register")
  BY <1>1, <1>3, <1>4, GoFacts
<1> PICK k \in Job : k = job'[p]
  BY <1>5
<1>6. /\ k.at = "register" /\ k.cmd = j.cmd /\ k.ver = j.ver /\ k.cmd = "install" /\ j.ver \in Versions
      /\ Fits(k) /\ ~WithoutBackup(k)
  BY <1>1, <1>3, <1>4, <1>5 DEF Goes, Fits, WithoutBackup, Ended
<1>7. /\ tree \in [Names -> {"none", "husk", "whole"}] /\ owed \in SUBSET Versions
      /\ lock \in [Versions -> Procs \cup {None}]
      /\ j.ver \in Names /\ Backup(p) \in Names /\ Backup(p) # j.ver
  BY <1>3, <1>6, NamesApart DEF VarTypes
<1>8. /\ lock' \in [Versions -> Procs \cup {None}]
      /\ \A v \in Versions : lock'[v] = IF lock[v] = p THEN None ELSE lock[v]
  BY <1>1, <1>2, UnlockedIs
<1> PICK tr2, lk2, jb2 : tr2 = tree' /\ lk2 = lock' /\ jb2 = job'
  OBVIOUS
<1>9. tr2 = tree \/ tr2 = [tree EXCEPT ![Backup(p)] = "none"]
  BY <1>1
<1>10. Safe(tr2, owed, lock, job)
  <2>1. CASE tr2 = tree
    BY <1>3, <2>1
  <2>2. CASE tr2 # tree
    BY <1>1, <1>3, <1>7, <1>9, <2>2, TidySafe
  <2>. QED  BY <2>1, <2>2
<1>11. alone[p] => Knows(k, tree', active', recorded', pointer')
  <2>1. tr2[j.ver] = tree[j.ver]
    BY <1>7, <1>9
  <2>2. alone[p] => Whole(tree', k.ver)
    BY <1>1, <1>3, <1>6, <2>1 DEF Knows, Whole
  <2>. QED  BY <1>6, <2>2 DEF Knows
<1>12. VarTypes'
  <2>1. tree' \in [Names -> {"none", "husk", "whole"}]
    BY <1>7, <1>9
  <2>2. faults' \in 0 .. MaxFaults
    BY <1>1, <1>3, FaultCounts DEF VarTypes
  <2>. QED  BY <1>1, <1>3, <1>5, <1>8, <2>1, <2>2 DEF VarTypes
<1>13. Safe(tree', owed, lock', job')
  <2>1. k = jb2[p] /\ \A q \in Procs \ {p} : jb2[q] = job[q]
    BY <1>5
  <2>2. /\ lk2 \in [Versions -> Procs \cup {None}]
        /\ \A v \in Versions : lk2[v] = IF lock[v] = p THEN None ELSE lock[v]
    BY <1>8
  <2>3. Safe(tr2, owed, lk2, jb2)
    <3>1. /\ Fits(jb2[p]) /\ jb2[p].at \notin Publishing /\ jb2[p].ver = job[p].ver
          /\ ~WithoutBackup(jb2[p]) /\ \A q \in Procs \ {p} : jb2[q] = job[q]
      BY <1>4, <1>6, <2>1
    <3>2. (\A v \in Versions : tr2[v] = tr2[v]) /\ (\A q \in Procs : tr2[Backup(q)] = tr2[Backup(q)])
      OBVIOUS
    <3>. QED  BY ONLY <1>7, <1>10, <2>2, <3>1, <3>2, MoveSafe
  <2>. QED  BY <2>3
<1>. QED  BY <1>1, <1>2, <1>3, <1>4, <1>5, <1>6, <1>11, <1>12, <1>13 DEF Advances, Busy

LEMMA RegisterStep ==
  ASSUME IInv, NEW p \in Procs, Register(p)
  PROVE  Advances(p)
<1> PICK j \in Job : j = job[p]
  BY Here
<1>1. /\ j.at = "register"
      /\ UNCHANGED <<tree, active, recorded, pointer, doomed, lock, faults, owed, alone>>
  BY DEF Register, At, disk
<1>2. j.at \notin Ended /\ j.at \notin Publishing
  BY <1>1 DEF Ended, Publishing
<1>3. /\ VarTypes /\ Fits(j) /\ job \in [Procs -> Job]
      /\ alone[p] => ~doomed /\ Knows(j, tree, active, recorded, pointer)
      /\ active' \in Names \cup {None} /\ pointer' \in Names \cup {None} /\ recorded' \in Record
      /\ doomed' \in BOOLEAN /\ faults' \in 0 .. MaxFaults
  BY <1>1, <1>2, Before
<1> PICK n : n = Cardinality(Scanned)
  OBVIOUS
<1>4. n \in 0 .. Cardinality(Names)
  <2>1. Scanned \in SUBSET Names
    BY DEF Scanned
  <2>. QED  BY <2>1, Counts
<1> PICK k : k = [j EXCEPT !.at = "note", !.want = j.ver, !.had = n]
  OBVIOUS
<1>5. k \in Job /\ k.at = "note" /\ k.cmd = j.cmd /\ k.ver = j.ver /\ k.want = j.ver
  BY <1>4 DEF Job, Places
<1>6. job' = [job EXCEPT ![p] = k]
  BY <1>3 DEF Register
<1>7. job' \in [Procs -> Job] /\ job'[p] = k /\ \A q \in Procs \ {p} : job'[q] = job[q]
  BY <1>3, <1>5, <1>6, JobSet
<1>8. k.cmd = "install"
  BY <1>1, <1>3, <1>5 DEF Fits
<1>9. Fits(k) /\ k.at \notin Publishing /\ k.at # "done" /\ ~WithoutBackup(k)
  BY <1>3, <1>5, <1>8 DEF Fits, Publishing, WithoutBackup, Ended
<1>10. alone[p] => ~doomed' /\ Knows(k, tree, active', recorded', pointer')
  BY <1>1, <1>3, <1>5, <1>8 DEF Knows
<1>. QED  BY <1>1, <1>2, <1>3, <1>5, <1>7, <1>9, <1>10, QuietStep

LEMMA EnteredFacts ==
  ASSUME recorded \in Record, NEW p \in Procs, job[p].ver \in Names
  PROVE  /\ Entered(p) \in Record
         /\ job[p].ver \in DOMAIN Entered(p) /\ Entered(p)[job[p].ver]
<1> PICK u \in Names : u = job[p].ver
  OBVIOUS
<1> PICK S : S = Records(recorded) \cup {u}
  OBVIOUS
<1>1. S \in SUBSET (Names \cup {None}) /\ u \in S
  BY RecordFacts DEF Records
<1>2. \A v \in S : (v = u \/ recorded[v]) \in BOOLEAN
  OBVIOUS
<1>3. Entered(p) = [v \in S |-> v = u \/ recorded[v]]
  BY DEF Entered
<1>4. Entered(p) \in [S -> BOOLEAN] /\ DOMAIN Entered(p) = S
  BY <1>2, <1>3
<1>5. Entered(p) \in Record
  BY <1>1, <1>4, RecordIntro
<1>6. Entered(p)[u] = (u = u \/ recorded[u])
  BY <1>1, <1>3
<1>. QED  BY <1>1, <1>4, <1>5, <1>6

LEMMA ReadRecordedStep ==
  ASSUME IInv, NEW p \in Procs, ReadRecorded(p)
  PROVE  Advances(p)
<1> PICK j \in Job : j = job[p]
  BY Here
<1>1. /\ j.at = "note"
      /\ UNCHANGED <<tree, active, recorded, pointer, doomed, lock, faults, owed, alone>>
  BY DEF ReadRecorded, At, disk
<1>2. j.at \notin Ended /\ j.at \notin Publishing
  BY <1>1 DEF Ended, Publishing
<1>3. /\ VarTypes /\ Fits(j) /\ job \in [Procs -> Job] /\ recorded \in Record
      /\ alone[p] => ~doomed /\ Knows(j, tree, active, recorded, pointer)
      /\ active' \in Names \cup {None} /\ pointer' \in Names \cup {None} /\ recorded' \in Record
      /\ doomed' \in BOOLEAN /\ faults' \in 0 .. MaxFaults
  BY <1>1, <1>2, Before
<1>4. j.cmd = "install" /\ j.ver \in Versions /\ j.ver \in Names
  BY <1>1, <1>3, NamesApart DEF Fits
<1> PICK r : r = Entered(p)
  OBVIOUS
<1>5. r \in Record /\ j.ver \in DOMAIN r /\ r[j.ver]
  BY <1>3, <1>4, EnteredFacts
<1> PICK k : k = [j EXCEPT !.at = "enter", !.recs = r]
  OBVIOUS
<1>6. k \in Job /\ k.at = "enter" /\ k.cmd = j.cmd /\ k.ver = j.ver /\ k.want = j.want /\ k.recs = r
  BY <1>5 DEF Job, Places
<1>7. job' = [job EXCEPT ![p] = k]
  BY <1>3 DEF ReadRecorded
<1>8. job' \in [Procs -> Job] /\ job'[p] = k /\ \A q \in Procs \ {p} : job'[q] = job[q]
  BY <1>3, <1>6, <1>7, JobSet
<1>9. Fits(k) /\ k.at \notin Publishing /\ k.at # "done" /\ ~WithoutBackup(k)
  BY <1>3, <1>4, <1>6 DEF Fits, Publishing, WithoutBackup, Ended
<1>10. alone[p] => ~doomed' /\ Knows(k, tree, active', recorded', pointer')
  BY <1>1, <1>3, <1>4, <1>5, <1>6 DEF Knows
<1>. QED  BY <1>1, <1>2, <1>3, <1>6, <1>8, <1>9, <1>10, QuietStep

LEMMA EnterRecordStep ==
  ASSUME IInv, NEW p \in Procs, EnterRecord(p)
  PROVE  Advances(p)
<1> PICK j \in Job : j = job[p]
  BY Here
<1>1. /\ j.at = "enter" /\ recorded' = j.recs
      /\ Go(p, IF j.had <= 1 THEN "persist" ELSE "done")
      /\ UNCHANGED <<tree, active, pointer, doomed, lock, faults, owed, alone>>
  BY DEF EnterRecord, At
<1>2. j.at \notin Ended /\ j.at \notin Publishing
  BY <1>1 DEF Ended, Publishing
<1>3. /\ VarTypes /\ Fits(j)
      /\ alone[p] => ~doomed /\ Knows(j, tree, active, recorded, pointer)
      /\ active' \in Names \cup {None} /\ pointer' \in Names \cup {None} /\ recorded' \in Record
      /\ doomed' \in BOOLEAN /\ faults' \in 0 .. MaxFaults
  BY <1>1, <1>2, Before DEF Job
<1>4. j.cmd = "install"
  BY <1>1, <1>3 DEF Fits
<1>5. alone[p] => Whole(tree, j.ver) /\ j.want = j.ver /\ j.ver \in DOMAIN recorded' /\ recorded'[j.ver]
  BY <1>1, <1>3, <1>4 DEF Knows
<1>6. CASE j.had <= 1
  <2>1. Go(p, "persist") /\ "persist" \in Places \ Ended /\ "persist" \notin Publishing
    BY <1>1, <1>6, PlacesFacts DEF Publishing
  <2>2. ASSUME NEW k \in Job, Goes(j, k, "persist")
        PROVE  /\ Fits(k) /\ (WithoutBackup(k) => WithoutBackup(j))
               /\ alone[p] => ~doomed' /\ Knows(k, tree, active', recorded', pointer')
    <3>1. k.at = "persist" /\ k.cmd = "install" /\ k.ver = j.ver /\ k.want = j.want
      BY <1>4, <2>1, <2>2 DEF Goes
    <3>2. Fits(k) /\ ~WithoutBackup(k)
      BY <1>3, <1>4, <3>1 DEF Fits, WithoutBackup, Ended
    <3>3. alone[p] => Knows(k, tree, active', recorded', pointer')
      BY <1>5, <3>1 DEF Knows
    <3>. QED  BY <1>1, <1>3, <3>2, <3>3
  <2>. QED  BY <1>1, <1>2, <1>3, <2>1, <2>2, GoStep
<1>7. CASE ~(j.had <= 1)
  <2>1. Go(p, "done")
    BY <1>1, <1>7
  <2>2. alone[p] => EndsRight(p)
    BY <1>1, <1>4, <1>5, <1>7 DEF EndsRight, Whole
  <2>. QED  BY <1>1, <1>2, <1>3, <2>1, <2>2, EndStep
<1>. QED  BY <1>6, <1>7

-----------------------------------------------------------------------------
(* `self remove`.                                                          *)

LEMMA CountStep ==
  ASSUME IInv, NEW p \in Procs, Count(p)
  PROVE  Advances(p)
<1> PICK j \in Job : j = job[p]
  BY Here
<1>1. /\ j.at = "count"
      /\ UNCHANGED <<tree, active, recorded, pointer, doomed, lock, faults, owed, alone>>
  BY DEF Count, At, disk
<1>2. j.at \notin Ended /\ j.at \notin Publishing
  BY <1>1 DEF Ended, Publishing
<1>3. /\ VarTypes /\ Fits(j) /\ job \in [Procs -> Job]
      /\ alone[p] => ~doomed /\ Knows(j, tree, active, recorded, pointer)
      /\ active' \in Names \cup {None} /\ pointer' \in Names \cup {None} /\ recorded' \in Record
      /\ doomed' \in BOOLEAN /\ faults' \in 0 .. MaxFaults
  BY <1>1, <1>2, Before
<1> PICK n : n = Cardinality(Scanned)
  OBVIOUS
<1>4. n \in 0 .. Cardinality(Names) /\ (Scanned # {} => n # 0)
  <2>1. Scanned \in SUBSET Names
    BY DEF Scanned
  <2>. QED  BY <2>1, Counts
<1> PICK k : k = [j EXCEPT !.at = "scan", !.had = n]
  OBVIOUS
<1>5. k \in Job /\ k.at = "scan" /\ k.cmd = j.cmd /\ k.ver = j.ver /\ k.had = n
  BY <1>4 DEF Job, Places
<1>6. job' = [job EXCEPT ![p] = k]
  BY <1>3 DEF Count
<1>7. job' \in [Procs -> Job] /\ job'[p] = k /\ \A q \in Procs \ {p} : job'[q] = job[q]
  BY <1>3, <1>5, <1>6, JobSet
<1>8. k.cmd = "remove" /\ WithoutBackup(j)
  BY <1>1, <1>2, <1>3, <1>5 DEF Fits, WithoutBackup
<1>9. Fits(k) /\ k.at \notin Publishing /\ k.at # "done"
  BY <1>3, <1>5, <1>8 DEF Fits, Publishing
<1>10. ASSUME alone[p]  PROVE  ~doomed' /\ Knows(k, tree, active', recorded', pointer')
  <2>1. ~doomed /\ Whole(tree, j.ver)
    BY <1>1, <1>3, <1>5, <1>8, <1>10 DEF Knows
  <2>2. n # 0
    BY <1>4, <2>1 DEF Scanned, Whole
  <2>. QED  BY <1>1, <1>5, <1>8, <2>1, <2>2 DEF Knows
<1>. QED  BY <1>1, <1>2, <1>3, <1>5, <1>7, <1>8, <1>9, <1>10, QuietStep

LEMMA DecideStep ==
  ASSUME IInv, NEW p \in Procs, Decide(p)
  PROVE  Advances(p)
<1> PICK j \in Job : j = job[p]
  BY Here
<1>1. /\ j.at = "decide"
      /\ UNCHANGED <<tree, active, recorded, pointer, lock, faults, owed, alone>>
  BY DEF Decide, At
<1>2. j.at \notin Ended /\ j.at \notin Publishing
  BY <1>1 DEF Ended, Publishing
<1>3. /\ VarTypes /\ Fits(j)
      /\ alone[p] => ~doomed /\ Knows(j, tree, active, recorded, pointer)
      /\ active' \in Names \cup {None} /\ pointer' \in Names \cup {None} /\ recorded' \in Record
      /\ doomed \in BOOLEAN /\ faults' \in 0 .. MaxFaults
  BY <1>1, <1>2, Before
<1>4. j.cmd = "remove" /\ WithoutBackup(j)
  BY <1>1, <1>2, <1>3 DEF Fits, WithoutBackup
<1>5. CASE j.want = j.ver /\ j.had > 1
  <2>1. Go(p, "failed") /\ doomed' = doomed
    BY <1>5 DEF Decide, IsActive
  <2>. QED  BY <1>1, <1>2, <1>3, <2>1, EndStep
<1>6. CASE j.want = j.ver /\ j.had = 1
  <2>1. Go(p, "done") /\ doomed' = TRUE
    BY <1>6 DEF Decide, IsActive
  <2>2. EndsRight(p)
    BY <1>4, <2>1 DEF EndsRight
  <2>. QED  BY <1>1, <1>2, <1>3, <2>1, <2>2, EndStep
<1>7. CASE ~(j.want = j.ver /\ j.had > 1) /\ ~(j.want = j.ver /\ j.had = 1)
  <2>1. Go(p, "delete") /\ doomed' = doomed
    BY <1>7 DEF Decide, IsActive
  <2>2. "delete" \in Places \ Ended /\ "delete" \notin Publishing
    BY PlacesFacts DEF Publishing
  <2>3. ASSUME NEW k \in Job, Goes(j, k, "delete")
        PROVE  /\ Fits(k) /\ (WithoutBackup(k) => WithoutBackup(j))
               /\ alone[p] => ~doomed' /\ Knows(k, tree, active', recorded', pointer')
    <3>1. k.at = "delete" /\ k.cmd = "remove" /\ k.ver = j.ver /\ k.want = j.want /\ k.had = j.had
      BY <1>4, <2>2, <2>3 DEF Goes
    <3>2. Fits(k)
      BY <1>3, <1>4, <3>1 DEF Fits
    <3>3. ASSUME alone[p]  PROVE  Knows(k, tree, active', recorded', pointer')
      <4>1. /\ Whole(tree, j.want) /\ active = j.want /\ pointer = j.want
            /\ Whole(tree, j.ver) /\ j.had # 0
        BY <1>1, <1>3, <1>4, <3>3 DEF Knows
      <4>2. j.want # j.ver
        <5>1. j.had \in 0 .. Cardinality(Names)
          BY DEF Job
        <5>2. j.had = 1 \/ j.had > 1
          BY <4>1, <5>1
        <5>. QED  BY <1>7, <5>2
      <4>. QED  BY <1>1, <3>1, <4>1, <4>2 DEF Knows
    <3>. QED  BY <1>3, <1>4, <2>1, <3>2, <3>3
  <2>. QED  BY <1>1, <1>2, <1>3, <2>1, <2>2, <2>3, GoStep
<1>. QED  BY <1>5, <1>6, <1>7

LEMMA DeleteStep ==
  ASSUME IInv, NEW p \in Procs, Delete(p)
  PROVE  Advances(p)
<1> PICK j \in Job : j = job[p]
  BY Here
<1>1. /\ j.at = "delete" /\ owed' = owed \ Holds(j.ver)
      /\ UNCHANGED <<active, recorded, pointer, doomed, lock, alone>>
  BY DEF Delete, At
<1>2. j.at \notin Ended /\ j.at \notin Publishing
  BY <1>1 DEF Ended, Publishing
<1>3. /\ VarTypes /\ Fits(j) /\ job \in [Procs -> Job] /\ Safe(tree, owed, lock, job)
      /\ alone[p] => ~doomed /\ Knows(j, tree, active, recorded, pointer)
  BY <1>2, Before
<1>4. j.cmd = "remove" /\ WithoutBackup(j) /\ j.ver \in Names
  BY <1>1, <1>2, <1>3 DEF Fits, WithoutBackup
<1>5. PICK w \in {"strike", "failed"} :
        /\ Go(p, w) /\ (Fault \/ faults' = faults)
        /\ \/ Exists(j.ver) /\ w = "strike" /\ tree' = [tree EXCEPT ![j.ver] = "none"]
           \/ Exists(j.ver) /\ w = "failed"
              /\ \E left \in {tree[j.ver], "husk"} : tree' = [tree EXCEPT ![j.ver] = left]
           \/ tree' = tree /\ w = "failed"
  BY DEF Delete
<1>6. w \in Places
  BY DEF Places
<1>7. /\ job' \in [Procs -> Job] /\ \A q \in Procs \ {p} : job'[q] = job[q]
      /\ Goes(j, job'[p], w)
  BY <1>3, <1>5, <1>6, GoFacts
<1> PICK k \in Job : k = job'[p]
  BY <1>7
<1>8. /\ k.at = w /\ w \notin Publishing
      /\ w = "strike" => k.cmd = "remove" /\ k.ver = j.ver /\ k.want = j.want /\ k.had = j.had
      /\ w = "failed" => k.cmd = "list" /\ k.at \in Ended
  BY <1>4, <1>7 DEF Goes, Ended, Publishing
<1>9. Fits(k)
  <2>1. CASE w = "strike"
    BY <1>3, <1>4, <1>8, <2>1 DEF Fits
  <2>2. CASE w = "failed"
    BY <1>8, <2>2 DEF Fits
  <2>. QED  BY <2>1, <2>2
<1>10. /\ tree \in [Names -> {"none", "husk", "whole"}] /\ owed \in SUBSET Versions
       /\ lock \in [Versions -> Procs \cup {None}]
  BY <1>3 DEF VarTypes
<1>11. tree' \in [Names -> {"none", "husk", "whole"}]
  <2>1. tree[j.ver] \in {"none", "husk", "whole"}
    BY <1>4, <1>10
  <2>. QED  BY <1>5, <1>10, <2>1
<1>12. VarTypes'
  <2>1. faults' \in 0 .. MaxFaults
    BY <1>3, <1>5, FaultCounts DEF VarTypes
  <2>. QED  BY <1>1, <1>3, <1>7, <1>11, <2>1 DEF VarTypes
<1> PICK tr2, ow2, jb2 : tr2 = tree' /\ ow2 = owed' /\ jb2 = job'
  OBVIOUS
<1>13. Safe(tr2, ow2, lock, job)
  <2> PICK n \in Names : n = j.ver
    BY <1>4
  <2>1. ow2 = owed \ ({n} \cup {job[q].ver : q \in {r \in Procs : n = Backup(r)}})
    BY <1>1 DEF Holds
  <2>2. tr2 = tree \/ (n \in Names /\ tree[n] # "none" /\ \E x : tr2 = [tree EXCEPT ![n] = x])
    BY <1>5 DEF Exists
  <2>3. Safe(tree, owed, lock, job)
    BY <1>3
  <2>. QED  BY ONLY <1>10, <2>1, <2>2, <2>3, DeleteSafe
<1>14. Safe(tr2, ow2, lock, jb2)
  <2>1. /\ Fits(jb2[p]) /\ jb2[p].at \notin Publishing /\ WithoutBackup(job[p])
        /\ \A q \in Procs \ {p} : jb2[q] = job[q]
    BY <1>4, <1>7, <1>8, <1>9
  <2>2. (\A v \in Versions : tr2[v] = tr2[v]) /\ (\A q \in Procs : tr2[Backup(q)] = tr2[Backup(q)])
    OBVIOUS
  <2>3. ow2 \in SUBSET Versions /\ lock \in [Versions -> Procs \cup {None}]
    BY <1>1, <1>10
  <2>4. \A v \in Versions : lock[v] = IF lock[v] = p THEN None ELSE lock[v]
    BY <1>2, <1>3, NamesApart DEF Safe
  <2>. QED  BY ONLY <1>13, <2>1, <2>2, <2>3, <2>4, MoveSafe
<1>15. ASSUME alone[p], w = "strike"  PROVE  Knows(k, tree', active', recorded', pointer')
  <2>1. /\ Whole(tree, j.want) /\ active = j.want /\ pointer = j.want /\ j.want # j.ver /\ j.had # 0
    BY <1>1, <1>3, <1>4, <1>15 DEF Knows
  <2>2. tree' = [tree EXCEPT ![j.ver] = "none"]
    BY <1>5, <1>15
  <2>3. Whole(tree', j.want) /\ tree'[j.ver] = "none"
    BY <1>4, <1>10, <2>1, <2>2 DEF Whole
  <2>. QED  BY <1>1, <1>8, <1>15, <2>1, <2>3 DEF Knows
<1>16. w # "done" /\ k.at # "done" /\ (k.at \notin Ended => w = "strike")
  BY <1>8 DEF Ended
<1>17. Safe(tree', owed', lock', job')
  BY <1>1, <1>14
<1>. QED  BY <1>1, <1>2, <1>3, <1>7, <1>12, <1>15, <1>16, <1>17 DEF Advances, Busy

LEMMA StrikeStep ==
  ASSUME IInv, NEW p \in Procs, Strike(p)
  PROVE  Advances(p)
<1> PICK j \in Job : j = job[p]
  BY Here
<1>1. /\ j.at = "strike"
      /\ UNCHANGED <<tree, active, recorded, pointer, doomed, lock, faults, owed, alone>>
  BY DEF Strike, At, disk
<1>2. j.at \notin Ended /\ j.at \notin Publishing
  BY <1>1 DEF Ended, Publishing
<1>3. /\ VarTypes /\ Fits(j) /\ job \in [Procs -> Job] /\ recorded \in Record
      /\ alone[p] => ~doomed /\ Knows(j, tree, active, recorded, pointer)
      /\ active' \in Names \cup {None} /\ pointer' \in Names \cup {None} /\ recorded' \in Record
      /\ doomed' \in BOOLEAN /\ faults' \in 0 .. MaxFaults
  BY <1>1, <1>2, Before
<1>4. PICK r \in Record : r = [v \in Records(recorded) \ {j.ver} |-> recorded[v]] /\ j.ver \notin DOMAIN r
  <2> PICK S : S = Records(recorded) \ {j.ver}
    OBVIOUS
  <2>1. S \in SUBSET (Names \cup {None}) /\ \A v \in S : recorded[v] \in BOOLEAN
    BY <1>3, RecordFacts DEF Records
  <2>2. [v \in S |-> recorded[v]] \in [S -> BOOLEAN]
    BY <2>1
  <2>3. [v \in S |-> recorded[v]] \in Record
    BY <2>1, <2>2, RecordIntro
  <2>4. j.ver \notin DOMAIN [v \in S |-> recorded[v]]
    OBVIOUS
  <2>. QED  BY <2>3, <2>4
<1> PICK k : k = [j EXCEPT !.at = "erase", !.recs = r]
  OBVIOUS
<1>5. /\ k \in Job /\ k.at = "erase" /\ k.cmd = j.cmd /\ k.ver = j.ver /\ k.want = j.want
      /\ k.had = j.had /\ k.recs = r
  BY DEF Job, Places
<1>6. job' = [job EXCEPT ![p] = k]
  BY <1>3, <1>4 DEF Strike
<1>7. job' \in [Procs -> Job] /\ job'[p] = k /\ \A q \in Procs \ {p} : job'[q] = job[q]
  BY <1>3, <1>5, <1>6, JobSet
<1>8. k.cmd = "remove" /\ WithoutBackup(j)
  BY <1>1, <1>2, <1>3, <1>5 DEF Fits, WithoutBackup
<1>9. Fits(k) /\ k.at \notin Publishing /\ k.at # "done"
  BY <1>3, <1>5, <1>8 DEF Fits, Publishing
<1>10. alone[p] => ~doomed' /\ Knows(k, tree, active', recorded', pointer')
  BY <1>1, <1>3, <1>4, <1>5, <1>8 DEF Knows
<1>. QED  BY <1>1, <1>2, <1>3, <1>5, <1>7, <1>8, <1>9, <1>10, QuietStep

\* A removal that comes to its end undisturbed.
LEMMA RemovedRight ==
  ASSUME IInv, NEW p \in Procs, job[p].cmd = "remove", job[p].at \in {"erase", "forget"}, alone[p],
         UNCHANGED <<tree, pointer>>, active' \in {active, None}, job[p].ver \notin DOMAIN recorded'
  PROVE  EndsRight(p)
<1>1. Busy(p)
  BY DEF Busy, Ended
<1>2. Knows(job[p], tree, active, recorded, pointer)
  BY <1>1, Here
<1>3. /\ Whole(tree, job[p].want) /\ active = job[p].want /\ pointer = job[p].want
      /\ tree[job[p].ver] = "none"
  BY <1>2 DEF Knows
<1>4. pointer' \in Scanned' /\ active' \in {pointer', None}
  BY <1>3 DEF Scanned, Whole
<1>. QED  BY <1>3, <1>4 DEF EndsRight

LEMMA EraseStep ==
  ASSUME IInv, NEW p \in Procs, Erase(p)
  PROVE  Advances(p)
<1> PICK j \in Job : j = job[p]
  BY Here
<1>1. /\ j.at = "erase"
      /\ UNCHANGED <<tree, active, pointer, doomed, lock, faults, owed, alone>>
  BY DEF Erase, At
<1>2. j.at \notin Ended /\ j.at \notin Publishing
  BY <1>1 DEF Ended, Publishing
<1>3. /\ VarTypes /\ Fits(j)
      /\ alone[p] => ~doomed /\ Knows(j, tree, active, recorded, pointer)
      /\ active' \in Names \cup {None} /\ pointer' \in Names \cup {None}
      /\ doomed' \in BOOLEAN /\ faults' \in 0 .. MaxFaults
  BY <1>1, <1>2, Before
<1>4. j.cmd = "remove" /\ WithoutBackup(j)
  BY <1>1, <1>2, <1>3 DEF Fits, WithoutBackup
<1>5. CASE DOMAIN j.recs = {}
  <2>1. recorded' = NoFile /\ Go(p, "forget")
    BY <1>5 DEF Erase
  <2>2. "forget" \in Places \ Ended /\ "forget" \notin Publishing
    BY PlacesFacts DEF Publishing
  <2>3. recorded' \in Record /\ DOMAIN recorded' = {None}
    BY <2>1, NoFileIsRecord
  <2>4. ASSUME NEW k \in Job, Goes(j, k, "forget")
        PROVE  /\ Fits(k) /\ (WithoutBackup(k) => WithoutBackup(j))
               /\ alone[p] => ~doomed' /\ Knows(k, tree, active', recorded', pointer')
    <3>1. k.at = "forget" /\ k.cmd = "remove" /\ k.ver = j.ver /\ k.want = j.want /\ k.had = j.had
      BY <1>4, <2>2, <2>4 DEF Goes
    <3>2. Fits(k)
      BY <1>3, <1>4, <3>1 DEF Fits
    <3>3. alone[p] => Knows(k, tree, active', recorded', pointer')
      BY <1>1, <1>3, <1>4, <2>3, <3>1 DEF Knows
    <3>. QED  BY <1>1, <1>3, <1>4, <3>2, <3>3
  <2>. QED  BY <1>1, <1>2, <1>3, <2>1, <2>2, <2>3, <2>4, GoStep
<1>6. CASE DOMAIN j.recs # {}
  <2>1. recorded' = j.recs /\ Go(p, "done")
    BY <1>6 DEF Erase
  <2>2. recorded' \in Record
    BY <2>1 DEF Job
  <2>3. ASSUME alone[p]  PROVE  EndsRight(p)
    <3>1. j.ver \notin DOMAIN recorded'
      BY <1>1, <1>3, <2>1, <2>3 DEF Knows
    <3>. QED  BY <1>1, <1>4, <2>3, <3>1, RemovedRight
  <2>. QED  BY <1>1, <1>2, <1>3, <2>1, <2>2, <2>3, EndStep
<1>. QED  BY <1>5, <1>6

LEMMA ForgetStep ==
  ASSUME IInv, NEW p \in Procs, Forget(p)
  PROVE  Advances(p)
<1> PICK j \in Job : j = job[p]
  BY Here
<1>1. /\ j.at = "forget" /\ active' = None /\ Go(p, "done")
      /\ UNCHANGED <<tree, recorded, pointer, doomed, lock, faults, owed, alone>>
  BY DEF Forget, At
<1>2. j.at \notin Ended /\ j.at \notin Publishing
  BY <1>1 DEF Ended, Publishing
<1>3. /\ VarTypes /\ Fits(j)
      /\ alone[p] => ~doomed /\ Knows(j, tree, active, recorded, pointer)
      /\ active' \in Names \cup {None} /\ pointer' \in Names \cup {None} /\ recorded' \in Record
      /\ doomed' \in BOOLEAN /\ faults' \in 0 .. MaxFaults
  BY <1>1, <1>2, Before
<1>4. j.cmd = "remove" /\ j.ver \in Names
  BY <1>1, <1>3 DEF Fits
<1>5. ASSUME alone[p]  PROVE  EndsRight(p)
  <2>1. j.ver \notin DOMAIN recorded'
    BY <1>1, <1>3, <1>4, <1>5, NamesApart DEF Knows
  <2>. QED  BY <1>1, <1>4, <1>5, <2>1, RemovedRight
<1>. QED  BY <1>1, <1>2, <1>3, <1>5, EndStep

LEMMA DieStep ==
  ASSUME IInv, NEW p \in Procs, Die(p)
  PROVE  Advances(p)
<1> PICK j \in Job : j = job[p]
  BY Here
<1>1. /\ j.at \notin Ended /\ Fault /\ Go(p, "failed")
      /\ lock' = [v \in Versions |-> IF lock[v] = p THEN None ELSE lock[v]]
      /\ UNCHANGED <<tree, active, recorded, pointer, doomed, owed, alone>>
  BY DEF Die, Busy, disk
<1>2. /\ VarTypes /\ Fits(j) /\ job \in [Procs -> Job] /\ Safe(tree, owed, lock, job)
  BY <1>1, Before
<1>3. "failed" \in Places /\ "failed" \in Ended
  BY DEF Places, Ended
<1>4. /\ job' \in [Procs -> Job] /\ \A q \in Procs \ {p} : job'[q] = job[q]
      /\ Goes(j, job'[p], "failed")
  BY <1>1, <1>2, <1>3, GoFacts
<1> PICK k \in Job : k = job'[p]
  BY <1>4
<1>5. k.at = "failed" /\ k.cmd = "list" /\ k.ver = IF j.cmd = "install" THEN j.ver ELSE None
  BY <1>3, <1>4 DEF Goes
<1>6. Fits(k) /\ k.at \notin Publishing /\ ~WithoutBackup(k) /\ k.at # "done" /\ k.at \in Ended
  BY <1>5 DEF Fits, Publishing, WithoutBackup, Ended
<1>7. k.ver = j.ver \/ WithoutBackup(j)
  BY <1>1, <1>5 DEF WithoutBackup
<1>8. owed \in SUBSET Versions /\ lock \in [Versions -> Procs \cup {None}]
  BY <1>2 DEF VarTypes
<1>9. /\ lock' \in [Versions -> Procs \cup {None}]
      /\ \A v \in Versions : lock'[v] = IF lock[v] = p THEN None ELSE lock[v]
  BY <1>1, <1>8
<1>10. VarTypes'
  <2>1. faults' \in 0 .. MaxFaults
    BY <1>1, <1>2, FaultCounts DEF VarTypes
  <2>. QED  BY <1>1, <1>2, <1>4, <1>9, <2>1 DEF VarTypes
<1>11. Safe(tree, owed, lock', job')
  <2> PICK lk2, jb2 : lk2 = lock' /\ jb2 = job'
    OBVIOUS
  <2>1. /\ lk2 \in [Versions -> Procs \cup {None}]
        /\ \A v \in Versions : lk2[v] = IF lock[v] = p THEN None ELSE lock[v]
    BY <1>9
  <2>2. /\ Fits(jb2[p]) /\ jb2[p].at \notin Publishing /\ ~WithoutBackup(jb2[p])
        /\ jb2[p].ver = job[p].ver \/ WithoutBackup(job[p])
        /\ \A q \in Procs \ {p} : jb2[q] = job[q]
    BY <1>4, <1>6, <1>7
  <2>3. Safe(tree, owed, lock, job)
    BY <1>2
  <2>4. (\A v \in Versions : tree[v] = tree[v]) /\ (\A q \in Procs : tree[Backup(q)] = tree[Backup(q)])
    OBVIOUS
  <2>5. Safe(tree, owed, lk2, jb2)
    BY ONLY <1>8, <2>1, <2>2, <2>3, <2>4, MoveSafe
  <2>. QED  BY <2>5
<1>. QED  BY <1>1, <1>4, <1>6, <1>10, <1>11 DEF Advances, Busy

-----------------------------------------------------------------------------
(* The invariance proof.                                                   *)

\* A step of a busy command disturbs nobody who runs alone.
LEMMA AdvancesKeeps ==
  ASSUME IInv, NEW p \in Procs, Advances(p)
  PROVE  IInv'
<1>1. Busy(p) /\ alone' = alone /\ \A q \in Procs \ {p} : job'[q] = job[q]
  BY DEF Advances
<1>2. ASSUME NEW q \in Procs, alone'[q], Busy(q)'
      PROVE  /\ ~doomed'
             /\ \A r \in Procs \ {q} : ~(Busy(r)')
             /\ Knows(job'[q], tree', active', recorded', pointer')
  <2>1. q = p
    <3>1. q # p => Busy(q)
      BY <1>1, <1>2 DEF Busy
    <3>. QED  BY <1>1, <1>2, <3>1 DEF IInv, Undisturbed
  <2>2. \A r \in Procs \ {p} : ~Busy(r)
    BY <1>1, <1>2, <2>1 DEF IInv, Undisturbed
  <2>3. \A r \in Procs \ {p} : ~(Busy(r)')
    BY <1>1, <2>2 DEF Busy
  <2>4. job'[p].at \notin Ended /\ alone[p]
    BY <1>1, <1>2, <2>1 DEF Busy
  <2>. QED  BY <2>1, <2>3, <2>4 DEF Advances
<1>3. Undisturbed'
  BY <1>2 DEF Undisturbed
<1>4. VarTypes' /\ Safe(tree', owed', lock', job')
  BY DEF Advances
<1>. QED  BY <1>3, <1>4 DEF IInv

LEMMA BeginStep ==
  ASSUME IInv, NEW p \in Procs, Begin(p)
  PROVE  IInv' /\ job'[p].at \notin Ended /\ \A q \in Procs \ {p} : job'[q] = job[q]
<1> PICK j \in Job : j = job[p]
  BY Here
<1>1. /\ j.at = "idle"
      /\ UNCHANGED <<tree, active, recorded, pointer, doomed, lock, faults, owed>>
      /\ alone' = [q \in Procs |-> q = p /\ ~doomed /\ \A r \in Procs : ~Busy(r)]
  BY DEF Begin, At, disk
<1>2. VarTypes /\ job \in [Procs -> Job] /\ Safe(tree, owed, lock, job)
  BY Here DEF VarTypes
<1>3. PICK cmd \in Commands, v \in Names \cup {None} :
        /\ cmd \in {"use", "remove"} => v \in Scanned
        /\ cmd = "install" => v \in Versions
        /\ job' = [job EXCEPT ![p] = Fresh(cmd, v, CASE cmd = "use" -> "ensure"
                                                     [] cmd = "remove" -> "count"
                                                     [] OTHER -> "scan")]
  BY DEF Begin
<1> PICK w : w = CASE cmd = "use" -> "ensure" [] cmd = "remove" -> "count" [] OTHER -> "scan"
  OBVIOUS
<1>4. /\ w = "ensure" => cmd = "use"
      /\ w = "count" <=> cmd = "remove"
      /\ w \in {"ensure", "count", "scan"}
      /\ w = "scan" => cmd \in {"list", "install"}
  BY DEF Commands
<1>5. w \in Places \ Ended /\ w \notin Publishing
  BY <1>4, PlacesFacts DEF Publishing
<1> PICK k : k = Fresh(cmd, v, w)
  OBVIOUS
<1>6. k \in Job /\ k.cmd = cmd /\ k.ver = v /\ k.at = w
  BY <1>5, FreshIsJob
<1>7. job' \in [Procs -> Job] /\ job'[p] = k /\ \A q \in Procs \ {p} : job'[q] = job[q]
  <2>1. job' = [job EXCEPT ![p] = k]
    BY <1>3
  <2>. QED  BY <1>2, <1>6, <2>1, JobSet
<1>8. Fits(k)
  <2>1. cmd \in {"use", "remove"} => v \in Names
    BY <1>3 DEF Scanned
  <2>. QED  BY <1>3, <1>4, <1>6, <2>1 DEF Fits
<1>9. Knows(k, tree, active, recorded, pointer)
  <2>1. cmd = "remove" => Whole(tree, v)
    BY <1>3 DEF Scanned, Whole
  <2>. QED  BY <1>4, <1>6, <2>1 DEF Knows
<1>10. VarTypes'
  <2>1. alone' \in [Procs -> BOOLEAN]
    BY <1>1
  <2>. QED  BY <1>1, <1>2, <1>7, <2>1 DEF VarTypes
<1>11. Safe(tree, owed, lock, job')
  <2> PICK jb2 : jb2 = job'
    OBVIOUS
  <2>1. /\ Fits(jb2[p]) /\ jb2[p].at \notin Publishing /\ WithoutBackup(job[p])
        /\ \A q \in Procs \ {p} : jb2[q] = job[q]
    BY <1>1, <1>5, <1>6, <1>7, <1>8 DEF WithoutBackup
  <2>2. owed \in SUBSET Versions /\ lock \in [Versions -> Procs \cup {None}]
    BY <1>2 DEF VarTypes
  <2>3. \A u \in Versions : lock[u] = IF lock[u] = p THEN None ELSE lock[u]
    BY <1>1, <1>2, NamesApart DEF Safe, Publishing
  <2>4. (\A u \in Versions : tree[u] = tree[u]) /\ (\A q \in Procs : tree[Backup(q)] = tree[Backup(q)])
    OBVIOUS
  <2>5. Safe(tree, owed, lock, job)
    BY <1>2
  <2>6. Safe(tree, owed, lock, jb2)
    BY ONLY <2>1, <2>2, <2>3, <2>4, <2>5, MoveSafe
  <2>. QED  BY <2>6
<1>12. Undisturbed'
  <2>1. ASSUME NEW q \in Procs, alone'[q]
        PROVE  q = p /\ ~doomed /\ \A r \in Procs : ~Busy(r)
    BY <1>1, <2>1
  <2>2. ASSUME NEW q \in Procs, alone'[q]
        PROVE  \A r \in Procs \ {q} : ~(Busy(r)')
    BY <1>7, <2>1, <2>2 DEF Busy
  <2>. QED  BY <1>1, <1>7, <1>9, <2>1, <2>2 DEF Undisturbed
<1>. QED  BY <1>1, <1>5, <1>6, <1>7, <1>10, <1>11, <1>12 DEF IInv

LEMMA WipeStep ==
  ASSUME IInv, Wipe
  PROVE  IInv' /\ job' = job
<1>1. /\ doomed' = FALSE /\ tree' = [n \in Names |-> "none"]
      /\ active' = None /\ pointer' = None /\ recorded' = NoFile /\ owed' = {}
      /\ alone' = [p \in Procs |-> FALSE]
      /\ UNCHANGED <<lock, job, faults>>
  BY DEF Wipe
<1>2. VarTypes /\ Safe(tree, owed, lock, job)
  BY DEF IInv
<1>3. VarTypes'
  BY <1>1, <1>2, NoFileIsRecord DEF VarTypes
<1>4. \A q \in Procs : tree'[Backup(q)] = "none"
  BY <1>1, NamesApart
<1>5. Safe(tree', {}, lock, job)
  <2> PICK tr2 : tr2 = tree'
    OBVIOUS
  <2>1. \A q \in Procs : tr2[Backup(q)] = "none"
    BY <1>4
  <2>2. Safe(tr2, {}, lock, job)
    BY <1>2, <2>1 DEF Safe
  <2>. QED  BY <2>2
<1>6. Undisturbed'
  BY <1>1 DEF Undisturbed
<1>. QED  BY <1>1, <1>3, <1>5, <1>6 DEF IInv

\* What a step is.
LEMMA StepKinds ==
  ASSUME IInv, Next
  PROVE  \/ \E p \in Procs : Begin(p) \/ Advances(p)
         \/ Wipe
<1>1. CASE Wipe
  BY <1>1
<1>2. CASE \E p \in Procs : Begin(p) \/ Repair(p) \/ Ensure(p) \/ Install(p) \/ Remove(p) \/ Die(p)
  <2>1. PICK p \in Procs : Begin(p) \/ Repair(p) \/ Ensure(p) \/ Install(p) \/ Remove(p) \/ Die(p)
    BY <1>2
  <2>2. CASE Repair(p)
    BY <2>2, ScanStep, ReadMetadataStep, WriteActiveStep, WriteRecordedStep, UnlinkStep, LinkStep
       DEF Repair
  <2>3. CASE Install(p)
    BY <2>3, CheckStep, ExtractStep, AcquireLockStep, RetainStep, PublishStep, PublishFailsStep,
       TidyStep, RegisterStep, ReadRecordedStep, EnterRecordStep DEF Install
  <2>4. CASE Remove(p)
    BY <2>4, CountStep, DecideStep, DeleteStep, StrikeStep, EraseStep, ForgetStep DEF Remove
  <2>5. CASE Ensure(p) \/ Die(p)
    BY <2>5, EnsureStep, DieStep
  <2>. QED  BY <2>1, <2>2, <2>3, <2>4, <2>5
<1>. QED  BY <1>1, <1>2 DEF Next

LEMMA Stutters ==
  ASSUME IInv, UNCHANGED vars
  PROVE  IInv'
BY DEF IInv, VarTypes, Safe, Undisturbed, Busy, vars, disk

LEMMA InitHolds == Init => IInv
<1> SUFFICES ASSUME Init  PROVE IInv
  OBVIOUS
<1>1. PICK S \in SUBSET Versions :
        /\ tree = [n \in Names |-> IF n \in S THEN "whole" ELSE "none"]
        /\ active \in IF S = {} THEN {None} ELSE S
        /\ recorded = IF S = {} THEN NoFile ELSE [v \in S |-> TRUE]
        /\ owed = S
  BY DEF Init
<1>2. /\ pointer = active /\ lock = [v \in Versions |-> None] /\ doomed = FALSE
      /\ job = [p \in Procs |-> Fresh("list", None, "idle")]
      /\ faults = 0 /\ alone = [p \in Procs |-> FALSE]
  BY DEF Init
<1>3. recorded \in Record
  <2>1. S \in SUBSET (Names \cup {None}) /\ [v \in S |-> TRUE] \in [S -> BOOLEAN]
    BY NamesApart
  <2>2. [v \in S |-> TRUE] \in Record
    BY <2>1, RecordIntro
  <2>. QED  BY <1>1, <2>2, NoFileIsRecord
<1> PICK k : k = Fresh("list", None, "idle")
  OBVIOUS
<1>4. k \in Job /\ k.cmd = "list" /\ k.ver = None /\ k.at = "idle"
  <2>1. "list" \in Commands /\ "idle" \in Places /\ None \in Names \cup {None}
    BY DEF Commands, Places
  <2>. QED  BY <2>1, FreshIsJob
<1>5. \A p \in Procs : job[p] = k
  BY <1>2
<1>6. VarTypes
  <2>1. S \subseteq Names /\ active \in Names \cup {None}
    BY <1>1, NamesApart
  <2>2. tree \in [Names -> {"none", "husk", "whole"}] /\ owed \subseteq Versions
    BY <1>1
  <2>3. job \in [Procs -> Job]
    BY <1>2, <1>4
  <2>4. faults \in 0 .. MaxFaults
    BY <1>2
  <2>. QED  BY <1>2, <1>3, <2>1, <2>2, <2>3, <2>4 DEF VarTypes
<1>7. Safe(tree, owed, lock, job)
  <2>1. Fits(k) /\ k.at \notin Publishing
    BY <1>4 DEF Fits, Publishing
  <2>2. \A p \in Procs : tree[Backup(p)] = "none"
    BY <1>1, NamesApart
  <2>3. \A v \in owed : tree[v] = "whole"
    BY <1>1, NamesApart
  <2>4. \A v \in Versions : lock[v] = None
    BY <1>2
  <2>. QED  BY <1>4, <1>5, <2>1, <2>2, <2>3, <2>4 DEF Safe
<1>8. Undisturbed
  BY <1>2 DEF Undisturbed
<1>. QED  BY <1>6, <1>7, <1>8 DEF IInv

LEMMA NextKeeps == IInv /\ [Next]_vars => IInv'
<1> SUFFICES ASSUME IInv, [Next]_vars  PROVE IInv'
  OBVIOUS
<1>1. CASE UNCHANGED vars
  BY <1>1, Stutters
<1>2. CASE Next
  BY <1>2, StepKinds, AdvancesKeeps, BeginStep, WipeStep
<1>. QED  BY <1>1, <1>2

\* The inductive invariant.
THEOREM Invariance == Spec => []IInv
BY InitHolds, NextKeeps, PTL DEF Spec

-----------------------------------------------------------------------------
(* The properties.                                                         *)

LEMMA TypesHold == IInv => TypeOK
<1> SUFFICES ASSUME IInv  PROVE TypeOK
  OBVIOUS
<1>1. VarTypes /\ Safe(tree, owed, lock, job)
  BY DEF IInv
<1>2. IsRecord(recorded)
  BY <1>1, RecordFacts DEF VarTypes
<1>3. ASSUME NEW p \in Procs
      PROVE  /\ job[p].cmd \in Commands /\ job[p].at \in Places
             /\ job[p].ver \in Names \cup {None} /\ job[p].want \in Names \cup {None}
             /\ job[p].seen \subseteq Names /\ job[p].had \in 0 .. Cardinality(Names)
             /\ IsRecord(job[p].recs)
  <2>1. job[p] \in Job
    BY <1>1 DEF VarTypes
  <2>2. job[p].recs \in Record
    BY <2>1 DEF Job
  <2>. QED  BY <2>1, <2>2, RecordFacts DEF Job
<1>4. \A v \in Versions : lock[v] # None =>
        job[lock[v]].ver = v /\ job[lock[v]].at \in {"retain", "publish", "tidy"}
  BY <1>1 DEF Safe, Publishing
<1>. QED  BY <1>1, <1>2, <1>3, <1>4 DEF TypeOK, VarTypes

\* Whatever fails or dies, and in whatever order any number of commands take their
\* steps, a release that was installed and not removed is in its place or in the
\* backup of a refresh, and a release is locked by whoever publishes it and by
\* nobody else.  (materialize_release_root, ReleasePublicationLock)
THEOREM ReleasesAreSafe == Spec => []Consistent
<1>1. IInv => Consistent
  <2>1. IInv => ReleasesSurvive
    BY DEF IInv, Safe, ReleasesSurvive
  <2>. QED  BY <2>1, TypesHold DEF Consistent
<1>. QED  BY <1>1, Invariance, PTL

\* A command that ends well, and alone, has done what it should.
LEMMA EndsAreRight ==
  ASSUME IInv, [Next]_vars, NEW p \in Procs, EndsWell(p)
  PROVE  EndsRight(p)
<1>1. job'[p].at = "done" /\ job[p].at # "done" /\ alone[p]
  BY DEF EndsWell, At
<1>2. job'[p] # job[p]
  BY <1>1
<1>3. Next
  BY <1>2 DEF vars
<1>4. ~Wipe
  BY <1>2, WipeStep
<1>5. PICK q \in Procs : Begin(q) \/ Advances(q)
  BY <1>3, <1>4, StepKinds
<1>6. CASE Begin(q)
  <2>1. q = p => job'[p].at \notin Ended
    BY <1>6, BeginStep
  <2>2. q # p => job'[p] = job[p]
    BY <1>6, BeginStep
  <2>. QED  BY <1>1, <1>2, <2>1, <2>2 DEF Ended
<1>7. CASE Advances(q)
  <2>1. q = p
    BY <1>2, <1>7 DEF Advances
  <2>. QED  BY <1>1, <1>7, <2>1 DEF Advances
<1>. QED  BY <1>5, <1>6, <1>7

\* After a list, a use or a first installation that succeeds undisturbed,
\* active-version.json and the pointer agree on a version that is there, the one
\* asked for; after any installation the release is whole and recorded, whatever
\* earlier commands left behind.  (load_or_repair_metadata, set_active_version,
\* register_install)
THEOREM CommandsAlwaysRepair == Spec => CommandsRepair
<1>1. IInv /\ [Next]_vars =>
        \A p \in Procs :
          EndsWell(p) /\ (job[p].cmd \in {"list", "use"} \/ (job[p].cmd = "install" /\ job[p].had <= 1)) =>
            /\ Scanned' # {} => active' = pointer' /\ active' \in Scanned'
            /\ job[p].cmd # "list" => active' = job[p].ver
  BY EndsAreRight DEF EndsRight
<1>2. IInv /\ [Next]_vars =>
        \A p \in Procs :
          EndsWell(p) /\ job[p].cmd = "install" =>
            /\ tree'[job[p].ver] = "whole"
            /\ job[p].ver \in DOMAIN recorded' /\ recorded'[job[p].ver]
  BY EndsAreRight DEF EndsRight
<1>3. Spec => ActiveAgrees
  BY <1>1, Invariance, PTL DEF Spec, ActiveAgrees
<1>4. Spec => InstallIsRecorded
  BY <1>2, Invariance, PTL DEF Spec, InstallIsRecorded
<1>. QED  BY <1>3, <1>4, PTL DEF CommandsRepair

\* A removal that succeeds undisturbed leaves neither the version nor its record,
\* and a pointer to another version that is there, which active-version.json names
\* too if it is there.  (run_remove, remove_install_record)
THEOREM RemovalsAreSafe == Spec => RemovalIsSafe
<1>1. IInv /\ [Next]_vars =>
        \A p \in Procs :
          EndsWell(p) /\ job[p].cmd = "remove" /\ ~doomed' =>
            /\ tree'[job[p].ver] = "none" /\ job[p].ver \notin DOMAIN recorded'
            /\ pointer' \in Scanned' /\ active' \in {pointer', None}
  BY EndsAreRight DEF EndsRight
<1>. QED  BY <1>1, Invariance, PTL DEF Spec, RemovalIsSafe

=============================================================================
