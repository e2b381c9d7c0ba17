---------------------------- MODULE PackageStore ----------------------------
(***************************************************************************)
(* What a project's package directory promises to whoever imports from it. *)
(* An import reads the lock and opens the one tree the lock names, so the  *)
(* lock is the published index of an otherwise unordered pile of trees:    *)
(* trees come and go behind it, it is replaced in one step, and it never   *)
(* names a tree whose verified contents are not on disk.                   *)
(***************************************************************************)
EXTENDS Naturals

CONSTANTS Pkg,  \* package names
          Ver   \* version numbers

VARIABLES index,  \* the published choice: a function from packages to versions
          trees   \* the trees <<package, version>> held verified somewhere on disk

svars == <<index, trees>>

\* The trees an index names.
Named(l) == {<<n, l[n]>> : n \in DOMAIN l}

Init == index = [n \in {} |-> n] /\ trees = {}

\* A verified tree appears.
Fetch(t) == trees' = trees \cup {t} /\ UNCHANGED index

\* A tree nothing names is thrown away.
Discard(t) == t \notin Named(index) /\ trees' = trees \ {t} /\ UNCHANGED index

\* A new index replaces the old one, and everything it names is there already.
Publish(l) == Named(l) \subseteq trees /\ index' = l /\ UNCHANGED trees

Next ==
    \/ \E t \in Pkg \X Ver : Fetch(t) \/ Discard(t)
    \/ \E S \in SUBSET Pkg : \E l \in [S -> Ver] : Publish(l)

Spec == Init /\ [][Next]_svars
=============================================================================
