------------------------------- MODULE Resolver -------------------------------
(***************************************************************************)
(* The package resolver of `fidan dal` (fidan-cli/src/dal/resolver.rs):    *)
(* depth-first search over versions, deciding one package at a time, the   *)
(* first in the order of names that something requires.  Every branch      *)
(* computes the requirements anew from the roots, to a fixed point, since  *)
(* features of a package may be asked for after it was first expanded.     *)
(*                                                                         *)
(* Packages and versions are numbers in their order.  A requirement is the *)
(* set of versions it matches, together with the features it asks for.     *)
(***************************************************************************)
EXTENDS Naturals, FiniteSets, SequencesExt

CONSTANTS
  Package, Version, Feature,
  Registries,     \* what the registry may hold
  Roots,          \* what the project may require
  Locks,          \* what dal.lock may hold
  MaxDecisions    \* the resolver's own bound (10 000 in the code)

Requirement == [req : SUBSET Version, features : SUBSET Feature]
Partial(D, R) == UNION {[S -> R] : S \in SUBSET D}
Dependencies == Partial(Package, Requirement)

\* A version of a package: its dependencies, the optional ones, the features it defines,
\* each with the optional dependencies and the features it brings in, and whether it may
\* be chosen.  The manifest of an archive is validated before it is used.
Release ==
  {r \in [base : Dependencies,
          optional : Dependencies,
          brings : Partial(Feature, [names : SUBSET Package, features : SUBSET Feature]),
          usable : BOOLEAN,     \* the compiler satisfies its requirement
          yanked : BOOLEAN] :
     \A f \in DOMAIN r.brings : /\ r.brings[f].names \subseteq DOMAIN r.optional
                               /\ r.brings[f].features \subseteq DOMAIN r.brings}

\* A package of dal.lock; its checksum may be that of the registry or not, or missing.
LockedPackage == [version : Version, checksum : {"same", "other", "missing"}]

ASSUME NumbersAssumption ==
  /\ Package \subseteq Nat
  /\ Version \subseteq Nat /\ IsFiniteSet(Version)
  /\ MaxDecisions \in Nat \ {0}

ASSUME ProblemAssumption ==
  /\ Registries \subseteq [Package \X Version -> Release]
  /\ Roots \subseteq Dependencies
  /\ Locks \subseteq Partial(Package, LockedPackage)

VARIABLES
  registry,   \* <<package, version>> -> its release
  roots,      \* the requirements of the project
  locked,     \* package -> its version in dal.lock, and how its checksum compares
  selected,   \* package -> version: the branch that is explored
  demands,    \* package -> the requirements found for it
  expanded,   \* package -> the features it was expanded with
  untried,    \* the decisions above the branch, with the versions left to try
  decisions,  \* how many branches were begun
  phase,      \* "expand", "choose", "try", or "end"
  answer      \* "open"; at the end "graph", "none" or "error"

problem == <<registry, roots, locked>>
branch == <<selected, demands, expanded>>
vars == <<problem, branch, untried, decisions, phase, answer>>

-----------------------------------------------------------------------------
\* The features that these bring in, which are in every set that has them and what its
\* members bring in.  (enable_manifest_feature)
Enabled(r, F) ==
  {f \in Feature :
     \A S \in SUBSET Feature :
       F \subseteq S /\ (\A g \in S \cap DOMAIN r.brings : r.brings[g].features \subseteq S) => f \in S}

\* They are all defined, and none brings in itself.
CanEnable(r, F) ==
  LET E == Enabled(r, F) IN
  /\ E \subseteq DOMAIN r.brings
  /\ \A f \in E : f \notin Enabled(r, r.brings[f].features)

\* The optional dependencies that these features bring in.
Optional(r, F) == UNION {r.brings[f].names : f \in Enabled(r, F) \cap DOMAIN r.brings}

\* resolve_manifest_dependencies.  What a feature brings in replaces what the manifest
\* may list for the same package without it.
Needs(r, F) ==
  [n \in DOMAIN r.base \cup Optional(r, F) |->
     IF n \in Optional(r, F) THEN r.optional[n] ELSE r.base[n]]

Asked(specs) == UNION {s.features : s \in specs}

\* The release of n that g chooses.
ReleaseIn(g, n) == registry[n, g[n]]
Chosen(n) == ReleaseIn(selected, n)

FromRoots == [n \in Package |-> IF n \in DOMAIN roots THEN {roots[n]} ELSE {}]

\* Mutant: what was required stays.
RestartWithDemands(chosen) ==
  /\ selected' = chosen
  /\ expanded' = [n \in {} |-> {}]
  /\ UNCHANGED demands

\* A branch begins with the requirements of the roots alone.
Restart(chosen) ==
  /\ selected' = chosen
  /\ demands' = FromRoots
  /\ expanded' = [n \in {} |-> {}]

Init ==
  /\ registry \in Registries /\ roots \in Roots /\ locked \in Locks
  /\ selected = [n \in {} |-> 0] /\ demands = FromRoots /\ expanded = [n \in {} |-> {}]
  /\ untried = <<>> /\ decisions = 1
  /\ phase = "expand" /\ answer = "open"

\* The packages a pass looks at: selected, and required.
Live == {n \in DOMAIN selected : demands[n] # {}}

Conflict ==
  \E n \in Live :
    \/ \E s \in demands[n] : selected[n] \notin s.req
    \/ ~CanEnable(Chosen(n), Asked(demands[n]))

\* Mutant: a package is expanded in every pass.
Again == Live

Outdated ==
  {n \in Live : n \notin DOMAIN expanded \/ expanded[n] # Asked(demands[n])}

\* What the outdated ones require of n.
Added(n) ==
  {Needs(Chosen(m), Asked(demands[m]))[n] :
     m \in {k \in Outdated : n \in DOMAIN Needs(Chosen(k), Asked(demands[k]))}}

\* One pass over a copy of the requirements.
Pass ==
  /\ phase = "expand"
  /\ IF Conflict
     THEN phase' = "try" /\ UNCHANGED <<demands, expanded>>
     ELSE /\ phase' = IF Outdated = {} THEN "choose" ELSE "expand"
          /\ demands' = [n \in Package |-> demands[n] \cup Added(n)]
          /\ expanded' = [n \in DOMAIN expanded \cup Outdated |->
                            IF n \in Outdated THEN Asked(demands[n]) ELSE expanded[n]]
  /\ UNCHANGED <<problem, selected, untried, decisions, answer>>

-----------------------------------------------------------------------------
Undecided == {n \in Package : demands[n] # {}} \ DOMAIN selected

\* The packages that were expanded make the graph.
Graph == [n \in DOMAIN expanded |-> selected[n]]

\* The dependencies as they are written to the lock file.
Uses(n) == DOMAIN Needs(Chosen(n), expanded[n])

\* normalize_lock refuses a circle: in every set of packages there is one that no other
\* of them uses, nor itself.
Acyclic ==
  \A S \in SUBSET DOMAIN expanded : S # {} => \E n \in S : \A m \in S : n \notin Uses(m)

Found ==
  /\ phase = "choose" /\ Undecided = {}
  /\ IF Acyclic THEN phase' = "end" /\ answer' = "graph"
                ELSE phase' = "try" /\ UNCHANGED answer
  /\ UNCHANGED <<problem, branch, untried, decisions>>

IsLocked(n, v) == n \in DOMAIN locked /\ locked[n].version = v
Checksum(n, v) == IsLocked(n, v) /\ locked[n].checksum = "same"
Changed(n, v) == IsLocked(n, v) /\ locked[n].checksum = "other"

Allowed(n, v) ==
  /\ ~registry[n, v].yanked \/ Checksum(n, v)
  /\ registry[n, v].usable

\* Mutant: the newest version first, whatever is locked.
Newest(n, v, w) == v > w

\* The locked version first, then the newest.
Before(n, v, w) == IsLocked(n, v) \/ (~IsLocked(n, w) /\ v > w)

Able(n) == {v \in Version : Allowed(n, v) /\ \A s \in demands[n] : v \in s.req}

\* The first package that is required and not decided.  A locked version whose
\* checksum is another than the registry's ends the search, and so does an index that
\* cannot be had.
Choose ==
  /\ phase = "choose" /\ Undecided # {}
  /\ LET n == Min(Undecided) IN
     \/ phase' = "end" /\ answer' = "error" /\ UNCHANGED untried
     \/ /\ \A v \in Version : ~Changed(n, v)
        /\ phase' = "try"
        /\ untried' = Append(untried, [name |-> n, left |-> Able(n), above |-> selected])
        /\ UNCHANGED answer
  /\ UNCHANGED <<problem, branch, decisions>>

\* The version to be tried first.
First(n, S) == CHOOSE v \in S : \A w \in S \ {v} : Before(n, v, w)

\* Mutant: the best version or none.
GivesUp(d) == {}

\* The versions that are tried after it.
Rest(d) == d.left \ {First(d.name, d.left)}

\* The branch of the next version of the last decision, or, if none is left, of the
\* one before.  The archive may not be had, not be what it should, or be too much to
\* keep, and the branch may have more packages than a lock file.
Try ==
  /\ phase = "try"
  /\ IF untried = <<>>
     THEN phase' = "end" /\ answer' = "none" /\ UNCHANGED <<branch, untried, decisions>>
     ELSE LET d == Last(untried) IN
       IF d.left = {}
       THEN untried' = Front(untried) /\ UNCHANGED <<branch, decisions, phase, answer>>
       ELSE \/ phase' = "end" /\ answer' = "error" /\ UNCHANGED <<branch, untried, decisions>>
            \/ /\ decisions < MaxDecisions
               /\ decisions' = decisions + 1
               /\ untried' = Append(Front(untried), [d EXCEPT !.left = Rest(d)])
               /\ Restart([n \in DOMAIN d.above \cup {d.name} |->
                             IF n = d.name THEN First(n, d.left) ELSE d.above[n]])
               /\ phase' = "expand"
               /\ UNCHANGED answer
  /\ UNCHANGED problem

Next == Pass \/ Found \/ Choose \/ Try

Spec == Init /\ [][Next]_vars
FairSpec == Spec /\ WF_vars(Next)

-----------------------------------------------------------------------------
(* Properties.                                                             *)

\* Every variable has its type, and requirements are kept of what is decided only:
\* each comes from the roots or from a release of this branch, though perhaps from the
\* line that one of its features replaces.  (search)
TypeOK ==
  /\ DOMAIN selected \subseteq Package /\ \A n \in DOMAIN selected : selected[n] \in Version
  /\ demands \in [Package -> SUBSET Requirement]
  /\ DOMAIN expanded \subseteq DOMAIN selected
  /\ untried \in Seq([name : Package, left : SUBSET Version, above : Partial(Package, Version)])
  /\ decisions \in 1 .. MaxDecisions
  /\ phase \in {"expand", "choose", "try", "end"}
  /\ answer \in {"open", "graph", "none", "error"}
  /\ \A n \in Package : \A s \in demands[n] :
       \/ n \in DOMAIN roots /\ s = roots[n]
       \/ \E m \in DOMAIN expanded :
            /\ n \in DOMAIN Needs(Chosen(m), expanded[m])
            /\ \/ s = Needs(Chosen(m), expanded[m])[n]
               \/ n \in DOMAIN Chosen(m).base /\ s = Chosen(m).base[n]

\* What the roots and the members of g, with these features, require of n.
Asks(g, F, n) ==
  {Needs(ReleaseIn(g, m), F[m])[n] :
     m \in {k \in DOMAIN g : n \in DOMAIN Needs(ReleaseIn(g, k), F[k])}}
  \cup (IF n \in DOMAIN roots THEN {roots[n]} ELSE {})

\* g with these features answers the problem: every requirement of the roots and of
\* every member is met, the features are just those that are asked for, nobody
\* depends on himself, and all is there for a reason.
Answers(g, F) ==
  /\ DOMAIN roots \subseteq DOMAIN g
  /\ \A n \in DOMAIN g :
       /\ Allowed(n, g[n])
       /\ Asks(g, F, n) # {} /\ F[n] = Asked(Asks(g, F, n))
       /\ \A s \in Asks(g, F, n) : g[n] \in s.req
       /\ CanEnable(ReleaseIn(g, n), F[n])
       /\ DOMAIN Needs(ReleaseIn(g, n), F[n]) \subseteq DOMAIN g
  /\ \A S \in SUBSET DOMAIN g :
       S # {} => \E n \in S : \A m \in S : n \notin DOMAIN Needs(ReleaseIn(g, m), F[m])

Solves(g) == \E F \in [DOMAIN g -> SUBSET Feature] : Answers(g, F)

\* Nothing of g lists a package both as a dependency and as an optional one: what a
\* release requires of another then never changes when features are added to it.
Regular(g) ==
  \A n \in DOMAIN g : DOMAIN ReleaseIn(g, n).base \cap DOMAIN ReleaseIn(g, n).optional = {}

\* The graph that is returned answers the problem.  (resolve_all)
GraphSolves == answer = "graph" /\ Regular(Graph) => Solves(Graph)

\* Every branch is built on its own requirements only, and so is the graph returned.
BranchIsSound == TypeOK /\ GraphSolves

\* "No compatible package graph" is said only if there is none.  (resolve_all)
NoneIsNone ==
  answer = "none" => ~\E g \in Partial(Package, Version) : Regular(g) /\ Solves(g)

\* What dal.lock holds is kept if it still answers the problem, with or without
\* checksums.  (search)
LockIsKept ==
  answer = "graph" =>
    \A S \in SUBSET DOMAIN locked :
      LET g == [n \in S |-> locked[n].version]
      IN Regular(g) /\ Solves(g) => Graph = g

\* The first package by name that the project requires gets the newest version that
\* any answer gives it, unless dal.lock says otherwise.  (search)
NewestWins ==
  answer = "graph" /\ DOMAIN roots # {} =>
    LET n == Min(DOMAIN roots) IN
    n \notin DOMAIN locked =>
      \A g \in Partial(Package, Version) : Regular(g) /\ Solves(g) => g[n] <= Graph[n]

\* Of several answers it is the preferred one: what is locked, then what is newest.
AnswerIsPreferred == LockIsKept /\ NewestWins

\* The search ends.
Ends == <>(phase = "end")
=============================================================================
