---------------------------- MODULE ResolverProofs ----------------------------
(* Theorems about Resolver, for any packages, versions, features, releases *)
(* and lock files.  An answer of the search says something about every     *)
(* graph there could have been, so its invariant is about the branches not *)
(* explored: as long as the end is not reached, every solution of the      *)
(* problem is one that the branch, or an untried version of a decision     *)
(* above it, can still lead to (NothingIsLost), the solution that dal.lock *)
(* holds is the first to be come to (LockIsFirst), and newer versions come *)
(* before older ones (InOrder).  It rests on what a branch knows: its      *)
(* requirements have a source (Sourced), none is missing (Kept), and every *)
(* solution that takes the branch's decisions requires them too (Fits).    *)
EXTENDS Resolver, FiniteSetTheorems, WellFoundedInduction, TLAPS

-----------------------------------------------------------------------------
(* Data.                                                                   *)

\* Being a partial function.
LEMMA PartialFacts ==
  ASSUME NEW D, NEW R, NEW f
  PROVE  f \in Partial(D, R) <=> f \in [DOMAIN f -> R] /\ DOMAIN f \subseteq D
BY DEF Partial

\* A non-empty set of numbers has a least one.
LEMMA LeastNumber ==
  ASSUME NEW N \in SUBSET Nat, N # {}
  PROVE  \E x \in N : \A y \in N : x <= y
<1>1. \A x, y \in Nat : x < y => <<x, y>> \in OpToRel(<, Nat)
  BY Zenon DEF OpToRel
<1>2. \E R : IsWellFoundedOn(R, Nat) /\ \A x, y \in Nat : x < y => <<x, y>> \in R
  BY <1>1, NatLessThanWellFounded, Zenon
<1>3. PICK R : IsWellFoundedOn(R, Nat) /\ \A x, y \in Nat : x < y => <<x, y>> \in R
  BY <1>2
<1>4. IsWellFoundedOn(R, Nat)
  BY <1>3
<1>5. PICK x \in N : \A y \in N : ~(<<y, x>> \in R)
  BY <1>4, WFMin, Zenon
<1>6. \A y \in N : ~(y < x)
  BY <1>3, <1>5
<1>. QED  BY <1>6

LEMMA MinFacts ==
  ASSUME NEW N \in SUBSET Nat, N # {}
  PROVE  Min(N) \in N /\ \A y \in N : Min(N) <= y
BY LeastNumber DEF Min

\* A finite set of numbers that is not empty has a greatest one: the number above
\* which the fewest of them lie.
LEMMA GreatestNumber ==
  ASSUME NEW N \in SUBSET Nat, IsFiniteSet(N), N # {}
  PROVE  \E x \in N : \A y \in N : y <= x
<1> DEFINE Above(x) == {y \in N : y > x}
<1> DEFINE Sizes == {Cardinality(Above(x)) : x \in N}
<1>1. ASSUME NEW x \in N
      PROVE  IsFiniteSet(Above(x)) /\ Cardinality(Above(x)) \in Nat
  <2>1. Above(x) \subseteq N
    OBVIOUS
  <2>2. IsFiniteSet(Above(x))
    BY <2>1, FS_Subset
  <2>. QED  BY <2>2, FS_CardinalityType
<1>2. Sizes \subseteq Nat /\ Sizes # {}
  BY <1>1
<1>3. PICK c \in Sizes : \A d \in Sizes : c <= d
  BY <1>2, LeastNumber
<1>4. PICK x \in N : c = Cardinality(Above(x))
  BY <1>3
<1>5. ASSUME NEW y \in N PROVE y <= x
  <2>1. SUFFICES ASSUME y > x PROVE FALSE
    OBVIOUS
  <2>2. Above(y) \subseteq Above(x) \ {y}
    <3> SUFFICES ASSUME NEW z \in Above(y) PROVE z \in Above(x) \ {y}
      OBVIOUS
    <3>. QED  BY <2>1
  <2>3. y \in Above(x)
    BY <2>1
  <2>4. /\ IsFiniteSet(Above(x) \ {y})
        /\ Cardinality(Above(x) \ {y}) = Cardinality(Above(x)) - 1
    BY <1>1, <2>3, FS_RemoveElement
  <2>5. Cardinality(Above(y)) <= Cardinality(Above(x) \ {y})
    BY <2>2, <2>4, FS_Subset
  <2>6. c <= Cardinality(Above(y))
    BY <1>3
  <2>. QED  BY <1>1, <1>4, <2>4, <2>5, <2>6
<1>. QED  BY <1>5

\* First picks a version, and it comes before all the others.
LEMMA FirstFacts ==
  ASSUME NumbersAssumption, NEW n, NEW S \in SUBSET Version, S # {}
  PROVE  First(n, S) \in S /\ \A w \in S \ {First(n, S)} : Before(n, First(n, S), w)
<1>1. S \in SUBSET Nat /\ IsFiniteSet(S)
  BY FS_Subset DEF NumbersAssumption
<1>2. \E v \in S : \A w \in S \ {v} : Before(n, v, w)
  <2>1. CASE \E v \in S : IsLocked(n, v)
    BY <2>1 DEF Before
  <2>2. CASE \A v \in S : ~IsLocked(n, v)
    <3>1. PICK v \in S : \A w \in S : w <= v
      BY <1>1, GreatestNumber
    <3>2. ASSUME NEW w \in S \ {v} PROVE Before(n, v, w)
      <4>1. v > w
        BY <1>1, <3>1
      <4>. QED  BY <2>2, <4>1 DEF Before
    <3>. QED  BY <3>2
  <2>. QED  BY <2>1, <2>2
<1>. QED  BY <1>2 DEF First

\* A locked version among them is the first.
LEMMA FirstIsLocked ==
  ASSUME NumbersAssumption, NEW n, NEW S \in SUBSET Version, NEW v \in S, IsLocked(n, v)
  PROVE  First(n, S) = v
<1>1. First(n, S) \in S /\ \A w \in S \ {First(n, S)} : Before(n, First(n, S), w)
  BY FirstFacts
<1>2. SUFFICES ASSUME First(n, S) # v PROVE FALSE
  OBVIOUS
<1>3. Before(n, First(n, S), v)
  BY <1>1, <1>2
<1>. QED  BY <1>2, <1>3 DEF Before, IsLocked

-----------------------------------------------------------------------------
(* Features and what they bring.                                           *)

LEMMA EnabledFacts ==
  ASSUME NEW r, NEW F, NEW G, F \subseteq G
  PROVE  Enabled(r, F) \subseteq Feature /\ Enabled(r, F) \subseteq Enabled(r, G)
BY DEF Enabled

LEMMA CanEnableLess ==
  ASSUME NEW r, NEW F, NEW G, F \subseteq G, CanEnable(r, G)
  PROVE  CanEnable(r, F)
BY EnabledFacts DEF CanEnable

LEMMA ReleaseFacts ==
  ASSUME NEW r \in Release
  PROVE  /\ r.base \in [DOMAIN r.base -> Requirement] /\ DOMAIN r.base \subseteq Package
         /\ r.optional \in [DOMAIN r.optional -> Requirement] /\ DOMAIN r.optional \subseteq Package
         /\ \A f \in DOMAIN r.brings : r.brings[f].names \subseteq DOMAIN r.optional
<1>1. /\ r.base \in Dependencies /\ r.optional \in Dependencies
      /\ \A f \in DOMAIN r.brings : r.brings[f].names \subseteq DOMAIN r.optional
  BY DEF Release
<1>. QED  BY <1>1, PartialFacts DEF Dependencies

LEMMA OptionalFacts ==
  ASSUME NEW r \in Release, NEW F, NEW G, F \subseteq G
  PROVE  Optional(r, F) \subseteq DOMAIN r.optional /\ Optional(r, F) \subseteq Optional(r, G)
BY ReleaseFacts, EnabledFacts DEF Optional

LEMMA NeedsFacts ==
  ASSUME NEW r \in Release, NEW F
  PROVE  /\ DOMAIN Needs(r, F) = DOMAIN r.base \cup Optional(r, F)
         /\ DOMAIN Needs(r, F) \subseteq Package
         /\ \A n \in DOMAIN Needs(r, F) :
              /\ Needs(r, F)[n] = IF n \in Optional(r, F) THEN r.optional[n] ELSE r.base[n]
              /\ Needs(r, F)[n] \in Requirement
<1>1. /\ DOMAIN Needs(r, F) = DOMAIN r.base \cup Optional(r, F)
      /\ \A n \in DOMAIN Needs(r, F) :
           Needs(r, F)[n] = IF n \in Optional(r, F) THEN r.optional[n] ELSE r.base[n]
  BY DEF Needs
<1>2. Optional(r, F) \subseteq DOMAIN r.optional
  BY OptionalFacts
<1>. QED  BY <1>1, <1>2, ReleaseFacts

\* With more features a release needs no less of another package, and nothing else of
\* it, unless a feature replaces a line of the manifest.
LEMMA NeedsMore ==
  ASSUME NEW r \in Release, NEW F, NEW G, F \subseteq G, NEW n \in DOMAIN Needs(r, F)
  PROVE  /\ n \in DOMAIN Needs(r, G)
         /\ \/ Needs(r, F)[n] = Needs(r, G)[n]
            \/ n \in DOMAIN r.base /\ n \in DOMAIN r.optional /\ Needs(r, F)[n] = r.base[n]
<1>1. Optional(r, F) \subseteq Optional(r, G) /\ Optional(r, G) \subseteq DOMAIN r.optional
  BY OptionalFacts
<1>2. n \in DOMAIN r.base \cup Optional(r, F)
  BY NeedsFacts
<1>3. n \in DOMAIN Needs(r, G)
  BY <1>1, <1>2, NeedsFacts
<1>4. Needs(r, F)[n] = IF n \in Optional(r, F) THEN r.optional[n] ELSE r.base[n]
  BY NeedsFacts
<1>5. Needs(r, G)[n] = IF n \in Optional(r, G) THEN r.optional[n] ELSE r.base[n]
  BY <1>3, NeedsFacts
<1>. QED  BY <1>1, <1>2, <1>3, <1>4, <1>5

LEMMA AskedFacts ==
  ASSUME NEW A \in SUBSET Requirement, NEW B, A \subseteq B
  PROVE  Asked(A) \subseteq Feature /\ Asked(A) \subseteq Asked(B)
BY DEF Asked, Requirement

-----------------------------------------------------------------------------
(* The invariant.                                                          *)

Decision == [name : Package, left : SUBSET Version, above : Partial(Package, Version)]

\* Every variable has its type.
Types ==
  /\ registry \in [Package \X Version -> Release]
  /\ roots \in Dependencies
  /\ locked \in Partial(Package, LockedPackage)
  /\ selected \in Partial(Package, Version)
  /\ demands \in [Package -> SUBSET Requirement]
  /\ expanded \in [DOMAIN expanded -> SUBSET Feature] /\ DOMAIN expanded \subseteq DOMAIN selected
  /\ untried \in Seq(Decision)
  /\ decisions \in 1 .. MaxDecisions
  /\ phase \in {"expand", "choose", "try", "end"}
  /\ answer \in {"open", "graph", "none", "error"}

\* Where the requirements of a branch come from.
Sourced ==
  \A n \in Package : \A s \in demands[n] :
    \/ n \in DOMAIN roots /\ s = roots[n]
    \/ \E m \in DOMAIN expanded :
         /\ n \in DOMAIN Needs(Chosen(m), expanded[m])
         /\ \/ s = Needs(Chosen(m), expanded[m])[n]
            \/ n \in DOMAIN Chosen(m).base /\ s = Chosen(m).base[n]

\* Nothing is forgotten of what the roots and the expanded packages require.
Kept ==
  /\ \A n \in DOMAIN roots : roots[n] \in demands[n]
  /\ \A m \in DOMAIN expanded :
       /\ demands[m] # {} /\ expanded[m] \subseteq Asked(demands[m])
       /\ \A n \in DOMAIN Needs(Chosen(m), expanded[m]) :
            Needs(Chosen(m), expanded[m])[n] \in demands[n]

\* After the last pass everything required is expanded with the features asked for,
\* and met; in the graph that is returned all of it is decided.
Settled ==
  /\ phase = "choose" \/ answer = "graph" => ~Conflict /\ Outdated = {}
  /\ answer = "graph" => Undecided = {} /\ Acyclic

\* What was decided, or may be, is allowed.
Permitted ==
  /\ \A n \in DOMAIN selected : Allowed(n, selected[n])
  /\ \A i \in DOMAIN untried :
       /\ \A n \in DOMAIN untried[i].above : Allowed(n, untried[i].above[n])
       /\ \A v \in untried[i].left : Allowed(untried[i].name, v)

\* The answer is given at the end, "none" only when no decision is left to revise.
Ending ==
  /\ answer # "open" => phase = "end"
  /\ phase = "end" => answer # "open"
  /\ answer = "none" => untried = <<>>

\* g has what is decided in h.
Has(g, h) == DOMAIN h \subseteq DOMAIN g /\ \A n \in DOMAIN h : g[n] = h[n]

\* A solution that every release of is regular.
Solution(g, F) ==
  /\ g \in Partial(Package, Version) /\ F \in [DOMAIN g -> SUBSET Feature]
  /\ Regular(g) /\ Answers(g, F)

\* A branch that may still become a solution requires nothing that the solution does not.
Fits ==
  \A g, F : Solution(g, F) /\ Has(g, selected) =>
    \A n \in Package : demands[n] \subseteq Asks(g, F, n)

\* The branch is being explored, or is the answer.
Open == phase \in {"expand", "choose"} \/ answer = "graph"

\* The search will come to g: it is on the way to it, or will try what leads there.
InReach(g) ==
  \/ Open /\ Has(g, selected)
  \/ \E i \in DOMAIN untried :
       /\ untried[i].name \in DOMAIN g /\ g[untried[i].name] \in untried[i].left
       /\ Has(g, untried[i].above)

NothingIsLost == \A g, F : Solution(g, F) /\ answer # "error" => InReach(g)

\* g is what dal.lock holds of some packages.
IsLock(g) ==
  \A n \in DOMAIN g : n \in DOMAIN locked /\ g[n] = locked[n].version

\* The search goes straight to it.
OnTheWay(g) ==
  /\ Open => Has(g, selected)
  /\ phase = "try" =>
       /\ untried # <<>>
       /\ Last(untried).name \in DOMAIN g /\ g[Last(untried).name] \in Last(untried).left
       /\ Has(g, Last(untried).above)

LockIsFirst == \A g, F : Solution(g, F) /\ IsLock(g) => OnTheWay(g)

\* h took the decision d, and a version that is preferred to those left.
Took(h, d) ==
  /\ Has(h, d.above) /\ d.name \in DOMAIN h
  /\ \A v \in d.left : Before(d.name, h[d.name], v)

\* The decisions follow one another, the first of them on the first of the roots.
InOrder ==
  /\ \A i \in DOMAIN untried : untried[i].name \notin DOMAIN untried[i].above
  /\ \A i, j \in DOMAIN untried : i < j => Took(untried[j].above, untried[i])
  /\ Open => \A i \in DOMAIN untried : Took(selected, untried[i])
  /\ Open /\ untried = <<>> => DOMAIN selected = {}
  /\ untried # <<>> /\ DOMAIN roots # {} =>
       untried[1].name = Min(DOMAIN roots) /\ DOMAIN untried[1].above = {}

\* The inductive invariant.
IInv ==
  /\ Types /\ Sourced /\ Kept /\ Settled /\ Permitted /\ Ending
  /\ Fits /\ NothingIsLost /\ LockIsFirst /\ InOrder

-----------------------------------------------------------------------------
(* What the invariant says of one state.                                   *)

LEMMA ReleasesOfTypes ==
  ASSUME Types, NEW n \in Package, NEW v \in Version
  PROVE  registry[n, v] \in Release
BY DEF Types

LEMMA ChosenFacts ==
  ASSUME Types, NEW m \in DOMAIN selected
  PROVE  m \in Package /\ selected[m] \in Version /\ Chosen(m) \in Release
<1>1. m \in Package /\ selected[m] \in Version
  BY PartialFacts DEF Types
<1>. QED  BY <1>1, ReleasesOfTypes DEF Chosen, ReleaseIn

LEMMA RootFacts ==
  ASSUME Types, NEW n \in DOMAIN roots
  PROVE  n \in Package /\ roots[n] \in Requirement
BY PartialFacts DEF Types, Dependencies

LEMMA SolutionFacts ==
  ASSUME Types, NEW g, NEW F, Solution(g, F)
  PROVE  /\ DOMAIN g \subseteq Package
         /\ \A n \in DOMAIN g : /\ g[n] \in Version
                                /\ ReleaseIn(g, n) \in Release
                                /\ F[n] \subseteq Feature
<1>1. g \in [DOMAIN g -> Version] /\ DOMAIN g \subseteq Package /\ F \in [DOMAIN g -> SUBSET Feature]
  BY PartialFacts DEF Solution
<1>. QED  BY <1>1, ReleasesOfTypes DEF ReleaseIn

\* What is required of n is one of two things.
LEMMA AsksCases ==
  ASSUME NEW g, NEW F, NEW n, NEW s
  PROVE  s \in Asks(g, F, n) <=>
           \/ n \in DOMAIN roots /\ s = roots[n]
           \/ \E m \in DOMAIN g : /\ n \in DOMAIN Needs(ReleaseIn(g, m), F[m])
                                  /\ s = Needs(ReleaseIn(g, m), F[m])[n]
BY DEF Asks

LEMMA AsksFacts ==
  ASSUME Types, NEW g, NEW F, Solution(g, F), NEW n \in Package
  PROVE  /\ Asks(g, F, n) \subseteq Requirement
         /\ Asks(g, F, n) # {} => n \in DOMAIN g
<1>1. ASSUME NEW s \in Asks(g, F, n) PROVE s \in Requirement /\ n \in DOMAIN g
  <2>1. CASE n \in DOMAIN roots /\ s = roots[n]
    BY <2>1, RootFacts DEF Solution, Answers
  <2>2. CASE \E m \in DOMAIN g : /\ n \in DOMAIN Needs(ReleaseIn(g, m), F[m])
                                 /\ s = Needs(ReleaseIn(g, m), F[m])[n]
    <3>1. PICK m \in DOMAIN g : /\ n \in DOMAIN Needs(ReleaseIn(g, m), F[m])
                                /\ s = Needs(ReleaseIn(g, m), F[m])[n]
      BY <2>2
    <3>2. ReleaseIn(g, m) \in Release
      BY SolutionFacts
    <3>3. DOMAIN Needs(ReleaseIn(g, m), F[m]) \subseteq DOMAIN g
      BY DEF Solution, Answers
    <3>. QED  BY <3>1, <3>2, <3>3, NeedsFacts
  <2>3. \/ n \in DOMAIN roots /\ s = roots[n]
        \/ \E m \in DOMAIN g : /\ n \in DOMAIN Needs(ReleaseIn(g, m), F[m])
                               /\ s = Needs(ReleaseIn(g, m), F[m])[n]
    BY AsksCases
  <2>. QED  BY <2>1, <2>2, <2>3
<1>. QED  BY <1>1

\* On the way to a solution, the features asked for are among those of the solution, and
\* so is what a package needs with them.
LEMMA LiveFacts ==
  ASSUME Types, Fits, NEW g, NEW F, Solution(g, F), Has(g, selected), NEW m \in Live
  PROVE  /\ m \in DOMAIN g /\ Chosen(m) = ReleaseIn(g, m)
         /\ demands[m] \subseteq Asks(g, F, m) /\ Asked(demands[m]) \subseteq F[m]
         /\ CanEnable(Chosen(m), F[m]) /\ \A s \in demands[m] : selected[m] \in s.req
         /\ \A G \in SUBSET F[m] : \A n \in DOMAIN Needs(Chosen(m), G) :
              /\ n \in DOMAIN Needs(ReleaseIn(g, m), F[m]) /\ n \in DOMAIN g
              /\ Needs(Chosen(m), G)[n] \in Asks(g, F, n)
<1>1. m \in DOMAIN selected /\ m \in Package
  BY ChosenFacts DEF Live
<1>2. m \in DOMAIN g /\ selected[m] = g[m] /\ Chosen(m) = ReleaseIn(g, m)
  BY <1>1 DEF Has, Chosen, ReleaseIn
<1>3. demands[m] \subseteq Asks(g, F, m)
  BY <1>1 DEF Fits
<1>4. F[m] = Asked(Asks(g, F, m)) /\ CanEnable(ReleaseIn(g, m), F[m])
      /\ (\A s \in Asks(g, F, m) : g[m] \in s.req)
      /\ DOMAIN Needs(ReleaseIn(g, m), F[m]) \subseteq DOMAIN g
  BY <1>2 DEF Solution, Answers
<1>5. demands[m] \in SUBSET Requirement
  BY <1>1 DEF Types
<1>6. Asked(demands[m]) \subseteq F[m]
  <2>1. Asked(demands[m]) \subseteq Asked(Asks(g, F, m))
    BY <1>3, <1>5, AskedFacts, Zenon
  <2>. QED  BY <1>4, <2>1
<1>7. ReleaseIn(g, m) \in Release
  BY <1>2, SolutionFacts
<1>8. PICK r \in Release : r = ReleaseIn(g, m)
  BY <1>7
<1>9. DOMAIN r.base \cap DOMAIN r.optional = {}
  BY <1>2, <1>8 DEF Solution, Regular
<1>10. ASSUME NEW G \in SUBSET F[m], NEW n \in DOMAIN Needs(r, G)
       PROVE  n \in DOMAIN Needs(r, F[m]) /\ Needs(r, G)[n] \in Asks(g, F, n)
  <2>1. /\ n \in DOMAIN Needs(r, F[m])
        /\ \/ Needs(r, G)[n] = Needs(r, F[m])[n]
           \/ n \in DOMAIN r.base /\ n \in DOMAIN r.optional /\ Needs(r, G)[n] = r.base[n]
    BY NeedsMore
  <2>2. Needs(r, G)[n] = Needs(r, F[m])[n]
    BY <1>9, <2>1
  <2>. QED  BY <1>2, <1>8, <2>1, <2>2, AsksCases
<1>. QED  BY <1>2, <1>3, <1>4, <1>6, <1>8, <1>10

LEMMA OnTheWayFacts ==
  ASSUME Types, Kept, Fits, NEW g, NEW F, Solution(g, F), Has(g, selected)
  PROVE  /\ ~Conflict
         /\ \A n \in Undecided : n \in DOMAIN g /\ g[n] \in Able(n)
         /\ Acyclic
<1>1. ~Conflict
  <2> SUFFICES ASSUME NEW n \in Live
               PROVE  /\ \A s \in demands[n] : selected[n] \in s.req
                      /\ CanEnable(Chosen(n), Asked(demands[n]))
    BY DEF Conflict
  <2>1. /\ CanEnable(Chosen(n), F[n]) /\ Asked(demands[n]) \subseteq F[n]
        /\ \A s \in demands[n] : selected[n] \in s.req
    BY LiveFacts
  <2>. QED  BY <2>1, CanEnableLess
<1>2. ASSUME NEW n \in Undecided PROVE n \in DOMAIN g /\ g[n] \in Able(n)
  <2>1. n \in Package /\ demands[n] # {}
    BY DEF Undecided
  <2>2. demands[n] \subseteq Asks(g, F, n)
    BY <2>1 DEF Fits
  <2>3. n \in DOMAIN g
    BY <2>1, <2>2, AsksFacts
  <2>4. Allowed(n, g[n]) /\ \A s \in Asks(g, F, n) : g[n] \in s.req
    BY <2>3 DEF Solution, Answers
  <2>5. g[n] \in Version
    BY <2>3, SolutionFacts
  <2>. QED  BY <2>2, <2>3, <2>4, <2>5 DEF Able
<1>3. Acyclic
  <2> SUFFICES ASSUME NEW S \in SUBSET DOMAIN expanded, S # {}
               PROVE  \E n \in S : \A m \in S : n \notin Uses(m)
    BY DEF Acyclic
  <2>1. ASSUME NEW m \in S
        PROVE  m \in DOMAIN g /\ Uses(m) \subseteq DOMAIN Needs(ReleaseIn(g, m), F[m])
    <3>1. m \in DOMAIN expanded /\ m \in DOMAIN selected /\ demands[m] # {}
          /\ expanded[m] \subseteq Asked(demands[m])
      BY DEF Types, Kept
    <3>2. m \in Live
      BY <3>1 DEF Live
    <3>3. expanded[m] \in SUBSET F[m]
      BY <3>1, <3>2, LiveFacts
    <3>. QED  BY <3>2, <3>3, LiveFacts DEF Uses
  <2>2. S \in SUBSET DOMAIN g
    BY <2>1
  <2>3. PICK n \in S : \A m \in S : n \notin DOMAIN Needs(ReleaseIn(g, m), F[m])
    BY <2>2 DEF Solution, Answers
  <2>. QED  BY <2>1, <2>3
<1>. QED  BY <1>1, <1>2, <1>3

-----------------------------------------------------------------------------
(* What the invariant says of the answer.                                  *)

LEMMA GraphFacts ==
  ASSUME Types, Sourced, Kept, Settled, answer = "graph"
  PROVE  /\ DOMAIN Graph = DOMAIN expanded /\ Graph \in Partial(Package, Version)
         /\ \A n \in DOMAIN expanded :
              /\ Graph[n] = selected[n] /\ ReleaseIn(Graph, n) = Chosen(n)
              /\ n \in Live /\ expanded[n] = Asked(demands[n])
              /\ DOMAIN Needs(Chosen(n), expanded[n]) \subseteq DOMAIN expanded
         /\ \A n \in Package : demands[n] # {} => n \in DOMAIN expanded
         /\ DOMAIN roots \subseteq DOMAIN expanded
<1>1. Outdated = {} /\ Undecided = {}
  BY DEF Settled
<1>2. ASSUME NEW n \in Package, demands[n] # {}
      PROVE  n \in DOMAIN expanded
  <2>1. n \in DOMAIN selected
    BY <1>1, <1>2 DEF Undecided
  <2>2. n \in Live
    BY <1>2, <2>1 DEF Live
  <2>. QED  BY <1>1, <2>2 DEF Outdated
<1>3. ASSUME NEW n \in DOMAIN expanded
      PROVE  /\ Graph[n] = selected[n] /\ ReleaseIn(Graph, n) = Chosen(n)
             /\ n \in Live /\ expanded[n] = Asked(demands[n])
             /\ DOMAIN Needs(Chosen(n), expanded[n]) \subseteq DOMAIN expanded
             /\ n \in DOMAIN selected /\ n \in Package /\ selected[n] \in Version
  <2>1. n \in DOMAIN selected /\ demands[n] # {}
    BY DEF Types, Kept
  <2>2. n \in Live
    BY <2>1 DEF Live
  <2>3. expanded[n] = Asked(demands[n])
    BY <1>1, <2>2 DEF Outdated
  <2>4. Graph[n] = selected[n]
    BY DEF Graph
  <2>5. ReleaseIn(Graph, n) = Chosen(n)
    BY <2>4 DEF Chosen, ReleaseIn
  <2>6. n \in Package /\ selected[n] \in Version /\ Chosen(n) \in Release
    BY <2>1, ChosenFacts
  <2>7. ASSUME NEW k \in DOMAIN Needs(Chosen(n), expanded[n]) PROVE k \in DOMAIN expanded
    <3>1. k \in Package
      BY <2>6, NeedsFacts
    <3>2. demands[k] # {}
      BY DEF Kept
    <3>. QED  BY <1>2, <3>1, <3>2
  <2>. QED  BY <2>1, <2>2, <2>3, <2>4, <2>5, <2>6, <2>7
<1>4. DOMAIN Graph = DOMAIN expanded
  BY DEF Graph
<1>5. Graph \in [DOMAIN expanded -> Version] /\ DOMAIN expanded \subseteq Package
  BY <1>3 DEF Graph
<1>6. Graph \in Partial(Package, Version)
  BY <1>4, <1>5, PartialFacts
<1>7. ASSUME NEW n \in DOMAIN roots PROVE n \in DOMAIN expanded
  <2>1. n \in Package /\ demands[n] # {}
    BY RootFacts DEF Kept
  <2>. QED  BY <1>2, <2>1
<1>. QED  BY <1>2, <1>3, <1>4, <1>6, <1>7

\* The requirements of the branch are those of the graph.
LEMMA GraphAsks ==
  ASSUME Types, Sourced, Kept, Settled, answer = "graph", NEW n \in Package
  PROVE  /\ Asks(Graph, expanded, n) \subseteq demands[n]
         /\ Regular(Graph) => demands[n] \subseteq Asks(Graph, expanded, n)
<1>1. \A m \in DOMAIN expanded : ReleaseIn(Graph, m) = Chosen(m)
  BY GraphFacts
<1>2. DOMAIN Graph = DOMAIN expanded
  BY GraphFacts
<1>3. ASSUME NEW s
      PROVE  s \in Asks(Graph, expanded, n) <=>
               \/ n \in DOMAIN roots /\ s = roots[n]
               \/ \E m \in DOMAIN expanded : /\ n \in DOMAIN Needs(Chosen(m), expanded[m])
                                             /\ s = Needs(Chosen(m), expanded[m])[n]
  BY <1>1, <1>2, AsksCases
<1>4. ASSUME NEW s \in Asks(Graph, expanded, n) PROVE s \in demands[n]
  BY <1>3 DEF Kept
<1>5. ASSUME Regular(Graph), NEW s \in demands[n] PROVE s \in Asks(Graph, expanded, n)
  <2>1. ASSUME NEW m \in DOMAIN expanded,
               n \in DOMAIN Needs(Chosen(m), expanded[m]),
               n \in DOMAIN Chosen(m).base, s = Chosen(m).base[n]
        PROVE  s = Needs(Chosen(m), expanded[m])[n]
    <3>1. DOMAIN Chosen(m).base \cap DOMAIN Chosen(m).optional = {}
      BY <1>1, <1>2, <1>5 DEF Regular
    <3>2. Chosen(m) \in Release
      BY ChosenFacts DEF Types
    <3>3. Optional(Chosen(m), expanded[m]) \subseteq DOMAIN Chosen(m).optional
      BY <3>2, OptionalFacts
    <3>4. Needs(Chosen(m), expanded[m])[n] =
            IF n \in Optional(Chosen(m), expanded[m]) THEN Chosen(m).optional[n]
                                                      ELSE Chosen(m).base[n]
      BY <2>1, <3>2, NeedsFacts
    <3>. QED  BY <2>1, <3>1, <3>3, <3>4
  <2>. QED  BY <1>3, <2>1 DEF Sourced
<1>. QED  BY <1>4, <1>5

LEMMA AnswerSolves ==
  ASSUME Types, Sourced, Kept, Settled, Permitted
  PROVE  GraphSolves
<1> SUFFICES ASSUME answer = "graph", Regular(Graph)
             PROVE  Answers(Graph, expanded)
  BY GraphFacts DEF GraphSolves, Solves, Types
<1>1. DOMAIN Graph = DOMAIN expanded /\ \A n \in DOMAIN expanded : n \in Package
  BY GraphFacts, ChosenFacts DEF Types
<1>2. \A n \in Package : Asks(Graph, expanded, n) = demands[n]
  BY GraphAsks
<1>3. DOMAIN roots \subseteq DOMAIN Graph
  BY GraphFacts
<1>4. ~Conflict /\ Acyclic
  BY DEF Settled
<1>5. ASSUME NEW n \in DOMAIN Graph
      PROVE  /\ Allowed(n, Graph[n])
             /\ Asks(Graph, expanded, n) # {} /\ expanded[n] = Asked(Asks(Graph, expanded, n))
             /\ \A s \in Asks(Graph, expanded, n) : Graph[n] \in s.req
             /\ CanEnable(ReleaseIn(Graph, n), expanded[n])
             /\ DOMAIN Needs(ReleaseIn(Graph, n), expanded[n]) \subseteq DOMAIN Graph
  <2>1. /\ n \in Live /\ expanded[n] = Asked(demands[n])
        /\ Graph[n] = selected[n] /\ ReleaseIn(Graph, n) = Chosen(n)
        /\ DOMAIN Needs(Chosen(n), expanded[n]) \subseteq DOMAIN expanded
    BY <1>1, GraphFacts
  <2>2. Asks(Graph, expanded, n) = demands[n]
    BY <1>1, <1>2
  <2>3. demands[n] # {} /\ n \in DOMAIN selected
    BY <2>1 DEF Live
  <2>4. (\A s \in demands[n] : selected[n] \in s.req) /\ CanEnable(Chosen(n), Asked(demands[n]))
    BY <1>4, <2>1 DEF Conflict
  <2>5. Allowed(n, selected[n])
    BY <2>3 DEF Permitted
  <2>. QED  BY <1>1, <2>1, <2>2, <2>3, <2>4, <2>5
<1>6. ASSUME NEW S \in SUBSET DOMAIN Graph, S # {}
      PROVE  \E n \in S : \A m \in S : n \notin DOMAIN Needs(ReleaseIn(Graph, m), expanded[m])
  <2>1. \A m \in S : Uses(m) = DOMAIN Needs(ReleaseIn(Graph, m), expanded[m])
    BY <1>1, GraphFacts DEF Uses
  <2>2. PICK n \in S : \A m \in S : n \notin Uses(m)
    BY <1>1, <1>4, <1>6 DEF Acyclic
  <2>. QED  BY <2>1, <2>2
<1>. QED  BY <1>3, <1>5, <1>6 DEF Answers

\* A solution of regular releases that has the graph is the graph: nothing can be left
\* over, since it would be there for a reason, and so would be the reason.
LEMMA NothingIsLeftOver ==
  ASSUME Types, Sourced, Kept, Settled, Fits, answer = "graph",
         NEW g, NEW F, Solution(g, F), Has(g, selected)
  PROVE  Graph = g
<1> DEFINE D == {x \in DOMAIN g : x \in DOMAIN expanded => F[x] # expanded[x]}
<1>1. /\ DOMAIN Graph = DOMAIN expanded /\ Graph \in Partial(Package, Version)
      /\ DOMAIN roots \subseteq DOMAIN expanded
      /\ \A n \in Package : demands[n] # {} => n \in DOMAIN expanded
  BY GraphFacts
<1>2. ASSUME NEW m \in DOMAIN expanded
      PROVE  /\ m \in Live /\ m \in DOMAIN g /\ ReleaseIn(g, m) = Chosen(m)
             /\ Graph[m] = g[m] /\ expanded[m] = Asked(demands[m]) /\ expanded[m] \subseteq F[m]
             /\ DOMAIN Needs(Chosen(m), expanded[m]) \subseteq DOMAIN expanded
  <2>1. /\ m \in Live /\ expanded[m] = Asked(demands[m]) /\ Graph[m] = selected[m]
        /\ DOMAIN Needs(Chosen(m), expanded[m]) \subseteq DOMAIN expanded
    BY GraphFacts
  <2>2. m \in DOMAIN g /\ Chosen(m) = ReleaseIn(g, m) /\ Asked(demands[m]) \subseteq F[m]
    BY <2>1, LiveFacts
  <2>3. selected[m] = g[m]
    BY DEF Has, Types
  <2>. QED  BY <2>1, <2>2, <2>3
<1>3. ASSUME NEW x \in D
      PROVE  \E k \in D : x \in DOMAIN Needs(ReleaseIn(g, k), F[k])
  <2>1. SUFFICES ASSUME \A k \in DOMAIN g : x \in DOMAIN Needs(ReleaseIn(g, k), F[k]) =>
                          k \in DOMAIN expanded /\ F[k] = expanded[k]
                 PROVE  FALSE
    OBVIOUS
  <2>2. x \in Package /\ x \in DOMAIN g
    BY SolutionFacts
  <2>3. ASSUME NEW s \in Asks(g, F, x) PROVE s \in demands[x]
    <3>1. CASE x \in DOMAIN roots /\ s = roots[x]
      BY <3>1 DEF Kept
    <3>2. CASE \E k \in DOMAIN g : /\ x \in DOMAIN Needs(ReleaseIn(g, k), F[k])
                                   /\ s = Needs(ReleaseIn(g, k), F[k])[x]
      BY <1>2, <2>1, <3>2 DEF Kept
    <3>. QED  BY <3>1, <3>2, AsksCases
  <2>4. Asks(g, F, x) # {} /\ F[x] = Asked(Asks(g, F, x))
    BY <2>2 DEF Solution, Answers
  <2>5. x \in DOMAIN expanded
    BY <1>1, <2>2, <2>3, <2>4
  <2>6. demands[x] \subseteq Asks(g, F, x)
    BY <2>2 DEF Fits
  <2>7. demands[x] = Asks(g, F, x)
    BY <2>3, <2>6
  <2>8. F[x] = expanded[x]
    BY <1>2, <2>4, <2>5, <2>7
  <2>. QED  BY <2>5, <2>8
<1>4. D = {}
  <2>1. SUFFICES ASSUME D # {} PROVE FALSE
    OBVIOUS
  <2>2. D \in SUBSET DOMAIN g
    OBVIOUS
  <2>3. \A S \in SUBSET DOMAIN g :
          S # {} => \E n \in S : \A m \in S : n \notin DOMAIN Needs(ReleaseIn(g, m), F[m])
    BY DEF Solution, Answers
  <2>4. \E n \in D : \A m \in D : n \notin DOMAIN Needs(ReleaseIn(g, m), F[m])
    <3> HIDE DEF D
    <3>. QED  BY <2>1, <2>2, <2>3
  <2>. QED  BY <1>3, <2>4
<1>5. DOMAIN g = DOMAIN expanded
  BY <1>2, <1>4
<1>6. g \in [DOMAIN g -> Version] /\ Graph \in [DOMAIN Graph -> Version]
  BY <1>1, PartialFacts DEF Solution
<1>. QED  BY <1>1, <1>2, <1>5, <1>6

\* What the named operators of the module say of the solutions.
LEMMA SolvesFacts ==
  ASSUME NEW g \in Partial(Package, Version), Regular(g), Solves(g)
  PROVE  \E F : Solution(g, F)
BY DEF Solves, Solution

LEMMA LockKept ==
  ASSUME Types, Sourced, Kept, Settled, Fits, LockIsFirst
  PROVE  LockIsKept
<1> SUFFICES ASSUME answer = "graph", NEW S \in SUBSET DOMAIN locked,
                    NEW g, g = [n \in S |-> locked[n].version],
                    Regular(g), Solves(g)
             PROVE  Graph = g
  BY DEF LockIsKept
<1>1. locked \in [DOMAIN locked -> LockedPackage] /\ DOMAIN locked \subseteq Package
  BY PartialFacts DEF Types
<1>2. g \in [S -> Version] /\ S \subseteq Package /\ DOMAIN g = S
  BY <1>1 DEF LockedPackage
<1>3. g \in Partial(Package, Version)
  BY <1>2, PartialFacts
<1>4. PICK F : Solution(g, F)
  BY <1>3, SolvesFacts
<1>5. IsLock(g)
  BY DEF IsLock
<1>6. Has(g, selected)
  BY <1>4, <1>5 DEF LockIsFirst, OnTheWay, Open
<1>. QED  BY <1>4, <1>6, NothingIsLeftOver

LEMMA NothingFound ==
  ASSUME Types, Ending, NothingIsLost
  PROVE  NoneIsNone
<1> SUFFICES ASSUME answer = "none", NEW g \in Partial(Package, Version), Regular(g), Solves(g)
             PROVE  FALSE
  BY DEF NoneIsNone
<1>1. PICK F : Solution(g, F)
  BY SolvesFacts
<1>2. untried = <<>> /\ ~Open
  BY DEF Ending, Open
<1>3. InReach(g)
  BY <1>1 DEF NothingIsLost
<1>. QED  BY <1>2, <1>3 DEF InReach

LEMMA NewestFirst ==
  ASSUME NumbersAssumption, Types, Sourced, Kept, Settled, NothingIsLost, InOrder
  PROVE  NewestWins
<1> DEFINE n == Min(DOMAIN roots)
<1> SUFFICES ASSUME answer = "graph", DOMAIN roots # {}, n \notin DOMAIN locked,
                    NEW g \in Partial(Package, Version), Regular(g), Solves(g)
             PROVE  g[n] <= Graph[n]
  BY DEF NewestWins
<1>1. PICK F : Solution(g, F)
  BY SolvesFacts
<1>2. DOMAIN roots \in SUBSET Nat
  BY RootFacts DEF NumbersAssumption
<1>3. n \in DOMAIN roots
  BY <1>2, MinFacts
<1>4. n \in DOMAIN expanded /\ n \in DOMAIN selected /\ Graph[n] = selected[n]
  BY <1>3, GraphFacts DEF Types
<1>5. n \in DOMAIN g
  BY <1>1, <1>3 DEF Solution, Answers
<1>6. g[n] \in Nat /\ selected[n] \in Nat
  BY <1>1, <1>4, <1>5, ChosenFacts, SolutionFacts DEF NumbersAssumption
<1>7. Open /\ InReach(g)
  BY <1>1 DEF NothingIsLost, Open
<1>8. CASE Has(g, selected)
  BY <1>4, <1>6, <1>8 DEF Has
<1>9. ASSUME NEW i \in DOMAIN untried, untried[i].name \in DOMAIN g,
             g[untried[i].name] \in untried[i].left, Has(g, untried[i].above)
      PROVE  g[n] <= selected[n]
  <2>1. untried \in Seq(Decision) /\ i \in 1 .. Len(untried) /\ Len(untried) \in Nat
    BY DEF Types
  <2>2. untried # <<>> /\ 1 \in DOMAIN untried
    BY <2>1
  <2>3. untried[1].name = n /\ DOMAIN untried[1].above = {}
    BY <2>2 DEF InOrder
  <2>4. Took(selected, untried[i])
    BY <1>7 DEF InOrder
  <2>5. CASE i = 1
    <3>1. Before(n, selected[n], g[n])
      BY <1>9, <2>3, <2>4, <2>5 DEF Took
    <3>2. selected[n] > g[n]
      BY <3>1 DEF Before, IsLocked
    <3>. QED  BY <1>6, <3>2
  <2>6. CASE i # 1
    <3>1. 1 < i
      BY <2>1, <2>6
    <3>2. Took(untried[i].above, untried[1])
      BY <2>2, <3>1 DEF InOrder
    <3>3. n \in DOMAIN untried[i].above
      BY <2>3, <3>2 DEF Took
    <3>4. g[n] = untried[i].above[n] /\ selected[n] = untried[i].above[n]
      BY <1>9, <2>4, <3>3 DEF Took, Has
    <3>. QED  BY <1>6, <3>4
  <2>. QED  BY <2>5, <2>6
<1>. QED  BY <1>4, <1>7, <1>8, <1>9 DEF InReach

-----------------------------------------------------------------------------
(* The steps: what they leave alone.                                       *)

LEMMA SameProblem ==
  ASSUME problem' = problem
  PROVE  /\ \A g, F, n : Asks(g, F, n)' = Asks(g, F, n)
         /\ \A g, F : Solution(g, F)' <=> Solution(g, F)
         /\ \A n, v : Allowed(n, v)' <=> Allowed(n, v)
         /\ \A n, v, w : Before(n, v, w)' <=> Before(n, v, w)
         /\ \A n, v : IsLocked(n, v)' <=> IsLocked(n, v)
         /\ \A g : IsLock(g)' <=> IsLock(g)
         /\ \A h, d : Took(h, d)' <=> Took(h, d)
         /\ \A g, n : ReleaseIn(g, n)' = ReleaseIn(g, n)
<1>1. registry' = registry /\ roots' = roots /\ locked' = locked
  BY DEF problem
<1>2. \A g, n : ReleaseIn(g, n)' = ReleaseIn(g, n)
  BY <1>1 DEF ReleaseIn
<1>3. \A g, F, n : Asks(g, F, n)' = Asks(g, F, n)
  BY <1>1, <1>2 DEF Asks
<1>4. \A n, v : IsLocked(n, v)' <=> IsLocked(n, v)
  BY <1>1 DEF IsLocked
<1>5. \A n, v : Checksum(n, v)' <=> Checksum(n, v)
  BY <1>1, <1>4 DEF Checksum
<1>6. \A n, v : Allowed(n, v)' <=> Allowed(n, v)
  BY <1>1, <1>5 DEF Allowed
<1>7. \A n, v, w : Before(n, v, w)' <=> Before(n, v, w)
  BY <1>4 DEF Before
<1>8. \A g, F : Answers(g, F)' <=> Answers(g, F)
  BY <1>1, <1>2, <1>3, <1>6 DEF Answers
<1>9. \A g : Regular(g)' <=> Regular(g)
  BY <1>2 DEF Regular
<1>10. \A g, F : Solution(g, F)' <=> Solution(g, F)
  BY <1>8, <1>9 DEF Solution
<1>11. \A g : IsLock(g)' <=> IsLock(g)
  BY <1>1 DEF IsLock
<1>12. \A h, d : Took(h, d)' <=> Took(h, d)
  BY <1>7 DEF Took, Has
<1>. QED  BY <1>2, <1>3, <1>4, <1>6, <1>7, <1>10, <1>11, <1>12

LEMMA SameChosen ==
  ASSUME problem' = problem, selected' = selected
  PROVE  \A n : Chosen(n)' = Chosen(n)
BY DEF Chosen, ReleaseIn, problem

\* Nothing changes of the branch but that it is put aside or looked at again.
LEMMA SameBranch ==
  ASSUME problem' = problem, branch' = branch
  PROVE  /\ Live' = Live /\ Undecided' = Undecided /\ Outdated' = Outdated
         /\ Conflict' <=> Conflict
         /\ Acyclic' <=> Acyclic
         /\ Sourced' <=> Sourced
         /\ Kept' <=> Kept
         /\ Fits' <=> Fits
<1>1. selected' = selected /\ demands' = demands /\ expanded' = expanded /\ roots' = roots
  BY DEF branch, problem
<1>2. \A n : Chosen(n)' = Chosen(n)
  BY <1>1, SameChosen
<1>3. Live' = Live /\ Undecided' = Undecided
  BY <1>1 DEF Live, Undecided
<1>4. Outdated' = Outdated
  BY <1>1, <1>3 DEF Outdated
<1>5. Conflict' <=> Conflict
  BY <1>1, <1>2, <1>3 DEF Conflict
<1>6. \A n : Uses(n)' = Uses(n)
  BY <1>1, <1>2 DEF Uses
<1>7. Acyclic' <=> Acyclic
  BY <1>1, <1>6 DEF Acyclic
<1>8. Sourced' <=> Sourced
  BY <1>1, <1>2 DEF Sourced
<1>9. Kept' <=> Kept
  BY <1>1, <1>2 DEF Kept
<1>10. Fits' <=> Fits
  BY <1>1, SameProblem DEF Fits
<1>. QED  BY <1>3, <1>4, <1>5, <1>7, <1>8, <1>9, <1>10

-----------------------------------------------------------------------------
(* A pass over the requirements.                                           *)

LEMMA AddedFacts ==
  ASSUME NEW n, NEW s
  PROVE  s \in Added(n) <=>
           \E m \in Outdated : /\ n \in DOMAIN Needs(Chosen(m), Asked(demands[m]))
                               /\ s = Needs(Chosen(m), Asked(demands[m]))[n]
BY DEF Added

LEMMA OutdatedFacts ==
  ASSUME Types, NEW m \in Outdated
  PROVE  /\ m \in Live /\ m \in DOMAIN selected /\ m \in Package /\ demands[m] # {}
         /\ Chosen(m) \in Release
         /\ demands[m] \in SUBSET Requirement /\ Asked(demands[m]) \in SUBSET Feature
<1>1. m \in Live /\ m \in DOMAIN selected /\ demands[m] # {}
  BY DEF Outdated, Live
<1>2. m \in Package /\ Chosen(m) \in Release
  BY <1>1, ChosenFacts
<1>3. demands[m] \in SUBSET Requirement
  BY <1>2 DEF Types
<1>. QED  BY <1>1, <1>2, <1>3, AskedFacts

\* What a pass does that finds no conflict.
LEMMA PassFacts ==
  ASSUME Types, Kept, Pass, ~Conflict
  PROVE  /\ phase' = IF Outdated = {} THEN "choose" ELSE "expand"
         /\ demands' \in [Package -> SUBSET Requirement]
         /\ \A n \in Package : demands'[n] = demands[n] \cup Added(n)
         /\ DOMAIN expanded' = DOMAIN expanded \cup Outdated
         /\ expanded' \in [DOMAIN expanded \cup Outdated -> SUBSET Feature]
         /\ \A m \in Outdated : expanded'[m] = Asked(demands[m])
         /\ \A m \in DOMAIN expanded : expanded[m] \subseteq expanded'[m]
         /\ \A m \in DOMAIN expanded \ Outdated : expanded'[m] = expanded[m]
         /\ DOMAIN expanded' \subseteq DOMAIN selected
         /\ \A n : Chosen(n)' = Chosen(n)
<1>1. /\ phase' = IF Outdated = {} THEN "choose" ELSE "expand"
      /\ demands' = [n \in Package |-> demands[n] \cup Added(n)]
      /\ expanded' = [n \in DOMAIN expanded \cup Outdated |->
                        IF n \in Outdated THEN Asked(demands[n]) ELSE expanded[n]]
      /\ problem' = problem /\ selected' = selected
  BY DEF Pass
<1>2. ASSUME NEW n \in Package PROVE demands[n] \cup Added(n) \in SUBSET Requirement
  <2>1. ASSUME NEW s \in Added(n) PROVE s \in Requirement
    <3>1. PICK m \in Outdated : /\ n \in DOMAIN Needs(Chosen(m), Asked(demands[m]))
                                /\ s = Needs(Chosen(m), Asked(demands[m]))[n]
      BY AddedFacts
    <3>2. Chosen(m) \in Release
      BY OutdatedFacts
    <3>. QED  BY <3>1, <3>2, NeedsFacts
  <2>. QED  BY <2>1 DEF Types
<1>3. demands' \in [Package -> SUBSET Requirement] /\ \A n \in Package : demands'[n] = demands[n] \cup Added(n)
  BY <1>1, <1>2
<1>4. /\ DOMAIN expanded' = DOMAIN expanded \cup Outdated
      /\ \A m \in Outdated : expanded'[m] = Asked(demands[m])
      /\ \A m \in DOMAIN expanded \ Outdated : expanded'[m] = expanded[m]
  BY <1>1
<1>5. \A m \in DOMAIN expanded : expanded[m] \subseteq expanded'[m]
  BY <1>4 DEF Kept
<1>6. \A m \in DOMAIN expanded \cup Outdated : expanded'[m] \in SUBSET Feature
  BY <1>4, OutdatedFacts DEF Types
<1>7. expanded' \in [DOMAIN expanded \cup Outdated -> SUBSET Feature]
  BY <1>1, <1>6
<1>8. DOMAIN expanded' \subseteq DOMAIN selected
  BY <1>4, OutdatedFacts DEF Types
<1>. QED  BY <1>1, <1>3, <1>4, <1>5, <1>7, <1>8, SameChosen

LEMMA PassTypes ==
  ASSUME Types, Kept, Pass
  PROVE  Types'
<1>1. /\ problem' = problem /\ selected' = selected /\ untried' = untried
      /\ decisions' = decisions /\ answer' = answer
  BY DEF Pass
<1>2. CASE Conflict
  BY <1>1, <1>2 DEF Pass, Types, problem
<1>3. CASE ~Conflict
  <2>1. demands' \in [Package -> SUBSET Requirement] /\ DOMAIN expanded' \subseteq DOMAIN selected
        /\ expanded' \in [DOMAIN expanded' -> SUBSET Feature] /\ phase' \in {"choose", "expand"}
    BY <1>3, PassFacts
  <2>. QED  BY <1>1, <2>1 DEF Types, problem
<1>. QED  BY <1>2, <1>3

LEMMA PassSourced ==
  ASSUME Types, Sourced, Kept, Pass, ~Conflict
  PROVE  Sourced'
<1>1. roots' = roots
  BY DEF Pass, problem
<1>2. SUFFICES ASSUME NEW n \in Package, NEW s \in demands'[n]
               PROVE  \/ n \in DOMAIN roots /\ s = roots[n]
                      \/ \E m \in DOMAIN expanded' :
                           /\ n \in DOMAIN Needs(Chosen(m), expanded'[m])
                           /\ \/ s = Needs(Chosen(m), expanded'[m])[n]
                              \/ n \in DOMAIN Chosen(m).base /\ s = Chosen(m).base[n]
  BY <1>1, PassFacts DEF Sourced
<1>3. CASE s \in Added(n)
  <2>1. PICK m \in Outdated : /\ n \in DOMAIN Needs(Chosen(m), Asked(demands[m]))
                              /\ s = Needs(Chosen(m), Asked(demands[m]))[n]
    BY <1>3, AddedFacts
  <2>2. m \in DOMAIN expanded' /\ expanded'[m] = Asked(demands[m])
    BY PassFacts
  <2>. QED  BY <2>1, <2>2
<1>4. CASE s \in demands[n]
  <2>1. CASE n \in DOMAIN roots /\ s = roots[n]
    BY <2>1
  <2>2. ASSUME NEW m \in DOMAIN expanded, n \in DOMAIN Needs(Chosen(m), expanded[m]),
               \/ s = Needs(Chosen(m), expanded[m])[n]
               \/ n \in DOMAIN Chosen(m).base /\ s = Chosen(m).base[n]
        PROVE  /\ m \in DOMAIN expanded' /\ n \in DOMAIN Needs(Chosen(m), expanded'[m])
               /\ \/ s = Needs(Chosen(m), expanded'[m])[n]
                  \/ n \in DOMAIN Chosen(m).base /\ s = Chosen(m).base[n]
    <3>1. m \in DOMAIN expanded' /\ expanded[m] \subseteq expanded'[m]
      BY PassFacts
    <3>2. Chosen(m) \in Release
      BY ChosenFacts DEF Types
    <3>3. PICK r, f, f1 : r \in Release /\ r = Chosen(m) /\ f = expanded[m] /\ f1 = expanded'[m]
      BY <3>2
    <3>4. /\ n \in DOMAIN Needs(r, f1)
          /\ \/ Needs(r, f)[n] = Needs(r, f1)[n]
             \/ n \in DOMAIN r.base /\ n \in DOMAIN r.optional /\ Needs(r, f)[n] = r.base[n]
      BY <2>2, <3>1, <3>3, NeedsMore
    <3>. QED  BY <2>2, <3>1, <3>3, <3>4
  <2>. QED  BY <1>4, <2>1, <2>2 DEF Sourced
<1>. QED  BY <1>3, <1>4, PassFacts

LEMMA PassKept ==
  ASSUME Types, Kept, Pass, ~Conflict
  PROVE  Kept'
<1>1. roots' = roots
  BY DEF Pass, problem
<1>2. \A n \in DOMAIN roots : roots[n] \in demands'[n]
  BY RootFacts, PassFacts DEF Kept
<1>3. ASSUME NEW m \in DOMAIN expanded'
      PROVE  /\ demands'[m] # {} /\ expanded'[m] \subseteq Asked(demands'[m])
             /\ \A n \in DOMAIN Needs(Chosen(m), expanded'[m]) :
                  Needs(Chosen(m), expanded'[m])[n] \in demands'[n]
  <2>1. m \in DOMAIN selected /\ m \in Package /\ Chosen(m) \in Release
    BY PassFacts, ChosenFacts
  <2>2. demands[m] \subseteq demands'[m] /\ demands[m] \in SUBSET Requirement
    BY <2>1, PassFacts DEF Types
  <2>3. Asked(demands[m]) \subseteq Asked(demands'[m])
    BY <2>2, AskedFacts
  <2>4. CASE m \in Outdated
    <3>1. demands[m] # {} /\ expanded'[m] = Asked(demands[m])
      BY <2>4, OutdatedFacts, PassFacts
    <3>2. ASSUME NEW n \in DOMAIN Needs(Chosen(m), expanded'[m])
          PROVE  Needs(Chosen(m), expanded'[m])[n] \in demands'[n]
      <4>1. Needs(Chosen(m), expanded'[m])[n] \in Added(n)
        BY <2>4, <3>1, AddedFacts
      <4>2. n \in Package
        BY <2>1, NeedsFacts
      <4>. QED  BY <4>1, <4>2, PassFacts
    <3>. QED  BY <2>2, <2>3, <3>1, <3>2
  <2>5. CASE m \notin Outdated
    <3>1. m \in DOMAIN expanded /\ expanded'[m] = expanded[m]
      BY <2>5, PassFacts
    <3>2. /\ demands[m] # {} /\ expanded[m] \subseteq Asked(demands[m])
          /\ \A n \in DOMAIN Needs(Chosen(m), expanded[m]) :
               Needs(Chosen(m), expanded[m])[n] \in demands[n]
      BY <3>1 DEF Kept
    <3>3. \A n \in DOMAIN Needs(Chosen(m), expanded[m]) : demands[n] \subseteq demands'[n]
      BY <2>1, NeedsFacts, PassFacts
    <3>. QED  BY <2>2, <2>3, <3>1, <3>2, <3>3
  <2>. QED  BY <2>4, <2>5
<1>. QED  BY <1>1, <1>2, <1>3, PassFacts DEF Kept

LEMMA PassFits ==
  ASSUME Types, Kept, Fits, Pass, ~Conflict
  PROVE  Fits'
<1>1. problem' = problem /\ selected' = selected
  BY DEF Pass
<1>2. SUFFICES ASSUME NEW g, NEW F, Solution(g, F), Has(g, selected), NEW n \in Package,
                      NEW s \in demands'[n]
               PROVE  s \in Asks(g, F, n)
  BY <1>1, SameProblem DEF Fits
<1>3. CASE s \in demands[n]
  BY <1>2, <1>3 DEF Fits
<1>4. CASE s \in Added(n)
  <2>1. PICK m \in Outdated : /\ n \in DOMAIN Needs(Chosen(m), Asked(demands[m]))
                              /\ s = Needs(Chosen(m), Asked(demands[m]))[n]
    BY <1>4, AddedFacts
  <2>2. m \in Live
    BY OutdatedFacts
  <2>3. Asked(demands[m]) \in SUBSET F[m]
    BY <1>2, <2>2, LiveFacts
  <2>. QED  BY <1>2, <2>1, <2>2, <2>3, LiveFacts
<1>. QED  BY <1>3, <1>4, PassFacts

LEMMA PassSettled ==
  ASSUME Types, Kept, Ending, Pass, ~Conflict
  PROVE  Settled'
<1>1. answer' # "graph"
  BY DEF Pass, Ending
<1>2. SUFFICES ASSUME phase' = "choose" PROVE ~Conflict' /\ Outdated' = {}
  BY <1>1 DEF Settled
<1>3. Outdated = {}
  BY <1>2, PassFacts
<1>4. \A n \in Package : Added(n) = {}
  BY <1>3, AddedFacts
<1>5. \A n \in Package : demands'[n] = demands[n]
  BY <1>4, PassFacts
<1>6. demands' = demands
  BY <1>5, PassFacts DEF Types
<1>7. expanded' = expanded
  BY <1>3, PassFacts DEF Types
<1>8. problem' = problem /\ branch' = branch
  BY <1>6, <1>7 DEF Pass, branch
<1>. QED  BY <1>3, <1>8, SameBranch

\* What happens to the decisions and to the answers that can be reached, in a step that
\* goes on with the branch.
LEMMA SameSearch ==
  ASSUME problem' = problem, selected' = selected, untried' = untried
  PROVE  /\ Permitted' <=> Permitted
         /\ (Open <=> Open') => (InOrder' <=> InOrder)
         /\ \A g : (Open <=> Open') => (InReach(g)' <=> InReach(g))
<1>1. \A g, h : Has(g, h)' <=> Has(g, h)
  BY DEF Has
<1>2. Permitted' <=> Permitted
  BY SameProblem DEF Permitted
<1>3. ASSUME Open <=> Open' PROVE InOrder' <=> InOrder
  BY <1>3, SameProblem DEF InOrder, problem
<1>4. ASSUME NEW g, Open <=> Open' PROVE InReach(g)' <=> InReach(g)
  BY <1>4 DEF InReach, Has
<1>. QED  BY <1>2, <1>3, <1>4

\* A branch that no solution has is given up.
LEMMA GivenUp ==
  ASSUME IInv, phase \in {"expand", "choose"}, phase' = "try",
         problem' = problem, branch' = branch, untried' = untried,
         decisions' = decisions, answer' = answer,
         \A g, F : Solution(g, F) => ~Has(g, selected)
  PROVE  IInv'
<1>1. answer = "open" /\ Open /\ ~Open'
  BY DEF IInv, Ending, Open
<1>2. selected' = selected /\ demands' = demands /\ expanded' = expanded
      /\ registry' = registry /\ roots' = roots /\ locked' = locked
  BY DEF branch, problem
<1>3. Types'
  BY <1>2 DEF IInv, Types
<1>4. Permitted'
  BY <1>2, SameSearch DEF IInv
<1>5. Sourced' /\ Kept' /\ Fits'
  BY SameBranch DEF IInv
<1>6. Settled' /\ Ending'
  BY <1>1 DEF Settled, Ending
<1>7. NothingIsLost'
  <2> SUFFICES ASSUME NEW g, NEW F, Solution(g, F)
               PROVE  InReach(g)'
    BY SameProblem DEF NothingIsLost
  <2>1. InReach(g) /\ ~Has(g, selected)
    BY <1>1 DEF IInv, NothingIsLost
  <2>. QED  BY <2>1 DEF InReach, Has
<1>8. LockIsFirst'
  <2> SUFFICES ASSUME NEW g, NEW F, Solution(g, F), IsLock(g)
               PROVE  OnTheWay(g)'
    BY SameProblem DEF LockIsFirst
  <2>1. Has(g, selected)
    BY <1>1 DEF IInv, LockIsFirst, OnTheWay
  <2>. QED  BY <2>1
<1>9. InOrder'
  BY <1>1, <1>2, SameProblem DEF IInv, InOrder
<1>. QED  BY <1>3, <1>4, <1>5, <1>6, <1>7, <1>8, <1>9 DEF IInv

LEMMA PassStep ==
  ASSUME IInv, Pass
  PROVE  IInv'
<1>1. /\ problem' = problem /\ selected' = selected /\ untried' = untried
      /\ decisions' = decisions /\ answer' = answer /\ phase = "expand"
  BY DEF Pass
<1>2. Types' /\ Permitted' /\ answer = "open" /\ Open
  BY <1>1, PassTypes, SameSearch DEF IInv, Ending, Open
<1>3. CASE Conflict
  <2>1. phase' = "try" /\ branch' = branch
    BY <1>1, <1>3 DEF Pass, branch
  <2>2. \A g, F : Solution(g, F) => ~Has(g, selected)
    BY <1>3, OnTheWayFacts DEF IInv
  <2>. QED  BY <1>1, <2>1, <2>2, GivenUp
<1>4. CASE ~Conflict
  <2>1. Sourced' /\ Kept' /\ Fits' /\ Settled'
    BY <1>4, PassSourced, PassKept, PassFits, PassSettled DEF IInv
  <2>2. phase' \in {"choose", "expand"}
    BY <1>4, PassFacts DEF IInv
  <2>3. Open' /\ Ending'
    BY <1>1, <1>2, <2>2 DEF Open, Ending
  <2>4. NothingIsLost' /\ InOrder'
    BY <1>1, <1>2, <2>3, SameSearch, SameProblem DEF IInv, NothingIsLost
  <2>5. LockIsFirst'
    <3> SUFFICES ASSUME NEW g, NEW F, Solution(g, F), IsLock(g)
                 PROVE  OnTheWay(g)'
      BY <1>1, SameProblem DEF LockIsFirst
    <3>1. Has(g, selected)
      BY <1>2 DEF IInv, LockIsFirst, OnTheWay
    <3>. QED  BY <1>1, <2>2, <3>1 DEF OnTheWay, Has
  <2>. QED  BY <1>2, <2>1, <2>3, <2>4, <2>5 DEF IInv
<1>. QED  BY <1>3, <1>4

-----------------------------------------------------------------------------
(* The graph is complete, or a package is chosen.                          *)

LEMMA FoundStep ==
  ASSUME IInv, Found
  PROVE  IInv'
<1>1. /\ problem' = problem /\ branch' = branch /\ untried' = untried
      /\ decisions' = decisions /\ phase = "choose" /\ Undecided = {}
      /\ selected' = selected
  BY DEF Found, branch
<1>2. answer = "open" /\ Open
  BY <1>1 DEF IInv, Ending, Open
<1>3. CASE ~Acyclic
  <2>1. phase' = "try" /\ answer' = answer
    BY <1>3 DEF Found
  <2>2. \A g, F : Solution(g, F) => ~Has(g, selected)
    BY <1>3, OnTheWayFacts DEF IInv
  <2>. QED  BY <1>1, <2>1, <2>2, GivenUp
<1>4. CASE Acyclic
  <2>1. phase' = "end" /\ answer' = "graph" /\ Open' /\ Ending'
    BY <1>4 DEF Found, Open, Ending
  <2>2. ~Conflict /\ Outdated = {}
    BY <1>1 DEF IInv, Settled
  <2>3. Settled'
    BY <1>1, <1>4, <2>2, SameBranch DEF Settled
  <2>4. Types'
    BY <1>1, <2>1 DEF IInv, Types, problem, branch
  <2>5. Sourced' /\ Kept' /\ Fits'
    BY <1>1, SameBranch DEF IInv
  <2>6. Permitted' /\ InOrder'
    BY <1>1, <1>2, <2>1, SameSearch DEF IInv
  <2>7. NothingIsLost'
    BY <1>1, <1>2, <2>1, SameSearch, SameProblem DEF IInv, NothingIsLost
  <2>8. LockIsFirst'
    <3> SUFFICES ASSUME NEW g, NEW F, Solution(g, F), IsLock(g)
                 PROVE  OnTheWay(g)'
      BY <1>1, SameProblem DEF LockIsFirst
    <3>1. Has(g, selected)
      BY <1>2 DEF IInv, LockIsFirst, OnTheWay
    <3>. QED  BY <1>1, <2>1, <3>1 DEF OnTheWay, Has
  <2>. QED  BY <2>1, <2>3, <2>4, <2>5, <2>6, <2>7, <2>8 DEF IInv
<1>. QED  BY <1>3, <1>4

LEMMA AppendFacts ==
  ASSUME NEW X, NEW s \in Seq(X), NEW x \in X
  PROVE  /\ Append(s, x) \in Seq(X) /\ Len(s) \in Nat /\ DOMAIN s = 1 .. Len(s)
         /\ DOMAIN Append(s, x) = 1 .. Len(s) + 1
         /\ \A k \in 1 .. Len(s) : Append(s, x)[k] = s[k]
         /\ Append(s, x)[Len(s) + 1] = x /\ Append(s, x) # <<>>
         /\ Last(Append(s, x)) = x
         /\ s = <<>> => Len(s) = 0
BY DEF Last

\* The search ends in an error: what it was doing no longer matters.
LEMMA ErrorStep ==
  ASSUME IInv, phase # "end", phase' = "end", answer' = "error",
         problem' = problem, branch' = branch, untried' = untried, decisions' = decisions
  PROVE  IInv'
<1>1. selected' = selected /\ demands' = demands /\ expanded' = expanded
      /\ registry' = registry /\ roots' = roots /\ locked' = locked
  BY DEF branch, problem
<1>2. ~Open' /\ Types' /\ Settled' /\ Ending' /\ NothingIsLost'
  BY <1>1 DEF IInv, Open, Types, Settled, Ending, NothingIsLost
<1>3. Sourced' /\ Kept' /\ Fits'
  BY SameBranch DEF IInv
<1>4. Permitted'
  BY <1>1, SameSearch DEF IInv
<1>5. LockIsFirst'
  BY <1>2 DEF LockIsFirst, OnTheWay
<1>6. InOrder'
  BY <1>1, <1>2, SameProblem DEF IInv, InOrder
<1>. QED  BY <1>2, <1>3, <1>4, <1>5, <1>6 DEF IInv

\* With nothing decided, what is required is what the roots require.
LEMMA UndecidedAtRoot ==
  ASSUME Types, Sourced, Kept, DOMAIN selected = {}
  PROVE  Undecided = DOMAIN roots
<1>1. DOMAIN expanded = {}
  BY DEF Types
<1>2. \A n \in Package : demands[n] # {} <=> n \in DOMAIN roots
  BY <1>1 DEF Sourced, Kept
<1>3. DOMAIN roots \subseteq Package
  BY RootFacts
<1>. QED  BY <1>2, <1>3 DEF Undecided

LEMMA ChooseStep ==
  ASSUME NumbersAssumption, IInv, Choose
  PROVE  IInv'
<1>1. /\ problem' = problem /\ branch' = branch /\ decisions' = decisions
      /\ phase = "choose" /\ Undecided # {} /\ selected' = selected
      /\ demands' = demands /\ expanded' = expanded
      /\ registry' = registry /\ roots' = roots /\ locked' = locked
  BY DEF Choose, branch, problem
<1>2. answer = "open" /\ Open
  BY <1>1 DEF IInv, Ending, Open
<1>3. PICK n : n = Min(Undecided)
  OBVIOUS
<1>4. n \in Undecided /\ n \in Package /\ n \notin DOMAIN selected
  <2>1. Undecided \in SUBSET Nat /\ Undecided \subseteq Package
    BY DEF Undecided, NumbersAssumption
  <2>2. n \in Undecided
    BY <1>1, <1>3, <2>1, MinFacts
  <2>. QED  BY <2>1, <2>2 DEF Undecided
<1>5. CASE phase' = "end" /\ answer' = "error" /\ untried' = untried
  BY <1>1, <1>5, ErrorStep
<1>6. ASSUME phase' = "try", answer' = answer,
             untried' = Append(untried, [name |-> n, left |-> Able(n), above |-> selected])
      PROVE  IInv'
  <2>1. PICK d : d = [name |-> n, left |-> Able(n), above |-> selected]
    OBVIOUS
  <2>2. d \in Decision /\ d.name = n /\ d.left = Able(n) /\ d.above = selected
    BY <1>4, <2>1 DEF Decision, IInv, Types, Able
  <2>3. PICK k \in Nat : k = Len(untried) /\ DOMAIN untried = 1 .. k
    <3>1. untried \in Seq(Decision)
      BY DEF IInv, Types
    <3>. QED  BY ONLY <3>1
  <2>4. /\ untried' \in Seq(Decision) /\ DOMAIN untried' = 1 .. k + 1 /\ untried' # <<>>
        /\ (\A i \in 1 .. k : untried'[i] = untried[i]) /\ untried'[k + 1] = d
        /\ Last(untried') = d
    BY <1>6, <2>1, <2>2, <2>3, AppendFacts DEF IInv, Types
  <2>5. ~Open' /\ Settled' /\ Ending'
    BY <1>2, <1>6 DEF Open, Settled, Ending
  <2>6. Types'
    BY <1>1, <1>2, <1>6, <2>4 DEF IInv, Types
  <2>7. Sourced' /\ Kept' /\ Fits'
    BY <1>1, SameBranch DEF IInv
  <2>8. Permitted'
    <3>1. \A v \in Able(n) : Allowed(n, v)
      BY DEF Able
    <3>2. ASSUME NEW i \in 1 .. k + 1
          PROVE  /\ \A m \in DOMAIN untried'[i].above : Allowed(m, untried'[i].above[m])
                 /\ \A v \in untried'[i].left : Allowed(untried'[i].name, v)
      <4>1. CASE i \in 1 .. k
        BY <2>3, <2>4, <4>1 DEF IInv, Permitted
      <4>2. CASE i = k + 1
        BY <2>2, <2>4, <3>1, <4>2 DEF IInv, Permitted
      <4>. QED  BY <2>3, <4>1, <4>2
    <3>3. \A m \in DOMAIN selected : Allowed(m, selected[m])
      BY DEF IInv, Permitted
    <3>. QED  BY <1>1, <2>4, <3>2, <3>3, SameProblem DEF Permitted
  <2>9. ASSUME NEW g, NEW F, Solution(g, F), Has(g, selected)
        PROVE  d.name \in DOMAIN g /\ g[d.name] \in d.left /\ Has(g, d.above)
    BY <1>4, <2>2, <2>9, OnTheWayFacts DEF IInv
  <2>10. NothingIsLost'
    <3> SUFFICES ASSUME NEW g, NEW F, Solution(g, F)
                 PROVE  \E i \in 1 .. k + 1 :
                          /\ untried'[i].name \in DOMAIN g
                          /\ g[untried'[i].name] \in untried'[i].left
                          /\ Has(g, untried'[i].above)
      BY <1>1, <2>4, SameProblem DEF NothingIsLost, InReach, Has
    <3>1. CASE Has(g, selected)
      BY <2>4, <2>9, <3>1
    <3>2. CASE ~Has(g, selected)
      <4>1. \E i \in 1 .. k : /\ untried[i].name \in DOMAIN g
                              /\ g[untried[i].name] \in untried[i].left
                              /\ Has(g, untried[i].above)
        BY <1>2, <2>3, <3>2 DEF IInv, NothingIsLost, InReach
      <4>. QED  BY <2>4, <4>1
    <3>. QED  BY <3>1, <3>2
  <2>11. LockIsFirst'
    <3> SUFFICES ASSUME NEW g, NEW F, Solution(g, F), IsLock(g)
                 PROVE  OnTheWay(g)'
      BY <1>1, SameProblem DEF LockIsFirst
    <3>1. Has(g, selected)
      BY <1>2 DEF IInv, LockIsFirst, OnTheWay
    <3>. QED  BY <2>4, <2>5, <2>9, <3>1 DEF OnTheWay, Has
  <2>12. InOrder'
    <3>1. \A i \in 1 .. k : Took(selected, untried[i])
      BY <1>2, <2>3 DEF IInv, InOrder
    <3>2. ASSUME NEW i \in 1 .. k + 1, NEW j \in 1 .. k + 1, i < j
          PROVE  Took(untried'[j].above, untried'[i])
      <4>1. i \in 1 .. k /\ untried'[i] = untried[i]
        BY <2>4, <3>2
      <4>2. CASE j \in 1 .. k
        BY <2>3, <2>4, <3>2, <4>1, <4>2 DEF IInv, InOrder
      <4>3. CASE j = k + 1
        BY <2>2, <2>4, <3>1, <4>1, <4>3
      <4>. QED  BY <4>2, <4>3
    <3>3. ASSUME NEW i \in 1 .. k + 1
          PROVE  untried'[i].name \notin DOMAIN untried'[i].above
      <4>1. CASE i \in 1 .. k
        BY <2>3, <2>4, <4>1 DEF IInv, InOrder
      <4>2. CASE i = k + 1
        BY <1>4, <2>2, <2>4, <4>2
      <4>. QED  BY <4>1, <4>2
    <3>4. ASSUME DOMAIN roots # {}
          PROVE  untried'[1].name = Min(DOMAIN roots) /\ DOMAIN untried'[1].above = {}
      <4>1. CASE k = 0
        <5>1. untried = <<>> /\ DOMAIN selected = {}
          BY <1>2, <2>3, <4>1 DEF IInv, InOrder, Types
        <5>2. Undecided = DOMAIN roots
          BY <5>1, UndecidedAtRoot DEF IInv
        <5>. QED  BY <1>3, <2>2, <2>4, <4>1, <5>1, <5>2
      <4>2. CASE k # 0
        <5>1. untried # <<>> /\ 1 \in 1 .. k
          BY <2>3, <4>2
        <5>. QED  BY <2>4, <3>4, <5>1 DEF IInv, InOrder
      <4>. QED  BY <4>1, <4>2
    <3>. QED  BY <1>1, <2>4, <2>5, <3>2, <3>3, <3>4, SameProblem DEF InOrder
  <2>. QED  BY <2>5, <2>6, <2>7, <2>8, <2>10, <2>11, <2>12 DEF IInv
<1>. QED  BY <1>3, <1>5, <1>6 DEF Choose

-----------------------------------------------------------------------------
(* The next version of the last decision.                                  *)

LEMMA LastFacts ==
  ASSUME NEW X, NEW s \in Seq(X), s # <<>>, NEW k, k = Len(s)
  PROVE  /\ k \in Nat /\ k > 0 /\ DOMAIN s = 1 .. k /\ Last(s) = s[k] /\ s[k] \in X
         /\ Front(s) \in Seq(X) /\ DOMAIN Front(s) = 1 .. k - 1 /\ Len(Front(s)) = k - 1
         /\ \A i \in 1 .. k - 1 : Front(s)[i] = s[i]
BY DEF Last, Front

\* No version is left of the last decision: it is forgotten.
LEMMA PopStep ==
  ASSUME IInv, phase = "try", untried # <<>>, Last(untried).left = {}, untried' = Front(untried),
         problem' = problem, branch' = branch, decisions' = decisions, phase' = phase,
         answer' = answer
  PROVE  IInv'
<1>1. /\ selected' = selected /\ demands' = demands /\ expanded' = expanded
      /\ registry' = registry /\ roots' = roots /\ locked' = locked
  BY DEF branch, problem
<1>2. answer = "open" /\ ~Open /\ ~Open'
  BY DEF IInv, Ending, Open
<1>3. PICK k \in Nat : k = Len(untried)
  BY DEF IInv, Types
<1>4. /\ k > 0 /\ DOMAIN untried = 1 .. k /\ Last(untried) = untried[k]
      /\ untried' \in Seq(Decision) /\ DOMAIN untried' = 1 .. k - 1
      /\ \A i \in 1 .. k - 1 : untried'[i] = untried[i]
  BY <1>3, LastFacts DEF IInv, Types
<1>5. Types' /\ Settled' /\ Ending'
  BY <1>1, <1>2, <1>4 DEF IInv, Types, Settled, Ending
<1>6. Sourced' /\ Kept' /\ Fits'
  BY SameBranch DEF IInv
<1>7. Permitted'
  BY <1>1, <1>3, <1>4, SameProblem DEF IInv, Permitted
<1>8. NothingIsLost'
  <2> SUFFICES ASSUME NEW g, NEW F, Solution(g, F)
               PROVE  \E i \in 1 .. k - 1 : /\ untried'[i].name \in DOMAIN g
                                            /\ g[untried'[i].name] \in untried'[i].left
                                            /\ Has(g, untried'[i].above)
    BY <1>1, <1>4, SameProblem DEF NothingIsLost, InReach, Has
  <2>1. PICK i \in 1 .. k : /\ untried[i].name \in DOMAIN g
                            /\ g[untried[i].name] \in untried[i].left
                            /\ Has(g, untried[i].above)
    BY <1>2, <1>4 DEF IInv, NothingIsLost, InReach
  <2>2. i # k
    BY <1>4, <2>1
  <2>3. i \in 1 .. k - 1
    BY <1>3, <2>2
  <2>. QED  BY <1>4, <2>1, <2>3
<1>9. LockIsFirst'
  BY SameProblem DEF IInv, LockIsFirst, OnTheWay
<1>10. InOrder'
  <2>1. \A i \in 1 .. k - 1 : i \in 1 .. k
    BY <1>3
  <2>2. untried' # <<>> => 1 \in 1 .. k - 1
    BY <1>3, <1>4
  <2>. QED  BY <1>1, <1>2, <1>4, <2>1, <2>2, SameProblem DEF IInv, InOrder
<1>. QED  BY <1>5, <1>6, <1>7, <1>8, <1>9, <1>10 DEF IInv

\* The first of the versions left of d is tried.
Begins(d) ==
  /\ decisions < MaxDecisions /\ decisions' = decisions + 1
  /\ untried' = Append(Front(untried), [d EXCEPT !.left = Rest(d)])
  /\ Restart([n \in DOMAIN d.above \cup {d.name} |->
                 IF n = d.name THEN First(n, d.left) ELSE d.above[n]])

\* A branch begins with the next version, and with what the roots require.
LEMMA BeginStep ==
  ASSUME NumbersAssumption, IInv, phase = "try", untried # <<>>,
         NEW d, d = Last(untried), d.left # {}, Begins(d),
         phase' = "expand", answer' = answer, problem' = problem
  PROVE  IInv'
<1>1. registry' = registry /\ roots' = roots /\ locked' = locked
  BY DEF problem
<1>2. answer = "open" /\ ~Open /\ Open' /\ Settled' /\ Ending'
  BY DEF IInv, Ending, Open, Settled
<1>3. PICK k \in Nat : k = Len(untried)
  BY DEF IInv, Types
<1>4. /\ k > 0 /\ DOMAIN untried = 1 .. k /\ d = untried[k] /\ d \in Decision
      /\ Front(untried) \in Seq(Decision) /\ Len(Front(untried)) = k - 1
      /\ DOMAIN Front(untried) = 1 .. k - 1
      /\ \A i \in 1 .. k - 1 : Front(untried)[i] = untried[i]
  <2>1. untried \in Seq(Decision)
    BY DEF IInv, Types
  <2>. QED  BY <1>3, <2>1, LastFacts
<1>5. PICK v : v = First(d.name, d.left)
  OBVIOUS
<1>6. /\ d.name \in Package /\ d.left \in SUBSET Version /\ d.above \in Partial(Package, Version)
      /\ d.left # {}
  BY <1>4 DEF Decision
<1>7. v \in d.left /\ v \in Version /\ \A w \in d.left \ {v} : Before(d.name, v, w)
  BY <1>5, <1>6, FirstFacts
<1>8. PICK e : e = [d EXCEPT !.left = Rest(d)]
  OBVIOUS
<1>9. e \in Decision /\ e.name = d.name /\ e.above = d.above /\ e.left = d.left \ {v}
  BY <1>4, <1>5, <1>8 DEF Decision, Rest
<1>10. /\ untried' \in Seq(Decision) /\ DOMAIN untried' = 1 .. k /\ untried' # <<>>
       /\ (\A i \in 1 .. k - 1 : untried'[i] = untried[i]) /\ untried'[k] = e
  <2>1. untried' = Append(Front(untried), e)
    BY <1>8 DEF Begins
  <2>2. /\ untried' \in Seq(Decision) /\ DOMAIN untried' = 1 .. (k - 1) + 1 /\ untried' # <<>>
        /\ (\A i \in 1 .. k - 1 : untried'[i] = Front(untried)[i]) /\ untried'[(k - 1) + 1] = e
    BY <1>4, <1>9, <2>1, AppendFacts
  <2>3. (k - 1) + 1 = k
    BY <1>3
  <2>. QED  BY <1>4, <2>2, <2>3
<1>11. d.name \notin DOMAIN d.above
  BY <1>3, <1>4 DEF IInv, InOrder
<1>12. /\ DOMAIN selected' = DOMAIN d.above \cup {d.name} /\ selected'[d.name] = v
       /\ \A n \in DOMAIN d.above : selected'[n] = d.above[n]
  BY <1>5, <1>11 DEF Begins, Restart
<1>13. selected' \in Partial(Package, Version)
  <2>1. d.above \in [DOMAIN d.above -> Version] /\ DOMAIN d.above \subseteq Package
    BY <1>6, PartialFacts
  <2>2. selected' \in [DOMAIN d.above \cup {d.name} -> Version]
    BY <1>5, <1>7, <2>1 DEF Begins, Restart
  <2>. QED  BY <1>6, <1>12, <2>1, <2>2, PartialFacts
<1>14. /\ demands' = [n \in Package |-> IF n \in DOMAIN roots THEN {roots[n]} ELSE {}]
       /\ DOMAIN expanded' = {} /\ expanded' \in [{} -> SUBSET Feature]
  BY DEF Begins, Restart, FromRoots
<1>15. Types'
  <2>1. demands' \in [Package -> SUBSET Requirement]
    BY <1>14, RootFacts DEF IInv
  <2>2. decisions' \in 1 .. MaxDecisions
    BY DEF Begins, IInv, Types, NumbersAssumption
  <2>. QED  BY <1>1, <1>10, <1>13, <1>14, <2>1, <2>2 DEF IInv, Types
<1>16. Sourced' /\ Kept'
  BY <1>1, <1>14, RootFacts DEF Sourced, Kept, IInv
<1>17. Fits'
  BY <1>14, AsksCases, SameProblem DEF Fits
<1>18. Permitted'
  <2>1. /\ \A n \in DOMAIN d.above : Allowed(n, d.above[n])
        /\ \A w \in d.left : Allowed(d.name, w)
    BY <1>3, <1>4 DEF IInv, Permitted
  <2>2. \A n \in DOMAIN selected' : Allowed(n, selected'[n])
    BY <1>7, <1>12, <2>1
  <2>3. ASSUME NEW i \in 1 .. k
        PROVE  /\ \A m \in DOMAIN untried'[i].above : Allowed(m, untried'[i].above[m])
               /\ \A w \in untried'[i].left : Allowed(untried'[i].name, w)
    <3>1. CASE i \in 1 .. k - 1
      BY <1>4, <1>10, <3>1 DEF IInv, Permitted
    <3>2. CASE i = k
      BY <1>9, <1>10, <2>1, <3>2
    <3>. QED  BY <1>3, <3>1, <3>2
  <2>. QED  BY <1>10, <2>2, <2>3, SameProblem DEF Permitted
<1>19. ASSUME NEW g, Has(g, d.above), d.name \in DOMAIN g, g[d.name] = v
       PROVE  Has(g, selected')
  BY <1>12, <1>19 DEF Has
<1>20. NothingIsLost'
  <2> SUFFICES ASSUME NEW g, NEW F, Solution(g, F)
               PROVE  \/ Has(g, selected')
                      \/ \E i \in 1 .. k : /\ untried'[i].name \in DOMAIN g
                                           /\ g[untried'[i].name] \in untried'[i].left
                                           /\ Has(g, untried'[i].above)
    BY <1>2, <1>10, SameProblem DEF NothingIsLost, InReach, Has
  <2>1. PICK i \in 1 .. k : /\ untried[i].name \in DOMAIN g
                            /\ g[untried[i].name] \in untried[i].left
                            /\ Has(g, untried[i].above)
    BY <1>2, <1>4 DEF IInv, NothingIsLost, InReach
  <2>2. CASE i \in 1 .. k - 1
    BY <1>10, <2>1, <2>2
  <2>3. CASE i = k
    <3>1. d.name \in DOMAIN g /\ g[d.name] \in d.left /\ Has(g, d.above)
      BY <1>4, <2>1, <2>3
    <3>2. CASE g[d.name] = v
      BY <1>19, <3>1, <3>2
    <3>3. CASE g[d.name] # v
      BY <1>9, <1>10, <2>3, <3>1, <3>3
    <3>. QED  BY <3>2, <3>3
  <2>. QED  BY <1>3, <2>2, <2>3
<1>21. LockIsFirst'
  <2> SUFFICES ASSUME NEW g, NEW F, Solution(g, F), IsLock(g)
               PROVE  OnTheWay(g)'
    BY SameProblem DEF LockIsFirst
  <2>1. d.name \in DOMAIN g /\ g[d.name] \in d.left /\ Has(g, d.above)
    BY DEF IInv, LockIsFirst, OnTheWay
  <2>2. IsLocked(d.name, g[d.name])
    BY <2>1 DEF IsLock, IsLocked
  <2>3. g[d.name] = v
    <3>1. PICK w \in d.left : w = g[d.name]
      BY <2>1
    <3>2. IsLocked(d.name, w)
      BY <2>2, <3>1
    <3>3. First(d.name, d.left) = w
      BY <1>6, <3>2, FirstIsLocked
    <3>. QED  BY <1>5, <3>1, <3>3
  <2>4. Has(g, selected')
    BY <1>19, <2>1, <2>3
  <2>. QED  BY <2>4 DEF OnTheWay, Has
<1>22. InOrder'
  <2>1. ASSUME NEW i \in 1 .. k
        PROVE  /\ untried'[i].name = untried[i].name /\ untried'[i].above = untried[i].above
               /\ untried'[i].left \subseteq untried[i].left
    <3>1. CASE i \in 1 .. k - 1
      BY <1>10, <3>1
    <3>2. CASE i = k
      BY <1>4, <1>9, <1>10, <3>2
    <3>. QED  BY <1>3, <3>1, <3>2
  <2>2. ASSUME NEW i \in 1 .. k, NEW j \in 1 .. k, i < j
        PROVE  Took(untried'[j].above, untried'[i])
    <3>1. Took(untried[j].above, untried[i])
      BY <1>4, <2>2 DEF IInv, InOrder
    <3>. QED  BY <2>1, <3>1 DEF Took
  <2>3. ASSUME NEW i \in 1 .. k
        PROVE  Took(selected', untried'[i])
    <3>1. CASE i \in 1 .. k - 1
      <4>1. i < k /\ k \in 1 .. k
        BY <1>3, <3>1
      <4>2. Took(d.above, untried[i])
        BY <1>4, <4>1 DEF IInv, InOrder
      <4>3. Took(selected', untried[i])
        BY <1>12, <4>2 DEF Took, Has
      <4>. QED  BY <1>10, <3>1, <4>3
    <3>2. CASE i = k
      <4>1. Took(selected', e)
        BY <1>7, <1>9, <1>12 DEF Took, Has
      <4>. QED  BY <1>10, <3>2, <4>1
    <3>. QED  BY <1>3, <3>1, <3>2
  <2>4. 1 \in 1 .. k
    BY <1>3, <1>4
  <2>5. ASSUME DOMAIN roots # {}
        PROVE  untried'[1].name = Min(DOMAIN roots) /\ DOMAIN untried'[1].above = {}
    BY <2>1, <2>4, <2>5 DEF IInv, InOrder
  <2>6. ASSUME NEW i \in 1 .. k PROVE untried'[i].name \notin DOMAIN untried'[i].above
    BY <1>4, <2>1 DEF IInv, InOrder
  <2>7. \A h, x : Took(h, x)' <=> Took(h, x)
    BY SameProblem
  <2>. QED  BY <1>1, <1>10, <2>2, <2>3, <2>5, <2>6, <2>7 DEF InOrder
<1>. QED  BY <1>2, <1>15, <1>16, <1>17, <1>18, <1>20, <1>21, <1>22 DEF IInv

LEMMA TryStep ==
  ASSUME NumbersAssumption, IInv, Try
  PROVE  IInv'
<1>1. problem' = problem /\ phase = "try"
  BY DEF Try
<1>2. CASE untried = <<>>
  <2>1. /\ phase' = "end" /\ answer' = "none" /\ branch' = branch /\ untried' = untried
        /\ decisions' = decisions /\ selected' = selected /\ demands' = demands
        /\ expanded' = expanded /\ registry' = registry /\ roots' = roots /\ locked' = locked
    BY <1>1, <1>2 DEF Try, branch, problem
  <2>2. ~Open /\ ~Open' /\ answer = "open" /\ Settled' /\ Ending' /\ Types'
    BY <1>1, <1>2, <2>1 DEF IInv, Ending, Open, Settled, Types
  <2>3. Sourced' /\ Kept' /\ Fits'
    BY <1>1, <2>1, SameBranch DEF IInv
  <2>4. Permitted' /\ InOrder'
    BY <1>1, <2>1, <2>2, SameSearch DEF IInv
  <2>5. \A g : InReach(g)' <=> InReach(g)
    BY <1>1, <2>1, <2>2, SameSearch
  <2>6. NothingIsLost'
    BY <1>1, <2>2, <2>5, SameProblem DEF IInv, NothingIsLost
  <2>7. LockIsFirst'
    BY <2>1, <2>2 DEF LockIsFirst, OnTheWay
  <2>. QED  BY <2>2, <2>3, <2>4, <2>6, <2>7 DEF IInv
<1>3. CASE untried # <<>>
  <2>1. PICK d : d = Last(untried)
    OBVIOUS
  <2>2. CASE d.left = {}
    BY <1>1, <1>3, <2>1, <2>2, PopStep DEF Try
  <2>3. CASE d.left # {}
    <3>1. CASE phase' = "end" /\ answer' = "error" /\ UNCHANGED <<branch, untried, decisions>>
      BY <1>1, <3>1, ErrorStep
    <3>2. CASE /\ decisions < MaxDecisions /\ decisions' = decisions + 1
               /\ untried' = Append(Front(untried), [d EXCEPT !.left = Rest(d)])
               /\ Restart([n \in DOMAIN d.above \cup {d.name} |->
                             IF n = d.name THEN First(n, d.left) ELSE d.above[n]])
               /\ phase' = "expand" /\ answer' = answer
      BY <1>1, <1>3, <2>1, <2>3, <3>2, BeginStep DEF Begins
    <3>. QED  BY <1>3, <2>1, <2>3, <3>1, <3>2 DEF Try
  <2>. QED  BY <2>2, <2>3
<1>. QED  BY <1>2, <1>3

-----------------------------------------------------------------------------
(* The theorems.                                                           *)

LEMMA InitIInv ==
  ASSUME NumbersAssumption, ProblemAssumption, Init
  PROVE  IInv
<1>1. /\ DOMAIN selected = {} /\ selected \in [{} -> Version]
      /\ DOMAIN expanded = {} /\ expanded \in [{} -> SUBSET Feature]
      /\ demands = [n \in Package |-> IF n \in DOMAIN roots THEN {roots[n]} ELSE {}]
      /\ untried = <<>> /\ decisions = 1 /\ phase = "expand" /\ answer = "open"
  BY DEF Init, FromRoots
<1>2. /\ registry \in [Package \X Version -> Release] /\ roots \in Dependencies
      /\ locked \in Partial(Package, LockedPackage)
  BY DEF Init, ProblemAssumption
<1>3. \A n \in DOMAIN roots : n \in Package /\ roots[n] \in Requirement
  BY <1>2, PartialFacts DEF Dependencies
<1>4. selected \in Partial(Package, Version)
  BY <1>1, PartialFacts
<1>5. demands \in [Package -> SUBSET Requirement]
  BY <1>1, <1>3
<1>6. DOMAIN untried = {} /\ untried \in Seq(Decision)
  BY <1>1
<1>7. Types
  BY <1>1, <1>2, <1>4, <1>5, <1>6 DEF Types, NumbersAssumption
<1>8. Sourced /\ Kept
  BY <1>1, <1>3 DEF Sourced, Kept
<1>9. Settled /\ Permitted /\ Ending
  BY <1>1, <1>6 DEF Settled, Permitted, Ending
<1>10. Fits
  BY <1>1, AsksCases DEF Fits
<1>11. Open /\ \A g : Has(g, selected)
  BY <1>1 DEF Open, Has
<1>12. NothingIsLost /\ LockIsFirst
  BY <1>1, <1>11 DEF NothingIsLost, InReach, LockIsFirst, OnTheWay
<1>13. InOrder
  BY <1>1, <1>6 DEF InOrder
<1>. QED  BY <1>7, <1>8, <1>9, <1>10, <1>12, <1>13 DEF IInv

LEMMA IInvKept ==
  ASSUME NumbersAssumption, IInv, [Next]_vars
  PROVE  IInv'
<1>1. CASE UNCHANGED vars
  <2>1. /\ problem' = problem /\ branch' = branch /\ selected' = selected /\ untried' = untried
        /\ decisions' = decisions /\ phase' = phase /\ answer' = answer
        /\ registry' = registry /\ roots' = roots /\ locked' = locked
        /\ demands' = demands /\ expanded' = expanded
    BY <1>1 DEF vars, branch, problem
  <2>2. (Open <=> Open') /\ Types' /\ Ending'
    BY <2>1 DEF IInv, Open, Types, Ending
  <2>3. Sourced' /\ Kept' /\ Fits'
    BY <2>1, SameBranch DEF IInv
  <2>4. Settled'
    BY <2>1, SameBranch DEF IInv, Settled
  <2>5. Permitted' /\ InOrder'
    BY <2>1, <2>2, SameSearch DEF IInv
  <2>6. NothingIsLost'
    BY <2>1, <2>2, SameSearch, SameProblem DEF IInv, NothingIsLost
  <2>7. LockIsFirst'
    BY <2>1, <2>2, SameProblem DEF IInv, LockIsFirst, OnTheWay, Has
  <2>. QED  BY <2>2, <2>3, <2>4, <2>5, <2>6, <2>7 DEF IInv
<1>. QED  BY <1>1, PassStep, FoundStep, ChooseStep, TryStep DEF Next

\* Every variable has its type, and the requirements of a branch come from the roots and
\* from the releases of that branch alone: nothing of a rejected version survives.  (search)
THEOREM Typed == Spec => []TypeOK
<1>1. IInv => TypeOK
  <2> SUFFICES ASSUME IInv PROVE TypeOK
    OBVIOUS
  <2>1. DOMAIN selected \subseteq Package /\ \A n \in DOMAIN selected : selected[n] \in Version
    BY ChosenFacts DEF IInv
  <2>. QED  BY <2>1 DEF IInv, Types, Sourced, Decision, TypeOK
<1>. QED  BY <1>1, InitIInv, IInvKept, NumbersAssumption, ProblemAssumption, PTL DEF Spec

\* The graph that is returned answers the problem: all that the roots and the members of
\* it require is met, with the features that are asked for and no others.  (resolve_all)
THEOREM BranchesAreSound == Spec => []BranchIsSound
<1>1. IInv => GraphSolves
  BY AnswerSolves DEF IInv
<1>. QED  BY <1>1, Typed, InitIInv, IInvKept, NumbersAssumption, ProblemAssumption, PTL DEF Spec, BranchIsSound

\* The search says that there is no compatible graph only when there is none.  (resolve_all)
THEOREM SearchIsComplete == Spec => []NoneIsNone
<1>1. IInv => NoneIsNone
  BY NothingFound DEF IInv
<1>. QED  BY <1>1, InitIInv, IInvKept, NumbersAssumption, ProblemAssumption, PTL DEF Spec

\* Of several answers the search returns the one that dal.lock holds, if it is one, and
\* otherwise one with the newest version of the first package required.  (search)
THEOREM PreferredIsFound == Spec => []AnswerIsPreferred
<1>1. NumbersAssumption /\ IInv => AnswerIsPreferred
  BY LockKept, NewestFirst DEF IInv, AnswerIsPreferred
<1>. QED  BY <1>1, InitIInv, IInvKept, NumbersAssumption, ProblemAssumption, PTL DEF Spec
==============================================================================
