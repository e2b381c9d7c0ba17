----------------------------- MODULE ImportGraph -----------------------------
(***************************************************************************)
(* How the files that a program imports are loaded, ordered, checked and   *)
(* made visible (fidan-driver/src/import_graph.rs, load_imported_hirs):    *)
(* a work list that reads every file once, an iterative depth-first walk   *)
(* that puts dependencies first and finds cycles, and for each file in     *)
(* that order a second work list, visible_modules, that follows re-exports *)
(* with the set of names each of them lets through.                        *)
(*                                                                         *)
(* The program is part of the initial state.  The two work lists are sets  *)
(* here: nothing depends on the order in which they are served.            *)
(***************************************************************************)
EXTENDS Naturals, SequencesExt

CONSTANTS
  Module,     \* the importable files
  Entry,      \* the file that is compiled
  Name,       \* the names that files export
  Programs    \* the programs that are tried

Node == Module \cup {Entry}

\* A mask of names: the empty one lets all through.  An import that is not flat
\* brings in a namespace only.  (ResolvedImport)
Import == [to : Node, exported : BOOLEAN, flat : BOOLEAN, names : SUBSET Name]

ASSUME EntryIsNoModule == Entry \notin Module

Program == [imports : [Node -> Seq(Import)],
            readable : SUBSET Module,   \* can be read
            parses : SUBSET Module,     \* without an error of syntax
            sound : SUBSET Module]      \* without an error of its own types

ASSUME ProgramsAssumption == Programs \subseteq Program
ASSUME NamesAssumption == Name # {}

VARIABLES
  prog,      \* the program
  phase,     \* "load", "order", "check", "walk", "done"
  queue,     \* files still to load
  seen,      \* files taken from the queue
  loaded,    \* files in the graph
  errors,    \* kinds of diagnostics: "unreadable", "entry", "cycle"
  stack,     \* frames of the depth-first walk, the top last
  visiting, visited,
  order,     \* the files whose frames are left, in that order
  todo,      \* what of `order` is still to check
  checked,   \* files whose types are known
  pending,   \* visible_modules: <<file, mask>> still to follow
  shown,     \* visible_modules: files with visible names
  mask       \* visible_modules: which names

loading == <<queue, seen, loaded>>
walking == <<stack, visiting, visited, order>>
showing == <<pending, shown, mask>>
vars == <<prog, phase, loading, errors, walking, todo, checked, showing>>

Imports(m) == prog.imports[m]
ImportsOf(m) == {Imports(m)[i] : i \in DOMAIN Imports(m)}

-----------------------------------------------------------------------------
Init ==
  /\ prog \in Programs
  /\ phase = "load"
  /\ queue = {i.to : i \in ImportsOf(Entry)}
  /\ seen = {} /\ loaded = {} /\ errors = {}
  /\ stack = <<>> /\ visiting = {} /\ visited = {} /\ order = <<>>
  /\ todo = <<>> /\ checked = {}
  /\ pending = {} /\ shown = {} /\ mask = [m \in Node |-> {}]

\* One file of the queue: known, the entry, unreadable, or new in the graph.
Load(m) ==
  /\ phase = "load" /\ m \in queue
  /\ seen' = seen \cup {m}
  /\ IF m \in seen THEN queue' = queue \ {m} /\ UNCHANGED <<loaded, errors>>
     ELSE IF m = Entry
     THEN queue' = queue \ {m} /\ errors' = errors \cup {"entry"} /\ UNCHANGED loaded
     ELSE IF m \notin prog.readable
     THEN queue' = queue \ {m} /\ errors' = errors \cup {"unreadable"} /\ UNCHANGED loaded
     ELSE /\ loaded' = loaded \cup {m}
          /\ queue' = (queue \ {m}) \cup {i.to : i \in ImportsOf(m)}
          /\ UNCHANGED errors
  /\ UNCHANGED <<prog, phase, walking, todo, checked, showing>>

-----------------------------------------------------------------------------
(* The depth-first walk.                                                   *)

Frame(m, leaving) == [at |-> m, leaving |-> leaving]

\* The imports of m, the first one on top.
Frames(m) == Reverse([i \in DOMAIN Imports(m) |-> Frame(Imports(m)[i].to, FALSE)])

Loaded ==
  /\ phase = "load" /\ queue = {}
  /\ phase' = "order"
  /\ stack' = Frames(Entry)
  /\ UNCHANGED <<prog, loading, errors, visiting, visited, order, todo, checked, showing>>

\* Mutant: a file that is being visited is passed over.
SkippedVisiting(f) ==
  f.at \in visited \/ f.at \notin loaded \/ (~f.leaving /\ f.at \in visiting)

Skipped(f) == f.at \in visited \/ f.at \notin loaded

Opened(m) == <<Frame(m, TRUE)>> \o Frames(m)

Visit ==
  /\ phase = "order" /\ stack # <<>>
  /\ LET f == Last(stack)
         below == Front(stack)
     IN IF Skipped(f)
        THEN stack' = below /\ UNCHANGED <<visiting, visited, order, errors>>
        ELSE IF f.leaving
        THEN /\ stack' = below
             /\ visiting' = visiting \ {f.at} /\ visited' = visited \cup {f.at}
             /\ order' = Append(order, f.at)
             /\ UNCHANGED errors
        ELSE IF f.at \notin visiting
        THEN /\ stack' = below \o Opened(f.at)
             /\ visiting' = visiting \cup {f.at}
             /\ UNCHANGED <<visited, order, errors>>
        ELSE /\ stack' = below
             /\ errors' = errors \cup {"cycle"}
             /\ UNCHANGED <<visiting, visited, order>>
  /\ UNCHANGED <<prog, phase, loading, todo, checked, showing>>

\* Mutant: importing files first.
ConsumersFirst == Reverse(order)

Checklist == order

Ordered ==
  /\ phase = "order" /\ stack = <<>>
  /\ phase' = "check"
  /\ todo' = Checklist
  /\ UNCHANGED <<prog, loading, errors, walking, checked, showing>>

-----------------------------------------------------------------------------
(* visible_modules, for the file at hand; after the last one, for the entry. *)

Owner == IF todo = <<>> THEN Entry ELSE Head(todo)

\* A file that did not parse is passed over; for another, the walk begins.
Begin ==
  /\ phase = "check"
  /\ IF Owner # Entry /\ Owner \notin prog.parses
     THEN todo' = Tail(todo) /\ UNCHANGED <<phase, showing>>
     ELSE /\ phase' = "walk"
          /\ pending' = {<<i.to, i.names>> : i \in {j \in ImportsOf(Owner) : j.flat}}
          /\ shown' = {} /\ mask' = [m \in Node |-> {}]
          /\ UNCHANGED todo
  /\ UNCHANGED <<prog, loading, errors, walking, checked>>

\* Mutant: the names a file was reached with first.
FirstMask(m, names) == IF m \notin shown THEN names ELSE mask[m]

\* What is visible of m when it is reached with these names (again).
Merged(m, names) ==
  IF m \notin shown THEN names
  ELSE IF mask[m] = {} \/ names = {} THEN {}
  ELSE mask[m] \cup names

\* Mutant: every visit goes on to the re-exports.
AnyVisit(m, names) == TRUE

Changes(m, names) == m \notin shown \/ Merged(m, names) # mask[m]

\* Masks intersect along re-exports; with nothing in common nothing passes.
Narrowed(k, names) == IF k = {} THEN names ELSE IF names = {} THEN k ELSE k \cap names
Passes(k, i) == i.exported /\ i.flat /\ (Narrowed(k, i.names) # {} \/ (k = {} /\ i.names = {}))

Reexports(m, k) ==
  IF m \in loaded THEN {<<i.to, Narrowed(k, i.names)>> : i \in {j \in ImportsOf(m) : Passes(k, j)}}
  ELSE {}

Walk(w) ==
  /\ phase = "walk" /\ w \in pending
  /\ IF Changes(w[1], w[2])
     THEN /\ shown' = shown \cup {w[1]}
          /\ mask' = [mask EXCEPT ![w[1]] = Merged(w[1], w[2])]
          /\ pending' = (pending \ {w}) \cup Reexports(w[1], Merged(w[1], w[2]))
     ELSE pending' = pending \ {w} /\ UNCHANGED <<shown, mask>>
  /\ UNCHANGED <<prog, phase, loading, errors, walking, todo, checked>>

\* The file is checked against those of the visible ones that were.  That fails by
\* its own errors, and may fail by what is missing.  The entry comes last.
Missing == {m \in shown \cap loaded : m \notin checked}

Walked ==
  /\ phase = "walk" /\ pending = {}
  /\ IF Owner = Entry
     THEN phase' = "done" /\ UNCHANGED <<todo, checked>>
     ELSE /\ phase' = "check"
          /\ todo' = Tail(todo)
          /\ \/ Owner \in prog.sound /\ checked' = checked \cup {Owner}
             \/ (Owner \notin prog.sound \/ Missing # {}) /\ checked' = checked
  /\ UNCHANGED <<prog, loading, errors, walking, showing>>

Next ==
  \/ \E m \in Node : Load(m)
  \/ Loaded \/ Visit \/ Ordered \/ Begin
  \/ \E w \in pending : Walk(w)
  \/ Walked

Spec == Init /\ [][Next]_vars
FairSpec == Spec /\ WF_vars(Next)

-----------------------------------------------------------------------------
(* Properties.                                                             *)

\* Every variable has its type, and no file is open and left at the same time.
\* (load_imported_hirs)
TypeOK ==
  /\ prog \in Program
  /\ phase \in {"load", "order", "check", "walk", "done"}
  /\ queue \subseteq Node /\ seen \subseteq Node /\ loaded \subseteq Module
  /\ errors \subseteq {"unreadable", "entry", "cycle"}
  /\ stack \in Seq([at : Node, leaving : BOOLEAN])
  /\ visiting \subseteq Module /\ visited \subseteq Module /\ visiting \cap visited = {}
  /\ order \in Seq(Module) /\ todo \in Seq(Module)
  /\ checked \subseteq Module
  /\ pending \subseteq Node \X SUBSET Name
  /\ shown \subseteq Node /\ mask \in [Node -> SUBSET Name]

Admits(k, n) == k = {} \/ n \in k

\* The files that show name n to o: those it imports flat with that name, and what
\* files in the graph re-export of it.
Closed(o, n, S) ==
  /\ \A i \in ImportsOf(o) : i.flat /\ Admits(i.names, n) => i.to \in S
  /\ \A m \in S \cap loaded : \A i \in ImportsOf(m) :
       i.exported /\ i.flat /\ Admits(i.names, n) => i.to \in S
Reach(o, n) == {m \in Node : \A S \in SUBSET Node : Closed(o, n, S) => m \in S}

\* visible_modules computes the least fixed point: of a file just those names are
\* visible that some chain of re-exports lets through from end to end, in whatever
\* order files are reached with few names and with many.
VisibleIsLeast ==
  phase = "walk" /\ pending = {} =>
    \A m \in Node : \A n \in Name :
      (m \in shown /\ Admits(mask[m], n)) <=> m \in Reach(Owner, n)

Past == phase \in {"check", "walk", "done"}

\* Every file that was loaded is initialised once, cycles or not.
OnceEach ==
  Past => ToSet(order) = loaded /\ IsInjective(order)

\* Without a cycle a file comes after all that it imports.  ("dependency-first")
DependenciesFirst ==
  Past /\ "cycle" \notin errors =>
    \A k \in DOMAIN order : \A i \in ImportsOf(order[k]) :
      i.to \in loaded => \E l \in 1 .. k - 1 : order[l] = i.to

\* A cycle is reported if and only if there is one among the files loaded, and the
\* entry if and only if one of them imports it.
CyclesAreFound ==
  Past =>
    /\ ("cycle" \in errors) <=>
         (\E S \in SUBSET loaded : S # {} /\ \A m \in S : \E i \in ImportsOf(m) : i.to \in S)
    /\ ("entry" \in errors) <=>
         (\E m \in loaded \cup {Entry} : \E i \in ImportsOf(m) : i.to = Entry)

\* The depth-first walk puts every file in its place and finds the cycles.
WalkIsRight == TypeOK /\ OnceEach /\ DependenciesFirst /\ CyclesAreFound

\* Without a cycle, no file is checked before one whose names it sees: what is missing
\* then has errors of its own, or sees a file that was not checked.
Unsound(m) == m \notin prog.parses \cap prog.sound
ContractsAreThere ==
  phase = "walk" /\ pending = {} /\ "cycle" \notin errors =>
    \A m \in Missing : Unsound(m) \/ \E n \in Name : ~(Reach(m, n) \cap loaded \subseteq checked)

\* Loading always ends, cycles or not.
Ends == <>(phase = "done")
=============================================================================
