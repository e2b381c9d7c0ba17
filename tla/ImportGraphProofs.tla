-------------------------- MODULE ImportGraphProofs --------------------------
(***************************************************************************)
(* Proofs about ImportGraph, for every set of files and names and every    *)
(* program: the depth-first walk puts files after what they import and     *)
(* finds the cycles, visible_modules computes the least fixed point of the *)
(* re-exports, and a file is checked against files that were.              *)
(*                                                                         *)
(* What holds of a stack, an order or a graph by itself is stated of any   *)
(* program p, graph g, stack s and so on; the invariant is made of these.  *)
(***************************************************************************)
EXTENDS ImportGraph, SequenceTheorems, WellFoundedInduction, TLAPS

USE EntryIsNoModule, ProgramsAssumption

StackFrame == [at : Node, leaving : BOOLEAN]

\* What a file of a program imports.
ImportsIn(p, m) == {p.imports[m][i] : i \in DOMAIN p.imports[m]}
Targets(p, m) == {i.to : i \in ImportsIn(p, m)}

-----------------------------------------------------------------------------
(* The inductive invariant, phase by phase.                                *)

\* A set of files that holds what the entry imports and what its loaded members do.
Spreads(p, g, S) == Targets(p, Entry) \subseteq S /\ \A m \in S \cap g : Targets(p, m) \subseteq S

\* What is loaded is what imports lead to, from the entry on.
LoadInv ==
  /\ loaded \subseteq seen
  /\ Entry \in seen <=> "entry" \in errors
  /\ \A m \in loaded \cup {Entry} : Targets(prog, m) \subseteq queue \cup seen
  /\ \A t \in queue \cup seen : \E m \in loaded \cup {Entry} : t \in Targets(prog, m)
  /\ \A S \in SUBSET Node : Spreads(prog, loaded, S) => queue \cup loaded \subseteq S
  /\ phase # "load" => queue = {}
  /\ phase = "load" => /\ stack = <<>> /\ visiting = {} /\ visited = {} /\ order = <<>>
                       /\ "cycle" \notin errors
  /\ phase \in {"load", "order"} => checked = {}

\* The files being visited, v, are those with a frame of the stack s that leaves them,
\* and each frame is for an import of the nearest of these below.
Path(p, s, v) ==
  /\ \A k \in DOMAIN s : s[k].leaving => s[k].at \in v
  /\ \A m \in v : \E k \in DOMAIN s : s[k].leaving /\ s[k].at = m
  /\ \A j, k \in DOMAIN s : s[j].leaving /\ s[k].leaving /\ s[j].at = s[k].at => j = k
  /\ \A j, k \in DOMAIN s :
       j < k /\ s[j].leaving /\ (\A l \in j + 1 .. k - 1 : ~s[l].leaving) =>
         s[k].at \in Targets(p, s[j].at)

\* Nothing is forgotten: what the files V import is among them, or on the stack.
Keeps(p, g, s, V) ==
  \A m \in V \cup {Entry} : \A t \in Targets(p, m) \cap g :
    t \in V \/ \E k \in DOMAIN s : s[k].at = t

\* What the file of a frame imports is done, or above the frame.
Above(p, g, s, done) ==
  \A j \in DOMAIN s : s[j].leaving =>
    \A t \in Targets(p, s[j].at) \cap g : t \in done \/ \E k \in DOMAIN s : j < k /\ s[k].at = t

\* Files come after those that they import.
Sorted(p, g, o) ==
  \A k \in DOMAIN o : \A t \in Targets(p, o[k]) \cap g : \E l \in 1 .. k - 1 : o[l] = t

HasCycle(p, g) == \E S \in SUBSET g : S # {} /\ \A m \in S : Targets(p, m) \cap S # {}

WalkInv ==
  /\ Path(prog, stack, visiting)
  /\ visiting \cup visited \subseteq loaded
  /\ visited = ToSet(order) /\ IsInjective(order)
  /\ phase # "load" => Keeps(prog, loaded, stack, visiting \cup visited)
  /\ "cycle" \notin errors => Above(prog, loaded, stack, visited) /\ Sorted(prog, loaded, order)
  /\ "cycle" \in errors => HasCycle(prog, loaded)
  /\ phase \notin {"load", "order"} => stack = <<>>

\* The least set of files that show name n to o.
ClosedIn(p, g, o, n, S) ==
  /\ \A i \in ImportsIn(p, o) : i.flat /\ Admits(i.names, n) => i.to \in S
  /\ \A m \in S \cap g : \A i \in ImportsIn(p, m) :
       i.exported /\ i.flat /\ Admits(i.names, n) => i.to \in S
ReachIn(p, g, o, n) == {m \in Node : \A S \in SUBSET Node : ClosedIn(p, g, o, n, S) => m \in S}

\* The files of the order o before those of t: checked, passed over, or failed.
Before(o, t) == {o[k] : k \in 1 .. Len(o) - Len(t)}

IsRest(t, o) ==
  /\ Len(t) <= Len(o)
  /\ \A k \in DOMAIN t : t[k] = o[Len(o) - Len(t) + k]

\* A file that was not checked has errors of its own, or sees one that was not.
Explained(p, g, past, good) ==
  \A m \in past \ good :
    m \notin p.parses \cap p.sound \/ \E n \in Name : \E x \in ReachIn(p, g, m, n) \cap g : x \in past \ good

CheckInv ==
  phase \notin {"load", "order"} =>
    /\ IsRest(todo, order)
    /\ checked \subseteq Before(order, todo)
    /\ "cycle" \notin errors => Explained(prog, loaded, Before(order, todo), checked)

\* A file has name n visible, or will have when what is pending has been followed.
ShowsIn(sh, k, m, n) == m \in sh /\ Admits(k[m], n)
Coming(pd, m, n) == \E w \in pd : w[1] = m /\ Admits(w[2], n)
Either(sh, k, pd, m, n) == ShowsIn(sh, k, m, n) \/ Coming(pd, m, n)

\* Nothing is or will be visible without a chain of re-exports, and every chain goes on.
Visible(p, g, o, sh, k, pd, n) ==
  /\ \A m \in Node : Either(sh, k, pd, m, n) => m \in ReachIn(p, g, o, n)
  /\ \A i \in ImportsIn(p, o) : i.flat /\ Admits(i.names, n) => Either(sh, k, pd, i.to, n)
  /\ \A m \in g : ShowsIn(sh, k, m, n) =>
       \A i \in ImportsIn(p, m) :
         i.exported /\ i.flat /\ Admits(i.names, n) => Either(sh, k, pd, i.to, n)

VisibleInv ==
  phase = "walk" => \A n \in Name : Visible(prog, loaded, Owner, shown, mask, pending, n)

IInv == TypeOK /\ LoadInv /\ WalkInv /\ CheckInv /\ VisibleInv

-----------------------------------------------------------------------------
(* Sequences.                                                              *)

LEMMA SequenceFacts ==
  ASSUME NEW X, NEW s \in Seq(X)
  PROVE  /\ Len(s) \in Nat /\ DOMAIN s = 1 .. Len(s)
         /\ \A k \in 1 .. Len(s) : s[k] \in X
         /\ s = <<>> <=> Len(s) = 0
OBVIOUS

LEMMA PrefixFacts ==
  ASSUME NEW X, NEW s \in Seq(X), NEW n \in Nat, n <= Len(s)
  PROVE  /\ SubSeq(s, 1, n) \in Seq(X) /\ Len(SubSeq(s, 1, n)) = n
         /\ \A k \in 1 .. n : SubSeq(s, 1, n)[k] = s[k]
OBVIOUS

\* A stack without its top.
LEMMA FrontFacts ==
  ASSUME NEW X, NEW s \in Seq(X), s # <<>>
  PROVE  /\ Len(s) \in Nat /\ Len(s) > 0 /\ Last(s) = s[Len(s)] /\ Last(s) \in X
         /\ Front(s) \in Seq(X) /\ Len(Front(s)) = Len(s) - 1
         /\ \A k \in 1 .. Len(s) - 1 : Front(s)[k] = s[k]
<1>1. Len(s) \in Nat /\ Len(s) > 0
  OBVIOUS
<1>2. Last(s) = s[Len(s)] /\ Last(s) \in X
  BY <1>1 DEF Last
<1>3. PICK n \in Nat : n = Len(s) - 1
  BY <1>1
<1>4. n <= Len(s)
  BY <1>1, <1>3
<1>5. Front(s) = SubSeq(s, 1, n)
  BY <1>3 DEF Front
<1>6. /\ Front(s) \in Seq(X) /\ Len(Front(s)) = n
      /\ \A k \in 1 .. n : Front(s)[k] = s[k]
  BY <1>4, <1>5, PrefixFacts
<1>. QED  BY <1>1, <1>2, <1>3, <1>6

LEMMA ReverseFacts ==
  ASSUME NEW X, NEW s \in Seq(X)
  PROVE  /\ Reverse(s) \in Seq(X) /\ Len(Reverse(s)) = Len(s)
         /\ \A k \in 1 .. Len(s) : \E j \in 1 .. Len(s) : Reverse(s)[k] = s[j]
         /\ \A k \in 1 .. Len(s) : \E j \in 1 .. Len(s) : Reverse(s)[j] = s[k]
<1>1. Len(s) \in Nat /\ DOMAIN s = 1 .. Len(s) /\ \A k \in 1 .. Len(s) : s[k] \in X
  OBVIOUS
<1>2. \A k \in 1 .. Len(s) : Len(s) - k + 1 \in 1 .. Len(s) /\ Len(s) - (Len(s) - k + 1) + 1 = k
  BY <1>1
<1>3. Reverse(s) = [i \in 1 .. Len(s) |-> s[Len(s) - i + 1]]
  BY DEF Reverse
<1>4. Reverse(s) \in [1 .. Len(s) -> X]
  BY <1>1, <1>2, <1>3
<1>5. Reverse(s) \in Seq(X) /\ Len(Reverse(s)) = Len(s)
  BY <1>1, <1>4
<1>6. \A k \in 1 .. Len(s) : Reverse(s)[k] = s[Len(s) - k + 1]
  BY <1>3
<1>7. \A k \in 1 .. Len(s) : Reverse(s)[Len(s) - k + 1] = s[k]
  BY <1>2, <1>6
<1>. QED  BY <1>1, <1>2, <1>5, <1>6, <1>7

LEMMA TailFacts ==
  ASSUME NEW X, NEW s \in Seq(X), s # <<>>
  PROVE  /\ Tail(s) \in Seq(X) /\ Len(Tail(s)) = Len(s) - 1 /\ Len(s) \in Nat \ {0}
         /\ Head(s) = s[1] /\ Head(s) \in X
         /\ \A k \in 1 .. Len(s) - 1 : Tail(s)[k] = s[k + 1]
OBVIOUS

LEMMA AppendFacts ==
  ASSUME NEW X, NEW s \in Seq(X), NEW x \in X
  PROVE  /\ Append(s, x) \in Seq(X) /\ Len(Append(s, x)) = Len(s) + 1
         /\ \A k \in 1 .. Len(s) : Append(s, x)[k] = s[k]
         /\ Append(s, x)[Len(s) + 1] = x
OBVIOUS

LEMMA ConcatFacts ==
  ASSUME NEW X, NEW s \in Seq(X), NEW t \in Seq(X)
  PROVE  /\ s \o t \in Seq(X) /\ Len(s \o t) = Len(s) + Len(t)
         /\ \A k \in 1 .. Len(s) : (s \o t)[k] = s[k]
         /\ \A k \in 1 .. Len(t) : (s \o t)[Len(s) + k] = t[k]
OBVIOUS

\* A non-empty set of numbers has a least one.
LEMMA LeastNumber ==
  ASSUME NEW N \in SUBSET Nat, N # {}
  PROVE  \E x \in N : \A y \in N : x <= y
<1>1. \A x, y \in Nat : x < y => <<x, y>> \in OpToRel(<, Nat)
  BY Zenon DEF OpToRel
<1>2. \E R : IsWellFoundedOn(R, Nat) /\ \A x, y \in Nat : x < y => <<x, y>> \in R
  BY <1>1, NatLessThanWellFounded, Zenon
<1>3. PICK R : IsWellFoundedOn(R, Nat) /\ \A x, y \in Nat : x < y => <<x, y>> \in R
  BY <1>2
<1>4. IsWellFoundedOn(R, Nat)
  BY <1>3
<1>5. PICK x \in N : \A y \in N : ~(<<y, x>> \in R)
  BY <1>4, WFMin, Zenon
<1>6. \A y \in N : ~(y < x)
  BY <1>3, <1>5
<1>. QED  BY <1>6

-----------------------------------------------------------------------------
(* Imports and frames.                                                     *)

LEMMA ImportFacts ==
  ASSUME NEW p \in Program, NEW m \in Node
  PROVE  /\ p.imports[m] \in Seq(Import) /\ ImportsIn(p, m) \subseteq Import
         /\ Targets(p, m) \subseteq Node
<1>1. p.imports \in [Node -> Seq(Import)]
  BY DEF Program
<1>2. p.imports[m] \in Seq(Import)
  BY <1>1
<1>3. ImportsIn(p, m) \subseteq Import
  BY <1>2 DEF ImportsIn
<1>4. Targets(p, m) \subseteq Node
  BY <1>3 DEF Targets, Import
<1>. QED  BY <1>2, <1>3, <1>4

LEMMA SameImports ==
  ASSUME NEW m
  PROVE  ImportsOf(m) = ImportsIn(prog, m)
BY DEF ImportsOf, Imports, ImportsIn

LEMMA FrameFacts ==
  ASSUME NEW m \in Node, NEW l \in BOOLEAN
  PROVE  Frame(m, l) \in StackFrame /\ Frame(m, l).at = m /\ Frame(m, l).leaving = l
BY DEF Frame, StackFrame

\* Entering what is imported, one frame for each import.
LEMMA FramesFacts ==
  ASSUME TypeOK, NEW m \in Node
  PROVE  /\ Frames(m) \in Seq(StackFrame)
         /\ \A k \in 1 .. Len(Frames(m)) :
              ~Frames(m)[k].leaving /\ Frames(m)[k].at \in Targets(prog, m)
         /\ \A t \in Targets(prog, m) : \E k \in 1 .. Len(Frames(m)) : Frames(m)[k].at = t
<1>1. PICK s \in Seq(Import) : s = Imports(m) /\ s = prog.imports[m]
  BY ImportFacts DEF TypeOK, Imports
<1>2. Len(s) \in Nat /\ DOMAIN s = 1 .. Len(s) /\ \A k \in 1 .. Len(s) : s[k] \in Import
  BY SequenceFacts
<1>3. PICK fs : fs = [i \in 1 .. Len(s) |-> Frame(s[i].to, FALSE)]
  OBVIOUS
<1>4. \A k \in 1 .. Len(s) : s[k].to \in Node
  BY <1>2 DEF Import
<1>5. ASSUME NEW k \in 1 .. Len(s)
      PROVE  fs[k] \in StackFrame /\ fs[k].at = s[k].to /\ fs[k].leaving = FALSE
  <2>1. s[k].to \in Node /\ FALSE \in BOOLEAN
    BY <1>4
  <2>2. /\ Frame(s[k].to, FALSE) \in StackFrame /\ Frame(s[k].to, FALSE).at = s[k].to
        /\ Frame(s[k].to, FALSE).leaving = FALSE
    BY <2>1, FrameFacts, Zenon
  <2>3. fs[k] = Frame(s[k].to, FALSE)
    BY <1>3
  <2>. QED  BY <2>2, <2>3, Zenon
<1>6. \A k \in 1 .. Len(s) : fs[k].at = s[k].to /\ ~fs[k].leaving
  BY <1>5, Zenon
<1>7. fs \in [1 .. Len(s) -> StackFrame]
  BY <1>3, <1>5
<1>8. fs \in Seq(StackFrame) /\ Len(fs) = Len(s)
  BY <1>2, <1>7
<1>9. PICK r : r = Frames(m)
  OBVIOUS
<1>10. r = Reverse(fs)
  BY <1>1, <1>2, <1>3, <1>9 DEF Frames
<1>11. /\ r \in Seq(StackFrame) /\ Len(r) = Len(s)
       /\ \A k \in 1 .. Len(s) : \E j \in 1 .. Len(s) : r[k] = fs[j]
       /\ \A k \in 1 .. Len(s) : \E j \in 1 .. Len(s) : r[j] = fs[k]
  <2>1. /\ Reverse(fs) \in Seq(StackFrame) /\ Len(Reverse(fs)) = Len(fs)
        /\ \A k \in 1 .. Len(fs) : \E j \in 1 .. Len(fs) : Reverse(fs)[k] = fs[j]
        /\ \A k \in 1 .. Len(fs) : \E j \in 1 .. Len(fs) : Reverse(fs)[j] = fs[k]
    BY <1>8, ReverseFacts
  <2>. QED  BY <1>8, <1>10, <2>1
<1>12. \A t : t \in Targets(prog, m) <=> \E k \in 1 .. Len(s) : t = s[k].to
  BY <1>1, <1>2 DEF Targets, ImportsIn
<1>13. ASSUME NEW k \in 1 .. Len(r)
       PROVE  ~r[k].leaving /\ r[k].at \in Targets(prog, m)
  <2>1. PICK j \in 1 .. Len(s) : r[k] = fs[j]
    BY <1>11
  <2>2. fs[j].at = s[j].to /\ ~fs[j].leaving
    BY <1>6, <2>1
  <2>3. s[j].to \in Targets(prog, m)
    BY <1>12, <2>1
  <2>. QED  BY <2>1, <2>2, <2>3
<1>14. ASSUME NEW t \in Targets(prog, m)
       PROVE  \E k \in 1 .. Len(r) : r[k].at = t
  <2>1. PICK k \in 1 .. Len(s) : t = s[k].to
    BY <1>12
  <2>2. PICK j \in 1 .. Len(s) : r[j] = fs[k]
    BY <1>11
  <2>3. j \in 1 .. Len(r) /\ r[j].at = t
    BY <1>6, <1>11, <2>1, <2>2, Zenon
  <2>. QED  BY <2>3
<1>. QED  BY <1>9, <1>11, <1>13, <1>14

-----------------------------------------------------------------------------
(* The stack of the walk: a frame is taken off, or a file is opened on it.  *)

\* s is the stack without its top frame f.
Popped(z, s, f) ==
  /\ z \in Seq(StackFrame) /\ Len(z) \in Nat \ {0} /\ f = z[Len(z)] /\ f \in StackFrame
  /\ s \in Seq(StackFrame) /\ Len(s) = Len(z) - 1
  /\ \A k \in 1 .. Len(s) : s[k] = z[k]

\* A frame that enters a file gives way to one that leaves it, with b above it.
Deeper(p, z, w, f, b) ==
  /\ z \in Seq(StackFrame) /\ Len(z) \in Nat \ {0} /\ f = z[Len(z)] /\ f \in StackFrame
  /\ ~f.leaving
  /\ w \in Seq(StackFrame) /\ b \in Seq(StackFrame) /\ Len(w) = Len(z) + Len(b)
  /\ \A k \in 1 .. Len(z) - 1 : w[k] = z[k]
  /\ w[Len(z)].leaving /\ w[Len(z)].at = f.at
  /\ \A k \in 1 .. Len(b) : w[Len(z) + k] = b[k]
  /\ \A k \in 1 .. Len(b) : ~b[k].leaving /\ b[k].at \in Targets(p, f.at)
  /\ \A t \in Targets(p, f.at) : \E k \in 1 .. Len(b) : b[k].at = t

LEMMA PopKeepsPath ==
  ASSUME NEW p, NEW z, NEW s, NEW f, NEW v, Popped(z, s, f), Path(p, z, v)
  PROVE  /\ ~f.leaving => Path(p, s, v)
         /\ f.leaving => Path(p, s, v \ {f.at})
<1>1. /\ Len(z) \in Nat \ {0} /\ f = z[Len(z)] /\ Len(s) = Len(z) - 1
      /\ \A k \in 1 .. Len(s) : s[k] = z[k]
      /\ DOMAIN z = 1 .. Len(z) /\ DOMAIN s = 1 .. Len(s)
  BY DEF Popped
<1>2. Len(z) \in DOMAIN z /\ \A k \in DOMAIN s : k \in DOMAIN z /\ k # Len(z) /\ s[k] = z[k]
  BY <1>1
<1>3. \A k \in DOMAIN z : k = Len(z) \/ k \in DOMAIN s
  BY <1>1
<1>4. /\ \A k \in DOMAIN z : z[k].leaving => z[k].at \in v
      /\ \A m \in v : \E k \in DOMAIN z : z[k].leaving /\ z[k].at = m
      /\ \A j, k \in DOMAIN z : z[j].leaving /\ z[k].leaving /\ z[j].at = z[k].at => j = k
  BY DEF Path
<1>5. \A j, k \in DOMAIN s :
        j < k /\ s[j].leaving /\ (\A l \in j + 1 .. k - 1 : ~s[l].leaving) =>
          s[k].at \in Targets(p, s[j].at)
  <2> SUFFICES ASSUME NEW j \in DOMAIN s, NEW k \in DOMAIN s,
                      j < k, s[j].leaving, \A l \in j + 1 .. k - 1 : ~s[l].leaving
               PROVE  s[k].at \in Targets(p, s[j].at)
    OBVIOUS
  <2>1. \A l \in j + 1 .. k - 1 : l \in 1 .. Len(s)
    BY <1>1
  <2>2. \A l \in j + 1 .. k - 1 : ~z[l].leaving
    BY <1>1, <2>1
  <2>. QED  BY <1>2, <2>2 DEF Path
<1>6. ASSUME ~f.leaving  PROVE  Path(p, s, v)
  <2>1. \A k \in DOMAIN s : s[k].leaving => s[k].at \in v
    BY <1>2, <1>4, Zenon
  <2>2. \A m \in v : \E k \in DOMAIN s : s[k].leaving /\ s[k].at = m
    <3> SUFFICES ASSUME NEW m \in v  PROVE  \E k \in DOMAIN s : s[k].leaving /\ s[k].at = m
      OBVIOUS
    <3>1. PICK k \in DOMAIN z : z[k].leaving /\ z[k].at = m
      BY <1>4
    <3>2. k \in DOMAIN s
      BY <1>1, <1>3, <1>6, <3>1
    <3>. QED  BY <1>2, <3>1, <3>2, Zenon
  <2>3. \A j, k \in DOMAIN s : s[j].leaving /\ s[k].leaving /\ s[j].at = s[k].at => j = k
    BY <1>2, <1>4, Zenon
  <2>. QED  BY <1>5, <2>1, <2>2, <2>3, Zenon DEF Path
<1>7. ASSUME f.leaving  PROVE  Path(p, s, v \ {f.at})
  <2>1. \A k \in DOMAIN s : s[k].leaving => s[k].at \in v \ {f.at}
    <3> SUFFICES ASSUME NEW k \in DOMAIN s, s[k].leaving
                 PROVE  s[k].at \in v /\ s[k].at # f.at
      OBVIOUS
    <3>1. k \in DOMAIN z /\ k # Len(z) /\ s[k] = z[k] /\ Len(z) \in DOMAIN z
      BY <1>2
    <3>. QED  BY <1>1, <1>4, <1>7, <3>1, Zenon
  <2>2. \A m \in v \ {f.at} : \E k \in DOMAIN s : s[k].leaving /\ s[k].at = m
    <3> SUFFICES ASSUME NEW m \in v, m # f.at
                 PROVE  \E k \in DOMAIN s : s[k].leaving /\ s[k].at = m
      OBVIOUS
    <3>1. PICK k \in DOMAIN z : z[k].leaving /\ z[k].at = m
      BY <1>4
    <3>2. k \in DOMAIN s
      BY <1>1, <1>3, <3>1
    <3>. QED  BY <1>2, <3>1, <3>2, Zenon
  <2>3. \A j, k \in DOMAIN s : s[j].leaving /\ s[k].leaving /\ s[j].at = s[k].at => j = k
    BY <1>2, <1>4, Zenon
  <2>. QED  BY <1>5, <2>1, <2>2, <2>3, Zenon DEF Path
<1>. QED  BY <1>6, <1>7

LEMMA DeeperFacts ==
  ASSUME NEW p, NEW z, NEW w, NEW f, NEW b, Deeper(p, z, w, f, b)
  PROVE  /\ Len(z) \in Nat \ {0} /\ DOMAIN z = 1 .. Len(z) /\ DOMAIN w = 1 .. Len(w)
         /\ Len(z) \in DOMAIN w /\ Len(z) \in DOMAIN z
         /\ \A k \in DOMAIN z : k \in DOMAIN w
         /\ \A k \in DOMAIN z : k # Len(z) => w[k] = z[k]
         /\ \A k \in DOMAIN z : w[k].at = z[k].at
         /\ \A k \in DOMAIN z : z[k].leaving => w[k].leaving
         /\ \A k \in DOMAIN w : k > Len(z) => ~w[k].leaving /\ w[k].at \in Targets(p, f.at)
         /\ \A k \in DOMAIN w : ~(k > Len(z)) => k \in DOMAIN z
         /\ \A t \in Targets(p, f.at) : \E k \in DOMAIN w : k > Len(z) /\ w[k].at = t
<1>1. /\ Len(z) \in Nat \ {0} /\ DOMAIN z = 1 .. Len(z) /\ Len(b) \in Nat
      /\ DOMAIN w = 1 .. Len(w) /\ Len(w) = Len(z) + Len(b)
  BY DEF Deeper
<1>2. /\ \A k \in 1 .. Len(z) - 1 : w[k] = z[k]
      /\ w[Len(z)].leaving /\ w[Len(z)].at = f.at /\ f = z[Len(z)] /\ ~f.leaving
  BY DEF Deeper
<1>3. /\ \A k \in 1 .. Len(b) : w[Len(z) + k] = b[k]
      /\ \A k \in 1 .. Len(b) : ~b[k].leaving /\ b[k].at \in Targets(p, f.at)
      /\ \A t \in Targets(p, f.at) : \E k \in 1 .. Len(b) : b[k].at = t
  BY DEF Deeper
<1>4. \A k \in DOMAIN z : k \in DOMAIN w /\ (k # Len(z) => k \in 1 .. Len(z) - 1)
  BY <1>1
<1>5. \A k \in DOMAIN z : k # Len(z) => w[k] = z[k]
  BY <1>2, <1>4
<1>6. \A k \in DOMAIN z : w[k].at = z[k].at /\ (z[k].leaving => w[k].leaving)
  BY <1>2, <1>5, Zenon
<1>7. \A k \in DOMAIN w : k > Len(z) => k - Len(z) \in 1 .. Len(b) /\ Len(z) + (k - Len(z)) = k
  BY <1>1
<1>8. ASSUME NEW k \in DOMAIN w, k > Len(z)
      PROVE  ~w[k].leaving /\ w[k].at \in Targets(p, f.at)
  <2>1. PICK i \in 1 .. Len(b) : Len(z) + i = k
    BY <1>7, <1>8
  <2>2. w[k] = b[i]
    BY <1>3, <2>1
  <2>. QED  BY <1>3, <2>2, Zenon
<1>9. \A i \in 1 .. Len(b) : Len(z) + i \in DOMAIN w /\ Len(z) + i > Len(z)
  BY <1>1
<1>10. \A t \in Targets(p, f.at) : \E k \in DOMAIN w : k > Len(z) /\ w[k].at = t
  <2> SUFFICES ASSUME NEW t \in Targets(p, f.at)
               PROVE  \E k \in DOMAIN w : k > Len(z) /\ w[k].at = t
    OBVIOUS
  <2>1. PICK i \in 1 .. Len(b) : b[i].at = t
    BY <1>3
  <2>2. w[Len(z) + i].at = t
    BY <1>3, <2>1
  <2>. QED  BY <1>9, <2>2
<1>11. Len(z) \in DOMAIN w /\ Len(z) \in DOMAIN z
  BY <1>1
<1>12. \A k \in DOMAIN w : ~(k > Len(z)) => k \in DOMAIN z
  BY <1>1
<1>. QED  BY <1>1, <1>4, <1>5, <1>6, <1>8, <1>10, <1>11, <1>12

LEMMA DeeperKeepsPath ==
  ASSUME NEW p, NEW z, NEW w, NEW f, NEW b, NEW v,
         Deeper(p, z, w, f, b), Path(p, z, v), f.at \notin v
  PROVE  Path(p, w, v \cup {f.at})
<1> DEFINE n == Len(z)
<1>1. /\ n \in Nat \ {0} /\ DOMAIN z = 1 .. n /\ DOMAIN w = 1 .. Len(w)
      /\ n \in DOMAIN w /\ n \in DOMAIN z
      /\ \A k \in DOMAIN z : k \in DOMAIN w
      /\ \A k \in DOMAIN z : k # n => w[k] = z[k]
      /\ \A k \in DOMAIN z : w[k].at = z[k].at
      /\ \A k \in DOMAIN z : z[k].leaving => w[k].leaving
      /\ \A k \in DOMAIN w : k > n => ~w[k].leaving /\ w[k].at \in Targets(p, f.at)
      /\ \A k \in DOMAIN w : ~(k > n) => k \in DOMAIN z
  BY DeeperFacts
<1>2. z[n] = f /\ ~f.leaving /\ w[n].leaving /\ w[n].at = f.at
  BY DEF Deeper
<1>3. /\ \A k \in DOMAIN z : z[k].leaving => z[k].at \in v
      /\ \A m \in v : \E k \in DOMAIN z : z[k].leaving /\ z[k].at = m
      /\ \A j, k \in DOMAIN z : z[j].leaving /\ z[k].leaving /\ z[j].at = z[k].at => j = k
  BY DEF Path
<1>4. ASSUME NEW k \in DOMAIN w, w[k].leaving
      PROVE  k \in DOMAIN z /\ (k = n \/ (z[k].leaving /\ w[k] = z[k]))
  BY <1>1, <1>4, Zenon
<1>5. ASSUME NEW k \in DOMAIN w, w[k].leaving  PROVE  w[k].at \in v \cup {f.at}
  BY <1>2, <1>3, <1>4, <1>5
<1>6. ASSUME NEW m \in v \cup {f.at}  PROVE  \E k \in DOMAIN w : w[k].leaving /\ w[k].at = m
  <2>1. CASE m = f.at
    BY <1>1, <1>2, <2>1
  <2>2. CASE m \in v
    <3>1. PICK k \in DOMAIN z : z[k].leaving /\ z[k].at = m
      BY <1>3, <2>2
    <3>. QED  BY <1>1, <3>1
  <2>. QED  BY <2>1, <2>2
<1>7. ASSUME NEW j \in DOMAIN w, NEW k \in DOMAIN w, w[j].leaving, w[k].leaving, w[j].at = w[k].at
      PROVE  j = k
  <2>1. CASE j = n
    BY <1>2, <1>3, <1>4, <1>7, <2>1
  <2>2. CASE k = n
    BY <1>2, <1>3, <1>4, <1>7, <2>2
  <2>3. CASE j # n /\ k # n
    BY <1>3, <1>4, <1>7, <2>3, Zenon
  <2>. QED  BY <2>1, <2>2, <2>3
<1>8. ASSUME NEW j \in DOMAIN w, NEW k \in DOMAIN w,
             j < k, w[j].leaving, \A l \in j + 1 .. k - 1 : ~w[l].leaving
      PROVE  w[k].at \in Targets(p, w[j].at)
  <2>1. j \in DOMAIN z /\ (j = n \/ (z[j].leaving /\ w[j] = z[j]))
    BY <1>4, <1>8
  <2>2. CASE j = n
    BY <1>1, <1>2, <1>8, <2>2
  <2>3. CASE j # n
    <3>1. j < n /\ j \in 1 .. n
      BY <1>1, <2>1, <2>3
    <3>2. ~(k > n)
      <4>1. k > n => n \in j + 1 .. k - 1
        BY <1>1, <3>1
      <4>. QED  BY <1>2, <1>8, <4>1
    <3>3. k \in DOMAIN z
      BY <1>1, <3>2
    <3>4. \A l \in j + 1 .. k - 1 : l \in DOMAIN z
      BY <1>1, <3>1, <3>3
    <3>5. \A l \in j + 1 .. k - 1 : ~z[l].leaving
      BY <1>1, <1>8, <3>4, Zenon
    <3>6. z[k].at \in Targets(p, z[j].at)
      BY <1>8, <2>1, <2>3, <3>3, <3>5 DEF Path
    <3>. QED  BY <1>1, <2>1, <3>3, <3>6, Zenon
  <2>. QED  BY <2>2, <2>3
<1>. QED  BY <1>5, <1>6, <1>7, <1>8, Zenon DEF Path

\* A frame that enters a file being visited closes a circle of the frames that leave.
LEMMA PathHasCycle ==
  ASSUME NEW p, NEW z, NEW s, NEW f, NEW v,
         Popped(z, s, f), Path(p, z, v), ~f.leaving, f.at \in v
  PROVE  \E S \in SUBSET v : S # {} /\ \A m \in S : Targets(p, m) \cap S # {}
<1> DEFINE n == Len(z)
<1>1. n \in Nat \ {0} /\ DOMAIN z = 1 .. n /\ z[n] = f /\ n \in DOMAIN z
  BY DEF Popped
<1>2. PICK j0 \in DOMAIN z : z[j0].leaving /\ z[j0].at = f.at
  BY DEF Path
<1> DEFINE K == {k \in DOMAIN z : j0 <= k /\ z[k].leaving}
           S == {z[k].at : k \in K}
<1>3. j0 \in K /\ f.at \in S
  BY <1>1, <1>2
<1>4. S \subseteq v
  BY DEF Path
<1>5. ASSUME NEW k \in K  PROVE  Targets(p, z[k].at) \cap S # {}
  <2> DEFINE N == {l \in DOMAIN z : k < l /\ z[l].leaving}
  <2>1. k \in 1 .. n /\ k # n /\ j0 <= k /\ z[k].leaving /\ j0 \in Nat
    BY <1>1
  <2>2. CASE N = {}
    <3>1. \A l \in k + 1 .. n - 1 : l \in DOMAIN z /\ k < l
      BY <1>1, <2>1
    <3>2. \A l \in k + 1 .. n - 1 : ~z[l].leaving
      BY <2>2, <3>1
    <3>3. k < n
      BY <1>1, <2>1
    <3>4. f.at \in Targets(p, z[k].at)
      BY <1>1, <2>1, <3>2, <3>3 DEF Path
    <3>. QED  BY <1>3, <3>4
  <2>3. CASE N # {}
    <3>1. N \in SUBSET Nat
      BY <1>1
    <3>2. PICK l \in N : \A y \in N : l <= y
      BY <2>3, <3>1, LeastNumber
    <3>3. l \in DOMAIN z /\ k < l /\ z[l].leaving /\ l \in 1 .. n
      BY <1>1, <3>2
    <3>4. \A y \in k + 1 .. l - 1 : y \in DOMAIN z /\ k < y /\ ~(l <= y)
      BY <1>1, <2>1, <3>3
    <3>5. \A y \in k + 1 .. l - 1 : ~z[y].leaving
      BY <3>2, <3>4
    <3>6. z[l].at \in Targets(p, z[k].at)
      BY <2>1, <3>3, <3>5 DEF Path
    <3>7. l \in K
      BY <2>1, <3>3
    <3>. QED  BY <3>6, <3>7
  <2>. QED  BY <2>2, <2>3
<1>6. ASSUME NEW m \in S  PROVE  Targets(p, m) \cap S # {}
  <2>1. PICK k \in K : m = z[k].at
    OBVIOUS
  <2>. QED  BY <1>5, <2>1
<1> HIDE DEF S
<1>. QED  BY <1>3, <1>4, <1>6

LEMMA PopKeeps ==
  ASSUME NEW p, NEW g, NEW z, NEW s, NEW f, NEW V,
         Popped(z, s, f), Keeps(p, g, z, V), f.at \in V \/ f.at \notin g
  PROVE  Keeps(p, g, s, V)
<1>1. /\ Len(z) \in Nat \ {0} /\ f = z[Len(z)] /\ Len(s) = Len(z) - 1
      /\ \A k \in 1 .. Len(s) : s[k] = z[k]
      /\ DOMAIN z = 1 .. Len(z) /\ DOMAIN s = 1 .. Len(s)
  BY DEF Popped
<1>2. \A k \in DOMAIN z : k = Len(z) \/ (k \in DOMAIN s /\ s[k] = z[k])
  BY <1>1
<1> SUFFICES ASSUME NEW m \in V \cup {Entry}, NEW t \in Targets(p, m) \cap g, t \notin V
             PROVE  \E k \in DOMAIN s : s[k].at = t
  BY DEF Keeps
<1>3. PICK k \in DOMAIN z : z[k].at = t
  BY DEF Keeps
<1>4. k # Len(z)
  BY <1>1, <1>3
<1>. QED  BY <1>2, <1>3, <1>4

LEMMA DeeperKeeps ==
  ASSUME NEW p, NEW g, NEW z, NEW w, NEW f, NEW b, NEW V,
         Deeper(p, z, w, f, b), Keeps(p, g, z, V)
  PROVE  Keeps(p, g, w, V \cup {f.at})
<1> DEFINE n == Len(z)
<1>0. /\ n \in Nat \ {0} /\ DOMAIN z = 1 .. n
      /\ \A k \in DOMAIN z : k \in DOMAIN w
      /\ \A k \in DOMAIN z : k # n => w[k] = z[k]
      /\ \A k \in DOMAIN z : w[k].at = z[k].at
      /\ \A k \in DOMAIN w : k > n => ~w[k].leaving
      /\ \A k \in DOMAIN w : ~(k > n) => k \in DOMAIN z
      /\ \A t \in Targets(p, f.at) : \E k \in DOMAIN w : k > n /\ w[k].at = t
  BY DeeperFacts
<1>1. \A t \in Targets(p, f.at) : \E k \in DOMAIN w : w[k].at = t
  BY <1>0
<1> SUFFICES ASSUME NEW m \in V \cup {f.at, Entry}, NEW t \in Targets(p, m) \cap g, t \notin V
             PROVE  \E k \in DOMAIN w : w[k].at = t
  BY DEF Keeps
<1>2. CASE m = f.at
  BY <1>1, <1>2
<1>3. CASE m \in V \cup {Entry}
  <2>1. PICK k \in DOMAIN z : z[k].at = t
    BY <1>3 DEF Keeps
  <2>. QED  BY <1>0, <2>1
<1>. QED  BY <1>2, <1>3

LEMMA PopKeepsAbove ==
  ASSUME NEW p, NEW g, NEW z, NEW s, NEW f, NEW d, NEW e,
         Popped(z, s, f), Above(p, g, z, d), d \subseteq e, f.at \in e \/ f.at \notin g
  PROVE  Above(p, g, s, e)
<1>1. /\ Len(z) \in Nat \ {0} /\ f = z[Len(z)] /\ Len(s) = Len(z) - 1
      /\ \A k \in 1 .. Len(s) : s[k] = z[k]
      /\ DOMAIN z = 1 .. Len(z) /\ DOMAIN s = 1 .. Len(s)
  BY DEF Popped
<1>2. \A k \in DOMAIN z : k = Len(z) \/ (k \in DOMAIN s /\ s[k] = z[k])
  BY <1>1
<1> SUFFICES ASSUME NEW j \in DOMAIN s, s[j].leaving, NEW t \in Targets(p, s[j].at) \cap g, t \notin e
             PROVE  \E k \in DOMAIN s : j < k /\ s[k].at = t
  BY DEF Above
<1>3. j \in DOMAIN z /\ s[j] = z[j]
  BY <1>1
<1>4. z[j].leaving /\ t \in Targets(p, z[j].at) \cap g /\ t \notin d
  BY <1>3
<1>5. PICK k \in DOMAIN z : j < k /\ z[k].at = t
  BY <1>3, <1>4 DEF Above
<1>6. k # Len(z)
  BY <1>1, <1>5
<1>. QED  BY <1>2, <1>5, <1>6

LEMMA DeeperKeepsAbove ==
  ASSUME NEW p, NEW g, NEW z, NEW w, NEW f, NEW b, NEW d,
         Deeper(p, z, w, f, b), Above(p, g, z, d)
  PROVE  Above(p, g, w, d)
<1> DEFINE n == Len(z)
<1>1. /\ n \in Nat \ {0} /\ DOMAIN z = 1 .. n
      /\ \A k \in DOMAIN z : k \in DOMAIN w
      /\ \A k \in DOMAIN z : k # n => w[k] = z[k]
      /\ \A k \in DOMAIN z : w[k].at = z[k].at
      /\ \A k \in DOMAIN w : k > n => ~w[k].leaving
      /\ \A k \in DOMAIN w : ~(k > n) => k \in DOMAIN z
      /\ \A t \in Targets(p, f.at) : \E k \in DOMAIN w : k > n /\ w[k].at = t
  BY DeeperFacts
<1>2. w[n].at = f.at
  BY DEF Deeper
<1> SUFFICES ASSUME NEW j \in DOMAIN w, w[j].leaving, NEW t \in Targets(p, w[j].at) \cap g, t \notin d
             PROVE  \E k \in DOMAIN w : j < k /\ w[k].at = t
  BY DEF Above
<1>3. j \in DOMAIN z
  BY <1>1
<1>4. CASE j = n
  BY <1>1, <1>2, <1>4
<1>5. CASE j # n
  <2>1. z[j].leaving /\ t \in Targets(p, z[j].at) \cap g
    BY <1>1, <1>3, <1>5
  <2>2. PICK k \in DOMAIN z : j < k /\ z[k].at = t
    BY <1>3, <2>1 DEF Above
  <2>. QED  BY <1>1, <2>2
<1>. QED  BY <1>4, <1>5

\* A file that is left comes after all it imports, if these are in the order already.
LEMMA AppendKeepsSorted ==
  ASSUME NEW p, NEW g, NEW o \in Seq(Module), NEW x \in Module, Sorted(p, g, o),
         \A t \in Targets(p, x) \cap g : t \in ToSet(o)
  PROVE  Sorted(p, g, Append(o, x))
<1>1. PICK q : q = Append(o, x)
  OBVIOUS
<1>2. /\ q \in Seq(Module) /\ Len(q) = Len(o) + 1 /\ Len(o) \in Nat
      /\ \A k \in 1 .. Len(o) : q[k] = o[k]
      /\ q[Len(o) + 1] = x /\ DOMAIN q = 1 .. Len(o) + 1 /\ DOMAIN o = 1 .. Len(o)
  BY <1>1, AppendFacts
<1> SUFFICES ASSUME NEW k \in DOMAIN q, NEW t \in Targets(p, q[k]) \cap g
             PROVE  \E l \in 1 .. k - 1 : q[l] = t
  BY <1>1 DEF Sorted
<1>3. CASE k = Len(o) + 1
  <2>1. t \in ToSet(o)
    BY <1>2, <1>3
  <2>2. PICK l \in 1 .. Len(o) : o[l] = t
    BY <1>2, <2>1 DEF ToSet
  <2>. QED  BY <1>2, <1>3, <2>2
<1>4. CASE k # Len(o) + 1
  <2>1. k \in 1 .. Len(o) /\ q[k] = o[k]
    BY <1>2, <1>4
  <2>2. PICK l \in 1 .. k - 1 : o[l] = t
    BY <1>2, <2>1 DEF Sorted
  <2>3. l \in 1 .. Len(o)
    BY <1>2, <2>1
  <2>. QED  BY <1>2, <2>2, <2>3
<1>. QED  BY <1>3, <1>4

LEMMA AppendAdds ==
  ASSUME NEW X, NEW o \in Seq(X), NEW x \in X
  PROVE  /\ ToSet(Append(o, x)) = ToSet(o) \cup {x}
         /\ IsInjective(o) /\ x \notin ToSet(o) => IsInjective(Append(o, x))
<1>1. PICK q : q = Append(o, x)
  OBVIOUS
<1>2. /\ q \in Seq(X) /\ Len(q) = Len(o) + 1 /\ Len(o) \in Nat
      /\ \A k \in 1 .. Len(o) : q[k] = o[k]
      /\ q[Len(o) + 1] = x /\ DOMAIN q = 1 .. Len(o) + 1 /\ DOMAIN o = 1 .. Len(o)
  BY <1>1, AppendFacts
<1>3. \A k \in DOMAIN q : k = Len(o) + 1 \/ k \in DOMAIN o
  BY <1>2
<1>4. \A k \in DOMAIN o : k \in DOMAIN q /\ q[k] = o[k]
  BY <1>2
<1>5. Len(o) + 1 \in DOMAIN q
  BY <1>2
<1>6. ToSet(q) = ToSet(o) \cup {x}
  BY <1>2, <1>3, <1>4, <1>5 DEF ToSet
<1>7. ASSUME IsInjective(o), x \notin ToSet(o)  PROVE  IsInjective(q)
  <2> SUFFICES ASSUME NEW j \in DOMAIN q, NEW k \in DOMAIN q, q[j] = q[k]  PROVE  j = k
    BY DEF IsInjective
  <2>1. \A i \in DOMAIN o : o[i] # x
    BY <1>7 DEF ToSet
  <2>2. CASE j \in DOMAIN o /\ k \in DOMAIN o
    BY <1>4, <1>7, <2>2 DEF IsInjective
  <2>3. CASE j = Len(o) + 1
    BY <1>2, <1>3, <1>4, <2>1, <2>3
  <2>4. CASE k = Len(o) + 1
    BY <1>2, <1>3, <1>4, <2>1, <2>4
  <2>. QED  BY <1>3, <2>2, <2>3, <2>4
<1>. QED  BY <1>1, <1>6, <1>7

\* Opening a file: a frame that leaves it, below those of its imports.
LEMMA OpenFacts ==
  ASSUME TypeOK, NEW z, NEW s, NEW f, Popped(z, s, f), ~f.leaving,
         NEW w, w = s \o Opened(f.at), NEW b, b = Frames(f.at)
  PROVE  Deeper(prog, z, w, f, b)
<1>1. /\ z \in Seq(StackFrame) /\ Len(z) \in Nat \ {0} /\ f = z[Len(z)] /\ f \in StackFrame
      /\ s \in Seq(StackFrame) /\ Len(s) = Len(z) - 1
      /\ \A k \in 1 .. Len(s) : s[k] = z[k]
  BY DEF Popped
<1>2. f.at \in Node
  BY <1>1 DEF StackFrame
<1>3. PICK e : e = Frame(f.at, TRUE)
  OBVIOUS
<1>4. e \in StackFrame /\ e.at = f.at /\ e.leaving
  BY <1>2, <1>3, FrameFacts
<1>5. /\ b \in Seq(StackFrame)
      /\ \A k \in 1 .. Len(b) : ~b[k].leaving /\ b[k].at \in Targets(prog, f.at)
      /\ \A t \in Targets(prog, f.at) : \E k \in 1 .. Len(b) : b[k].at = t
  BY <1>2, FramesFacts
<1>6. w = s \o (<<e>> \o b)
  BY <1>3 DEF Opened
<1>7. PICK d : d = <<e>> \o b
  OBVIOUS
<1>8. /\ d \in Seq(StackFrame) /\ Len(d) = 1 + Len(b) /\ Len(b) \in Nat /\ d[1] = e
      /\ \A k \in 1 .. Len(b) : d[1 + k] = b[k]
  BY <1>4, <1>5, <1>7
<1>9. /\ w \in Seq(StackFrame) /\ Len(w) = Len(s) + Len(d)
      /\ \A k \in 1 .. Len(s) : w[k] = s[k]
      /\ \A k \in 1 .. Len(d) : w[Len(s) + k] = d[k]
  <2>1. /\ s \o d \in Seq(StackFrame) /\ Len(s \o d) = Len(s) + Len(d)
        /\ \A k \in 1 .. Len(s) : (s \o d)[k] = s[k]
        /\ \A k \in 1 .. Len(d) : (s \o d)[Len(s) + k] = d[k]
    <3> PICK F : F = StackFrame
      OBVIOUS
    <3>1. s \in Seq(F) /\ d \in Seq(F)
      BY <1>1, <1>8
    <3>2. /\ s \o d \in Seq(F) /\ Len(s \o d) = Len(s) + Len(d)
          /\ \A k \in 1 .. Len(s) : (s \o d)[k] = s[k]
          /\ \A k \in 1 .. Len(d) : (s \o d)[Len(s) + k] = d[k]
      BY ONLY <3>1, ConcatFacts
    <3>. QED  BY <3>2
  <2>2. w = s \o d
    BY <1>6, <1>7
  <2>. QED  BY <2>1, <2>2, Zenon
<1>10. Len(w) = Len(z) + Len(b)
  <2>1. PICK i \in Nat, j \in Nat, l \in Nat : i = Len(z) /\ j = Len(b) /\ l = Len(d)
    BY <1>1, <1>8
  <2>2. Len(s) = i - 1 /\ l = 1 + j /\ Len(w) = Len(s) + l
    BY <1>1, <1>8, <1>9, <2>1, Zenon
  <2>3. (i - 1) + (1 + j) = i + j
    OBVIOUS
  <2>. QED  BY <2>1, <2>2, <2>3, Zenon
<1>11. \A k \in 1 .. Len(z) - 1 : w[k] = z[k]
  BY <1>1, <1>9
<1>12. w[Len(z)] = e
  <2>1. 1 \in 1 .. Len(d) /\ Len(s) + 1 = Len(z)
    BY <1>1, <1>8
  <2>. QED  BY <1>8, <1>9, <2>1
<1>13. ASSUME NEW k \in 1 .. Len(b)  PROVE  w[Len(z) + k] = b[k]
  <2>1. 1 + k \in 1 .. Len(d) /\ Len(s) + (1 + k) = Len(z) + k
    BY <1>1, <1>8
  <2>. QED  BY <1>8, <1>9, <2>1
<1>. QED  BY <1>1, <1>4, <1>5, <1>9, <1>10, <1>11, <1>12, <1>13 DEF Deeper

-----------------------------------------------------------------------------
(* What the order and the re-exports are by themselves.                    *)

LEMMA NextOfOrder ==
  ASSUME NEW o \in Seq(Module), NEW t \in Seq(Module), IsRest(t, o), t # <<>>, IsInjective(o)
  PROVE  /\ Head(t) \in Module /\ Head(t) \notin Before(o, t)
         /\ IsRest(Tail(t), o) /\ Tail(t) \in Seq(Module)
         /\ Before(o, Tail(t)) = Before(o, t) \cup {Head(t)}
         /\ \E j \in DOMAIN o : Head(t) = o[j] /\ Before(o, t) = {o[k] : k \in 1 .. j - 1}
<1>1. PICK r \in Seq(Module) : r = Tail(t)
  BY TailFacts
<1>2. /\ Len(r) = Len(t) - 1 /\ Len(t) \in Nat \ {0} /\ Head(t) = t[1] /\ Head(t) \in Module
      /\ \A k \in 1 .. Len(t) - 1 : r[k] = t[k + 1]
  BY <1>1, TailFacts
<1>3. /\ Len(o) \in Nat /\ DOMAIN o = 1 .. Len(o) /\ DOMAIN t = 1 .. Len(t) /\ DOMAIN r = 1 .. Len(r)
      /\ Len(t) <= Len(o) /\ \A k \in DOMAIN t : t[k] = o[Len(o) - Len(t) + k]
  BY DEF IsRest
<1>4. PICK j \in Nat : j = Len(o) - Len(t) + 1
  <2>1. PICK a \in Nat, c \in Nat : a = Len(o) /\ c = Len(t)
    BY <1>2, <1>3
  <2>2. c <= a
    BY <1>3, <2>1, Zenon
  <2>3. a - c + 1 \in Nat
    BY <2>2
  <2>. QED  BY <2>1, <2>3, Zenon
<1>5. j \in DOMAIN o /\ Head(t) = o[j]
  <2>1. PICK a \in Nat, c \in Nat : a = Len(o) /\ c = Len(t)
    BY <1>2, <1>3
  <2>2. c <= a /\ c # 0 /\ j = a - c + 1
    BY <1>2, <1>3, <1>4, <2>1, Zenon
  <2>3. j \in 1 .. a /\ 1 \in 1 .. c /\ a - c + 1 = j
    BY <2>2
  <2>. QED  BY <1>2, <1>3, <2>1, <2>3, Zenon
<1>6. Before(o, t) = {o[k] : k \in 1 .. j - 1}
  <2>1. Len(o) - Len(t) = j - 1
    BY <1>2, <1>3, <1>4
  <2>. QED  BY <2>1 DEF Before
<1>7. Before(o, r) = {o[k] : k \in 1 .. j}
  <2>1. Len(o) - Len(r) = j
    BY <1>2, <1>3, <1>4
  <2>. QED  BY <2>1 DEF Before
<1>8. \A k : k \in 1 .. j <=> k \in 1 .. j - 1 \/ k = j
  BY <1>3, <1>5
<1>9. Before(o, r) = Before(o, t) \cup {Head(t)}
  BY <1>5, <1>6, <1>7, <1>8
<1>10. Head(t) \notin Before(o, t)
  <2>1. \A k \in 1 .. j - 1 : k \in DOMAIN o /\ k # j
    BY <1>3, <1>5
  <2>. QED  BY <1>5, <1>6, <2>1 DEF IsInjective
<1>11. IsRest(r, o)
  <2>1. Len(r) <= Len(o)
    BY <1>2, <1>3
  <2>2. ASSUME NEW k \in DOMAIN r  PROVE  r[k] = o[Len(o) - Len(r) + k]
    <3>1. k + 1 \in DOMAIN t /\ r[k] = t[k + 1] /\ Len(o) - Len(t) + (k + 1) = Len(o) - Len(r) + k
      BY <1>2, <1>3
    <3>. QED  BY <1>3, <3>1
  <2>. QED  BY <2>1, <2>2 DEF IsRest
<1>. QED  BY <1>1, <1>2, <1>5, <1>6, <1>9, <1>10, <1>11

\* The least fixed point contains what is shown directly, and goes on along re-exports.
LEMMA ReachFacts ==
  ASSUME NEW p \in Program, NEW g, NEW o \in Node, NEW n
  PROVE  /\ \A i \in ImportsIn(p, o) : i.flat /\ Admits(i.names, n) => i.to \in ReachIn(p, g, o, n)
         /\ \A m \in ReachIn(p, g, o, n) \cap g : \A i \in ImportsIn(p, m) :
              i.exported /\ i.flat /\ Admits(i.names, n) => i.to \in ReachIn(p, g, o, n)
         /\ \A S \in SUBSET Node : ClosedIn(p, g, o, n, S) => ReachIn(p, g, o, n) \subseteq S
<1>1. \A m \in Node : \A i \in ImportsIn(p, m) : i.to \in Node
  BY ImportFacts DEF Import
<1>2. ASSUME NEW i \in ImportsIn(p, o), i.flat, Admits(i.names, n)
      PROVE  i.to \in ReachIn(p, g, o, n)
  BY <1>1, <1>2 DEF ReachIn, ClosedIn
<1>3. ASSUME NEW m \in ReachIn(p, g, o, n) \cap g, NEW i \in ImportsIn(p, m),
             i.exported, i.flat, Admits(i.names, n)
      PROVE  i.to \in ReachIn(p, g, o, n)
  <2>1. m \in Node /\ i.to \in Node
    BY <1>1 DEF ReachIn
  <2>2. ASSUME NEW S \in SUBSET Node, ClosedIn(p, g, o, n, S)  PROVE  i.to \in S
    <3>1. m \in S \cap g
      BY <2>2 DEF ReachIn
    <3>. QED  BY <1>3, <2>2, <3>1 DEF ClosedIn
  <2>. QED  BY <2>1, <2>2 DEF ReachIn
<1>4. \A S \in SUBSET Node : ClosedIn(p, g, o, n, S) => ReachIn(p, g, o, n) \subseteq S
  BY DEF ReachIn
<1>. QED  BY <1>2, <1>3, <1>4

LEMMA SameReach ==
  ASSUME NEW o, NEW n
  PROVE  Reach(o, n) = ReachIn(prog, loaded, o, n)
<1>1. \A m : ImportsOf(m) = ImportsIn(prog, m)
  BY SameImports
<1>2. \A S : Closed(o, n, S) <=> ClosedIn(prog, loaded, o, n, S)
  BY <1>1 DEF Closed, ClosedIn
<1>. QED  BY <1>2 DEF Reach, ReachIn

\* In a sorted order a file sees, of what is loaded, only what comes before it.
LEMMA SeesEarlier ==
  ASSUME NEW p \in Program, NEW g, NEW o \in Seq(Module), Sorted(p, g, o), NEW j \in DOMAIN o, NEW n
  PROVE  ReachIn(p, g, o[j], n) \cap g \subseteq {o[k] : k \in 1 .. j - 1}
<1> DEFINE P == {o[k] : k \in 1 .. j - 1}
           S == P \cup (Node \ g)
<1>1. Len(o) \in Nat /\ DOMAIN o = 1 .. Len(o) /\ \A k \in DOMAIN o : o[k] \in Module
  BY SequenceFacts
<1>2. j \in Nat /\ \A k \in 1 .. j : k \in DOMAIN o
  BY <1>1
<1>3. ASSUME NEW k \in 1 .. j, NEW i \in ImportsIn(p, o[k])  PROVE  i.to \in S
  <2>1. i.to \in Node /\ i.to \in Targets(p, o[k])
    BY <1>1, <1>2, ImportFacts DEF Import, Targets, Node
  <2>2. CASE i.to \in g
    <3>1. PICK l \in 1 .. k - 1 : o[l] = i.to
      BY <1>2, <2>1, <2>2 DEF Sorted
    <3>2. l \in 1 .. j - 1
      BY <1>2, <3>1
    <3>. QED  BY <3>1, <3>2
  <2>. QED  BY <2>1, <2>2
<1>4. \A m \in S \cap g : \E k \in 1 .. j : m = o[k]
  BY <1>2
<1>5. j \in 1 .. j
  BY <1>1
<1>6. S \in SUBSET Node
  BY <1>1, <1>2 DEF Node
<1>7. \A i \in ImportsIn(p, o[j]) : i.to \in S
  BY <1>3, <1>5
<1>8. \A m \in S \cap g : \A i \in ImportsIn(p, m) : i.to \in S
  BY <1>3, <1>4
<1> HIDE DEF S
<1>9. ClosedIn(p, g, o[j], n, S)
  BY <1>7, <1>8 DEF ClosedIn
<1>10. ReachIn(p, g, o[j], n) \subseteq S
  BY <1>6, <1>9 DEF ReachIn
<1>. QED  BY <1>10 DEF S

\* Merging masks lets a name through if either does.
LEMMA MergeFacts ==
  ASSUME NEW m \in Node, NEW k \in SUBSET Name, NEW n \in Name, mask \in [Node -> SUBSET Name]
  PROVE  /\ Merged(m, k) \in SUBSET Name
         /\ Admits(Merged(m, k), n) <=> ShowsIn(shown, mask, m, n) \/ Admits(k, n)
BY DEF Merged, Admits, ShowsIn

\* Narrowing lets a name through, if a re-export passes, just if both masks do.
LEMMA NarrowFacts ==
  ASSUME NEW k \in SUBSET Name, NEW i \in Import, NEW n \in Name
  PROVE  /\ Narrowed(k, i.names) \in SUBSET Name
         /\ i.exported /\ i.flat /\ Admits(k, n) /\ Admits(i.names, n) =>
              Passes(k, i) /\ Admits(Narrowed(k, i.names), n)
         /\ Passes(k, i) /\ Admits(Narrowed(k, i.names), n) =>
              i.exported /\ i.flat /\ Admits(k, n) /\ Admits(i.names, n)
<1>1. i.names \in SUBSET Name
  BY DEF Import
<1>. QED  BY <1>1 DEF Narrowed, Passes, Admits

-----------------------------------------------------------------------------
(* Loading.                                                                *)

LEMMA TargetsAre ==
  ASSUME NEW m
  PROVE  {i.to : i \in ImportsOf(m)} = Targets(prog, m)
BY SameImports DEF Targets

LEMMA InitHolds ==
  ASSUME Init
  PROVE  IInv
<1>0. prog \in Program /\ Entry \in Node
  BY DEF Init, Node
<1>1. queue = Targets(prog, Entry) /\ queue \subseteq Node
  BY <1>0, TargetsAre, ImportFacts DEF Init
<1>2. TypeOK
  BY <1>0, <1>1 DEF Init, TypeOK
<1>3. LoadInv
  BY <1>1 DEF Init, LoadInv, Spreads
<1>4. WalkInv
  BY DEF Init, WalkInv, Path, Above, Sorted, ToSet, IsInjective
<1>5. CheckInv /\ VisibleInv
  BY DEF Init, CheckInv, VisibleInv
<1>. QED  BY <1>2, <1>3, <1>4, <1>5 DEF IInv

\* While files are loaded the walk has not begun.
LEMMA NotWalking ==
  ASSUME LoadInv, phase = "load"
  PROVE  WalkInv /\ CheckInv /\ VisibleInv
BY DEF LoadInv, WalkInv, CheckInv, VisibleInv, Path, Above, Sorted, ToSet, IsInjective

LEMMA LoadStep ==
  ASSUME IInv, NEW m \in Node, Load(m)
  PROVE  IInv'
<1>0. /\ TypeOK /\ LoadInv /\ phase = "load" /\ m \in queue
      /\ phase' = phase /\ prog' = prog /\ prog \in Program /\ seen' = seen \cup {m}
      /\ UNCHANGED <<stack, visiting, visited, order, todo, checked, pending, shown, mask>>
  BY DEF Load, IInv, TypeOK, walking, showing
<1>1. Targets(prog, m) \subseteq Node
  BY <1>0, ImportFacts
<1>2. \/ m \in seen /\ queue' = queue \ {m} /\ loaded' = loaded /\ errors' = errors
      \/ /\ m \notin seen /\ m = Entry /\ queue' = queue \ {m}
         /\ loaded' = loaded /\ errors' = errors \cup {"entry"}
      \/ /\ m \notin seen /\ m # Entry /\ queue' = queue \ {m}
         /\ loaded' = loaded /\ errors' = errors \cup {"unreadable"}
      \/ /\ m \notin seen /\ m # Entry /\ loaded' = loaded \cup {m}
         /\ queue' = (queue \ {m}) \cup Targets(prog, m) /\ errors' = errors
  BY TargetsAre DEF Load
<1>3. TypeOK'
  <2>1. queue' \subseteq Node /\ seen' \subseteq Node /\ loaded' \subseteq Module
    BY <1>0, <1>1, <1>2 DEF TypeOK, Node
  <2>2. errors' \subseteq {"unreadable", "entry", "cycle"}
    BY <1>0, <1>2 DEF TypeOK
  <2>. QED  BY <1>0, <2>1, <2>2 DEF TypeOK
<1>4. LoadInv'
  <2>1. loaded' \subseteq seen' /\ (Entry \in seen' <=> "entry" \in errors')
    BY <1>0, <1>2 DEF LoadInv
  <2>2. \A k \in loaded' \cup {Entry} : Targets(prog', k) \subseteq queue' \cup seen'
    BY <1>0, <1>2 DEF LoadInv
  <2>3. loaded \subseteq loaded' /\ queue' \cup seen' \subseteq queue \cup seen \cup Targets(prog, m)
        /\ (m \in loaded' \/ queue' \cup seen' \subseteq queue \cup seen)
    BY <1>0, <1>2
  <2>4. \A t \in queue' \cup seen' : \E k \in loaded' \cup {Entry} : t \in Targets(prog', k)
    BY <1>0, <2>3 DEF LoadInv
  <2>5. ASSUME NEW S \in SUBSET Node, Spreads(prog', loaded', S)
        PROVE  queue' \cup loaded' \subseteq S
    <3>1. Spreads(prog, loaded, S)
      BY <1>0, <2>3, <2>5 DEF Spreads
    <3>2. queue \cup loaded \subseteq S
      BY <1>0, <3>1 DEF LoadInv
    <3>3. m \in loaded' => Targets(prog, m) \subseteq S
      BY <1>0, <2>5, <3>2 DEF Spreads
    <3>. QED  BY <1>0, <1>2, <3>2, <3>3
  <2>6. "cycle" \notin errors'
    BY <1>0, <1>2 DEF LoadInv
  <2>. QED  BY <1>0, <2>1, <2>2, <2>4, <2>5, <2>6 DEF LoadInv
<1>5. WalkInv' /\ CheckInv' /\ VisibleInv'
  <2>1. phase' = "load"
    BY <1>0
  <2>2. (LoadInv /\ phase = "load") => (WalkInv /\ CheckInv /\ VisibleInv)
    BY NotWalking
  <2>. QED
    BY <1>0, <1>2, <1>4, <2>1
    DEF LoadInv, WalkInv, CheckInv, VisibleInv, Path, Above, Sorted, ToSet, IsInjective
<1>. QED  BY <1>3, <1>4, <1>5 DEF IInv

\* Once all is loaded, what was loaded stays.
LEMMA LoadedStays ==
  ASSUME LoadInv, UNCHANGED <<prog, loading>>, "entry" \in errors' <=> "entry" \in errors,
         phase' # "load", queue = {}, phase' = "order" => checked' = {}
  PROVE  LoadInv'
BY DEF LoadInv, loading

LEMMA LoadedStep ==
  ASSUME IInv, Loaded
  PROVE  IInv'
<1>0. /\ TypeOK /\ LoadInv /\ phase = "load" /\ queue = {} /\ phase' = "order"
      /\ prog \in Program /\ stack' = Frames(Entry) /\ visiting = {} /\ visited = {} /\ order = <<>>
      /\ "cycle" \notin errors /\ checked = {} /\ Entry \in Node
      /\ UNCHANGED <<prog, queue, seen, loaded, errors, visiting, visited, order,
                     todo, checked, pending, shown, mask>>
  BY DEF Loaded, IInv, LoadInv, TypeOK, loading, showing, Node
<1>1. PICK fs : fs = Frames(Entry)
  OBVIOUS
<1>2. /\ fs \in Seq(StackFrame)
      /\ \A k \in 1 .. Len(fs) : ~fs[k].leaving /\ fs[k].at \in Targets(prog, Entry)
      /\ \A t \in Targets(prog, Entry) : \E k \in 1 .. Len(fs) : fs[k].at = t
  BY <1>0, <1>1, FramesFacts
<1>3. DOMAIN fs = 1 .. Len(fs) /\ stack' = fs
  BY <1>0, <1>1, <1>2
<1>4. TypeOK'
  BY <1>0, <1>2, <1>3 DEF TypeOK, StackFrame
<1>5. LoadInv'
  BY <1>0, LoadedStays DEF loading
<1>6. WalkInv'
  <2>1. Path(prog, fs, {}) /\ Above(prog, loaded, fs, {})
    BY <1>2, <1>3 DEF Path, Above
  <2>2. Keeps(prog, loaded, fs, {})
    BY <1>2, <1>3 DEF Keeps
  <2>3. Sorted(prog, loaded, <<>>) /\ ToSet(<<>>) = {} /\ IsInjective(<<>>)
    BY DEF Sorted, ToSet, IsInjective
  <2>. QED  BY <1>0, <1>3, <2>1, <2>2, <2>3 DEF WalkInv
<1>7. CheckInv' /\ VisibleInv'
  BY <1>0 DEF CheckInv, VisibleInv
<1>. QED  BY <1>4, <1>5, <1>6, <1>7 DEF IInv

-----------------------------------------------------------------------------
(* The walk.                                                               *)

LEMMA VisitStep ==
  ASSUME IInv, Visit
  PROVE  IInv'
<1>0. /\ TypeOK /\ LoadInv /\ WalkInv /\ phase = "order" /\ stack # <<>> /\ prog \in Program
      /\ UNCHANGED <<prog, phase, queue, seen, loaded, todo, checked, pending, shown, mask>>
  BY DEF Visit, IInv, TypeOK, loading, showing
<1> PICK z : z = stack
  OBVIOUS
<1> PICK f : f = Last(z)
  OBVIOUS
<1> PICK s : s = Front(z)
  OBVIOUS
<1>1. z \in Seq(StackFrame) /\ z # <<>>
  BY <1>0 DEF TypeOK, StackFrame
<1>2. Popped(z, s, f)
  BY <1>1, FrontFacts DEF Popped
<1>3. f \in StackFrame /\ f.at \in Node /\ f.leaving \in BOOLEAN /\ s \in Seq(StackFrame)
  BY <1>2 DEF Popped, StackFrame
<1>4. z[Len(z)] = f /\ Len(z) \in DOMAIN z
  BY <1>1, <1>2 DEF Popped
<1>5. /\ Path(prog, z, visiting) /\ Keeps(prog, loaded, z, visiting \cup visited)
      /\ visiting \cup visited \subseteq loaded
      /\ visited = ToSet(order) /\ IsInjective(order)
      /\ "cycle" \notin errors => Above(prog, loaded, z, visited) /\ Sorted(prog, loaded, order)
      /\ "cycle" \in errors => HasCycle(prog, loaded)
  BY <1>0 DEF WalkInv
<1>6. visiting \subseteq Module /\ visited \subseteq Module /\ visiting \cap visited = {}
      /\ loaded \subseteq Module /\ order \in Seq(Module)
  BY <1>0 DEF TypeOK
<1>7. queue = {} /\ checked = {}
  BY <1>0 DEF LoadInv
<1>8. ASSUME "entry" \in errors' <=> "entry" \in errors, TypeOK', WalkInv'  PROVE  IInv'
  <2>1. LoadInv'
    BY <1>0, <1>7, <1>8, LoadedStays DEF loading
  <2>2. CheckInv' /\ VisibleInv'
    BY <1>0 DEF CheckInv, VisibleInv
  <2>. QED  BY <1>8, <2>1, <2>2 DEF IInv
<1>9. CASE f.at \in visited \/ f.at \notin loaded
  <2>1. stack' = s /\ UNCHANGED <<visiting, visited, order, errors>>
    BY <1>9 DEF Visit, Skipped
  <2>2. ~f.leaving
    BY <1>4, <1>5, <1>6, <1>9 DEF Path
  <2>3. Path(prog, s, visiting)
    BY <1>2, <1>5, <2>2, PopKeepsPath
  <2>4. Keeps(prog, loaded, s, visiting \cup visited)
    BY <1>2, <1>5, <1>9, PopKeeps
  <2>5. "cycle" \notin errors => Above(prog, loaded, s, visited)
    BY <1>2, <1>5, <1>9, PopKeepsAbove
  <2>6. WalkInv'
    BY <1>0, <1>5, <2>1, <2>3, <2>4, <2>5 DEF WalkInv
  <2>7. TypeOK'
    BY <1>0, <1>3, <2>1 DEF TypeOK, StackFrame
  <2>. QED  BY <1>8, <2>1, <2>6, <2>7
<1>10. CASE f.at \notin visited /\ f.at \in loaded /\ f.leaving
  <2>1. /\ stack' = s /\ visiting' = visiting \ {f.at} /\ visited' = visited \cup {f.at}
        /\ order' = Append(order, f.at) /\ errors' = errors
    BY <1>10 DEF Visit, Skipped
  <2>2. f.at \in Module /\ f.at \in visiting
    BY <1>4, <1>5, <1>6, <1>10 DEF Path
  <2>3. Path(prog, s, visiting')
    BY <1>2, <1>5, <1>10, <2>1, PopKeepsPath
  <2>4. visiting' \cup visited' = visiting \cup visited
    BY <2>1, <2>2
  <2>5. Keeps(prog, loaded, s, visiting' \cup visited')
    BY <1>2, <1>5, <2>2, <2>4, PopKeeps
  <2>6. ASSUME "cycle" \notin errors
        PROVE  Above(prog, loaded, s, visited') /\ Sorted(prog, loaded, order')
    <3>1. visited \subseteq visited' /\ f.at \in visited'
      BY <2>1
    <3>2. Above(prog, loaded, s, visited')
      BY <1>2, <1>5, <2>6, <3>1, PopKeepsAbove
    <3>3. \A t \in Targets(prog, f.at) \cap loaded : t \in ToSet(order)
      <4> SUFFICES ASSUME NEW t \in Targets(prog, f.at) \cap loaded  PROVE  t \in visited
        BY <1>5
      <4>1. t \in visited \/ \E k \in DOMAIN z : Len(z) < k /\ z[k].at = t
        BY <1>4, <1>5, <1>10, <2>6 DEF Above
      <4>2. \A k \in DOMAIN z : ~(Len(z) < k)
        BY <1>1
      <4>. QED  BY <4>1, <4>2
    <3>4. Sorted(prog, loaded, Append(order, f.at))
      BY <1>5, <1>6, <2>2, <2>6, <3>3, AppendKeepsSorted
    <3>. QED  BY <2>1, <3>2, <3>4
  <2>7. visited' = ToSet(order') /\ IsInjective(order')
    BY <1>5, <1>6, <1>10, <2>1, <2>2, AppendAdds
  <2>8. visiting' \cup visited' \subseteq loaded
    BY <1>5, <2>4
  <2>9. WalkInv'
    BY <1>0, <1>5, <2>1, <2>3, <2>5, <2>6, <2>7, <2>8 DEF WalkInv
  <2>10. order' \in Seq(Module)
    BY <1>6, <2>1, <2>2, AppendFacts
  <2>11. TypeOK'
    BY <1>0, <1>3, <1>6, <2>1, <2>2, <2>10 DEF TypeOK, StackFrame
  <2>. QED  BY <1>8, <2>1, <2>9, <2>11
<1>11. CASE f.at \notin visited /\ f.at \in loaded /\ ~f.leaving /\ f.at \notin visiting
  <2>1. /\ stack' = s \o Opened(f.at) /\ visiting' = visiting \cup {f.at}
        /\ UNCHANGED <<visited, order, errors>>
    BY <1>11 DEF Visit, Skipped
  <2> PICK b : b = Frames(f.at)
    OBVIOUS
  <2> PICK w : w = s \o Opened(f.at)
    OBVIOUS
  <2>2. Deeper(prog, z, w, f, b)
    BY <1>0, <1>2, <1>3, <1>11, OpenFacts
  <2>3. Path(prog, w, visiting')
    BY <1>5, <1>11, <2>1, <2>2, DeeperKeepsPath
  <2>4. visiting' \cup visited' = visiting \cup visited \cup {f.at}
    BY <2>1
  <2>5. Keeps(prog, loaded, w, visiting' \cup visited')
    BY <1>5, <2>2, <2>4, DeeperKeeps
  <2>6. "cycle" \notin errors => Above(prog, loaded, w, visited)
    BY <1>5, <2>2, DeeperKeepsAbove
  <2>7. visiting' \cup visited' \subseteq loaded
    BY <1>5, <1>11, <2>4
  <2>8. WalkInv'
    BY <1>0, <1>5, <2>1, <2>3, <2>5, <2>6, <2>7 DEF WalkInv
  <2>9. w \in Seq(StackFrame)
    BY <2>2 DEF Deeper
  <2>10. visiting' \subseteq Module /\ visiting' \cap visited' = {}
    BY <1>6, <1>11, <2>1
  <2>11. TypeOK'
    BY <1>0, <2>1, <2>9, <2>10 DEF TypeOK, StackFrame
  <2>. QED  BY <1>8, <2>1, <2>8, <2>11
<1>12. CASE f.at \notin visited /\ f.at \in loaded /\ ~f.leaving /\ f.at \in visiting
  <2>1. stack' = s /\ errors' = errors \cup {"cycle"} /\ UNCHANGED <<visiting, visited, order>>
    BY <1>12 DEF Visit, Skipped
  <2>2. Path(prog, s, visiting)
    BY <1>2, <1>5, <1>12, PopKeepsPath
  <2>3. Keeps(prog, loaded, s, visiting \cup visited)
    BY <1>2, <1>5, <1>12, PopKeeps
  <2>4. HasCycle(prog, loaded)
    <3>1. PICK S \in SUBSET visiting : S # {} /\ \A m \in S : Targets(prog, m) \cap S # {}
      BY <1>2, <1>5, <1>12, PathHasCycle
    <3>. QED  BY <1>5, <3>1 DEF HasCycle
  <2>5. WalkInv'
    BY <1>0, <1>5, <2>1, <2>2, <2>3, <2>4 DEF WalkInv
  <2>6. TypeOK'
    BY <1>0, <1>3, <2>1 DEF TypeOK, StackFrame
  <2>. QED  BY <1>8, <2>1, <2>5, <2>6
<1>. QED  BY <1>3, <1>9, <1>10, <1>11, <1>12

\* After the walk nothing changes what was loaded, or the order.
LEMMA OrderStays ==
  ASSUME WalkInv, UNCHANGED <<prog, loading, errors, walking>>, phase # "load", stack = <<>>
  PROVE  WalkInv'
BY DEF WalkInv, loading, walking

LEMMA OrderedStep ==
  ASSUME IInv, Ordered
  PROVE  IInv'
<1>0. /\ TypeOK /\ LoadInv /\ WalkInv /\ phase = "order" /\ stack = <<>> /\ phase' = "check"
      /\ todo' = order /\ order \in Seq(Module) /\ queue = {} /\ checked = {}
      /\ UNCHANGED <<prog, loading, queue, seen, loaded, errors, walking, stack, visiting, visited,
                     order, checked, pending, shown, mask>>
  BY DEF Ordered, Checklist, IInv, LoadInv, TypeOK, loading, walking, showing
<1>1. TypeOK'
  BY <1>0 DEF TypeOK
<1>2. LoadInv'
  BY <1>0, LoadedStays
<1>3. WalkInv'
  BY <1>0, OrderStays
<1>4. CheckInv'
  <2>1. Len(order) \in Nat /\ DOMAIN order = 1 .. Len(order)
    BY <1>0
  <2>2. IsRest(order, order)
    <3>1. \A k \in DOMAIN order : Len(order) - Len(order) + k = k
      BY <2>1
    <3>. QED  BY <2>1, <3>1 DEF IsRest
  <2>3. Before(order, order) = {}
    <3>1. \A k : k \notin 1 .. Len(order) - Len(order)
      BY <2>1
    <3>. QED  BY <3>1 DEF Before
  <2>4. Explained(prog, loaded, {}, {})
    BY DEF Explained
  <2>. QED  BY <1>0, <2>2, <2>3, <2>4 DEF CheckInv
<1>5. VisibleInv'
  BY <1>0 DEF VisibleInv
<1>. QED  BY <1>1, <1>2, <1>3, <1>4, <1>5 DEF IInv

-----------------------------------------------------------------------------
(* Checking file by file.                                                  *)

\* What holds while files are checked.
LEMMA CheckingFacts ==
  ASSUME IInv, phase \in {"check", "walk"}
  PROVE  /\ prog \in Program /\ loaded \subseteq Module /\ queue = {} /\ stack = <<>>
         /\ order \in Seq(Module) /\ todo \in Seq(Module) /\ IsRest(todo, order)
         /\ IsInjective(order) /\ ToSet(order) = visited
         /\ "cycle" \notin errors => Sorted(prog, loaded, order)
         /\ checked \subseteq Before(order, todo)
         /\ "cycle" \notin errors => Explained(prog, loaded, Before(order, todo), checked)
         /\ Owner \in Node /\ (Owner = Entry <=> todo = <<>>)
         /\ todo # <<>> => Owner = Head(todo) /\ Head(todo) \in Module
<1>1. TypeOK /\ LoadInv /\ WalkInv /\ CheckInv
  BY DEF IInv
<1>2. phase \notin {"load", "order"}
  OBVIOUS
<1>3. todo \in Seq(Module)
  BY <1>1 DEF TypeOK
<1>4. todo # <<>> => Head(todo) \in Module
  BY <1>3, TailFacts
<1>5. Owner \in Node /\ (Owner = Entry <=> todo = <<>>) /\ (todo # <<>> => Owner = Head(todo))
  BY <1>4 DEF Owner, Node
<1>. QED  BY <1>1, <1>2, <1>3, <1>4, <1>5 DEF TypeOK, LoadInv, WalkInv, CheckInv

\* A file that is passed over because it did not parse.
LEMMA ExplainedBySelf ==
  ASSUME NEW p, NEW g, NEW P, NEW good, NEW m, Explained(p, g, P, good),
         m \notin p.parses \cap p.sound
  PROVE  Explained(p, g, P \cup {m}, good)
<1> SUFFICES ASSUME NEW x \in (P \cup {m}) \ good, x \in p.parses \cap p.sound
             PROVE  \E n \in Name : \E y \in ReachIn(p, g, x, n) \cap g : y \in (P \cup {m}) \ good
  BY DEF Explained
<1>1. x \in P \ good
  OBVIOUS
<1>. QED  BY <1>1 DEF Explained

\* A file that was checked without success because of one that was not.
LEMMA ExplainedByOther ==
  ASSUME NEW p, NEW g, NEW P, NEW good, NEW m, Explained(p, g, P, good),
         NEW n \in Name, NEW y \in ReachIn(p, g, m, n) \cap g, y \in P \ good
  PROVE  Explained(p, g, P \cup {m}, good)
<1> SUFFICES ASSUME NEW x \in (P \cup {m}) \ good, x \in p.parses \cap p.sound
             PROVE  \E l \in Name : \E v \in ReachIn(p, g, x, l) \cap g : v \in (P \cup {m}) \ good
  BY DEF Explained
<1>1. CASE x = m
  BY <1>1
<1>2. CASE x \in P \ good
  BY <1>2 DEF Explained
<1>. QED  BY <1>1, <1>2

\* A file that was checked: it was no reason for another to fail.
LEMMA ExplainedStill ==
  ASSUME NEW p, NEW g, NEW P, NEW good, NEW m, Explained(p, g, P, good), m \notin P
  PROVE  Explained(p, g, P \cup {m}, good \cup {m})
<1> SUFFICES ASSUME NEW x \in P \ good, x \in p.parses \cap p.sound
             PROVE  \E l \in Name : \E v \in ReachIn(p, g, x, l) \cap g : v \in P \ good /\ v # m
  BY DEF Explained
<1>. QED  BY DEF Explained

LEMMA BeginStep ==
  ASSUME IInv, Begin
  PROVE  IInv'
<1>0. /\ TypeOK /\ LoadInv /\ WalkInv /\ CheckInv /\ phase = "check" /\ phase' \in {"check", "walk"}
      /\ UNCHANGED <<prog, loading, queue, seen, loaded, errors, walking, stack, visiting, visited,
                     order, checked>>
  BY DEF Begin, IInv, loading, walking
<1>1. /\ prog \in Program /\ loaded \subseteq Module /\ queue = {} /\ stack = <<>>
      /\ order \in Seq(Module) /\ todo \in Seq(Module) /\ IsRest(todo, order)
      /\ IsInjective(order)
      /\ checked \subseteq Before(order, todo)
      /\ "cycle" \notin errors => Explained(prog, loaded, Before(order, todo), checked)
      /\ Owner \in Node /\ (Owner = Entry <=> todo = <<>>)
      /\ todo # <<>> => Owner = Head(todo) /\ Head(todo) \in Module
  BY <1>0, CheckingFacts
<1>2. LoadInv'
  BY <1>0, <1>1, LoadedStays
<1>3. WalkInv'
  BY <1>0, <1>1, OrderStays
<1>4. CASE Owner # Entry /\ Owner \notin prog.parses
  <2>1. todo' = Tail(todo) /\ phase' = "check" /\ UNCHANGED <<pending, shown, mask>>
    BY <1>0, <1>4 DEF Begin, showing
  <2> PICK r : r = Tail(todo)
    OBVIOUS
  <2>2. /\ IsRest(r, order) /\ r \in Seq(Module)
        /\ Before(order, r) = Before(order, todo) \cup {Owner}
    BY <1>1, <1>4, NextOfOrder
  <2>3. TypeOK'
    BY <1>0, <2>1, <2>2 DEF TypeOK
  <2>4. "cycle" \notin errors => Explained(prog, loaded, Before(order, r), checked)
    BY <1>1, <1>4, <2>2, ExplainedBySelf
  <2>5. CheckInv'
    BY <1>0, <1>1, <2>1, <2>2, <2>4 DEF CheckInv
  <2>6. VisibleInv'
    BY <2>1 DEF VisibleInv
  <2>. QED  BY <1>2, <1>3, <2>3, <2>5, <2>6 DEF IInv
<1>5. CASE ~(Owner # Entry /\ Owner \notin prog.parses)
  <2>1. /\ phase' = "walk" /\ todo' = todo /\ shown' = {} /\ mask' = [m \in Node |-> {}]
        /\ pending' = {<<i.to, i.names>> : i \in {j \in ImportsOf(Owner) : j.flat}}
    BY <1>5 DEF Begin
  <2> PICK o \in Node : o = Owner
    BY <1>1
  <2>2. Owner' = o
    BY <2>1 DEF Owner
  <2>3. ImportsIn(prog, o) \subseteq Import /\ ImportsOf(Owner) = ImportsIn(prog, o)
    BY <1>1, ImportFacts, SameImports
  <2> PICK pd : pd = {<<i.to, i.names>> : i \in {j \in ImportsIn(prog, o) : j.flat}}
    OBVIOUS
  <2>4. pending' = pd /\ pd \subseteq Node \X SUBSET Name
    BY <2>1, <2>3 DEF Import
  <2>5. TypeOK'
    BY <1>0, <2>1, <2>4 DEF TypeOK
  <2>6. CheckInv'
    BY <1>0, <2>1 DEF CheckInv
  <2>7. ASSUME NEW n \in Name
        PROVE  Visible(prog, loaded, o, {}, [m \in Node |-> {}], pd, n)
    <3>1. ASSUME NEW m \in Node, Either({}, [x \in Node |-> {}], pd, m, n)
          PROVE  m \in ReachIn(prog, loaded, o, n)
      <4>1. PICK w \in pd : w[1] = m /\ Admits(w[2], n)
        BY <3>1 DEF Either, ShowsIn, Coming
      <4>2. PICK i \in ImportsIn(prog, o) : i.flat /\ w = <<i.to, i.names>>
        OBVIOUS
      <4>. QED  BY <1>1, <4>1, <4>2, ReachFacts
    <3>2. ASSUME NEW i \in ImportsIn(prog, o), i.flat, Admits(i.names, n)
          PROVE  Either({}, [x \in Node |-> {}], pd, i.to, n)
      <4>1. <<i.to, i.names>> \in pd
        BY <3>2
      <4>. QED  BY <3>2, <4>1 DEF Either, Coming
    <3>. QED  BY <3>1, <3>2 DEF Visible, ShowsIn
  <2>8. VisibleInv'
    BY <1>0, <2>1, <2>2, <2>4, <2>7 DEF VisibleInv
  <2>. QED  BY <1>2, <1>3, <2>5, <2>6, <2>8 DEF IInv
<1>. QED  BY <1>4, <1>5

-----------------------------------------------------------------------------
(* Which names are visible.                                                *)

\* What following c, which reaches r, may do to what is shown of name n.
Followed(p, g, n, sh, ms, pd, sh2, ms2, pd2, r, c) ==
  /\ \A m \in Node : m # r => (ShowsIn(sh2, ms2, m, n) <=> ShowsIn(sh, ms, m, n))
  /\ ShowsIn(sh2, ms2, r, n) <=> ShowsIn(sh, ms, r, n) \/ Admits(c[2], n)
  /\ c[1] = r /\ pd \ {c} \subseteq pd2
  /\ \A w \in pd2 \ pd : Admits(w[2], n) =>
       \E i \in ImportsIn(p, r) : /\ r \in g /\ w[1] = i.to /\ i.exported /\ i.flat
                                  /\ Admits(i.names, n) /\ ShowsIn(sh2, ms2, r, n)
  /\ ~ShowsIn(sh, ms, r, n) /\ ShowsIn(sh2, ms2, r, n) /\ r \in g =>
       \A i \in ImportsIn(p, r) :
         i.exported /\ i.flat /\ Admits(i.names, n) => Coming(pd2, i.to, n)

\* Following one pending mask c[2] of r keeps what was shown or coming, gives r the
\* names that the mask admits, and passes on what r then shows.
LEMMA FollowingKeeps ==
  ASSUME NEW p \in Program, NEW g, g \subseteq Node, NEW o \in Node, NEW n,
         NEW sh, NEW ms, NEW pd, NEW sh2, NEW ms2, NEW pd2, NEW r \in Node, NEW c \in pd,
         Visible(p, g, o, sh, ms, pd, n),
         Followed(p, g, n, sh, ms, pd, sh2, ms2, pd2, r, c)
  PROVE  Visible(p, g, o, sh2, ms2, pd2, n)
<1> USE DEF Followed
<1>0. /\ \A m \in Node : Either(sh, ms, pd, m, n) => m \in ReachIn(p, g, o, n)
      /\ \A i \in ImportsIn(p, o) : i.flat /\ Admits(i.names, n) => Either(sh, ms, pd, i.to, n)
      /\ \A m \in g : ShowsIn(sh, ms, m, n) =>
           \A i \in ImportsIn(p, m) :
             i.exported /\ i.flat /\ Admits(i.names, n) => Either(sh, ms, pd, i.to, n)
  BY DEF Visible
<1>1. ASSUME NEW m \in Node, Either(sh, ms, pd, m, n)  PROVE  Either(sh2, ms2, pd2, m, n)
  <2>1. CASE ShowsIn(sh, ms, m, n)
    BY <2>1 DEF Either
  <2>2. CASE Coming(pd, m, n)
    <3>1. PICK w \in pd : w[1] = m /\ Admits(w[2], n)
      BY <2>2 DEF Coming
    <3>2. CASE w # c
      BY <3>1, <3>2 DEF Either, Coming
    <3>3. CASE w = c
      BY <3>1, <3>3 DEF Either
    <3>. QED  BY <3>2, <3>3
  <2>. QED  BY <1>1, <2>1, <2>2 DEF Either
<1>2. ASSUME ShowsIn(sh2, ms2, r, n)  PROVE  r \in ReachIn(p, g, o, n)
  <2>1. ShowsIn(sh, ms, r, n) \/ Coming(pd, r, n)
    BY <1>2 DEF Coming
  <2>. QED  BY <1>0, <2>1 DEF Either
<1>3. ASSUME NEW m \in Node, Either(sh2, ms2, pd2, m, n)  PROVE  m \in ReachIn(p, g, o, n)
  <2>1. CASE ShowsIn(sh2, ms2, m, n)
    BY <1>0, <1>2, <2>1 DEF Either
  <2>2. CASE Coming(pd2, m, n)
    <3>1. PICK w \in pd2 : w[1] = m /\ Admits(w[2], n)
      BY <2>2 DEF Coming
    <3>2. CASE w \in pd
      BY <1>0, <3>1, <3>2 DEF Either, Coming
    <3>3. CASE w \notin pd
      <4>1. PICK i \in ImportsIn(p, r) : /\ r \in g /\ w[1] = i.to /\ i.exported /\ i.flat
                                         /\ Admits(i.names, n) /\ ShowsIn(sh2, ms2, r, n)
        BY <3>1, <3>3
      <4>2. r \in ReachIn(p, g, o, n) \cap g
        BY <1>2, <4>1
      <4>. QED  BY <3>1, <4>1, <4>2, ReachFacts
    <3>. QED  BY <3>2, <3>3
  <2>. QED  BY <1>3, <2>1, <2>2 DEF Either
<1>4. \A m \in Node : \A i \in ImportsIn(p, m) : i.to \in Node
  BY ImportFacts DEF Import
<1>5. \A i \in ImportsIn(p, o) : i.flat /\ Admits(i.names, n) => Either(sh2, ms2, pd2, i.to, n)
  BY <1>0, <1>1, <1>4
<1>6. ASSUME NEW m \in g, ShowsIn(sh2, ms2, m, n), NEW i \in ImportsIn(p, m),
             i.exported, i.flat, Admits(i.names, n)
      PROVE  Either(sh2, ms2, pd2, i.to, n)
  <2>1. m \in Node /\ i.to \in Node
    BY <1>4
  <2>2. CASE ShowsIn(sh, ms, m, n)
    <3>1. Either(sh, ms, pd, i.to, n)
      BY <1>0, <1>6, <2>2
    <3>. QED  BY <1>1, <2>1, <3>1
  <2>3. CASE ~ShowsIn(sh, ms, m, n)
    <3>1. m = r
      BY <1>6, <2>1, <2>3
    <3>. QED  BY <1>6, <2>3, <3>1 DEF Either
  <2>. QED  BY <2>2, <2>3
<1>. QED  BY <1>3, <1>5, <1>6 DEF Visible

LEMMA WalkStep ==
  ASSUME IInv, NEW w \in pending, Walk(w)
  PROVE  IInv'
<1>0. /\ TypeOK /\ LoadInv /\ WalkInv /\ CheckInv /\ VisibleInv /\ phase = "walk"
      /\ UNCHANGED <<prog, loading, queue, seen, loaded, errors, walking, stack, visiting, visited,
                     order, todo, checked, phase>>
  BY DEF Walk, IInv, loading, walking
<1>1. prog \in Program /\ loaded \subseteq Module /\ queue = {} /\ stack = <<>> /\ Owner \in Node
  BY <1>0, CheckingFacts
<1>2. /\ pending \subseteq Node \X SUBSET Name /\ shown \subseteq Node
      /\ mask \in [Node -> SUBSET Name]
  BY <1>0 DEF TypeOK
<1> PICK r \in Node, k \in SUBSET Name : w = <<r, k>>
  BY <1>2
<1>3. w[1] = r /\ w[2] = k
  OBVIOUS
<1> PICK M : M = Merged(r, k)
  OBVIOUS
<1>4. M \in SUBSET Name
        /\ \A n \in Name : Admits(M, n) <=> ShowsIn(shown, mask, r, n) \/ Admits(k, n)
  <2>1. M \in SUBSET Name
    BY <1>2 DEF Merged
  <2>2. \A n \in Name : Admits(M, n) <=> ShowsIn(shown, mask, r, n) \/ Admits(k, n)
    BY <1>2, MergeFacts
  <2>. QED  BY <2>1, <2>2
<1> PICK X : X = Reexports(r, M)
  OBVIOUS
<1>5. ImportsOf(r) = ImportsIn(prog, r) /\ ImportsIn(prog, r) \subseteq Import
  BY <1>1, SameImports, ImportFacts
<1>6. \A u : u \in X <=> r \in loaded /\ \E i \in ImportsIn(prog, r) :
                             Passes(M, i) /\ u = <<i.to, Narrowed(M, i.names)>>
  BY <1>5 DEF Reexports
<1>7. X \subseteq Node \X SUBSET Name
  <2> SUFFICES ASSUME NEW u \in X  PROVE  u \in Node \X SUBSET Name
    OBVIOUS
  <2>1. PICK i \in ImportsIn(prog, r) : u = <<i.to, Narrowed(M, i.names)>>
    BY <1>6
  <2>2. i \in Import /\ i.to \in Node /\ i.names \in SUBSET Name
    BY <1>5 DEF Import
  <2>3. Narrowed(M, i.names) \in SUBSET Name
    BY <1>4, <2>2 DEF Narrowed
  <2>. QED  BY <2>1, <2>2, <2>3
<1>8. LoadInv'
  BY <1>0, <1>1, LoadedStays
<1>9. WalkInv'
  BY <1>0, <1>1, OrderStays
<1>10. CheckInv'
  BY <1>0 DEF CheckInv
<1> PICK o \in Node : o = Owner
  BY <1>1
<1>11. Owner' = o
  BY <1>0 DEF Owner
<1>12. \A n \in Name : Visible(prog, loaded, o, shown, mask, pending, n)
  BY <1>0 DEF VisibleInv
<1>13. loaded \subseteq Node
  BY <1>1 DEF Node
<1>14. CASE Changes(r, k)
  <2>1. /\ shown' = shown \cup {r} /\ mask' = [mask EXCEPT ![r] = M]
        /\ pending' = (pending \ {w}) \cup X
    BY <1>3, <1>14 DEF Walk
  <2>2. TypeOK'
    BY <1>0, <1>2, <1>4, <1>7, <2>1 DEF TypeOK
  <2> PICK sh : sh = shown \cup {r}
    OBVIOUS
  <2> PICK ms : ms = [mask EXCEPT ![r] = M]
    OBVIOUS
  <2> PICK pd : pd = (pending \ {w}) \cup X
    OBVIOUS
  <2>3. r \in sh /\ ms[r] = M
    BY <1>2
  <2>4. ASSUME NEW n \in Name  PROVE  Visible(prog, loaded, o, sh, ms, pd, n)
    <3>1. \A m \in Node : m # r => (ShowsIn(sh, ms, m, n) <=> ShowsIn(shown, mask, m, n))
      BY <1>2 DEF ShowsIn
    <3>2. ShowsIn(sh, ms, r, n) <=> Admits(M, n)
      BY <2>3 DEF ShowsIn
    <3>3. ShowsIn(sh, ms, r, n) <=> ShowsIn(shown, mask, r, n) \/ Admits(w[2], n)
      BY <1>3, <1>4, <3>2
    <3>4. pending \ {w} \subseteq pd
      OBVIOUS
    <3>5. ASSUME NEW u \in pd \ pending, Admits(u[2], n)
          PROVE  \E i \in ImportsIn(prog, r) : /\ r \in loaded /\ u[1] = i.to /\ i.exported /\ i.flat
                                               /\ Admits(i.names, n) /\ ShowsIn(sh, ms, r, n)
      <4>1. u \in X
        BY <3>5
      <4>2. PICK i \in ImportsIn(prog, r) : Passes(M, i) /\ u = <<i.to, Narrowed(M, i.names)>>
        BY <1>6, <4>1
      <4>3. i \in Import /\ Admits(Narrowed(M, i.names), n)
        BY <1>5, <3>5, <4>2
      <4>4. i.exported /\ i.flat /\ Admits(M, n) /\ Admits(i.names, n)
        BY <1>4, <4>2, <4>3, NarrowFacts
      <4>. QED  BY <1>6, <3>2, <4>1, <4>2, <4>4
    <3>6. ASSUME ShowsIn(sh, ms, r, n), r \in loaded, NEW i \in ImportsIn(prog, r),
                 i.exported, i.flat, Admits(i.names, n)
          PROVE  Coming(pd, i.to, n)
      <4>1. i \in Import /\ Admits(M, n)
        BY <1>5, <3>2, <3>6
      <4>2. Passes(M, i) /\ Admits(Narrowed(M, i.names), n)
        BY <1>4, <3>6, <4>1, NarrowFacts
      <4>3. <<i.to, Narrowed(M, i.names)>> \in pd
        BY <1>6, <3>6, <4>2
      <4>. QED  BY <4>2, <4>3 DEF Coming
    <3>7. Followed(prog, loaded, n, shown, mask, pending, sh, ms, pd, r, w)
      BY <1>3, <3>1, <3>3, <3>4, <3>5, <3>6 DEF Followed
    <3>. QED  BY <1>1, <1>12, <1>13, <3>7, FollowingKeeps
  <2>5. VisibleInv'
    BY <1>0, <1>11, <2>1, <2>4 DEF VisibleInv
  <2>. QED  BY <1>8, <1>9, <1>10, <2>2, <2>5 DEF IInv
<1>15. CASE ~Changes(r, k)
  <2>1. pending' = pending \ {w} /\ UNCHANGED <<shown, mask>>
    BY <1>3, <1>15 DEF Walk
  <2>2. TypeOK'
    BY <1>0, <1>2, <2>1 DEF TypeOK
  <2>3. r \in shown /\ mask[r] = M
    BY <1>15 DEF Changes
  <2> PICK pd : pd = pending \ {w}
    OBVIOUS
  <2>4. ASSUME NEW n \in Name  PROVE  Visible(prog, loaded, o, shown, mask, pd, n)
    <3>1. ShowsIn(shown, mask, r, n) <=> ShowsIn(shown, mask, r, n) \/ Admits(w[2], n)
      BY <1>3, <1>4, <2>3 DEF ShowsIn
    <3>2. pending \ {w} \subseteq pd /\ pd \ pending = {}
      OBVIOUS
    <3>3. Followed(prog, loaded, n, shown, mask, pending, shown, mask, pd, r, w)
      BY <1>3, <3>1, <3>2 DEF Followed
    <3>. QED  BY <1>1, <1>12, <1>13, <3>3, FollowingKeeps
  <2>5. VisibleInv'
    BY <1>0, <1>11, <2>1, <2>4 DEF VisibleInv
  <2>. QED  BY <1>8, <1>9, <1>10, <2>2, <2>5 DEF IInv
<1>. QED  BY <1>14, <1>15

\* When nothing is pending, what is shown is the least fixed point.
LEMMA ShownIsReach ==
  ASSUME IInv, phase = "walk", pending = {}, NEW m \in Node, NEW n \in Name
  PROVE  ShowsIn(shown, mask, m, n) <=> m \in ReachIn(prog, loaded, Owner, n)
<1>1. prog \in Program /\ loaded \subseteq Module /\ Owner \in Node
  BY CheckingFacts
<1>2. Visible(prog, loaded, Owner, shown, mask, {}, n)
  BY DEF IInv, VisibleInv
<1>3. \A x : Either(shown, mask, {}, x, n) <=> ShowsIn(shown, mask, x, n)
  BY DEF Either, Coming
<1>4. /\ \A x \in Node : ShowsIn(shown, mask, x, n) => x \in ReachIn(prog, loaded, Owner, n)
      /\ \A i \in ImportsIn(prog, Owner) : i.flat /\ Admits(i.names, n) => ShowsIn(shown, mask, i.to, n)
      /\ \A x \in loaded : ShowsIn(shown, mask, x, n) =>
           \A i \in ImportsIn(prog, x) :
             i.exported /\ i.flat /\ Admits(i.names, n) => ShowsIn(shown, mask, i.to, n)
  BY <1>2, <1>3 DEF Visible
<1> DEFINE S == {x \in Node : ShowsIn(shown, mask, x, n)}
<1>5. \A x \in Node : \A i \in ImportsIn(prog, x) : i.to \in Node
  BY <1>1, ImportFacts DEF Import
<1>6. ClosedIn(prog, loaded, Owner, n, S)
  BY <1>1, <1>4, <1>5 DEF ClosedIn
<1>7. ReachIn(prog, loaded, Owner, n) \subseteq S
  BY <1>1, <1>6, ReachFacts
<1>. QED  BY <1>4, <1>7

\* What is missing for a file comes before it, if there is no cycle.
LEMMA MissingIsPast ==
  ASSUME IInv, phase = "walk", pending = {}, "cycle" \notin errors, todo # <<>>, NEW m \in Missing
  PROVE  m \in Before(order, todo) \ checked
         /\ \E n \in Name : m \in ReachIn(prog, loaded, Owner, n) \cap loaded
<1>1. /\ prog \in Program /\ loaded \subseteq Module
      /\ order \in Seq(Module) /\ todo \in Seq(Module) /\ IsRest(todo, order)
      /\ IsInjective(order) /\ Sorted(prog, loaded, order) /\ Owner = Head(todo)
  BY CheckingFacts
<1>2. m \in shown \cap loaded /\ m \notin checked /\ m \in Node
  BY <1>1 DEF Missing, Node
<1>3. mask \in [Node -> SUBSET Name]
  BY DEF IInv, TypeOK
<1>4. PICK n \in Name : ShowsIn(shown, mask, m, n)
  <2>1. CASE mask[m] = {}
    BY <1>2, <2>1, NamesAssumption DEF ShowsIn, Admits
  <2>2. CASE mask[m] # {}
    BY <1>2, <1>3, <2>2 DEF ShowsIn, Admits
  <2>. QED  BY <2>1, <2>2
<1>5. m \in ReachIn(prog, loaded, Owner, n)
  BY <1>2, <1>4, ShownIsReach
<1>6. PICK j \in DOMAIN order : Head(todo) = order[j] /\ Before(order, todo) = {order[k] : k \in 1 .. j - 1}
  BY <1>1, NextOfOrder
<1>7. ReachIn(prog, loaded, order[j], n) \cap loaded \subseteq {order[k] : k \in 1 .. j - 1}
  BY <1>1, SeesEarlier
<1>8. m \in Before(order, todo)
  BY <1>1, <1>2, <1>5, <1>6, <1>7
<1>. QED  BY <1>2, <1>5, <1>8

LEMMA WalkedStep ==
  ASSUME IInv, Walked
  PROVE  IInv'
<1>0. /\ TypeOK /\ LoadInv /\ WalkInv /\ CheckInv /\ phase = "walk" /\ pending = {}
      /\ UNCHANGED <<prog, loading, queue, seen, loaded, errors, walking, stack, visiting, visited,
                     order, pending, shown, mask>>
  BY DEF Walked, IInv, loading, walking, showing
<1>1. /\ queue = {} /\ stack = <<>>
      /\ order \in Seq(Module) /\ todo \in Seq(Module) /\ IsRest(todo, order)
      /\ IsInjective(order)
      /\ checked \subseteq Before(order, todo)
      /\ "cycle" \notin errors => Explained(prog, loaded, Before(order, todo), checked)
      /\ (Owner = Entry <=> todo = <<>>)
      /\ todo # <<>> => Owner = Head(todo) /\ Head(todo) \in Module
  BY <1>0, CheckingFacts
<1>2. CASE Owner = Entry
  <2>1. phase' = "done" /\ UNCHANGED <<todo, checked>>
    BY <1>2 DEF Walked
  <2>2. TypeOK'
    BY <1>0, <2>1 DEF TypeOK
  <2>3. LoadInv'
    BY <1>0, <1>1, <2>1, LoadedStays
  <2>4. WalkInv'
    BY <1>0, <1>1, OrderStays
  <2>5. CheckInv' /\ VisibleInv'
    BY <1>0, <2>1 DEF CheckInv, VisibleInv
  <2>. QED  BY <2>2, <2>3, <2>4, <2>5 DEF IInv
<1>3. CASE Owner # Entry
  <2> PICK m \in Module : m = Owner
    BY <1>1, <1>3
  <2> PICK r : r = Tail(todo)
    OBVIOUS
  <2>1. /\ phase' = "check" /\ todo' = r
        /\ \/ checked' = checked \cup {m}
           \/ (m \notin prog.sound \/ Missing # {}) /\ checked' = checked
    BY <1>3 DEF Walked
  <2>2. todo # <<>> /\ m = Head(todo)
    BY <1>1, <1>3
  <2>3. /\ IsRest(r, order) /\ r \in Seq(Module) /\ m \notin Before(order, todo)
        /\ Before(order, r) = Before(order, todo) \cup {m}
    BY <1>1, <2>2, NextOfOrder
  <2>4. TypeOK'
    BY <1>0, <2>1, <2>3 DEF TypeOK
  <2>5. LoadInv'
    BY <1>0, <1>1, <2>1, LoadedStays
  <2>6. WalkInv'
    BY <1>0, <1>1, OrderStays
  <2>7. checked' \subseteq Before(order, r)
    BY <1>1, <2>1, <2>3
  <2>8. ASSUME "cycle" \notin errors  PROVE  Explained(prog, loaded, Before(order, r), checked')
    <3>1. Explained(prog, loaded, Before(order, todo), checked)
      BY <1>1, <2>8
    <3>2. CASE checked' = checked \cup {m}
      BY <2>3, <3>1, <3>2, ExplainedStill
    <3>3. CASE m \notin prog.sound /\ checked' = checked
      <4>1. m \notin prog.parses \cap prog.sound
        BY <3>3
      <4>2. Explained(prog, loaded, Before(order, todo) \cup {m}, checked)
        BY <3>1, <4>1, ExplainedBySelf, Zenon
      <4>. QED  BY <2>3, <3>3, <4>2, Zenon
    <3>4. CASE Missing # {} /\ checked' = checked
      <4>1. PICK y \in Missing : TRUE
        BY <3>4
      <4>2. /\ y \in Before(order, todo) \ checked
            /\ \E n \in Name : y \in ReachIn(prog, loaded, Owner, n) \cap loaded
        BY <1>0, <2>2, <2>8, MissingIsPast
      <4>3. PICK n \in Name : y \in ReachIn(prog, loaded, m, n) \cap loaded
        BY <4>2
      <4>. QED  BY <2>3, <3>1, <3>4, <4>2, <4>3, ExplainedByOther
    <3>. QED  BY <2>1, <3>2, <3>3, <3>4
  <2>9. CheckInv'
    BY <1>0, <2>1, <2>3, <2>7, <2>8 DEF CheckInv
  <2>10. VisibleInv'
    BY <2>1 DEF VisibleInv
  <2>. QED  BY <2>4, <2>5, <2>6, <2>9, <2>10 DEF IInv
<1>. QED  BY <1>2, <1>3

LEMMA Stutters ==
  ASSUME IInv, UNCHANGED vars
  PROVE  IInv'
<1>1. UNCHANGED <<prog, phase, queue, seen, loaded, errors, stack, visiting, visited, order,
                  todo, checked, pending, shown, mask>>
  BY DEF vars, loading, walking, showing
<1>2. Owner' = Owner
  BY <1>1 DEF Owner
<1>3. TypeOK' /\ LoadInv'
  BY <1>1 DEF IInv, TypeOK, LoadInv
<1>4. WalkInv'
  BY <1>1 DEF IInv, WalkInv
<1>5. CheckInv' /\ VisibleInv'
  BY <1>1, <1>2 DEF IInv, CheckInv, VisibleInv
<1>. QED  BY <1>3, <1>4, <1>5 DEF IInv

-----------------------------------------------------------------------------
(* Theorems.                                                               *)

\* The inductive invariant holds in every reachable state.
THEOREM Invariance == Spec => []IInv
<1>1. Init => IInv
  BY InitHolds
<1>2. IInv /\ [Next]_vars => IInv'
  <2> SUFFICES ASSUME IInv, [Next]_vars  PROVE  IInv'
    OBVIOUS
  <2>1. CASE \E m \in Node : Load(m)
    BY <2>1, LoadStep
  <2>2. CASE Loaded
    BY <2>2, LoadedStep
  <2>3. CASE Visit
    BY <2>3, VisitStep
  <2>4. CASE Ordered
    BY <2>4, OrderedStep
  <2>5. CASE Begin
    BY <2>5, BeginStep
  <2>6. CASE \E w \in pending : Walk(w)
    BY <2>6, WalkStep
  <2>7. CASE Walked
    BY <2>7, WalkedStep
  <2>8. CASE UNCHANGED vars
    BY <2>8, Stutters
  <2>. QED  BY <2>1, <2>2, <2>3, <2>4, <2>5, <2>6, <2>7, <2>8 DEF Next
<1>. QED  BY <1>1, <1>2, PTL DEF Spec

LEMMA OrderIsComplete ==
  ASSUME IInv, Past
  PROVE  OnceEach
<1>0. /\ prog \in Program /\ LoadInv /\ WalkInv /\ phase # "load" /\ phase # "order"
      /\ visited \subseteq Module /\ loaded \subseteq Module
  BY DEF IInv, TypeOK, Past
<1>1. /\ stack = <<>> /\ queue = {} /\ visited \subseteq loaded
      /\ Path(prog, stack, visiting) /\ Keeps(prog, loaded, stack, visiting \cup visited)
      /\ visited = ToSet(order) /\ IsInjective(order)
  BY <1>0 DEF WalkInv, LoadInv
<1>2. DOMAIN stack = {}
  BY <1>1
<1>3. visiting = {}
  BY <1>1, <1>2 DEF Path
<1> DEFINE S == visited \cup (Node \ loaded)
<1>4. \A m \in visited \cup {Entry} : \A t \in Targets(prog, m) : t \in Node /\ (t \in loaded => t \in visited)
  <2> SUFFICES ASSUME NEW m \in visited \cup {Entry}, NEW t \in Targets(prog, m)
               PROVE  t \in Node /\ (t \in loaded => t \in visited)
    OBVIOUS
  <2>1. m \in Node
    BY <1>0 DEF Node
  <2>2. t \in Node
    BY <1>0, <2>1, ImportFacts
  <2>3. t \in loaded => t \in visited
    BY <1>1, <1>2, <1>3 DEF Keeps
  <2>. QED  BY <2>2, <2>3
<1>5. Spreads(prog, loaded, S)
  BY <1>4 DEF Spreads
<1>6. S \in SUBSET Node
  BY <1>0 DEF Node
<1>7. loaded \subseteq S
  BY <1>0, <1>5, <1>6 DEF LoadInv
<1>. QED  BY <1>1, <1>7 DEF OnceEach

LEMMA SortedHasNoCycle ==
  ASSUME NEW p, NEW g, NEW o \in Seq(Module), ToSet(o) = g, Sorted(p, g, o)
  PROVE  ~HasCycle(p, g)
<1> SUFFICES ASSUME NEW S \in SUBSET g, S # {}, \A m \in S : Targets(p, m) \cap S # {}
             PROVE  FALSE
  BY DEF HasCycle
<1>1. DOMAIN o = 1 .. Len(o) /\ Len(o) \in Nat
  OBVIOUS
<1> DEFINE N == {k \in DOMAIN o : o[k] \in S}
<1>2. N \in SUBSET Nat /\ N # {}
  BY <1>1 DEF ToSet
<1>3. PICK k \in N : \A l \in N : k <= l
  BY <1>2, LeastNumber
<1>4. PICK t \in Targets(p, o[k]) : t \in S
  OBVIOUS
<1>5. PICK l \in 1 .. k - 1 : o[l] = t
  BY <1>4 DEF Sorted
<1>6. l \in N /\ ~(k <= l)
  BY <1>1, <1>4, <1>5
<1>. QED  BY <1>3, <1>6

\* For every program: the walk ends with each loaded file once, dependencies first if there is
\* no cycle, and reports a cycle, or an import of the entry, if and only if there is one.
\* (load_imported_hirs)
THEOREM WalkAlwaysRight == Spec => []WalkIsRight
<1>1. ASSUME IInv  PROVE  WalkIsRight
  <2>1. TypeOK /\ LoadInv /\ WalkInv
    BY <1>1 DEF IInv
  <2>2. OnceEach
    BY <1>1, OrderIsComplete DEF OnceEach
  <2>3. \A m : Targets(prog, m) = {i.to : i \in ImportsOf(m)}
    BY TargetsAre
  <2>4. DependenciesFirst
    <3> SUFFICES ASSUME Past, "cycle" \notin errors, NEW k \in DOMAIN order,
                        NEW i \in ImportsOf(order[k]), i.to \in loaded
                 PROVE  \E l \in 1 .. k - 1 : order[l] = i.to
      BY DEF DependenciesFirst
    <3>1. i.to \in Targets(prog, order[k]) \cap loaded
      BY <2>3
    <3>. QED  BY <2>1, <3>1 DEF WalkInv, Sorted
  <2>5. CyclesAreFound
    <3> SUFFICES ASSUME Past
                 PROVE  /\ ("cycle" \in errors) <=>
                             (\E S \in SUBSET loaded : S # {} /\ \A m \in S : \E i \in ImportsOf(m) : i.to \in S)
                        /\ ("entry" \in errors) <=>
                             (\E m \in loaded \cup {Entry} : \E i \in ImportsOf(m) : i.to = Entry)
      BY DEF CyclesAreFound
    <3>1. phase # "load" /\ phase # "order"
      BY DEF Past
    <3>2. HasCycle(prog, loaded) <=>
            \E S \in SUBSET loaded : S # {} /\ \A m \in S : \E i \in ImportsOf(m) : i.to \in S
      <4>1. \A m, S : Targets(prog, m) \cap S # {} <=> \E i \in ImportsOf(m) : i.to \in S
        <5> SUFFICES ASSUME NEW m, NEW S
                     PROVE  Targets(prog, m) \cap S # {} <=> \E i \in ImportsOf(m) : i.to \in S
          OBVIOUS
        <5>1. Targets(prog, m) = {i.to : i \in ImportsOf(m)}
          BY <2>3
        <5>. QED  BY <5>1
      <4>2. \A S : (\A m \in S : Targets(prog, m) \cap S # {})
                  <=> (\A m \in S : \E i \in ImportsOf(m) : i.to \in S)
        BY <4>1, Zenon
      <4>. QED  BY <4>2 DEF HasCycle
    <3>3. ASSUME "cycle" \notin errors  PROVE  ~HasCycle(prog, loaded)
      <4>1. Sorted(prog, loaded, order) /\ order \in Seq(Module) /\ ToSet(order) = loaded
        BY <2>1, <2>2, <3>3 DEF WalkInv, TypeOK, OnceEach
      <4>. QED  BY <4>1, SortedHasNoCycle
    <3>4. "cycle" \in errors => HasCycle(prog, loaded)
      BY <2>1 DEF WalkInv
    <3>5. queue = {} /\ (Entry \in seen <=> "entry" \in errors)
          /\ (\A m \in loaded \cup {Entry} : Targets(prog, m) \subseteq seen)
          /\ (\A t \in seen : \E m \in loaded \cup {Entry} : t \in Targets(prog, m))
      BY <2>1, <3>1 DEF LoadInv
    <3>6. Entry \in seen <=> \E m \in loaded \cup {Entry} : Entry \in Targets(prog, m)
      BY <3>5
    <3>7. \A m : Entry \in Targets(prog, m) <=> \E i \in ImportsOf(m) : i.to = Entry
      BY <2>3
    <3>. QED  BY <3>2, <3>3, <3>4, <3>5, <3>6, <3>7
  <2>. QED  BY <2>1, <2>2, <2>4, <2>5 DEF WalkIsRight
<1>. QED  BY <1>1, Invariance, PTL

\* For every program and every file: visible_modules shows a name of a file just when a
\* chain of re-exports lets it through, in whatever order files are reached with few names
\* and with many.  (visible_modules)
THEOREM VisibleAlwaysLeast == Spec => []VisibleIsLeast
<1>1. ASSUME IInv  PROVE  VisibleIsLeast
  <2> SUFFICES ASSUME phase = "walk", pending = {}, NEW m \in Node, NEW n \in Name
               PROVE  (m \in shown /\ Admits(mask[m], n)) <=> m \in Reach(Owner, n)
    BY DEF VisibleIsLeast
  <2>1. Reach(Owner, n) = ReachIn(prog, loaded, Owner, n)
    BY SameReach
  <2>. QED  BY <1>1, <2>1, ShownIsReach DEF ShowsIn
<1>. QED  BY <1>1, Invariance, PTL

\* For every program without a cycle: a file that is checked misses another one that it sees
\* only if that one has errors of its own, or misses one in its turn.  (load_imported_hirs)
THEOREM ContractsAlwaysThere == Spec => []ContractsAreThere
<1>1. ASSUME IInv  PROVE  ContractsAreThere
  <2> SUFFICES ASSUME phase = "walk", pending = {}, "cycle" \notin errors, NEW m \in Missing
               PROVE  Unsound(m) \/ \E n \in Name : ~(Reach(m, n) \cap loaded \subseteq checked)
    BY DEF ContractsAreThere
  <2>1. Explained(prog, loaded, Before(order, todo), checked) /\ todo \in Seq(Module)
    BY <1>1, CheckingFacts
  <2>2. m \in Before(order, todo) \ checked
    <3>1. CASE todo # <<>>
      BY <1>1, <3>1, MissingIsPast
    <3>2. CASE todo = <<>>
      <4>1. ToSet(order) = loaded
        BY <1>1, OrderIsComplete DEF Past, OnceEach
      <4>2. order \in Seq(Module)
        BY <1>1 DEF IInv, TypeOK
      <4>3. Before(order, todo) = ToSet(order)
        BY <3>2, <4>2 DEF Before, ToSet
      <4>. QED  BY <4>1, <4>3 DEF Missing
    <3>. QED  BY <3>1, <3>2
  <2>3. CASE m \notin prog.parses \cap prog.sound
    BY <2>3 DEF Unsound
  <2>4. CASE \E n \in Name : \E x \in ReachIn(prog, loaded, m, n) \cap loaded :
                x \in Before(order, todo) \ checked
    BY <2>4, SameReach
  <2>. QED  BY <2>1, <2>2, <2>3, <2>4 DEF Explained
<1>. QED  BY <1>1, Invariance, PTL
=============================================================================
