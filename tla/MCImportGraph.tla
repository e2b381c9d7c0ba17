---------------------------- MODULE MCImportGraph ----------------------------
(* Instances of ImportGraph for TLC: all shapes of programs with three      *)
(* importable files and up to two imports each, and all ways to re-export   *)
(* along some of them.                                                      *)
EXTENDS ImportGraph

File == 1 .. 3
TheEntry == 0
TheNames == {"a", "b", "c"}

All == {}
Flat(m, names) == [to |-> m, exported |-> TRUE, flat |-> TRUE, names |-> names]

UpTo2(S) ==
  {<<>>} \cup {<<Flat(m, All)>> : m \in S}
    \cup {<<Flat(e[1], All), Flat(e[2], All)>> : e \in {d \in S \X S : d[1] # d[2]}}

\* Every import shows and re-exports all.
Shapes ==
  {[imports |-> (0 :> r @@ 1 :> a @@ 2 :> b @@ 3 :> c),
    readable |-> File \ bad, parses |-> File \ odd, sound |-> File \ odd] :
     r \in {<<Flat(1, All)>>, <<Flat(2, All), Flat(1, All)>>},
     a \in UpTo2({2, 3}), b \in UpTo2({1, 3}), c \in UpTo2({0, 1, 3}),
     bad \in {{}, {3}}, odd \in {{}, {2}}}

Edges(m) ==
  {Flat(m, names) : names \in {All, {"a"}, {"b"}, {"a", "b"}}}
    \cup {[Flat(m, All) EXCEPT !.exported = FALSE], [Flat(m, All) EXCEPT !.flat = FALSE]}

\* The entry imports 1 and 3, 1 imports 2, and 2 and 3 import each other.
Masked ==
  {[imports |-> (0 :> <<a, c>> @@ 1 :> <<b>> @@ 2 :> <<d>> @@ 3 :> <<e, Flat(1, All)>>),
    readable |-> File, parses |-> File, sound |-> File] :
     a \in {Flat(1, All), Flat(1, {"a"})}, b \in Edges(2), c \in Edges(3), d \in Edges(3), e \in Edges(2)}

ThePrograms == Shapes \cup Masked
=============================================================================
