------------------------------ MODULE MCResolver ------------------------------
(* Instances of Resolver for TLC: three packages in two versions, which      *)
(* depend on one another in many ways, some of them circular, and one        *)
(* feature of the last.                                                      *)
EXTENDS Resolver, TLC

P == 1 .. 3
V == 1 .. 2
TheFeatures == {"f"}

Every(n) == n :> [req |-> V, features |-> {}]
Only(n, v) == n :> [req |-> {v}, features |-> {}]
With(n) == n :> [req |-> V, features |-> TheFeatures]
Nothing == [n \in {} |-> 0]

Plain(deps) ==
  [base |-> deps, optional |-> Nothing, brings |-> Nothing, usable |-> TRUE, yanked |-> FALSE]
Featured(deps, more) ==
  [Plain(deps) EXCEPT !.optional = more, !.brings = "f" :> [names |-> DOMAIN more, features |-> {}]]

Empty == Plain(Nothing)
Ones == {Empty, Plain(Every(2)), Plain(Only(2, 2) @@ With(3)), Plain(Only(3, 1))}
Twos == {Empty, Plain(Only(3, 2)), Plain(With(3)), Plain(Only(1, 2))}

\* Its feature brings a dependency; replaces one; is its own part.
Brings == Featured(Nothing, Only(2, 1))
Replaces == Featured(Only(2, 1), Every(2))
Turns == [Featured(Nothing, Nothing) EXCEPT !.brings["f"].features = TheFeatures]

TheRegistries ==
  {[<<n, v>> \in P \X V |-> CASE n = 1 -> (IF v = 1 THEN a ELSE b)
                              [] n = 2 -> (IF v = 1 THEN c ELSE d)
                              [] n = 3 -> (IF v = 1 THEN e
                                          ELSE [f EXCEPT !.yanked = y = "yanked", !.usable = y # "unusable"])] :
     a \in {Empty, Plain(Every(2))}, b \in Ones, c \in {Empty, Plain(With(3))}, d \in Twos,
     e \in {Empty, Brings, Replaces}, f \in {Empty, Brings, Replaces, Turns, Plain(Only(1, 1))},
     y \in {"yanked", "unusable", "free"}}
TheRoots == {Every(1), Every(1) @@ Every(2), Every(1) @@ Every(3)}
Held(v, c) == [version |-> v, checksum |-> c]
TheLocks == {Nothing, 1 :> Held(1, "same") @@ 2 :> Held(1, "missing") @@ 3 :> Held(2, "missing"),
             2 :> Held(1, "same") @@ 3 :> Held(2, "same"), 3 :> Held(1, "other")}
=============================================================================
