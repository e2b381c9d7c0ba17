---------------------------- MODULE MCDalProject ----------------------------
(* Three packages, two versions: 1 is an application with a command, 2 a    *)
(* library it needs in any version; 2@1 needs 3, 2@2 does not.              *)
EXTENDS DalProject, TLC

NoDeps == [n \in {} |-> {}]

MCRequires ==
    [t \in {1, 2, 3} \X {1, 2} |->
        CASE t[1] = 1 -> (2 :> {1, 2})
          [] t = <<2, 1>> -> (3 :> {1})
          [] OTHER -> NoDeps]

\* A manifest the user wrote before the first command, with the library as an
\* optional dependency in its first version.
Handwritten == {[n \in {2} |-> [req |-> {1}, optional |-> TRUE]]}

AddCommand(n, r, f) == [kind |-> "add", pkg |-> n, req |-> r, force |-> f]
RemoveCommand(n) == [kind |-> "remove", pkg |-> n, req |-> {}, force |-> FALSE]

\* An exact add of the application, an unconstrained and forced one of the library,
\* and the removal of the application.
MCRequests ==
    {AddCommand(1, {2}, FALSE), AddCommand(2, {}, TRUE), RemoveCommand(1)}
=============================================================================
