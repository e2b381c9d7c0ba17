--------------------------- MODULE MCLspDocuments ---------------------------
(* Instances of LspDocuments for TLC. *)
EXTENDS LspDocuments, TLC

CONSTANTS a, b, c

\* The imports to choose from when a document is edited: a chain, and a circle.
Chain == a :> {b} @@ b :> {c} @@ c :> {}
Circle == a :> {b} @@ b :> {a, c} @@ c :> {}

MCDocs == {a, b, c}
MCLayouts == {Chain, Circle}

\* A session in which all documents of a chain, or those that import others,
\* have been opened and analysed.  What the editor does after that is counted.
MCInit ==
  \E open \in {{a, b}, Docs} :
    LET file == [d \in Docs |-> [rev |-> 0, imports |-> Chain[d]]] IN
    /\ disk = file
    /\ editor = [d \in Docs |-> IF d \in open
                   THEN [open |-> TRUE, version |-> 1, text |-> file[d]]
                   ELSE [open |-> FALSE, version |-> 0, text |-> NoText]]
    /\ store = [d \in Docs |->
                  IF d \in open THEN [version |-> 1, text |-> file[d]]
                  ELSE IF d \in UNION {Chain[x] : x \in open}
                  THEN [version |-> Background, text |-> file[d]]
                  ELSE Absent]
    /\ shown = [d \in Docs |-> IF d \in open
                  THEN [version |-> 1, texts |-> Read(d, file[d], file)]
                  ELSE Nothing]
    /\ inbox = << >> /\ acts = 0 /\ handlers = << >> /\ late = {}

MCSpec == MCInit /\ [][Next]_vars /\ Fairness
=============================================================================
