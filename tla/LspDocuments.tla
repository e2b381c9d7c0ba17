---------------------------- MODULE LspDocuments ----------------------------
(***************************************************************************)
(* The documents of the language server (fidan-lsp: server.rs, store.rs).  *)
(*                                                                         *)
(* An editor opens, changes, saves and closes documents that import one    *)
(* another.  The server handles its notifications in the order in which    *)
(* they arrive, several at a time: a handler runs until it publishes       *)
(* diagnostics, may be suspended there, and others run meanwhile.  Each    *)
(* handler refreshes its own document first and then, one by one, the open *)
(* documents that depended on it when it looked.                           *)
(*                                                                         *)
(* A text is its revision and the documents it imports.  What diagnostics  *)
(* depend on is kept as the texts that were read for them.                 *)
(***************************************************************************)
EXTENDS Integers, Sequences, SequencesExt

CONSTANTS
  Docs,          \* the documents, all of which are files on disk
  Layouts,       \* the imports that the files may have: functions on Docs
  MaxActs,       \* bound on what the editor does: open, change, save, close
  Concurrency    \* notifications that the server handles at a time (tower-lsp)

ASSUME LayoutsAssumption == Layouts # {} /\ Layouts \subseteq [Docs -> SUBSET Docs]
ASSUME BoundsAssumption == MaxActs \in Nat /\ Concurrency \in Nat \ {0}

VARIABLES
  disk,          \* document -> the text of its file
  editor,        \* document -> what the editor shows: open, version, text
  inbox,         \* the notifications that the server has not begun to handle
  acts,          \* how often the editor has done something
  store,         \* DocumentStore: document -> version and text, or Absent
  handlers,      \* the handlers that are suspended after a publication
  shown,         \* document -> the diagnostics on show: version and texts read
  late           \* history: documents closed while a refresh of them was pending

vars == <<disk, editor, inbox, acts, store, handlers, shown, late>>

Texts == [rev : 0 .. MaxActs, imports : SUBSET Docs]

NoText == [rev |-> 0, imports |-> {}]
Absent == [version |-> -2, text |-> NoText]     \* no entry
Background == -1                                \* version of a text read from disk
Nothing == [version |-> -2, texts |-> {}]       \* no diagnostics

IsOpen(s, d) == s[d].version >= 0

-----------------------------------------------------------------------------
(* The store.                                                              *)

\* Mutant: the last writer wins.
InsertAlways(s, d, entry) == [s EXCEPT ![d] = entry]

\* DocumentStore::insert: an older text does not replace an editor's newer one.
Insert(s, d, entry) ==
  IF IsOpen(s, d) /\ entry.version < s[d].version
  THEN s
  ELSE [s EXCEPT ![d] = entry]

\* load_background_document, and the import loop of refresh: the file's text is
\* read again unless an editor manages the document.
Load(s, c) ==
  IF IsOpen(s, c) THEN s
                  ELSE Insert(s, c, [version |-> Background, text |-> disk[c]])

LoadAll(s, cs) == [c \in Docs |-> IF c \in cs THEN Load(s, c)[c] ELSE s[c]]

\* What an analysis reads for the documents it imports.  (open_sources, the reader
\* of analyze_document)
Sources(s) == [c \in Docs |-> IF IsOpen(s, c) THEN s[c].text ELSE disk[c]]

\* What is in all of these sets: where a walk ends that adds only what it must.
Common(sets) == {c \in Docs : \A S \in sets : c \in S}

\* All that a text of d imports, directly or not, as read in sources: the walk of
\* load_imported_hirs, which does not go on through the entry document.
Imported(d, text, sources) ==
  Common({S \in SUBSET Docs : /\ text.imports \subseteq S
                              /\ \A c \in S \ {d} : sources[c].imports \subseteq S})

\* The texts on which the diagnostics for a text of d depend.
Read(d, text, sources) ==
  {<<c, sources[c]>> : c \in Imported(d, text, sources) \ {d}} \cup {<<d, text>>}

\* Mutant: only direct importers.
DirectDependents(s, d) ==
  {c \in Docs \ {d} : IsOpen(s, c) /\ d \in s[c].text.imports}

\* What reaches d along the imports of stored documents.
Affected(s, d) ==
  Common({S \in SUBSET Docs : /\ d \in S
                              /\ \A c \in Docs : s[c].text.imports \cap S # {} => c \in S})

\* dependent_documents: the open ones of them.
Dependents(s, d) == {c \in Affected(s, d) : c # d /\ IsOpen(s, c)}

-----------------------------------------------------------------------------
(* The editor.                                                             *)

Init ==
  /\ \E lay \in Layouts : disk = [d \in Docs |-> [rev |-> 0, imports |-> lay[d]]]
  /\ editor = [d \in Docs |-> [open |-> FALSE, version |-> 0, text |-> NoText]]
  /\ inbox = << >>
  /\ acts = 0
  /\ store = [d \in Docs |-> Absent]
  /\ handlers = << >>
  /\ shown = [d \in Docs |-> Nothing]
  /\ late = {}

Act == acts < MaxActs /\ acts' = acts + 1

Send(kind, d) ==
  /\ Act
  /\ inbox' = Append(inbox, [kind |-> kind, doc |-> d,
                             version |-> editor'[d].version, text |-> editor'[d].text])

\* didOpen: versions start again.
Open(d) ==
  /\ ~editor[d].open
  /\ editor' = [editor EXCEPT ![d] = [open |-> TRUE, version |-> 1, text |-> disk[d]]]
  /\ Send("open", d)
  /\ UNCHANGED <<disk, store, handlers, shown, late>>

\* didChange, with the whole text (TextDocumentSyncKind::FULL).
Change(d) ==
  /\ editor[d].open
  /\ \E lay \in Layouts :
       editor' = [editor EXCEPT ![d] =
                   [open |-> TRUE, version |-> @.version + 1,
                    text |-> [rev |-> acts + 1, imports |-> lay[d]]]]
  /\ Send("change", d)
  /\ UNCHANGED <<disk, store, handlers, shown, late>>

\* The server is not told of it.
Save(d) ==
  /\ editor[d].open
  /\ disk' = [disk EXCEPT ![d] = editor[d].text]
  /\ Act
  /\ UNCHANGED <<editor, inbox, store, handlers, shown, late>>

Close(d) ==
  /\ editor[d].open
  /\ editor' = [editor EXCEPT ![d].open = FALSE]
  /\ Send("close", d)
  /\ UNCHANGED <<disk, store, handlers, shown, late>>

\* What the editor makes of diagnostics for a version: it keeps those it has
\* for a newer one.  Those without a version replace any.  This is an assumption on
\* the editor: a late refresh publishes although the store has refused its text, and
\* DiagnosticsAreCurrent would not hold with an editor that shows what comes last.
Shows(old, new) == IF new.version < old.version THEN old ELSE new

-----------------------------------------------------------------------------
(* The server.                                                             *)

\* refresh: analyse the text against the sources as they are, store it, load
\* what it imports, and publish.
Refresh(d, version, text) ==
  /\ store' = LoadAll(Insert(store, d, [version |-> version, text |-> text]),
                      text.imports)
  /\ shown' = [shown EXCEPT ![d] =
                Shows(@, [version |-> version, texts |-> Read(d, text, Sources(store))])]

\* Mutant: the entry stays.
ForgetNothing(d) ==
  /\ store' = store
  /\ shown' = [shown EXCEPT ![d] = Nothing]

\* did_close, up to its first await.
Forget(d) ==
  /\ store' = [store EXCEPT ![d] = Absent]
  /\ shown' = [shown EXCEPT ![d] = Nothing]

PendingRefreshes == {e.doc : e \in UNION {handlers[k].todo : k \in DOMAIN handlers}}

\* The runtime hands over a notification only while fewer handlers are suspended.
MayStart == Len(handlers) < Concurrency

\* did_open, did_change and did_close, up to the first await.
Start ==
  LET msg == Head(inbox) IN
  /\ inbox # << >>
  /\ MayStart
  /\ inbox' = Tail(inbox)
  /\ \/ msg.kind \in {"open", "change"} /\ Refresh(msg.doc, msg.version, msg.text)
        /\ late' = late
     \/ msg.kind = "close" /\ Forget(msg.doc)
        /\ late' = IF msg.doc \in PendingRefreshes THEN late \cup {msg.doc} ELSE late
  /\ handlers' = Append(handlers, [changed |-> msg.doc, listed |-> FALSE, todo |-> {}])
  /\ UNCHANGED <<disk, editor, acts>>

\* refresh_dependents: the list is made once, with the texts of that moment.
Listed(h) ==
  IF h.listed THEN h.todo
  ELSE {[doc |-> c, version |-> store[c].version, text |-> store[c].text] :
          c \in Dependents(store, h.changed)}

\* Mutant: what depends on a refreshed dependent is refreshed in turn.
ListAgain(h, e) ==
  Listed([h EXCEPT !.listed = FALSE, !.changed = e.doc]) \cup (Listed(h) \ {e})

StillToRefresh(h, e) == Listed(h) \ {e}

\* A handler goes on after a publication: with the next dependent, in the order
\* of the map's iteration (any), or it ends.
Resume(k) ==
  LET h == handlers[k] IN
  /\ \/ \E e \in Listed(h) :
          /\ Refresh(e.doc, e.version, e.text)
          /\ handlers' = [handlers EXCEPT ![k] =
                           [@ EXCEPT !.listed = TRUE, !.todo = StillToRefresh(h, e)]]
     \/ /\ Listed(h) = {}
        /\ handlers' = RemoveAt(handlers, k)
        /\ UNCHANGED <<store, shown>>
  /\ UNCHANGED <<disk, editor, inbox, acts, late>>

\* hover, definition, completion, signature help: looking a name up in an
\* imported document, or in what that one exports again, loads it.
Lookup(c) ==
  /\ \E d \in Docs : IsOpen(store, d)
  /\ store' = Load(store, c)
  /\ store' # store
  /\ UNCHANGED <<disk, editor, inbox, acts, handlers, shown, late>>

ResumeSome == \E k \in DOMAIN handlers : Resume(k)

Editing == \E d \in Docs : Open(d) \/ Change(d) \/ Save(d) \/ Close(d)

Next ==
  \/ Editing
  \/ Start
  \/ ResumeSome
  \/ \E c \in Docs : Lookup(c)

\* The server handles what has arrived and goes on after a publication.
Fairness == WF_vars(Start) /\ WF_vars(ResumeSome)

Spec == Init /\ [][Next]_vars
FairSpec == Spec /\ Fairness

-----------------------------------------------------------------------------
(* Properties.                                                             *)

Entries == [version : Int, text : Texts]

\* Every variable has its type.
TypeOK ==
  /\ disk \in [Docs -> Texts]
  /\ editor \in [Docs -> [open : BOOLEAN, version : Nat, text : Texts]]
  /\ inbox \in Seq([kind : {"open", "change", "close"}, doc : Docs,
                    version : Nat, text : Texts])
  /\ acts \in 0 .. MaxActs
  /\ store \in [Docs -> Entries]
  /\ handlers \in Seq([changed : Docs, listed : BOOLEAN,
                       todo : SUBSET [doc : Docs, version : Int, text : Texts]])
  /\ Len(handlers) <= Concurrency
  /\ shown \in [Docs -> [version : Int, texts : SUBSET (Docs \X Texts)]]
  /\ late \subseteq Docs

\* Nothing has arrived that is not handled, and nobody is suspended.
Quiet == inbox = << >> /\ handlers = << >>

\* When the server is quiet, it holds the editor's text of every open document
\* and of no closed one, and some text of all they import, whatever refreshes
\* were under way when the document was changed, closed and opened again.  Not so
\* for documents that were closed between the making of a list and their turn in
\* it, see OpenIsEditors, which does not hold.
\* (insert, refresh, did_close, load_background_document)
StoreIsEditors ==
  Quiet => \A d \in Docs \ late :
    IF editor[d].open
    THEN /\ store[d] = [version |-> editor[d].version, text |-> editor[d].text]
         /\ \A c \in editor[d].text.imports : store[c] # Absent
    ELSE ~IsOpen(store, d)

\* What the sources are.
Current(c) == IF editor[c].open THEN editor[c].text ELSE disk[c]

\* What a text of d imports, and, where that is closed, what it imports in turn.
Near(d, sources, opened) ==
  sources[d].imports \cup UNION {sources[c].imports : c \in sources[d].imports \ opened}

\* d and the open documents to which imports lead from it.
Through(d, sources, opened) ==
  Common({S \in SUBSET Docs : /\ d \in S
                              /\ Near(d, sources, opened) \cap opened \subseteq S
                              /\ \A c \in S : sources[c].imports \cap opened \subseteq S})

\* The documents whose changes are traced to d: along the imports of open documents,
\* and through a closed one if d itself imports it.  Not through one that another
\* imports: when that has been closed, its importer may be refreshed, and load it
\* again, after d, and a change that comes in between does not reach d.
Trace(d, sources, opened) ==
  {d} \cup Near(d, sources, opened)
      \cup UNION {sources[c].imports : c \in Through(d, sources, opened)}

Traced(d) == Trace(d, [c \in Docs |-> Current(c)], {c \in Docs : editor[c].open})

\* When the server is quiet, the diagnostics on show for an open document are
\* those of its newest text, and of the newest texts of everything it was traced
\* to: no edit, close or save is missed, and no late publication wins.
\* (refresh, refresh_dependents, dependent_documents)
DiagnosticsAreCurrent ==
  Quiet => \A d \in Docs :
    editor[d].open /\ Traced(d) \cap late = {} =>
      /\ shown[d].version = editor[d].version
      /\ {p \in shown[d].texts : p[1] \in Traced(d)} =
           {<<c, Current(c)>> : c \in Traced(d)}

\* When the server is quiet, no diagnostics are on show for closed documents,
\* with the same exception.  (did_close)
ClosedShowNothing ==
  Quiet => \A d \in Docs \ late : ~editor[d].open => shown[d] = Nothing

\* A server at rest agrees with its editor on which documents are open and on their texts.
Consistent == TypeOK /\ StoreIsEditors /\ ClosedShowNothing

\* An editor's text is never replaced by an older one, or by the file's, until
\* the document is closed.  (insert)
NeverGoesBack ==
  [][\A d \in Docs : IsOpen(store, d) /\ store'[d] # Absent =>
       store'[d].version >= store[d].version]_vars

\* After the editor's last notification the server comes to rest, with any
\* circle of imports.  (refresh_dependents)
Settles == <>[]Quiet

\* "Snapshot only editor-owned text.  Background documents must reload from
\* disk."  Not so: a document that is closed between the making of a list and
\* its turn in it is stored again as one that the editor owns.  (open_sources)
OpenIsEditors ==
  Quiet => \A d \in Docs : IsOpen(store, d) => editor[d].open
=============================================================================
