-------------------------- MODULE LspDocumentsProofs --------------------------
(***************************************************************************)
(* Proofs about LspDocuments, for any documents, imports, number of edits  *)
(* and of handlers that run at a time: what the store holds is never       *)
(* older than before, and a server at rest agrees with its editor, and     *)
(* shows what follows from the texts as they are.                          *)
(*                                                                         *)
(* The messages under way continue what the store has: along both, the     *)
(* versions of a document grow until it is closed (Orderly).  What was     *)
(* copied for later is what is stored, or older (Behind).  An import that  *)
(* is not stored is going to be (Reloads).                                 *)
(*                                                                         *)
(* What is shown of a document has all that is traced to it as it is now,  *)
(* or the document is going to be refreshed (UpToDate): it is on a list as *)
(* it is stored, or the store leads from it, by documents that are not     *)
(* late, to one whose message is in the inbox or whose handler has made no *)
(* list yet (Pending).  A trace depends on nothing outside of it, and all  *)
(* of it is reached in the store.                                          *)
(***************************************************************************)
EXTENDS LspDocuments, SequenceTheorems, TLAPS

-----------------------------------------------------------------------------
(* The inductive invariant.                                                *)

Message == [kind : {"open", "change", "close"}, doc : Docs, version : Nat, text : Texts]
Todo == [doc : Docs, version : Int, text : Texts]
Handler == [changed : Docs, listed : BOOLEAN, todo : SUBSET Todo]

\* Message k of the inbox ib closes d.
Closing(ib, d, k) == ib[k].doc = d /\ ib[k].kind = "close"

\* Document d is not closed by the messages from k to l.
Stays(ib, d, k, l) == \A i \in k .. l : ~Closing(ib, d, i)

\* What the editor's entry ed for d, the messages ib and the stored entry st are to
\* each other: versions grow from the store along the messages to the editor, as long
\* as d is not closed, and what comes last is the editor's.
Orderly(d, ed, ib, st) ==
  /\ \A k, l \in 1 .. Len(ib) :
       k < l /\ ib[k].doc = d /\ ib[l].doc = d /\ Stays(ib, d, k, l) => ib[k].version < ib[l].version
  /\ \A k \in 1 .. Len(ib) :
       ib[k].doc = d /\ st.version >= 0 /\ Stays(ib, d, 1, k) => st.version < ib[k].version
  /\ \A k \in 1 .. Len(ib) :
       ib[k].doc = d /\ Stays(ib, d, k, Len(ib)) => ed.open /\ ib[k].version <= ed.version
  /\ \A k \in 1 .. Len(ib) :
       ib[k].doc = d /\ (\A i \in k + 1 .. Len(ib) : ib[i].doc # d) =>
         /\ ib[k].version = ed.version /\ ib[k].text = ed.text
         /\ ib[k].kind = "close" <=> ~ed.open
  /\ st.version >= 0 /\ Stays(ib, d, 1, Len(ib)) => ed.open /\ st.version <= ed.version
  /\ ed.open /\ (\A i \in 1 .. Len(ib) : ib[i].doc # d) => st.version = ed.version /\ st.text = ed.text

\* What a list holds of d is its stored entry, or one before.
Behind(d, hs, st) ==
  \A k \in DOMAIN hs : \A e \in hs[k].todo :
    e.doc = d => /\ st.version >= 0 /\ e.version <= st.version
                 /\ e.version = st.version => e.text = st.text

\* A list has d as it is stored.
InTurn(d, h, st) ==
  h.listed /\ \E e \in h.todo : e.doc = d /\ e.version = st.version /\ e.text = st.text

\* A handler is going to load c again, for d as it is stored.
Reloads(d, c, hs, st) ==
  \E k \in DOMAIN hs : (~hs[k].listed /\ hs[k].changed = c) \/ InTurn(d, hs[k], st)

Loaded(d, hs, s) ==
  IsOpen(s, d) =>
    \A c \in s[d].text.imports : s[c] # Absent \/ Reloads(d, c, hs, s[d])

\* What holds of a document that is not late.
Kept(d, ed, ib, hs, s, sh) ==
  /\ Orderly(d, ed, ib, s[d])
  /\ Behind(d, hs, s[d])
  /\ Loaded(d, hs, s)
  /\ IsOpen(s, d) => sh.version = s[d].version
  /\ ~IsOpen(s, d) => sh = Nothing

\* A list is made of open documents, and not before its time.
Filled(hs) ==
  \A k \in DOMAIN hs : /\ ~hs[k].listed => hs[k].todo = {}
                       /\ \A e \in hs[k].todo : e.version >= 0

\* The inbox ib has a message about x.
Told(x, ib) == \E k \in 1 .. Len(ib) : ib[k].doc = x

\* x has changed, and what depends on it, d perhaps, is still to be listed.
Spreads(d, x, ib, hs) ==
  Told(x, ib) \/ (x # d /\ \E k \in DOMAIN hs : ~hs[k].listed /\ hs[k].changed = x)

\* What is known of a document that is not open in the store, and has no message: the
\* editor has not opened it, and what is stored of it is in its file.
Known(y, ed, ib, st, text) ==
  /\ \A k \in 1 .. Len(ib) :
       ib[k].doc = y /\ (\A i \in k + 1 .. Len(ib) : ib[i].doc # y) =>
         (ib[k].kind = "close" <=> ~ed.open)
  /\ ~(st.version >= 0) /\ ~Told(y, ib) => ~ed.open /\ (st # Absent => st.text = text)

\* The store s without the documents in L.
Without(s, L) == [c \in Docs |-> IF c \in L THEN Absent ELSE s[c]]

\* d is going to be refreshed, unless it is closed or changed before.
Pending(d, s, ib, hs, L) ==
  \/ \E k \in DOMAIN hs : InTurn(d, hs[k], s[d])
  \/ \E x \in Docs : Spreads(d, x, ib, hs) /\ d \in Affected(Without(s, L), x)

\* The sources, given the files dk, and what is traced to d along them.
ReadIn(s, dk) == [c \in Docs |-> IF IsOpen(s, c) THEN s[c].text ELSE dk[c]]
Opened(s) == {c \in Docs : IsOpen(s, c)}
Followed(d, s, dk) == Trace(d, ReadIn(s, dk), Opened(s))

\* What is shown of d has the sources of all that is traced to it.
Clean(d, s, dk, sh) ==
  {p \in sh.texts : p[1] \in Followed(d, s, dk)} =
    {<<c, ReadIn(s, dk)[c]>> : c \in Followed(d, s, dk)}

\* What is shown of d is clean, or will be refreshed.
UpToDate(d, s, dk, ib, hs, sh, L) ==
  IsOpen(s, d) /\ Followed(d, s, dk) \cap L = {} => Pending(d, s, ib, hs, L) \/ Clean(d, s, dk, sh)

IInv ==
  /\ TypeOK
  /\ Filled(handlers)
  /\ \A d \in Docs \ late : Kept(d, editor[d], inbox, handlers, store, shown[d])

Informed == \A y \in Docs : Known(y, editor[y], inbox, store[y], disk[y])

Fresh == \A d \in Docs : UpToDate(d, store, disk, inbox, handlers, shown[d], late)

\* The invariant of what is shown.
DInv == IInv /\ Informed /\ Fresh

-----------------------------------------------------------------------------
(* Sequences.                                                              *)

LEMMA AppendFacts ==
  ASSUME NEW X, NEW s \in Seq(X), NEW x \in X
  PROVE  /\ Append(s, x) \in Seq(X) /\ Len(Append(s, x)) = Len(s) + 1 /\ Len(s) \in Nat
         /\ \A k \in 1 .. Len(s) : Append(s, x)[k] = s[k]
         /\ Append(s, x)[Len(s) + 1] = x
OBVIOUS

LEMMA TailFacts ==
  ASSUME NEW X, NEW s \in Seq(X), s # <<>>
  PROVE  /\ Tail(s) \in Seq(X) /\ Len(Tail(s)) = Len(s) - 1 /\ Len(s) \in Nat \ {0}
         /\ Head(s) = s[1] /\ Head(s) \in X
         /\ \A k \in 1 .. Len(s) - 1 : Tail(s)[k] = s[k + 1]
OBVIOUS

LEMMA RemoveFacts ==
  ASSUME NEW X, NEW s \in Seq(X), NEW k \in 1 .. Len(s)
  PROVE  /\ RemoveAt(s, k) \in Seq(X) /\ Len(RemoveAt(s, k)) = Len(s) - 1
         /\ \A i \in 1 .. Len(s) - 1 : RemoveAt(s, k)[i] = IF i < k THEN s[i] ELSE s[i + 1]
<1> PICK n \in Nat : n = Len(s)
  BY LenProperties
<1>0. PICK t, u : t = SubSeq(s, 1, k - 1) /\ u = SubSeq(s, k + 1, n)
  OBVIOUS
<1>1. \A i \in 1 .. n : s[i] \in X
  BY ElementOfSeq
<1>2. t \in Seq(X) /\ Len(t) = k - 1 /\ \A i \in 1 .. k - 1 : t[i] = s[i]
  <2>1. 1 \in Int /\ k - 1 \in Int /\ \A i \in 1 .. k - 1 : s[i] \in X
    BY <1>1
  <2>. QED  BY <1>0, <2>1, SubSeqProperties
<1>3. u \in Seq(X) /\ Len(u) = n - k /\ \A i \in 1 .. n - k : u[i] = s[i + k]
  <2>1. k + 1 \in Int /\ n \in Int /\ \A i \in k + 1 .. n : s[i] \in X
    BY <1>1
  <2>. QED  BY <1>0, <2>1, SubSeqProperties
<1>4. /\ t \o u \in Seq(X) /\ Len(t \o u) = n - 1
      /\ \A i \in 1 .. n - 1 : (t \o u)[i] = IF i <= k - 1 THEN t[i] ELSE u[i - (k - 1)]
  <2>1. /\ t \o u \in Seq(X) /\ Len(t \o u) = Len(t) + Len(u)
        /\ \A i \in 1 .. Len(t) + Len(u) : (t \o u)[i] = IF i <= Len(t) THEN t[i] ELSE u[i - Len(t)]
    BY <1>2, <1>3, ConcatProperties
  <2>2. Len(t) + Len(u) = n - 1
    BY <1>2, <1>3
  <2>. QED  BY <1>2, <2>1, <2>2
<1>5. RemoveAt(s, k) = t \o u
  BY <1>0 DEF RemoveAt
<1>6. ASSUME NEW i \in 1 .. n - 1  PROVE  (t \o u)[i] = IF i < k THEN s[i] ELSE s[i + 1]
  <2>1. CASE i < k
    BY <1>2, <1>4, <2>1
  <2>2. CASE ~(i < k)
    <3>1. i - (k - 1) \in 1 .. n - k /\ (i - (k - 1)) + k = i + 1
      BY <2>2
    <3>2. u[i - (k - 1)] = s[i + 1]
      BY <1>3, <3>1
    <3>3. ~(i <= k - 1)
      BY <2>2
    <3>. QED  BY <1>4, <2>2, <3>2, <3>3
  <2>. QED  BY <2>1, <2>2
<1>. QED  BY <1>4, <1>5, <1>6

-----------------------------------------------------------------------------
(* Messages.                                                               *)

Entry == [open : BOOLEAN, version : Nat, text : Texts]

\* A message about another document.
LEMMA OrderlyOther ==
  ASSUME NEW ib \in Seq(Message), NEW m \in Message, NEW d \in Docs, NEW ed \in Entry, NEW st \in Entries,
         Orderly(d, ed, ib, st), m.doc # d
  PROVE  Orderly(d, ed, Append(ib, m), st)
<1> PICK n \in Nat : n = Len(ib)
  BY AppendFacts
<1> PICK ib2 : ib2 = Append(ib, m)
  OBVIOUS
<1>1. Len(ib2) = n + 1 /\ (\A k \in 1 .. n : ib2[k] = ib[k]) /\ ib2[n + 1] = m
  BY AppendFacts
<1>2. \A k \in 1 .. n + 1 : ib2[k].doc = d => k \in 1 .. n
  BY <1>1
<1>3. \A k, l \in 1 .. n : Stays(ib2, d, k, l) => Stays(ib, d, k, l)
  BY <1>1 DEF Stays, Closing
<1>4. \A k \in 1 .. n : Stays(ib2, d, k, n + 1) => Stays(ib, d, k, n)
  BY <1>1 DEF Stays, Closing
<1>5. Stays(ib2, d, 1, n + 1) => Stays(ib, d, 1, n)
  BY <1>1 DEF Stays, Closing
<1>6. \A k \in 1 .. n : (\A i \in k + 1 .. n + 1 : ib2[i].doc # d) => \A i \in k + 1 .. n : ib[i].doc # d
  BY <1>1
<1>7. (\A i \in 1 .. n + 1 : ib2[i].doc # d) => \A i \in 1 .. n : ib[i].doc # d
  BY <1>1
<1>8. /\ \A k, l \in 1 .. n + 1 :
           k < l /\ ib2[k].doc = d /\ ib2[l].doc = d /\ Stays(ib2, d, k, l) =>
             ib2[k].version < ib2[l].version
      /\ \A k \in 1 .. n + 1 :
           ib2[k].doc = d /\ st.version >= 0 /\ Stays(ib2, d, 1, k) => st.version < ib2[k].version
  BY <1>1, <1>2, <1>3 DEF Orderly
<1>9. \A k \in 1 .. n + 1 :
        ib2[k].doc = d /\ Stays(ib2, d, k, n + 1) => ed.open /\ ib2[k].version <= ed.version
  BY <1>1, <1>2, <1>4 DEF Orderly
<1>10. \A k \in 1 .. n + 1 :
         ib2[k].doc = d /\ (\A i \in k + 1 .. n + 1 : ib2[i].doc # d) =>
           /\ ib2[k].version = ed.version /\ ib2[k].text = ed.text
           /\ ib2[k].kind = "close" <=> ~ed.open
  BY <1>1, <1>2, <1>6 DEF Orderly
<1>. QED  BY <1>1, <1>5, <1>7, <1>8, <1>9, <1>10 DEF Orderly

\* The editor's next message.
LEMMA OrderlySent ==
  ASSUME NEW ib \in Seq(Message), NEW m \in Message, NEW d \in Docs, NEW ed \in Entry, NEW st \in Entries,
         NEW ed2 \in Entry,
         Orderly(d, ed, ib, st), m.doc = d, m.version = ed2.version, m.text = ed2.text,
         m.kind = "close" <=> ~ed2.open,
         ed2.open /\ ed.open => ed.version < ed2.version
  PROVE  Orderly(d, ed2, Append(ib, m), st)
<1> PICK n \in Nat : n = Len(ib)
  BY AppendFacts
<1> PICK ib2 : ib2 = Append(ib, m)
  OBVIOUS
<1>1. Len(ib2) = n + 1 /\ (\A k \in 1 .. n : ib2[k] = ib[k]) /\ ib2[n + 1] = m
  BY AppendFacts
<1>2. /\ \A k \in 1 .. n : ib[k] \in Message
      /\ st.version \in Int /\ ed.version \in Nat /\ ed2.version \in Nat /\ m.version \in Nat
  BY ElementOfSeq DEF Entries, Entry, Message
<1>3. \A k, l \in 1 .. n : Stays(ib2, d, k, l) => Stays(ib, d, k, l)
  BY <1>1 DEF Stays, Closing
<1>4. \A k \in 1 .. n : Stays(ib2, d, k, n + 1) => Stays(ib, d, k, n) /\ m.kind # "close"
  BY <1>1 DEF Stays, Closing
<1>5. Stays(ib2, d, 1, n + 1) => Stays(ib, d, 1, n) /\ m.kind # "close"
  BY <1>1 DEF Stays, Closing
<1>6. ASSUME NEW k \in 1 .. n + 1, NEW l \in 1 .. n + 1,
             k < l, ib2[k].doc = d, ib2[l].doc = d, Stays(ib2, d, k, l)
      PROVE  ib2[k].version < ib2[l].version
  <2>1. k \in 1 .. n /\ ib2[k] = ib[k] /\ ib[k].version \in Nat
    BY <1>1, <1>2, <1>6 DEF Message
  <2>2. CASE l \in 1 .. n
    BY <1>1, <1>3, <1>6, <2>1, <2>2 DEF Orderly
  <2>3. CASE l = n + 1
    <3>1. ed.open /\ ib[k].version <= ed.version /\ m.kind # "close"
      BY <1>4, <1>6, <2>1, <2>3 DEF Orderly
    <3>. QED  BY <1>1, <1>2, <2>1, <2>3, <3>1
  <2>. QED  BY <2>2, <2>3
<1>7. ASSUME NEW k \in 1 .. n + 1, ib2[k].doc = d, st.version >= 0, Stays(ib2, d, 1, k)
      PROVE  st.version < ib2[k].version
  <2>1. CASE k \in 1 .. n
    BY <1>1, <1>3, <1>7, <2>1 DEF Orderly
  <2>2. CASE k = n + 1
    <3>1. ed.open /\ st.version <= ed.version /\ m.kind # "close"
      BY <1>5, <1>7, <2>2 DEF Orderly
    <3>. QED  BY <1>1, <1>2, <2>2, <3>1
  <2>. QED  BY <2>1, <2>2
<1>8. ASSUME NEW k \in 1 .. n + 1, ib2[k].doc = d, Stays(ib2, d, k, n + 1)
      PROVE  ed2.open /\ ib2[k].version <= ed2.version
  <2>1. CASE k \in 1 .. n
    <3>1. ed.open /\ ib[k].version <= ed.version /\ m.kind # "close"
      BY <1>1, <1>4, <1>8, <2>1 DEF Orderly
    <3>2. ib[k].version \in Nat
      BY <1>2, <2>1 DEF Message
    <3>. QED  BY <1>1, <1>2, <2>1, <3>1, <3>2
  <2>2. CASE k = n + 1
    <3>1. m.kind # "close"
      BY <1>1, <1>8, <2>2 DEF Stays, Closing
    <3>. QED  BY <1>1, <1>2, <2>2, <3>1
  <2>. QED  BY <2>1, <2>2
<1>9. ASSUME NEW k \in 1 .. n + 1, ib2[k].doc = d, \A i \in k + 1 .. n + 1 : ib2[i].doc # d
      PROVE  /\ ib2[k].version = ed2.version /\ ib2[k].text = ed2.text
             /\ ib2[k].kind = "close" <=> ~ed2.open
  <2>1. k = n + 1
    <3>1. CASE k \in 1 .. n
      <4>1. n + 1 \in k + 1 .. n + 1
        BY <3>1
      <4>. QED  BY <1>1, <1>9, <4>1
    <3>. QED  BY <3>1
  <2>. QED  BY <1>1, <2>1
<1>10. st.version >= 0 /\ Stays(ib2, d, 1, n + 1) => ed2.open /\ st.version <= ed2.version
  BY <1>2, <1>5 DEF Orderly
<1>11. ~\A i \in 1 .. n + 1 : ib2[i].doc # d
  BY <1>1
<1>. QED  BY <1>1, <1>6, <1>7, <1>8, <1>9, <1>10, <1>11 DEF Orderly

\* Later messages are those that were, moved up by one.
LEMMA StaysShifted ==
  ASSUME NEW ib \in Seq(Message), ib # <<>>, NEW d \in Docs
  PROVE  /\ \A k, l \in 1 .. Len(ib) - 1 : Stays(Tail(ib), d, k, l) => Stays(ib, d, k + 1, l + 1)
         /\ ~Closing(ib, d, 1) =>
              \A l \in 1 .. Len(ib) - 1 : Stays(Tail(ib), d, 1, l) => Stays(ib, d, 1, l + 1)
<1> PICK n \in Nat : n = Len(ib) - 1
  BY TailFacts
<1> PICK t : t = Tail(ib)
  OBVIOUS
<1>1. Len(ib) = n + 1 /\ Len(t) = n /\ \A k \in 1 .. n : t[k] = ib[k + 1]
  BY TailFacts
<1>2. \A i \in 2 .. n + 1 : i - 1 \in 1 .. n /\ t[i - 1] = ib[i]
  <2>1. \A i \in 2 .. n + 1 : i - 1 \in 1 .. n /\ (i - 1) + 1 = i
    OBVIOUS
  <2>. QED  BY <1>1, <2>1
<1>3. ASSUME NEW k \in 1 .. n, NEW l \in 1 .. n, Stays(t, d, k, l)
      PROVE  Stays(ib, d, k + 1, l + 1)
  <2>1. ASSUME NEW i \in k + 1 .. l + 1  PROVE  ~Closing(ib, d, i)
    <3>1. i \in 2 .. n + 1 /\ i - 1 \in k .. l
      OBVIOUS
    <3>. QED  BY <1>2, <1>3, <3>1 DEF Stays, Closing
  <2>. QED  BY <2>1 DEF Stays
<1>4. ASSUME NEW l \in 1 .. n, Stays(t, d, 1, l), ~Closing(ib, d, 1)
      PROVE  Stays(ib, d, 1, l + 1)
  <2>1. 1 \in 1 .. n
    OBVIOUS
  <2>2. Stays(ib, d, 1 + 1, l + 1)
    BY <1>3, <1>4, <2>1
  <2>3. \A i \in 1 .. l + 1 : i = 1 \/ i \in 1 + 1 .. l + 1
    OBVIOUS
  <2>. QED  BY <1>4, <2>2, <2>3 DEF Stays
<1>. QED  BY <1>1, <1>3, <1>4

\* The first message is handled: one about another document, an opening or a
\* change, or a closing.
LEMMA OrderlyHandled ==
  ASSUME NEW ib \in Seq(Message), ib # <<>>, NEW d \in Docs, NEW ed \in Entry, NEW st \in Entries,
         NEW st2 \in Entries, Orderly(d, ed, ib, st),
         \/ ib[1].doc # d /\ st2 = st
         \/ ib[1].doc = d /\ ib[1].kind # "close" /\ st2.version = ib[1].version /\ st2.text = ib[1].text
         \/ ib[1].doc = d /\ ib[1].kind = "close" /\ st2.version < 0
  PROVE  Orderly(d, ed, Tail(ib), st2)
<1> PICK n \in Nat : n = Len(ib) - 1
  BY TailFacts
<1> PICK t : t = Tail(ib)
  OBVIOUS
<1>1. Len(ib) = n + 1 /\ Len(t) = n /\ \A k \in 1 .. n : t[k] = ib[k + 1]
  BY TailFacts
<1>2. /\ \A k \in 1 .. n + 1 : ib[k] \in Message /\ ib[k].version \in Nat
      /\ st.version \in Int /\ st2.version \in Int /\ ed.version \in Nat
  <2>1. \A k \in 1 .. n + 1 : ib[k] \in Message
    BY <1>1, ElementOfSeq
  <2>. QED  BY <2>1 DEF Entries, Entry, Message
<1>3. \A k \in 1 .. n : k + 1 \in 1 .. n + 1
  OBVIOUS
<1>4. ASSUME NEW k \in 1 .. n, NEW l \in 1 .. n, k < l, t[k].doc = d, t[l].doc = d, Stays(t, d, k, l)
      PROVE  t[k].version < t[l].version
  <2>1. Stays(ib, d, k + 1, l + 1) /\ k + 1 < l + 1
    BY <1>1, <1>4, StaysShifted
  <2>. QED  BY <1>1, <1>3, <1>4, <2>1 DEF Orderly
<1>5. ASSUME NEW k \in 1 .. n, t[k].doc = d, st2.version >= 0, Stays(t, d, 1, k)
      PROVE  st2.version < t[k].version
  <2>1. ~Closing(ib, d, 1)
    BY <1>2, <1>5 DEF Closing
  <2>2. Stays(ib, d, 1, k + 1)
    BY <1>1, <1>5, <2>1, StaysShifted
  <2>3. CASE ib[1].doc # d
    BY <1>1, <1>3, <1>5, <2>2, <2>3 DEF Orderly
  <2>4. CASE ib[1].doc = d
    <3>1. 1 \in 1 .. n + 1 /\ 1 < k + 1
      OBVIOUS
    <3>2. ib[1].version < ib[k + 1].version
      BY <1>1, <1>3, <1>5, <2>2, <2>4, <3>1 DEF Orderly
    <3>3. st2.version = ib[1].version
      BY <1>2, <1>5, <2>4
    <3>. QED  BY <1>1, <3>2, <3>3
  <2>. QED  BY <2>3, <2>4
<1>6. ASSUME NEW k \in 1 .. n, t[k].doc = d, Stays(t, d, k, n)
      PROVE  ed.open /\ t[k].version <= ed.version
  <2>1. n \in 1 .. n
    OBVIOUS
  <2>2. Stays(ib, d, k + 1, n + 1)
    BY <1>1, <1>6, <2>1, StaysShifted
  <2>. QED  BY <1>1, <1>3, <1>6, <2>2 DEF Orderly
<1>7. ASSUME NEW k \in 1 .. n, t[k].doc = d, \A i \in k + 1 .. n : t[i].doc # d
      PROVE  /\ t[k].version = ed.version /\ t[k].text = ed.text
             /\ t[k].kind = "close" <=> ~ed.open
  <2>1. ASSUME NEW i \in (k + 1) + 1 .. n + 1  PROVE  ib[i].doc # d
    <3>1. i - 1 \in k + 1 .. n /\ i - 1 \in 1 .. n /\ (i - 1) + 1 = i
      OBVIOUS
    <3>. QED  BY <1>1, <1>7, <3>1
  <2>. QED  BY <1>1, <1>3, <1>7, <2>1 DEF Orderly
<1>8. ASSUME st2.version >= 0, Stays(t, d, 1, n)
      PROVE  ed.open /\ st2.version <= ed.version
  <2>1. ~Closing(ib, d, 1)
    BY <1>2, <1>8 DEF Closing
  <2>2. Stays(ib, d, 1, n + 1)
    <3>1. CASE n = 0
      <4>1. \A i \in 1 .. n + 1 : i = 1
        BY <3>1
      <4>. QED  BY <2>1, <4>1 DEF Stays
    <3>2. CASE n # 0
      <4>1. n \in 1 .. n
        BY <3>2
      <4>. QED  BY <1>1, <1>8, <2>1, <4>1, StaysShifted
    <3>. QED  BY <3>1, <3>2
  <2>3. CASE ib[1].doc # d
    BY <1>1, <1>8, <2>2, <2>3 DEF Orderly
  <2>4. CASE ib[1].doc = d
    <3>1. 1 \in 1 .. n + 1
      OBVIOUS
    <3>2. ed.open /\ ib[1].version <= ed.version
      BY <1>1, <2>2, <2>4, <3>1 DEF Orderly
    <3>. QED  BY <1>2, <1>8, <2>4, <3>2
  <2>. QED  BY <2>3, <2>4
<1>9. ASSUME ed.open, \A i \in 1 .. n : t[i].doc # d
      PROVE  st2.version = ed.version /\ st2.text = ed.text
  <2>1. ASSUME NEW i \in 1 + 1 .. n + 1  PROVE  ib[i].doc # d
    <3>1. i - 1 \in 1 .. n /\ (i - 1) + 1 = i
      OBVIOUS
    <3>. QED  BY <1>1, <1>9, <3>1
  <2>2. CASE ib[1].doc # d
    <3>1. \A i \in 1 .. n + 1 : i = 1 \/ i \in 1 + 1 .. n + 1
      OBVIOUS
    <3>2. \A i \in 1 .. n + 1 : ib[i].doc # d
      BY <2>1, <2>2, <3>1
    <3>. QED  BY <1>1, <1>9, <2>2, <3>2 DEF Orderly
  <2>3. CASE ib[1].doc = d
    <3>1. 1 \in 1 .. n + 1
      OBVIOUS
    <3>2. ib[1].version = ed.version /\ ib[1].text = ed.text /\ ib[1].kind # "close"
      BY <1>1, <1>9, <2>1, <2>3, <3>1 DEF Orderly
    <3>. QED  BY <2>3, <3>2
  <2>. QED  BY <2>2, <2>3
<1>. QED  BY <1>1, <1>4, <1>5, <1>6, <1>7, <1>8, <1>9 DEF Orderly

\* Of a document that is not open, what is stored does not matter.
LEMMA OrderlyClosed ==
  ASSUME NEW ib, NEW d, NEW ed \in Entry, NEW st \in Entries, NEW st2 \in Entries,
         Orderly(d, ed, ib, st), ~(st.version >= 0), ~(st2.version >= 0)
  PROVE  Orderly(d, ed, ib, st2)
<1>1. st.version # ed.version
  BY DEF Entries, Entry
<1>. QED  BY <1>1 DEF Orderly

-----------------------------------------------------------------------------
(* The store.                                                              *)

\* What loading c makes of the entry for it.
LEMMA LoadFacts ==
  ASSUME NEW s \in [Docs -> Entries], NEW c \in Docs, disk \in [Docs -> Texts]
  PROVE  /\ Load(s, c) \in [Docs -> Entries]
         /\ \A d \in Docs \ {c} : Load(s, c)[d] = s[d]
         /\ IsOpen(s, c) => Load(s, c)[c] = s[c]
         /\ ~IsOpen(s, c) => Load(s, c)[c] = [version |-> Background, text |-> disk[c]]
         /\ Load(s, c)[c] # Absent
<1> PICK e : e = [version |-> Background, text |-> disk[c]]
  OBVIOUS
<1>1. e \in Entries /\ e.version = -1
  BY DEF Entries, Background
<1>2. Absent.version = -2
  BY DEF Absent
<1>3. CASE IsOpen(s, c)
  <2>1. Load(s, c) = s
    BY <1>3 DEF Load
  <2>2. s[c].version >= 0
    BY <1>3 DEF IsOpen
  <2>. QED  BY <1>2, <1>3, <2>1, <2>2
<1>4. CASE ~IsOpen(s, c)
  <2>1. Load(s, c) = [s EXCEPT ![c] = e]
    BY <1>4 DEF Load, Insert
  <2>. QED  BY <1>1, <1>2, <1>4, <2>1
<1>. QED  BY <1>3, <1>4

LEMMA LoadAllFacts ==
  ASSUME NEW s \in [Docs -> Entries], NEW cs \in SUBSET Docs, disk \in [Docs -> Texts]
  PROVE  /\ LoadAll(s, cs) \in [Docs -> Entries]
         /\ \A c \in Docs : IsOpen(s, c) => LoadAll(s, cs)[c] = s[c]
         /\ \A c \in Docs : ~IsOpen(s, c) => ~IsOpen(LoadAll(s, cs), c)
         /\ \A c \in Docs : s[c] # Absent \/ c \in cs => LoadAll(s, cs)[c] # Absent
<1> PICK s2 : s2 = LoadAll(s, cs)
  OBVIOUS
<1>1. \A c \in Docs : s2[c] = IF c \in cs THEN Load(s, c)[c] ELSE s[c]
  BY DEF LoadAll
<1>2. s2 \in [Docs -> Entries]
  <2>1. ASSUME NEW c \in Docs  PROVE (IF c \in cs THEN Load(s, c)[c] ELSE s[c]) \in Entries
    <3>1. Load(s, c) \in [Docs -> Entries]
      BY LoadFacts
    <3>. QED  BY <3>1
  <2>. QED  BY <2>1 DEF LoadAll
<1>3. ASSUME NEW c \in Docs
      PROVE  /\ IsOpen(s, c) => s2[c] = s[c]
             /\ ~IsOpen(s, c) => ~IsOpen(s2, c)
             /\ s[c] # Absent \/ c \in cs => s2[c] # Absent
  <2>1. /\ IsOpen(s, c) => Load(s, c)[c] = s[c]
        /\ ~IsOpen(s, c) => Load(s, c)[c] = [version |-> Background, text |-> disk[c]]
        /\ Load(s, c)[c] # Absent
    BY LoadFacts
  <2>2. [version |-> Background, text |-> disk[c]].version = -1
    BY DEF Background
  <2>3. s2[c] = IF c \in cs THEN Load(s, c)[c] ELSE s[c]
    BY <1>1
  <2>4. ~IsOpen(s, c) => ~IsOpen(s2, c)
    BY <2>1, <2>2, <2>3 DEF IsOpen
  <2>. QED  BY <2>1, <2>3, <2>4
<1>. QED  BY <1>2, <1>3

\* What a refresh makes of the store.
Refreshed(s, d, v, t) == LoadAll(Insert(s, d, [version |-> v, text |-> t]), t.imports)

LEMMA RefreshTypes ==
  ASSUME NEW s \in [Docs -> Entries], NEW d \in Docs, NEW v \in Int, NEW t \in Texts,
         disk \in [Docs -> Texts]
  PROVE  /\ Refreshed(s, d, v, t) \in [Docs -> Entries]
         /\ \A c \in Docs : IsOpen(s, c) => Refreshed(s, d, v, t)[c].version >= s[c].version
<1> PICK e : e = [version |-> v, text |-> t]
  OBVIOUS
<1> PICK s1 : s1 = Insert(s, d, e)
  OBVIOUS
<1>1. e \in Entries /\ e.version = v
  BY DEF Entries
<1>2. s1 \in [Docs -> Entries]
  BY <1>1 DEF Insert
<1>3. \A c \in Docs : IsOpen(s, c) => IsOpen(s1, c) /\ s1[c].version >= s[c].version
  BY <1>1 DEF Insert, IsOpen, Entries
<1>4. t.imports \in SUBSET Docs
  BY DEF Texts
<1>5. /\ LoadAll(s1, t.imports) \in [Docs -> Entries]
      /\ \A c \in Docs : IsOpen(s1, c) => LoadAll(s1, t.imports)[c] = s1[c]
  BY <1>2, <1>4, LoadAllFacts
<1>6. Refreshed(s, d, v, t) = LoadAll(s1, t.imports)
  BY DEF Refreshed
<1>. QED  BY <1>3, <1>5, <1>6

LEMMA RefreshFacts ==
  ASSUME NEW s \in [Docs -> Entries], NEW d \in Docs, NEW v \in Int, v >= 0, NEW t \in Texts,
         disk \in [Docs -> Texts]
  PROVE  /\ Refreshed(s, d, v, t)[d] =
              IF IsOpen(s, d) /\ v < s[d].version THEN s[d] ELSE [version |-> v, text |-> t]
         /\ IsOpen(Refreshed(s, d, v, t), d)
         /\ \A c \in Docs \ {d} : /\ IsOpen(s, c) => Refreshed(s, d, v, t)[c] = s[c]
                                  /\ ~IsOpen(s, c) => ~IsOpen(Refreshed(s, d, v, t), c)
         /\ \A c \in Docs : s[c] # Absent \/ c \in t.imports => Refreshed(s, d, v, t)[c] # Absent
<1> PICK e : e = [version |-> v, text |-> t]
  OBVIOUS
<1> PICK s1 : s1 = Insert(s, d, e)
  OBVIOUS
<1>1. e \in Entries /\ e.version = v
  BY DEF Entries
<1>2. /\ s1 \in [Docs -> Entries] /\ \A c \in Docs \ {d} : s1[c] = s[c]
      /\ s1[d] = IF IsOpen(s, d) /\ v < s[d].version THEN s[d] ELSE e
  BY <1>1 DEF Insert
<1>3. IsOpen(s1, d)
  BY <1>1, <1>2 DEF IsOpen
<1>4. t.imports \in SUBSET Docs
  BY DEF Texts
<1> PICK s2 : s2 = LoadAll(s1, t.imports)
  OBVIOUS
<1>5. /\ \A c \in Docs : IsOpen(s1, c) => s2[c] = s1[c]
      /\ \A c \in Docs : ~IsOpen(s1, c) => ~IsOpen(s2, c)
      /\ \A c \in Docs : s1[c] # Absent \/ c \in t.imports => s2[c] # Absent
  BY <1>2, <1>4, LoadAllFacts
<1>6. Refreshed(s, d, v, t) = s2
  BY DEF Refreshed
<1>7. s2[d] = s1[d] /\ IsOpen(s2, d)
  BY <1>3, <1>5 DEF IsOpen
<1>8. \A c \in Docs \ {d} : /\ IsOpen(s, c) => s2[c] = s[c]
                            /\ ~IsOpen(s, c) => ~IsOpen(s2, c)
  BY <1>2, <1>5 DEF IsOpen
<1>9. \A c \in Docs \ {d} : s[c] # Absent \/ c \in t.imports => s2[c] # Absent
  BY <1>2, <1>5
<1>10. s2[d] # Absent
  BY <1>7 DEF IsOpen, Absent
<1>. QED  BY <1>2, <1>6, <1>7, <1>8, <1>9, <1>10

\* Whatever imports a document depends on it.
LEMMA ImportersDepend ==
  ASSUME NEW s, NEW c \in Docs, NEW d \in Docs, IsOpen(s, d), c \in s[d].text.imports, d # c
  PROVE  d \in Dependents(s, c)
BY DEF Dependents, Affected, Common

-----------------------------------------------------------------------------
(* Imports.                                                                *)

\* What reaches x has x, has whatever imports one of it, and has no more.
LEMMA AffectedFacts ==
  ASSUME NEW s, NEW x \in Docs
  PROVE  /\ Affected(s, x) \subseteq Docs /\ x \in Affected(s, x)
         /\ \A c, y \in Docs : y \in s[c].text.imports /\ y \in Affected(s, x) => c \in Affected(s, x)
         /\ \A S \in SUBSET Docs :
              /\ x \in S
              /\ \A c, y \in Docs : y \in s[c].text.imports /\ y \in S => c \in S
              => Affected(s, x) \subseteq S
<1>1. Affected(s, x) \subseteq Docs /\ x \in Affected(s, x)
  BY DEF Affected, Common
<1>2. ASSUME NEW c \in Docs, NEW y \in Docs, y \in s[c].text.imports, y \in Affected(s, x)
      PROVE  c \in Affected(s, x)
  BY <1>2 DEF Affected, Common
<1>3. ASSUME NEW S \in SUBSET Docs, x \in S,
             \A c, y \in Docs : y \in s[c].text.imports /\ y \in S => c \in S
      PROVE  Affected(s, x) \subseteq S
  <2>1. \A c \in Docs : s[c].text.imports \cap S # {} => c \in S
    BY <1>3
  <2>. QED  BY <1>3, <2>1 DEF Affected, Common
<1>. QED  BY <1>1, <1>2, <1>3

\* What reaches x reaches whatever x reaches.
LEMMA AffectedOn ==
  ASSUME NEW s, NEW x \in Docs, NEW y \in Docs, NEW d \in Docs, x \in Affected(s, y), d \in Affected(s, x)
  PROVE  d \in Affected(s, y)
<1>1. /\ Affected(s, y) \in SUBSET Docs
      /\ \A c, z \in Docs : z \in s[c].text.imports /\ z \in Affected(s, y) => c \in Affected(s, y)
  BY AffectedFacts
<1>2. Affected(s, x) \subseteq Affected(s, y)
  <2>1. \A S \in SUBSET Docs :
          /\ x \in S
          /\ \A c, z \in Docs : z \in s[c].text.imports /\ z \in S => c \in S
          => Affected(s, x) \subseteq S
    BY AffectedFacts
  <2>. QED  BY <1>1, <2>1
<1>. QED  BY <1>2

\* Where imports are lost, but only those of documents in H, what reached x reaches
\* it still, or one of H.
LEMMA AffectedOnward ==
  ASSUME NEW s, NEW s2, NEW x \in Docs, NEW d \in Docs, NEW H \in SUBSET Docs, d \in Affected(s, x),
         \A c \in Docs \ H, y \in Docs : y \in s[c].text.imports => y \in s2[c].text.imports
  PROVE  d \in Affected(s2, x) \/ \E h \in H : d \in Affected(s2, h)
<1> PICK S : S = {c \in Docs : c \in Affected(s2, x) \/ \E h \in H : c \in Affected(s2, h)}
  OBVIOUS
<1>1. x \in S
  BY AffectedFacts
<1>2. ASSUME NEW c \in Docs, NEW y \in Docs, y \in s[c].text.imports, y \in S
      PROVE  c \in S
  <2>1. CASE c \in H
    BY <2>1, AffectedFacts
  <2>2. CASE c \notin H
    <3>1. y \in s2[c].text.imports
      BY <1>2, <2>2
    <3>2. y \in Affected(s2, x) => c \in Affected(s2, x)
      BY <3>1, AffectedFacts
    <3>3. \A h \in H : y \in Affected(s2, h) => c \in Affected(s2, h)
      BY <3>1, AffectedFacts
    <3>. QED  BY <1>2, <3>2, <3>3
  <2>. QED  BY <2>1, <2>2
<1>3. Affected(s, x) \subseteq S
  <2>1. \A U \in SUBSET Docs :
          /\ x \in U
          /\ \A c, z \in Docs : z \in s[c].text.imports /\ z \in U => c \in U
          => Affected(s, x) \subseteq U
    BY AffectedFacts
  <2>2. S \in SUBSET Docs
    OBVIOUS
  <2>. QED  BY <1>1, <1>2, <2>1, <2>2
<1>. QED  BY <1>3

\* Fewer imports, fewer that they lead to x.
LEMMA AffectedLess ==
  ASSUME NEW s, NEW s2, NEW x \in Docs,
         \A c, y \in Docs : y \in s[c].text.imports => y \in s2[c].text.imports
  PROVE  Affected(s, x) \subseteq Affected(s2, x)
<1>1. \A U \in SUBSET Docs :
        /\ x \in U
        /\ \A c, z \in Docs : z \in s[c].text.imports /\ z \in U => c \in U
        => Affected(s, x) \subseteq U
  BY AffectedFacts
<1>2. /\ Affected(s2, x) \in SUBSET Docs /\ x \in Affected(s2, x)
      /\ \A c, z \in Docs : z \in s2[c].text.imports /\ z \in Affected(s2, x) => c \in Affected(s2, x)
  BY AffectedFacts
<1>3. \A c, z \in Docs : z \in s[c].text.imports /\ z \in Affected(s2, x) => c \in Affected(s2, x)
  BY <1>2
<1>. QED  BY <1>1, <1>2, <1>3

-----------------------------------------------------------------------------
(* Traces.                                                                 *)

LEMMA ThroughFacts ==
  ASSUME NEW src \in [Docs -> Texts], NEW opened \in SUBSET Docs, NEW d \in Docs
  PROVE  /\ Near(d, src, opened) \subseteq Docs
         /\ Through(d, src, opened) \subseteq Docs /\ d \in Through(d, src, opened)
         /\ \A y \in Near(d, src, opened) : y \in opened => y \in Through(d, src, opened)
         /\ \A c \in Through(d, src, opened) : \A y \in src[c].imports :
              y \in opened => y \in Through(d, src, opened)
         /\ \A S \in SUBSET Docs :
              /\ d \in S
              /\ \A y \in Near(d, src, opened) : y \in opened => y \in S
              /\ \A c \in S : \A y \in src[c].imports : y \in opened => y \in S
              => Through(d, src, opened) \subseteq S
<1> PICK P, N : P = Through(d, src, opened) /\ N = Near(d, src, opened)
  OBVIOUS
<1>1. \A c \in Docs : src[c].imports \subseteq Docs
  BY DEF Texts
<1>2. N \subseteq Docs
  BY <1>1 DEF Near
<1>3. P \subseteq Docs /\ d \in P
  BY DEF Through, Common
<1>4. \A y \in N : y \in opened => y \in P
  BY DEF Through, Common
<1>5. ASSUME NEW c \in P, NEW y \in src[c].imports, y \in opened
      PROVE  y \in P
  BY <1>5 DEF Through, Common
<1>6. ASSUME NEW S \in SUBSET Docs, d \in S, \A y \in N : y \in opened => y \in S,
             \A c \in S : \A y \in src[c].imports : y \in opened => y \in S
      PROVE  P \subseteq S
  <2>1. N \cap opened \subseteq S /\ \A c \in S : src[c].imports \cap opened \subseteq S
    BY <1>6
  <2>. QED  BY <1>6, <2>1 DEF Through, Common
<1>. QED  BY <1>2, <1>3, <1>4, <1>5, <1>6

\* What is in a trace, and that a set that has all of this has the trace.
LEMMA TraceFacts ==
  ASSUME NEW src \in [Docs -> Texts], NEW opened \in SUBSET Docs, NEW d \in Docs
  PROVE  /\ d \in Trace(d, src, opened) /\ Trace(d, src, opened) \subseteq Docs
         /\ Near(d, src, opened) \subseteq Trace(d, src, opened)
         /\ \A c \in Through(d, src, opened) : src[c].imports \subseteq Trace(d, src, opened)
         /\ \A y \in Trace(d, src, opened) :
              \/ y = d \/ y \in Near(d, src, opened)
              \/ \E c \in Through(d, src, opened) : y \in src[c].imports
<1>1. \A c \in Docs : src[c].imports \subseteq Docs
  BY DEF Texts
<1>2. Near(d, src, opened) \subseteq Docs /\ Through(d, src, opened) \subseteq Docs
  BY ThroughFacts
<1>. QED  BY <1>1, <1>2 DEF Trace

\* Documents to be traced are in the trace.
LEMMA ThroughTraced ==
  ASSUME NEW src \in [Docs -> Texts], NEW opened \in SUBSET Docs, NEW d \in Docs
  PROVE  \A c \in Through(d, src, opened) : c \in Trace(d, src, opened) /\ (c = d \/ c \in opened)
<1> PICK P, T : P = Through(d, src, opened) /\ T = Trace(d, src, opened)
  OBVIOUS
<1>1. /\ P \subseteq Docs /\ d \in P
      /\ \A y \in Near(d, src, opened) : y \in opened => y \in P
      /\ \A c \in P : \A y \in src[c].imports : y \in opened => y \in P
  BY ThroughFacts
<1>2. d \in T /\ Near(d, src, opened) \subseteq T /\ \A c \in P : src[c].imports \subseteq T
  BY TraceFacts
<1> PICK S : S = {c \in P : c \in T /\ (c = d \/ c \in opened)}
  OBVIOUS
<1>3. S \in SUBSET Docs /\ d \in S
  BY <1>1, <1>2
<1>4. \A y \in Near(d, src, opened) : y \in opened => y \in S
  BY <1>1, <1>2
<1>5. \A c \in S : \A y \in src[c].imports : y \in opened => y \in S
  BY <1>1, <1>2
<1>6. P \subseteq S
  <2>1. \A U \in SUBSET Docs :
          /\ d \in U
          /\ \A y \in Near(d, src, opened) : y \in opened => y \in U
          /\ \A c \in U : \A y \in src[c].imports : y \in opened => y \in U
          => P \subseteq U
    BY ThroughFacts
  <2>. QED  BY <1>3, <1>4, <1>5, <2>1
<1>. QED  BY <1>6

\* Half of the next lemma.
LEMMA ThroughSame ==
  ASSUME NEW src \in [Docs -> Texts], NEW opened \in SUBSET Docs,
         NEW src2 \in [Docs -> Texts], NEW opened2 \in SUBSET Docs, NEW d \in Docs,
         \A c \in Trace(d, src, opened) : src2[c] = src[c] /\ (c \in opened2 <=> c \in opened)
  PROVE  /\ Near(d, src2, opened2) = Near(d, src, opened)
         /\ Through(d, src2, opened2) = Through(d, src, opened)
<1> PICK N, P, T : N = Near(d, src, opened) /\ P = Through(d, src, opened) /\ T = Trace(d, src, opened)
  OBVIOUS
<1> PICK P2 : P2 = Through(d, src2, opened2)
  OBVIOUS
<1>1. d \in T /\ T \subseteq Docs /\ N \subseteq T /\ \A c \in P : src[c].imports \subseteq T
  BY TraceFacts
<1>2. \A c \in P : c \in T
  BY ThroughTraced
<1>3. src2[d] = src[d] /\ src[d].imports \subseteq N
  BY <1>1 DEF Near
<1>4. Near(d, src2, opened2) = N
  <2>1. \A c \in src[d].imports : c \in T
    BY <1>1, <1>3
  <2>2. src[d].imports \ opened2 = src[d].imports \ opened
    BY <2>1
  <2>3. \A c \in src[d].imports : src2[c] = src[c]
    BY <2>1
  <2>4. UNION {src2[c].imports : c \in src[d].imports \ opened}
          = UNION {src[c].imports : c \in src[d].imports \ opened}
    BY <2>3
  <2>. QED  BY <1>3, <2>2, <2>4 DEF Near
<1>5. /\ P \subseteq Docs /\ d \in P
      /\ \A y \in N : y \in opened => y \in P
      /\ \A c \in P : \A y \in src[c].imports : y \in opened => y \in P
      /\ \A S \in SUBSET Docs :
           /\ d \in S
           /\ \A y \in N : y \in opened => y \in S
           /\ \A c \in S : \A y \in src[c].imports : y \in opened => y \in S
           => P \subseteq S
  BY ThroughFacts
<1>6. /\ P2 \subseteq Docs /\ d \in P2
      /\ \A y \in N : y \in opened2 => y \in P2
      /\ \A c \in P2 : \A y \in src2[c].imports : y \in opened2 => y \in P2
      /\ \A S \in SUBSET Docs :
           /\ d \in S
           /\ \A y \in N : y \in opened2 => y \in S
           /\ \A c \in S : \A y \in src2[c].imports : y \in opened2 => y \in S
           => P2 \subseteq S
  BY <1>4, ThroughFacts
<1>7. P2 \subseteq P
  <2>1. \A y \in N : y \in opened2 => y \in P
    BY <1>1, <1>5
  <2>2. \A c \in P : \A y \in src2[c].imports : y \in opened2 => y \in P
    BY <1>1, <1>2, <1>5
  <2>. QED  BY <1>5, <1>6, <2>1, <2>2
<1>8. P \subseteq P2
  <2> PICK S : S = P \cap P2
    OBVIOUS
  <2>1. S \in SUBSET Docs /\ d \in S
    BY <1>5, <1>6
  <2>2. \A y \in N : y \in opened => y \in S
    BY <1>1, <1>5, <1>6
  <2>3. \A c \in S : \A y \in src[c].imports : y \in opened => y \in S
    BY <1>1, <1>2, <1>5, <1>6
  <2>4. P \subseteq S
    BY <1>5, <2>1, <2>2, <2>3
  <2>. QED  BY <2>4
<1>. QED  BY <1>4, <1>7, <1>8

\* A trace depends on nothing that is not in it.
LEMMA TraceSame ==
  ASSUME NEW src \in [Docs -> Texts], NEW opened \in SUBSET Docs,
         NEW src2 \in [Docs -> Texts], NEW opened2 \in SUBSET Docs, NEW d \in Docs,
         \A c \in Trace(d, src, opened) : src2[c] = src[c] /\ (c \in opened2 <=> c \in opened)
  PROVE  Trace(d, src2, opened2) = Trace(d, src, opened)
<1> PICK P : P = Through(d, src, opened)
  OBVIOUS
<1>1. Near(d, src2, opened2) = Near(d, src, opened) /\ Through(d, src2, opened2) = P
  BY ThroughSame
<1>2. \A c \in P : src2[c] = src[c]
  BY ThroughTraced
<1>3. UNION {src2[c].imports : c \in P} = UNION {src[c].imports : c \in P}
  BY <1>2
<1>. QED  BY <1>1, <1>3 DEF Trace

\* A set that has d, what is near it, and all that the documents of the set import
\* that are open, has the trace if it has all that those import.
LEMMA TraceWithin ==
  ASSUME NEW src \in [Docs -> Texts], NEW opened \in SUBSET Docs, NEW d \in Docs, NEW R \in SUBSET Docs,
         d \in R, Near(d, src, opened) \subseteq R,
         \A c \in Trace(d, src, opened) : c \in R /\ (c = d \/ c \in opened) => src[c].imports \subseteq R
  PROVE  Trace(d, src, opened) \subseteq R
<1> PICK P, T : P = Through(d, src, opened) /\ T = Trace(d, src, opened)
  OBVIOUS
<1>1. /\ P \subseteq Docs /\ d \in P
      /\ \A y \in Near(d, src, opened) : y \in opened => y \in P
      /\ \A c \in P : \A y \in src[c].imports : y \in opened => y \in P
      /\ \A S \in SUBSET Docs :
           /\ d \in S
           /\ \A y \in Near(d, src, opened) : y \in opened => y \in S
           /\ \A c \in S : \A y \in src[c].imports : y \in opened => y \in S
           => P \subseteq S
  BY ThroughFacts
<1>2. \A c \in P : c \in T /\ (c = d \/ c \in opened)
  BY ThroughTraced
<1>3. \A y \in T : \/ y = d \/ y \in Near(d, src, opened)
                   \/ \E c \in P : y \in src[c].imports
  BY TraceFacts
<1> PICK S : S = P \cap R
  OBVIOUS
<1>4. S \in SUBSET Docs /\ d \in S
  BY <1>1
<1>5. \A y \in Near(d, src, opened) : y \in opened => y \in S
  BY <1>1
<1>6. \A c \in S : \A y \in src[c].imports : y \in opened => y \in S
  BY <1>1, <1>2
<1>7. P \subseteq S
  BY <1>1, <1>4, <1>5, <1>6
<1>8. \A c \in P : src[c].imports \subseteq R
  BY <1>2, <1>7
<1>. QED  BY <1>3, <1>8

\* What a text of d imports is closed under the imports of others.
LEMMA ImportedFacts ==
  ASSUME NEW d \in Docs, NEW t \in Texts, NEW src \in [Docs -> Texts]
  PROVE  /\ Imported(d, t, src) \subseteq Docs /\ t.imports \subseteq Imported(d, t, src)
         /\ \A c \in Imported(d, t, src) : c # d => src[c].imports \subseteq Imported(d, t, src)
<1>1. t.imports \subseteq Docs /\ \A c \in Docs : src[c].imports \subseteq Docs
  BY DEF Texts
<1>2. Imported(d, t, src) \subseteq Docs
  BY DEF Imported, Common
<1>3. t.imports \subseteq Imported(d, t, src)
  BY <1>1 DEF Imported, Common
<1>4. ASSUME NEW c \in Imported(d, t, src), c # d, NEW y \in src[c].imports
      PROVE  y \in Imported(d, t, src)
  <2>1. y \in Docs /\ c \in Docs
    BY <1>1, <1>2, <1>4
  <2>. QED  BY <1>4, <2>1 DEF Imported, Common
<1>. QED  BY <1>2, <1>3, <1>4

\* What is read for a text of d has, of the documents in a trace of it, the texts
\* that it was traced along, and nothing else of those.
LEMMA TraceRead ==
  ASSUME NEW src \in [Docs -> Texts], NEW src2 \in [Docs -> Texts], NEW opened2 \in SUBSET Docs,
         NEW d \in Docs, NEW t \in Texts, d \in opened2, src2[d] = t,
         \A c \in Docs \ {d} : src2[c] = src[c]
  PROVE  {p \in Read(d, t, src) : p[1] \in Trace(d, src2, opened2)} =
           {<<c, src2[c]>> : c \in Trace(d, src2, opened2)}
<1> PICK I, T : I = Imported(d, t, src) /\ T = Trace(d, src2, opened2)
  OBVIOUS
<1>1. /\ I \subseteq Docs /\ t.imports \subseteq I
      /\ \A c \in I : c # d => src[c].imports \subseteq I
  BY ImportedFacts
<1>2. T \subseteq I \cup {d}
  <2>1. Near(d, src2, opened2) \subseteq I \cup {d}
    <3>1. \A c \in t.imports \ opened2 : src2[c].imports \subseteq I
      BY <1>1
    <3>. QED  BY <1>1, <3>1 DEF Near
  <2>2. \A c \in T : c \in I \cup {d} /\ (c = d \/ c \in opened2) => src2[c].imports \subseteq I \cup {d}
    BY <1>1
  <2>3. I \cup {d} \in SUBSET Docs /\ d \in I \cup {d}
    BY <1>1
  <2>. QED  BY <2>1, <2>2, <2>3, TraceWithin
<1>3. Read(d, t, src) = {<<c, src[c]>> : c \in I \ {d}} \cup {<<d, t>>}
  BY DEF Read
<1>4. \A p \in Read(d, t, src) : p[1] \in T => \E c \in T : p = <<c, src2[c]>>
  BY <1>1, <1>3
<1>5. \A c \in T : <<c, src2[c]>> \in Read(d, t, src) /\ <<c, src2[c]>>[1] = c
  <2>1. ASSUME NEW c \in T, c # d  PROVE <<c, src2[c]>> \in Read(d, t, src)
    <3>1. c \in I \ {d} /\ src2[c] = src[c]
      BY <1>1, <1>2, <2>1
    <3>. QED  BY <1>3, <3>1
  <2>2. <<d, src2[d]>> \in Read(d, t, src)
    BY <1>3
  <2>. QED  BY <2>1, <2>2
<1>. QED  BY <1>4, <1>5

LEMMA SourceTypes ==
  ASSUME NEW s \in [Docs -> Entries], NEW dk \in [Docs -> Texts]
  PROVE  /\ ReadIn(s, dk) \in [Docs -> Texts] /\ Opened(s) \in SUBSET Docs
         /\ \A c \in Docs : ReadIn(s, dk)[c] = IF IsOpen(s, c) THEN s[c].text ELSE dk[c]
         /\ \A c \in Docs : s[c].text \in Texts /\ s[c].version \in Int
         /\ \A c \in Docs : s[c].text.imports \subseteq Docs /\ dk[c].imports \subseteq Docs
BY DEF ReadIn, Opened, Entries, Texts

\* All that is traced to d is reached from it in the store, if what it imports and is
\* closed is stored with its imports.
LEMMA FollowedReached ==
  ASSUME NEW s \in [Docs -> Entries], NEW dk \in [Docs -> Texts], NEW L \in SUBSET Docs, NEW d \in Docs,
         IsOpen(s, d), Followed(d, s, dk) \cap L = {},
         \A c \in s[d].text.imports : ~IsOpen(s, c) => dk[c].imports \subseteq s[c].text.imports
  PROVE  \A c \in Followed(d, s, dk) : d \in Affected(Without(s, L), c)
<1> PICK src, op, T : src = ReadIn(s, dk) /\ op = Opened(s) /\ T = Followed(d, s, dk)
  OBVIOUS
<1> PICK w : w = Without(s, L)
  OBVIOUS
<1>1. src \in [Docs -> Texts] /\ op \in SUBSET Docs /\ T = Trace(d, src, op)
  BY SourceTypes DEF Followed
<1>2. /\ \A c \in Docs : src[c] = IF IsOpen(s, c) THEN s[c].text ELSE dk[c]
      /\ \A c \in Docs : s[c].text.imports \subseteq Docs /\ dk[c].imports \subseteq Docs
      /\ \A c \in Docs : c \in op <=> IsOpen(s, c)
  BY SourceTypes DEF Opened
<1>3. d \in T /\ T \subseteq Docs /\ Near(d, src, op) \subseteq T
  BY <1>1, TraceFacts
<1>4. \A c \in T : w[c] = s[c]
  BY <1>3 DEF Without
<1> PICK R : R = {c \in Docs : d \in Affected(w, c)}
  OBVIOUS
<1>5. R \in SUBSET Docs /\ d \in R
  BY AffectedFacts
<1>6. ASSUME NEW c \in T, c \in R  PROVE s[c].text.imports \subseteq R
  <2> SUFFICES ASSUME NEW y \in s[c].text.imports  PROVE y \in R
    OBVIOUS
  <2>1. y \in Docs /\ c \in Docs /\ y \in w[c].text.imports
    BY <1>2, <1>3, <1>4
  <2>2. y \in Affected(w, y)
    BY <2>1, AffectedFacts
  <2>3. c \in Affected(w, y)
    BY <2>1, <2>2, AffectedFacts
  <2>4. d \in Affected(w, c)
    BY <1>6
  <2>5. d \in Affected(w, y)
    BY <2>1, <2>3, <2>4, AffectedOn
  <2>. QED  BY <2>1, <2>5
<1>7. \A c \in T : c \in R /\ (c = d \/ c \in op) => src[c].imports \subseteq R
  <2>1. \A c \in T : (c = d \/ c \in op) => src[c] = s[c].text
    BY <1>2, <1>3
  <2>. QED  BY <1>6, <2>1
<1>8. Near(d, src, op) \subseteq R
  <2>1. src[d] = s[d].text /\ src[d].imports \subseteq R
    BY <1>2, <1>3, <1>5, <1>6
  <2>2. ASSUME NEW c \in src[d].imports \ op  PROVE src[c].imports \subseteq R
    <3>1. c \in Docs /\ ~IsOpen(s, c) /\ src[c] = dk[c] /\ c \in R
      BY <1>2, <2>1
    <3>2. dk[c].imports \subseteq s[c].text.imports
      BY <2>1, <2>2, <3>1
    <3>3. c \in T
      BY <1>3, <2>2 DEF Near
    <3>. QED  BY <1>6, <3>1, <3>2, <3>3
  <2>. QED  BY <2>1, <2>2 DEF Near
<1>9. T \subseteq R
  BY <1>1, <1>5, <1>7, <1>8, TraceWithin
<1>. QED  BY <1>9

\* What is pending stays so, if what spreads goes on to, or has got as far as d, and
\* no imports are lost but of what spreads, or is late.
LEMMA PendingOnward ==
  ASSUME NEW d \in Docs, NEW s, NEW s2, NEW ib, NEW ib2, NEW hs, NEW hs2, NEW L, NEW L2,
         (\E k \in DOMAIN hs : InTurn(d, hs[k], s[d])) => \E k \in DOMAIN hs2 : InTurn(d, hs2[k], s2[d]),
         \A x \in Docs : Spreads(d, x, ib, hs) /\ d \in Affected(Without(s, L), x) =>
                           Spreads(d, x, ib2, hs2) \/ \E k \in DOMAIN hs2 : InTurn(d, hs2[k], s2[d]),
         \A c \in Docs \ L : \/ Spreads(d, c, ib2, hs2)
                             \/ c \notin L2 /\ s[c].text.imports \subseteq s2[c].text.imports,
         Pending(d, s, ib, hs, L)
  PROVE  Pending(d, s2, ib2, hs2, L2)
<1>1. CASE \E k \in DOMAIN hs : InTurn(d, hs[k], s[d])
  BY <1>1 DEF Pending
<1>2. ASSUME NEW x \in Docs, Spreads(d, x, ib, hs), d \in Affected(Without(s, L), x)
      PROVE  Pending(d, s2, ib2, hs2, L2)
  <2>1. CASE \E k \in DOMAIN hs2 : InTurn(d, hs2[k], s2[d])
    BY <2>1 DEF Pending
  <2>2. CASE Spreads(d, x, ib2, hs2)
    <3> PICK H : H = {c \in Docs : Spreads(d, c, ib2, hs2)}
      OBVIOUS
    <3>1. ASSUME NEW c \in Docs \ H, NEW y \in Docs, y \in Without(s, L)[c].text.imports
          PROVE  y \in Without(s2, L2)[c].text.imports
      <4>1. c \notin L
        BY <3>1 DEF Without, Absent, NoText
      <4>2. c \notin L2 /\ s[c].text.imports \subseteq s2[c].text.imports
        BY <4>1
      <4>. QED  BY <3>1, <4>1, <4>2 DEF Without
    <3>2. H \in SUBSET Docs
      OBVIOUS
    <3>3. d \in Affected(Without(s2, L2), x) \/ \E h \in H : d \in Affected(Without(s2, L2), h)
      BY <1>2, <3>1, <3>2, AffectedOnward
    <3>. QED  BY <2>2, <3>3 DEF Pending
  <2>. QED  BY <1>2, <2>1, <2>2
<1>. QED  BY <1>1, <1>2 DEF Pending

\* What is stored of d and shown of it stays, and what changes of the sources spreads,
\* or is late.
LEMMA UpToDateOnward ==
  ASSUME NEW d \in Docs, NEW s \in [Docs -> Entries], NEW s2 \in [Docs -> Entries],
         NEW dk \in [Docs -> Texts], NEW dk2 \in [Docs -> Texts], NEW ed,
         NEW ib, NEW ib2, NEW hs, NEW hs2, NEW sh, NEW L \in SUBSET Docs, NEW L2 \in SUBSET Docs,
         L \subseteq L2, UpToDate(d, s, dk, ib, hs, sh, L), IsOpen(s, d), s2[d] = s[d],
         Pending(d, s, ib, hs, L) => Pending(d, s2, ib2, hs2, L2),
         \A c \in Docs : \/ Spreads(d, c, ib2, hs2)
                         \/ c \in L2
                         \/ ReadIn(s2, dk2)[c] = ReadIn(s, dk)[c] /\ (IsOpen(s2, c) <=> IsOpen(s, c)),
         d \notin L2 => Loaded(d, hs2, s2),
         \A c \in Docs : Known(c, ed[c], ib2, s2[c], dk2[c])
  PROVE  UpToDate(d, s2, dk2, ib2, hs2, sh, L2)
<1> SUFFICES ASSUME Followed(d, s2, dk2) \cap L2 = {}, ~Pending(d, s2, ib2, hs2, L2)
             PROVE  Clean(d, s2, dk2, sh)
  BY DEF UpToDate
<1> PICK src, op, src2, op2 : /\ src = ReadIn(s, dk) /\ op = Opened(s)
                              /\ src2 = ReadIn(s2, dk2) /\ op2 = Opened(s2)
  OBVIOUS
<1> PICK T : T = Followed(d, s2, dk2)
  OBVIOUS
<1>1. /\ src \in [Docs -> Texts] /\ op \in SUBSET Docs
      /\ src2 \in [Docs -> Texts] /\ op2 \in SUBSET Docs
      /\ T = Trace(d, src2, op2) /\ Followed(d, s, dk) = Trace(d, src, op)
  BY SourceTypes DEF Followed
<1>2. d \in T /\ T \subseteq Docs
  BY <1>1, TraceFacts
<1>3. IsOpen(s2, d) /\ d \notin L2 /\ Loaded(d, hs2, s2)
  BY <1>2 DEF IsOpen
<1>4. s2[d].text.imports \subseteq Docs
  BY SourceTypes
<1>5. ASSUME NEW c \in s2[d].text.imports, ~IsOpen(s2, c)
      PROVE  dk2[c].imports \subseteq s2[c].text.imports
  <2>1. c \in Docs /\ c # d
    BY <1>3, <1>4, <1>5
  <2>2. ~Spreads(d, c, ib2, hs2)
    <3>1. c \in Affected(Without(s2, L2), c)
      BY <2>1, AffectedFacts
    <3>2. c \in Without(s2, L2)[d].text.imports
      BY <1>3, <1>5 DEF Without
    <3>3. d \in Affected(Without(s2, L2), c)
      BY <2>1, <3>1, <3>2, AffectedFacts
    <3>. QED  BY <2>1, <3>3 DEF Pending
  <2>3. ~Reloads(d, c, hs2, s2[d])
    BY <2>1, <2>2 DEF Reloads, Spreads, Pending
  <2>4. s2[c] # Absent
    BY <1>3, <1>5, <2>3 DEF Loaded
  <2>. QED  BY <1>5, <2>1, <2>2, <2>4 DEF Spreads, Known, IsOpen
<1>6. \A c \in T : d \in Affected(Without(s2, L2), c)
  BY <1>3, <1>5, FollowedReached
<1>7. \A c \in T : ~Spreads(d, c, ib2, hs2) /\ c \notin L2
  BY <1>2, <1>6 DEF Pending
<1>8. \A c \in T : src[c] = src2[c] /\ (c \in op <=> c \in op2)
  BY <1>2, <1>7 DEF Opened
<1>9. Followed(d, s, dk) = T
  BY <1>1, <1>8, TraceSame
<1>10. Clean(d, s, dk, sh)
  <2>1. T \cap L = {}
    BY <1>7
  <2>. QED  BY <1>9, <2>1 DEF UpToDate
<1>11. {<<c, src[c]>> : c \in T} = {<<c, src2[c]>> : c \in T}
  BY <1>8
<1>. QED  BY <1>9, <1>10, <1>11 DEF Clean

-----------------------------------------------------------------------------
(* Types.                                                                  *)

LEMMA ReadTypes ==
  ASSUME TypeOK, NEW d \in Docs, NEW t \in Texts
  PROVE  Read(d, t, Sources(store)) \in SUBSET (Docs \X Texts)
<1>1. Sources(store) \in [Docs -> Texts]
  BY DEF Sources, TypeOK, Entries
<1>2. Imported(d, t, Sources(store)) \subseteq Docs
  BY DEF Imported, Common
<1>. QED  BY <1>1, <1>2 DEF Read

LEMMA ListedTypes ==
  ASSUME TypeOK, NEW h \in Handler
  PROVE  Listed(h) \in SUBSET Todo
<1>1. Dependents(store, h.changed) \subseteq Docs
  BY DEF Dependents, Affected, Common
<1>2. \A c \in Docs : store[c].version \in Int /\ store[c].text \in Texts
  BY DEF TypeOK, Entries
<1>. QED  BY <1>1, <1>2 DEF Listed, Handler, Todo

LEMMA RefreshKeepsTypes ==
  ASSUME TypeOK, NEW d \in Docs, NEW v \in Int, NEW t \in Texts, Refresh(d, v, t)
  PROVE  /\ store' = Refreshed(store, d, v, t)
         /\ store' \in [Docs -> Entries]
         /\ shown' \in [Docs -> [version : Int, texts : SUBSET (Docs \X Texts)]]
         /\ \A c \in Docs \ {d} : shown'[c] = shown[c]
         /\ shown'[d] = Shows(shown[d], [version |-> v, texts |-> Read(d, t, Sources(store))])
<1>1. store' = Refreshed(store, d, v, t)
  BY DEF Refresh, Refreshed
<1>2. store' \in [Docs -> Entries]
  BY <1>1, RefreshTypes DEF TypeOK
<1> PICK ts : ts = Read(d, t, Sources(store))
  OBVIOUS
<1>3. ts \in SUBSET (Docs \X Texts)
  BY ReadTypes
<1>4. shown' = [shown EXCEPT ![d] = Shows(@, [version |-> v, texts |-> ts])]
  BY DEF Refresh
<1>5. Shows(shown[d], [version |-> v, texts |-> ts]) \in [version : Int, texts : SUBSET (Docs \X Texts)]
  BY <1>3 DEF Shows, TypeOK
<1>. QED  BY <1>1, <1>2, <1>4, <1>5 DEF TypeOK

LEMMA InitTypes == Init => TypeOK
<1> SUFFICES ASSUME Init  PROVE TypeOK
  OBVIOUS
<1>1. NoText \in Texts
  BY BoundsAssumption DEF NoText, Texts
<1>2. disk \in [Docs -> Texts]
  <2> PICK lay \in Layouts : disk = [d \in Docs |-> [rev |-> 0, imports |-> lay[d]]]
    BY DEF Init
  <2>1. \A d \in Docs : lay[d] \in SUBSET Docs
    BY LayoutsAssumption
  <2>. QED  BY <2>1, BoundsAssumption DEF Texts
<1>3. editor \in [Docs -> [open : BOOLEAN, version : Nat, text : Texts]]
  BY <1>1 DEF Init
<1>4. store \in [Docs -> Entries]
  BY <1>1 DEF Init, Entries, Absent
<1>5. shown \in [Docs -> [version : Int, texts : SUBSET (Docs \X Texts)]]
  BY DEF Init, Nothing
<1>6. Len(handlers) <= Concurrency /\ acts \in 0 .. MaxActs
  BY BoundsAssumption DEF Init
<1>7. /\ inbox \in Seq([kind : {"open", "change", "close"}, doc : Docs, version : Nat, text : Texts])
      /\ handlers \in Seq([changed : Docs, listed : BOOLEAN,
                           todo : SUBSET [doc : Docs, version : Int, text : Texts]])
      /\ late \subseteq Docs
  BY DEF Init
<1>. QED  BY <1>2, <1>3, <1>4, <1>5, <1>6, <1>7 DEF TypeOK

\* What the editor sends, and what it makes of its entry.
LEMMA SendFacts ==
  ASSUME TypeOK, NEW x \in Docs, Open(x) \/ Change(x) \/ Close(x)
  PROVE  /\ editor' \in [Docs -> Entry] /\ acts' \in 0 .. MaxActs
         /\ \A d \in Docs \ {x} : editor'[d] = editor[d]
         /\ editor'[x].open /\ editor[x].open => editor[x].version < editor'[x].version
         /\ \E m \in Message : /\ inbox' = Append(inbox, m) /\ m.doc = x
                               /\ m.version = editor'[x].version /\ m.text = editor'[x].text
                               /\ m.kind = "close" <=> ~editor'[x].open
<1>1. /\ editor \in [Docs -> Entry] /\ disk[x] \in Texts
      /\ \A d \in Docs : editor[d].version \in Nat /\ editor[d].text \in Texts
  BY DEF TypeOK, Entry
<1>2. ASSUME NEW kind, kind \in {"open", "change", "close"}, editor' \in [Docs -> Entry], Send(kind, x),
             kind = "close" <=> ~editor'[x].open
      PROVE  /\ acts' \in 0 .. MaxActs
             /\ \E m \in Message : /\ inbox' = Append(inbox, m) /\ m.doc = x
                                   /\ m.version = editor'[x].version /\ m.text = editor'[x].text
                                   /\ m.kind = "close" <=> ~editor'[x].open
  <2>1. acts' \in 0 .. MaxActs
    BY <1>2, BoundsAssumption DEF Send, Act, TypeOK
  <2>2. editor'[x].version \in Nat /\ editor'[x].text \in Texts
    BY <1>2 DEF Entry
  <2> PICK m : m = [kind |-> kind, doc |-> x, version |-> editor'[x].version, text |-> editor'[x].text]
    OBVIOUS
  <2>3. m \in Message
    BY <1>2, <2>2 DEF Message
  <2>4. inbox' = Append(inbox, m)
    BY <1>2 DEF Send
  <2>. QED  BY <1>2, <2>1, <2>3, <2>4
<1>3. CASE Open(x)
  <2> PICK e : e = [open |-> TRUE, version |-> 1, text |-> disk[x]]
    OBVIOUS
  <2>1. e \in Entry /\ e.open
    BY <1>1 DEF Entry
  <2>2. editor' = [editor EXCEPT ![x] = e] /\ ~editor[x].open /\ Send("open", x)
    BY <1>3 DEF Open
  <2>3. editor' \in [Docs -> Entry] /\ editor'[x].open /\ \A d \in Docs \ {x} : editor'[d] = editor[d]
    BY <1>1, <2>1, <2>2
  <2>. QED  BY <1>2, <2>2, <2>3
<1>4. CASE Change(x)
  <2> PICK lay \in Layouts :
        editor' = [editor EXCEPT ![x] =
                    [open |-> TRUE, version |-> @.version + 1, text |-> [rev |-> acts + 1, imports |-> lay[x]]]]
    BY <1>4 DEF Change
  <2>1. Send("change", x)
    BY <1>4 DEF Change
  <2> PICK e : e = [open |-> TRUE, version |-> editor[x].version + 1,
                    text |-> [rev |-> acts + 1, imports |-> lay[x]]]
    OBVIOUS
  <2>2. lay[x] \in SUBSET Docs /\ acts + 1 \in 0 .. MaxActs
    BY <2>1, LayoutsAssumption, BoundsAssumption DEF Send, Act, TypeOK
  <2>3. e \in Entry /\ e.open /\ e.version = editor[x].version + 1
    BY <1>1, <2>2 DEF Entry, Texts
  <2>4. editor' = [editor EXCEPT ![x] = e]
    OBVIOUS
  <2>5. editor' \in [Docs -> Entry] /\ editor'[x] = e /\ \A d \in Docs \ {x} : editor'[d] = editor[d]
    BY <1>1, <2>3, <2>4
  <2>6. editor[x].version < editor'[x].version
    BY <1>1, <2>3, <2>5
  <2>. QED  BY <1>2, <2>1, <2>3, <2>5, <2>6
<1>5. CASE Close(x)
  <2>1. editor' = [editor EXCEPT ![x].open = FALSE] /\ Send("close", x)
    BY <1>5 DEF Close
  <2>2. editor' \in [Docs -> Entry] /\ ~editor'[x].open /\ \A d \in Docs \ {x} : editor'[d] = editor[d]
    BY <1>1, <2>1 DEF Entry
  <2>. QED  BY <1>2, <2>1, <2>2
<1>. QED  BY <1>3, <1>4, <1>5

LEMMA SequenceTypes ==
  ASSUME TypeOK
  PROVE  /\ handlers \in Seq(Handler) /\ DOMAIN handlers = 1 .. Len(handlers) /\ Len(handlers) \in Nat
         /\ \A k \in DOMAIN handlers : handlers[k] \in Handler
         /\ inbox \in Seq(Message) /\ Len(inbox) \in Nat
<1>1. handlers \in Seq(Handler) /\ inbox \in Seq(Message)
  BY DEF TypeOK, Handler, Todo, Message
<1>2. \A k \in 1 .. Len(handlers) : handlers[k] \in Handler
  BY <1>1, ElementOfSeq
<1>3. DOMAIN handlers = 1 .. Len(handlers) /\ Len(handlers) \in Nat /\ Len(inbox) \in Nat
  BY <1>1, LenProperties
<1>. QED  BY <1>1, <1>2, <1>3

LEMMA TypesKept ==
  ASSUME TypeOK, [Next]_vars
  PROVE  TypeOK'
<1>. DEFINE Shown == [version : Int, texts : SUBSET (Docs \X Texts)]
<1>1. CASE UNCHANGED vars
  BY <1>1 DEF TypeOK, vars
<1>2. ASSUME NEW x \in Docs, Open(x) \/ Change(x) \/ Close(x)  PROVE  TypeOK'
  <2>1. editor' \in [Docs -> Entry] /\ acts' \in 0 .. MaxActs
    BY <1>2, SendFacts
  <2>2. inbox' \in Seq(Message)
    <3> PICK m \in Message : inbox' = Append(inbox, m)
      BY <1>2, SendFacts
    <3>1. inbox \in Seq(Message)
      BY DEF TypeOK, Message
    <3>. QED  BY <3>1, AppendFacts
  <2>3. UNCHANGED <<disk, store, handlers, shown, late>>
    BY <1>2 DEF Open, Change, Close
  <2>. QED  BY <2>1, <2>2, <2>3 DEF TypeOK, Entry, Message
<1>3. ASSUME NEW x \in Docs, Save(x)  PROVE  TypeOK'
  <2>1. disk' = [disk EXCEPT ![x] = editor[x].text] /\ editor[x].text \in Texts
    BY <1>3 DEF Save, TypeOK
  <2>2. disk' \in [Docs -> Texts]
    BY <2>1 DEF TypeOK
  <2>3. acts' \in 0 .. MaxActs
    BY <1>3, BoundsAssumption DEF Save, Act, TypeOK
  <2>4. UNCHANGED <<editor, inbox, store, handlers, shown, late>>
    BY <1>3 DEF Save
  <2>. QED  BY <2>2, <2>3, <2>4 DEF TypeOK
<1>4. CASE Start
  <2>1. inbox \in Seq(Message) /\ inbox # <<>> /\ handlers \in Seq(Handler)
    BY <1>4 DEF Start, TypeOK, Message, Handler, Todo
  <2> PICK m : m = Head(inbox)
    OBVIOUS
  <2>2. m \in Message /\ inbox' \in Seq(Message)
    BY <1>4, <2>1, TailFacts DEF Start
  <2>3. m.doc \in Docs /\ m.version \in Int /\ m.text \in Texts
    BY <2>2 DEF Message
  <2>4. store' \in [Docs -> Entries] /\ shown' \in [Docs -> Shown]
    <3>1. CASE Refresh(m.doc, m.version, m.text)
      BY <2>3, <3>1, RefreshKeepsTypes
    <3>2. CASE Forget(m.doc)
      <4>1. Absent \in Entries /\ Nothing \in Shown
        BY BoundsAssumption DEF Absent, Entries, Nothing, NoText, Texts
      <4>. QED  BY <3>2, <4>1 DEF Forget, TypeOK
    <3>. QED  BY <1>4, <3>1, <3>2 DEF Start
  <2>5. late' \subseteq Docs
    BY <1>4, <2>3 DEF Start, TypeOK
  <2>6. handlers' \in Seq(Handler) /\ Len(handlers') <= Concurrency
    <3> PICK h : h = [changed |-> m.doc, listed |-> FALSE, todo |-> {}]
      OBVIOUS
    <3>1. h \in Handler
      BY <2>3 DEF Handler
    <3>2. handlers' = Append(handlers, h) /\ Len(handlers) < Concurrency
      BY <1>4 DEF Start, MayStart
    <3>3. Append(handlers, h) \in Seq(Handler) /\ Len(Append(handlers, h)) = Len(handlers) + 1 /\ Len(handlers) \in Nat
      BY <2>1, <3>1, AppendFacts
    <3>. QED  BY <3>2, <3>3, BoundsAssumption
  <2>7. UNCHANGED <<disk, editor, acts>>
    BY <1>4 DEF Start
  <2>. QED  BY <2>2, <2>4, <2>5, <2>6, <2>7 DEF TypeOK, Message, Handler, Todo
<1>5. ASSUME NEW k \in DOMAIN handlers, Resume(k)  PROVE  TypeOK'
  <2>1. handlers \in Seq(Handler) /\ k \in 1 .. Len(handlers) /\ handlers[k] \in Handler /\ Len(handlers) \in Nat
    BY SequenceTypes
  <2> PICK h : h = handlers[k]
    OBVIOUS
  <2>2. UNCHANGED <<disk, editor, inbox, acts, late>>
    BY <1>5 DEF Resume
  <2>3. ASSUME NEW e \in Listed(h), Refresh(e.doc, e.version, e.text),
               handlers' = [handlers EXCEPT ![k] = [@ EXCEPT !.listed = TRUE, !.todo = StillToRefresh(h, e)]]
        PROVE  TypeOK'
    <3>1. Listed(h) \in SUBSET Todo
      BY <2>1, ListedTypes
    <3>2. e.doc \in Docs /\ e.version \in Int /\ e.text \in Texts
      BY <3>1 DEF Todo
    <3>3. store' \in [Docs -> Entries] /\ shown' \in [Docs -> Shown]
      BY <2>3, <3>2, RefreshKeepsTypes
    <3> PICK h2 : h2 = [handlers[k] EXCEPT !.listed = TRUE, !.todo = StillToRefresh(h, e)]
      OBVIOUS
    <3>4. StillToRefresh(h, e) \in SUBSET Todo
      BY <3>1 DEF StillToRefresh
    <3>5. h2 \in Handler
      BY <2>1, <3>4 DEF Handler
    <3>6. handlers' = [handlers EXCEPT ![k] = h2]
      BY <2>3
    <3>7. handlers' \in Seq(Handler) /\ Len(handlers') = Len(handlers)
      BY <2>1, <3>5, <3>6, ExceptSeq
    <3>. QED  BY <2>2, <3>3, <3>7 DEF TypeOK, Handler, Todo
  <2>4. ASSUME handlers' = RemoveAt(handlers, k), UNCHANGED <<store, shown>>
        PROVE  TypeOK'
    <3>1. handlers' \in Seq(Handler) /\ Len(handlers') = Len(handlers) - 1
      BY <2>1, <2>4, RemoveFacts
    <3>2. Len(handlers') <= Concurrency
      BY <2>1, <3>1, BoundsAssumption DEF TypeOK
    <3>. QED  BY <2>2, <2>4, <3>1, <3>2 DEF TypeOK, Handler, Todo
  <2>. QED  BY <1>5, <2>3, <2>4 DEF Resume
<1>6. ASSUME NEW c \in Docs, Lookup(c)  PROVE  TypeOK'
  <2>1. store' \in [Docs -> Entries]
    BY <1>6, LoadFacts DEF Lookup, TypeOK
  <2>. QED  BY <1>6, <2>1 DEF Lookup, TypeOK
<1>. QED  BY <1>1, <1>2, <1>3, <1>4, <1>5, <1>6 DEF Next, Editing, ResumeSome

\* Each step keeps the types.
THEOREM TypeCorrect == Spec => []TypeOK
<1>1. TypeOK /\ [Next]_vars => TypeOK'
  BY TypesKept
<1>. QED  BY <1>1, InitTypes, PTL DEF Spec

\* An editor's text is never replaced by an older one until the document is closed.
THEOREM NothingGoesBack == Spec => NeverGoesBack
<1>. DEFINE Newer == \A d \in Docs : IsOpen(store, d) /\ store'[d] # Absent => store'[d].version >= store[d].version
<1>1. TypeOK /\ [Next]_vars => [Newer]_vars
  <2> SUFFICES ASSUME TypeOK, Next  PROVE Newer
    OBVIOUS
  <2>1. ASSUME NEW x \in Docs, NEW v \in Int, NEW t \in Texts, Refresh(x, v, t)  PROVE  Newer
    <3>1. store' = Refreshed(store, x, v, t)
      BY <2>1, RefreshKeepsTypes
    <3>2. \A c \in Docs : IsOpen(store, c) => Refreshed(store, x, v, t)[c].version >= store[c].version
      BY RefreshTypes DEF TypeOK
    <3>. QED  BY <3>1, <3>2
  <2>2. ASSUME store' = store  PROVE Newer
    BY <2>2 DEF TypeOK, Entries
  <2>3. CASE Editing
    BY <2>2, <2>3 DEF Editing, Open, Change, Save, Close
  <2>4. CASE Start
    <3> PICK m : m = Head(inbox)
      OBVIOUS
    <3>1. m \in Message
      BY <2>4, TailFacts DEF Start, TypeOK, Message
    <3>2. m.doc \in Docs /\ m.version \in Int /\ m.text \in Texts
      BY <3>1 DEF Message
    <3>3. CASE Forget(m.doc)
      BY <3>2, <3>3 DEF Forget, TypeOK, Entries
    <3>. QED  BY <2>1, <2>4, <3>2, <3>3 DEF Start
  <2>5. ASSUME NEW k \in DOMAIN handlers, Resume(k)  PROVE  Newer
    <3>1. handlers[k] \in Handler
      BY SequenceTypes
    <3>2. Listed(handlers[k]) \in SUBSET Todo
      BY <3>1, ListedTypes
    <3>3. ASSUME NEW e \in Listed(handlers[k]), Refresh(e.doc, e.version, e.text)  PROVE  Newer
      <4>1. e.doc \in Docs /\ e.version \in Int /\ e.text \in Texts
        BY <3>2 DEF Todo
      <4>. QED  BY <2>1, <3>3, <4>1
    <3>. QED  BY <2>2, <2>5, <3>3 DEF Resume
  <2>6. ASSUME NEW c \in Docs, Lookup(c)  PROVE  Newer
    <3>1. store' = Load(store, c)
      BY <2>6 DEF Lookup
    <3>2. \A d \in Docs : IsOpen(store, d) => Load(store, c)[d] = store[d]
      <4>1. store \in [Docs -> Entries] /\ disk \in [Docs -> Texts]
        BY DEF TypeOK
      <4>2. /\ \A d \in Docs \ {c} : Load(store, c)[d] = store[d]
            /\ IsOpen(store, c) => Load(store, c)[c] = store[c]
        BY <4>1, LoadFacts
      <4>. QED  BY <4>2
    <3>. QED  BY <3>1, <3>2 DEF TypeOK, Entries
  <2>. QED  BY <2>3, <2>4, <2>5, <2>6 DEF Next, ResumeSome
<1>2. TypeOK /\ [Next]_vars => TypeOK'
  BY TypesKept
<1>. QED  BY <1>1, <1>2, InitTypes, PTL DEF Spec, NeverGoesBack

-----------------------------------------------------------------------------
(* The steps.                                                              *)

\* What is stored of an open document stays; what it imports is not forgotten, or
\* is going to be loaded again.
LEMMA KeptOnward ==
  ASSUME NEW s \in [Docs -> Entries], NEW s2 \in [Docs -> Entries], NEW d \in Docs, NEW ed \in Entry,
         NEW ib, NEW hs, NEW hs2,
         Orderly(d, ed, ib, s[d]), Behind(d, hs2, s[d]), Loaded(d, hs, s),
         IsOpen(s, d) => s2[d] = s[d],
         ~IsOpen(s, d) => ~IsOpen(s2, d),
         \A c \in Docs : IsOpen(s, d) /\ c \in s[d].text.imports /\ (s[c] # Absent \/ Reloads(d, c, hs, s[d])) =>
                           s2[c] # Absent \/ Reloads(d, c, hs2, s[d])
  PROVE  Orderly(d, ed, ib, s2[d]) /\ Behind(d, hs2, s2[d]) /\ Loaded(d, hs2, s2)
<1>1. CASE IsOpen(s, d)
  <2>1. s2[d] = s[d]
    BY <1>1
  <2>2. s[d].text.imports \subseteq Docs
    BY DEF Entries, Texts
  <2>3. Loaded(d, hs2, s2)
    BY <1>1, <2>1, <2>2 DEF Loaded
  <2>. QED  BY <2>1, <2>3
<1>2. CASE ~IsOpen(s, d)
  <2>1. ~IsOpen(s2, d)
    BY <1>2
  <2>2. Orderly(d, ed, ib, s2[d])
    BY <1>2, <2>1, OrderlyClosed DEF IsOpen
  <2>3. Behind(d, hs2, s2[d])
    BY <1>2 DEF Behind, IsOpen
  <2>4. Loaded(d, hs2, s2)
    BY <2>1 DEF Loaded
  <2>. QED  BY <2>2, <2>3, <2>4
<1>. QED  BY <1>1, <1>2

LEMMA EditKeeps ==
  ASSUME IInv, NEW x \in Docs, Open(x) \/ Change(x) \/ Close(x), NEW d \in Docs \ late
  PROVE  Kept(d, editor'[d], inbox', handlers, store, shown[d])
<1>1. Kept(d, editor[d], inbox, handlers, store, shown[d])
  BY DEF IInv
<1>2. inbox \in Seq(Message)
  BY SequenceTypes DEF IInv
<1>3. editor \in [Docs -> Entry] /\ editor[d] \in Entry /\ store[d] \in Entries
  BY DEF IInv, TypeOK, Entry
<1>4. /\ editor' \in [Docs -> Entry] /\ \A c \in Docs \ {x} : editor'[c] = editor[c]
      /\ editor'[x].open /\ editor[x].open => editor[x].version < editor'[x].version
  BY SendFacts DEF IInv
<1> PICK m \in Message : /\ inbox' = Append(inbox, m) /\ m.doc = x
                         /\ m.version = editor'[x].version /\ m.text = editor'[x].text
                         /\ m.kind = "close" <=> ~editor'[x].open
  BY SendFacts DEF IInv
<1>5. Orderly(d, editor[d], inbox, store[d])
  BY <1>1 DEF Kept
<1>6. Orderly(d, editor'[d], Append(inbox, m), store[d])
  <2>1. CASE d = x
    <3>1. editor'[d] \in Entry
      BY <1>4
    <3>2. /\ m.doc = d /\ m.version = editor'[d].version /\ m.text = editor'[d].text
          /\ m.kind = "close" <=> ~editor'[d].open
      BY <2>1
    <3>3. editor'[d].open /\ editor[d].open => editor[d].version < editor'[d].version
      BY <1>4, <2>1
    <3>. QED  BY <1>2, <1>3, <1>5, <3>1, <3>2, <3>3, OrderlySent
  <2>2. CASE d # x
    <3>1. editor'[d] = editor[d]
      BY <1>4, <2>2
    <3>2. Orderly(d, editor[d], Append(inbox, m), store[d])
      BY <1>2, <1>3, <1>5, <2>2, OrderlyOther
    <3>. QED  BY <3>1, <3>2
  <2>. QED  BY <2>1, <2>2
<1>7. inbox' = Append(inbox, m)
  OBVIOUS
<1>. QED  BY <1>1, <1>6, <1>7 DEF Kept

\* A new handler, which has nothing to refresh yet.
LEMMA StartedHandlers ==
  ASSUME TypeOK, NEW x \in Docs, NEW h \in Handler, h.changed = x, ~h.listed, h.todo = {}
  PROVE  /\ Filled(handlers) => Filled(Append(handlers, h))
         /\ \A d \in Docs, st \in Entries : Behind(d, handlers, st) => Behind(d, Append(handlers, h), st)
         /\ \A d \in Docs, c \in Docs, st \in Entries :
              Reloads(d, c, handlers, st) \/ c = x => Reloads(d, c, Append(handlers, h), st)
<1> PICK hs2, n : hs2 = Append(handlers, h) /\ n = Len(handlers)
  OBVIOUS
<1>1. /\ n \in Nat /\ DOMAIN handlers = 1 .. n /\ DOMAIN hs2 = 1 .. n + 1
      /\ (\A k \in 1 .. n : hs2[k] = handlers[k]) /\ hs2[n + 1] = h
  <2>1. handlers \in Seq(Handler) /\ DOMAIN handlers = 1 .. Len(handlers) /\ Len(handlers) \in Nat
    BY SequenceTypes
  <2>2. /\ Append(handlers, h) \in Seq(Handler) /\ Len(Append(handlers, h)) = Len(handlers) + 1
        /\ \A k \in 1 .. Len(handlers) : Append(handlers, h)[k] = handlers[k]
        /\ Append(handlers, h)[Len(handlers) + 1] = h
    BY <2>1, AppendFacts
  <2>3. DOMAIN Append(handlers, h) = 1 .. Len(Append(handlers, h))
    BY <2>2, LenProperties
  <2>. QED  BY <2>1, <2>2, <2>3
<1>2. \A k \in 1 .. n + 1 : k \in 1 .. n \/ k = n + 1
  BY <1>1
<1>3. \A k \in 1 .. n : k \in 1 .. n + 1
  BY <1>1
<1>4. n + 1 \in 1 .. n + 1
  BY <1>1
<1>5. Filled(handlers) => Filled(hs2)
  BY <1>1, <1>2 DEF Filled
<1>6. \A d \in Docs, st \in Entries : Behind(d, handlers, st) => Behind(d, hs2, st)
  BY <1>1, <1>2 DEF Behind
<1>7. \A d \in Docs, c \in Docs, st \in Entries : Reloads(d, c, handlers, st) \/ c = x => Reloads(d, c, hs2, st)
  BY <1>1, <1>3, <1>4 DEF Reloads
<1>. QED  BY <1>5, <1>6, <1>7

LEMMA StartKeeps ==
  ASSUME IInv, Start, NEW d \in Docs \ late'
  PROVE  Kept(d, editor'[d], inbox', handlers', store', shown'[d])
<1>1. TypeOK /\ TypeOK'
  BY TypesKept DEF IInv, Next
<1>2. d \in Docs /\ d \notin late
  BY DEF Start
<1>3. Kept(d, editor[d], inbox, handlers, store, shown[d])
  BY <1>2 DEF IInv
<1>4. inbox \in Seq(Message) /\ inbox # <<>>
  BY <1>1, SequenceTypes DEF Start
<1> PICK m : m = inbox[1]
  OBVIOUS
<1>5. m = Head(inbox) /\ m \in Message /\ inbox' = Tail(inbox)
  BY <1>4, TailFacts DEF Start
<1>6. m.doc \in Docs /\ m.version \in Int /\ m.version >= 0 /\ m.text \in Texts
  BY <1>5 DEF Message
<1>7. /\ editor[d] \in Entry /\ editor'[d] = editor[d] /\ disk \in [Docs -> Texts]
      /\ store \in [Docs -> Entries] /\ store' \in [Docs -> Entries] /\ store[d] \in Entries /\ store'[d] \in Entries
  BY <1>1 DEF Start, TypeOK, Entry
<1> PICK h : h = [changed |-> m.doc, listed |-> FALSE, todo |-> {}]
  OBVIOUS
<1>8. handlers' = Append(handlers, h)
  BY <1>5 DEF Start
<1>9. h \in Handler /\ h.changed = m.doc /\ ~h.listed /\ h.todo = {}
  BY <1>6 DEF Handler
<1>10. /\ \A st \in Entries : Behind(d, handlers, st) => Behind(d, handlers', st)
       /\ \A c \in Docs, st \in Entries : Reloads(d, c, handlers, st) \/ c = m.doc => Reloads(d, c, handlers', st)
  BY <1>1, <1>2, <1>6, <1>8, <1>9, StartedHandlers
<1>11. Orderly(d, editor[d], inbox, store[d]) /\ Behind(d, handlers, store[d]) /\ Loaded(d, handlers, store)
  BY <1>3 DEF Kept
<1>12. store[d].text \in Texts
  BY <1>7 DEF Entries
<1>13. CASE m.kind \in {"open", "change"} /\ Refresh(m.doc, m.version, m.text)
  <2>1. /\ store' = Refreshed(store, m.doc, m.version, m.text)
        /\ \A c \in Docs \ {m.doc} : shown'[c] = shown[c]
        /\ shown'[m.doc] = Shows(shown[m.doc], [version |-> m.version, texts |-> Read(m.doc, m.text, Sources(store))])
    BY <1>1, <1>6, <1>13, RefreshKeepsTypes
  <2>2. /\ store'[m.doc] = IF IsOpen(store, m.doc) /\ m.version < store[m.doc].version
                             THEN store[m.doc] ELSE [version |-> m.version, text |-> m.text]
        /\ IsOpen(store', m.doc)
        /\ \A c \in Docs \ {m.doc} : /\ IsOpen(store, c) => store'[c] = store[c]
                                     /\ ~IsOpen(store, c) => ~IsOpen(store', c)
        /\ \A c \in Docs : store[c] # Absent \/ c \in m.text.imports => store'[c] # Absent
    BY <1>6, <1>7, <2>1, RefreshFacts
  <2>3. CASE d = m.doc
    <3>1. store[d].version >= 0 => store[d].version < m.version
      <4>1. 1 \in 1 .. Len(inbox)
        BY <1>4, TailFacts
      <4>2. Stays(inbox, d, 1, 1)
        BY <1>13 DEF Stays, Closing
      <4>. QED  BY <1>11, <2>3, <4>1, <4>2 DEF Orderly
    <3>2. store'[d].version = m.version /\ store'[d].text = m.text
      <4>1. ~(IsOpen(store, d) /\ m.version < store[d].version)
        BY <1>6, <1>7, <3>1 DEF IsOpen, Entries
      <4>2. store'[d] = [version |-> m.version, text |-> m.text]
        BY <2>2, <2>3, <4>1
      <4>. QED  BY <4>2
    <3>3. Orderly(d, editor[d], Tail(inbox), store'[d])
      <4>1. inbox[1].doc = d /\ inbox[1].kind # "close"
        BY <1>13, <2>3
      <4>2. store'[d].version = inbox[1].version /\ store'[d].text = inbox[1].text
        BY <3>2
      <4>. QED  BY <1>2, <1>4, <1>7, <1>11, <4>1, <4>2, OrderlyHandled
    <3>4. Behind(d, handlers, store'[d])
      <4>1. ASSUME NEW k \in DOMAIN handlers, NEW e \in handlers[k].todo, e.doc = d
            PROVE  e.version \in Int /\ e.version < m.version
        <5>1. e.version \in Int
          BY <1>1, SequenceTypes DEF Handler, Todo
        <5>2. store[d].version >= 0 /\ e.version <= store[d].version
          BY <1>11, <4>1 DEF Behind
        <5>. QED  BY <1>6, <1>7, <3>1, <5>1, <5>2 DEF Entries
      <4>. QED  BY <1>6, <3>2, <4>1 DEF Behind
    <3>5. Behind(d, handlers', store'[d])
      BY <1>7, <1>10, <3>4
    <3>6. Loaded(d, handlers', store')
      <4>1. m.text.imports \subseteq Docs
        BY <1>6 DEF Texts
      <4>. QED  BY <2>2, <3>2, <4>1 DEF Loaded
    <3>7. shown'[d].version = m.version
      <4>1. shown[d].version \in Int /\ shown[d].version < m.version
        <5>1. CASE IsOpen(store, d)
          BY <1>3, <1>7, <3>1, <5>1 DEF Kept, IsOpen, Entries
        <5>2. CASE ~IsOpen(store, d)
          BY <1>3, <1>6, <5>2 DEF Kept, Nothing
        <5>. QED  BY <5>1, <5>2
      <4>2. shown'[d] = Shows(shown[d], [version |-> m.version, texts |-> Read(d, m.text, Sources(store))])
        BY <2>1, <2>3
      <4>. QED  BY <1>6, <4>1, <4>2 DEF Shows
    <3>. QED  BY <1>5, <1>7, <2>2, <2>3, <3>2, <3>3, <3>5, <3>6, <3>7 DEF Kept
  <2>4. CASE d # m.doc
    <3>1. Orderly(d, editor[d], Tail(inbox), store[d])
      <4>1. inbox[1].doc # d /\ store[d] = store[d]
        BY <2>4
      <4>. QED  BY <1>2, <1>4, <1>7, <1>11, <4>1, OrderlyHandled
    <3>2. Behind(d, handlers', store[d])
      BY <1>7, <1>10, <1>11
    <3>3. /\ IsOpen(store, d) => store'[d] = store[d]
          /\ ~IsOpen(store, d) => ~IsOpen(store', d)
      BY <1>2, <2>2, <2>4
    <3>4. \A c \in Docs : IsOpen(store, d) /\ c \in store[d].text.imports
                             /\ (store[c] # Absent \/ Reloads(d, c, handlers, store[d])) =>
                           store'[c] # Absent \/ Reloads(d, c, handlers', store[d])
      BY <1>2, <1>7, <1>10, <2>2
    <3>5. Orderly(d, editor[d], Tail(inbox), store'[d]) /\ Behind(d, handlers', store'[d]) /\ Loaded(d, handlers', store')
      <4>1. /\ store \in [Docs -> Entries] /\ store' \in [Docs -> Entries] /\ editor[d] \in Entry
            /\ Loaded(d, handlers, store)
        BY <1>7, <1>11
      <4>. QED  BY ONLY <1>2, <3>1, <3>2, <3>3, <3>4, <4>1, KeptOnward
    <3>6. /\ ~IsOpen(store', d) => shown'[d] = Nothing
          /\ IsOpen(store', d) => shown'[d].version = store'[d].version
      BY <1>2, <1>3, <2>1, <2>4, <3>3 DEF Kept, IsOpen
    <3>. QED  BY <1>5, <1>7, <3>5, <3>6 DEF Kept
  <2>. QED  BY <2>3, <2>4
<1>14. CASE m.kind = "close" /\ Forget(m.doc)
  <2>1. /\ store' = [store EXCEPT ![m.doc] = Absent] /\ shown' = [shown EXCEPT ![m.doc] = Nothing]
        /\ late' = IF m.doc \in PendingRefreshes THEN late \cup {m.doc} ELSE late
    BY <1>5, <1>14 DEF Start, Forget
  <2>2. Absent.version = -2
    BY DEF Absent
  <2>3. CASE d = m.doc
    <3>1. store'[d] = Absent /\ shown'[d] = Nothing
      BY <1>1, <1>7, <2>1, <2>3 DEF TypeOK
    <3>2. Orderly(d, editor[d], Tail(inbox), store'[d])
      <4>1. inbox[1].doc = d /\ inbox[1].kind = "close" /\ store'[d].version < 0
        BY <1>14, <2>2, <2>3, <3>1
      <4>. QED  BY <1>2, <1>4, <1>7, <1>11, <4>1, OrderlyHandled
    <3>3. Behind(d, handlers, store'[d])
      <4>1. d \notin PendingRefreshes
        BY <2>1, <2>3
      <4>. QED  BY <4>1 DEF PendingRefreshes, Behind
    <3>4. Behind(d, handlers', store'[d])
      BY <1>7, <1>10, <3>3
    <3>5. Loaded(d, handlers', store')
      BY <2>2, <3>1 DEF Loaded, IsOpen
    <3>. QED  BY <1>5, <1>7, <2>2, <3>1, <3>2, <3>4, <3>5 DEF Kept, IsOpen
  <2>4. CASE d # m.doc
    <3>1. store'[d] = store[d] /\ shown'[d] = shown[d] /\ \A c \in Docs \ {m.doc} : store'[c] = store[c]
      BY <1>1, <1>2, <2>1, <2>4 DEF TypeOK
    <3>2. Orderly(d, editor[d], Tail(inbox), store'[d])
      <4>1. inbox[1].doc # d /\ store'[d] = store[d]
        BY <2>4, <3>1
      <4>. QED  BY <1>2, <1>4, <1>7, <1>11, <4>1, OrderlyHandled
    <3>3. Behind(d, handlers', store'[d])
      BY <1>7, <1>10, <1>11, <3>1
    <3>4. Loaded(d, handlers', store')
      <4>1. ASSUME IsOpen(store, d), NEW c \in store[d].text.imports
            PROVE  store'[c] # Absent \/ Reloads(d, c, handlers', store[d])
        <5>1. c \in Docs
          BY <1>12 DEF Texts
        <5>2. store[c] # Absent \/ Reloads(d, c, handlers, store[d])
          BY <1>11, <4>1 DEF Loaded
        <5>. QED  BY <1>2, <1>7, <1>10, <3>1, <5>1, <5>2
      <4>. QED  BY <3>1, <4>1 DEF Loaded, IsOpen
    <3>5. /\ ~IsOpen(store', d) => shown'[d] = Nothing
          /\ IsOpen(store', d) => shown'[d].version = store'[d].version
      BY <1>3, <3>1 DEF Kept, IsOpen
    <3>. QED  BY <1>5, <1>7, <3>2, <3>3, <3>4, <3>5 DEF Kept
  <2>. QED  BY <2>3, <2>4
<1>. QED  BY <1>5, <1>13, <1>14 DEF Start

\* What a handler has to refresh, whether it has made its list or is about to.
LEMMA ListedFacts ==
  ASSUME IInv, NEW k \in DOMAIN handlers
  PROVE  /\ Listed(handlers[k]) \in SUBSET Todo
         /\ \A e \in Listed(handlers[k]) : e.version >= 0
         /\ \A e \in Listed(handlers[k]) : e.doc \notin late =>
              /\ store[e.doc].version >= 0 /\ e.version <= store[e.doc].version
              /\ e.version = store[e.doc].version => e.text = store[e.doc].text
<1>1. handlers[k] \in Handler
  BY SequenceTypes DEF IInv
<1>2. Listed(handlers[k]) \in SUBSET Todo
  BY <1>1, ListedTypes DEF IInv
<1>3. CASE handlers[k].listed
  <2>1. Listed(handlers[k]) = handlers[k].todo
    BY <1>3 DEF Listed
  <2>2. \A e \in handlers[k].todo : e.version >= 0
    BY DEF IInv, Filled
  <2>3. ASSUME NEW e \in handlers[k].todo, e.doc \notin late
        PROVE  /\ store[e.doc].version >= 0 /\ e.version <= store[e.doc].version
               /\ e.version = store[e.doc].version => e.text = store[e.doc].text
    <3>1. e.doc \in Docs
      BY <1>2, <2>1 DEF Todo
    <3>2. Behind(e.doc, handlers, store[e.doc])
      BY <2>3, <3>1 DEF IInv, Kept
    <3>. QED  BY <3>2 DEF Behind
  <2>. QED  BY <1>2, <2>1, <2>2, <2>3
<1>4. CASE ~handlers[k].listed
  <2>1. Listed(handlers[k]) = {[doc |-> c, version |-> store[c].version, text |-> store[c].text] :
                                 c \in Dependents(store, handlers[k].changed)}
    BY <1>4 DEF Listed
  <2>2. ASSUME NEW c \in Dependents(store, handlers[k].changed)
        PROVE  c \in Docs /\ store[c].version >= 0 /\ store[c].version \in Int
    BY DEF Dependents, Affected, Common, IsOpen, IInv, TypeOK, Entries
  <2>. QED  BY <1>2, <2>1, <2>2
<1>. QED  BY <1>3, <1>4

\* A handler that loads an import again does so when it refreshes the document.
LEMMA ListedReloads ==
  ASSUME IInv, NEW k \in DOMAIN handlers, NEW d \in Docs, NEW c \in Docs, IsOpen(store, d),
         c \in store[d].text.imports, store[c] = Absent,
         (~handlers[k].listed /\ handlers[k].changed = c) \/ InTurn(d, handlers[k], store[d])
  PROVE  \E e \in Listed(handlers[k]) : e.doc = d /\ e.version = store[d].version /\ e.text = store[d].text
<1>1. CASE handlers[k].listed
  BY <1>1 DEF Listed, InTurn
<1>2. CASE ~handlers[k].listed
  <2>1. ~IsOpen(store, c)
    BY DEF IsOpen, Absent
  <2>2. d # c
    BY <2>1
  <2>3. d \in Dependents(store, handlers[k].changed)
    BY <1>2, <2>2, ImportersDepend DEF InTurn
  <2>4. Listed(handlers[k]) = {[doc |-> x, version |-> store[x].version, text |-> store[x].text] :
                                 x \in Dependents(store, handlers[k].changed)}
    BY <1>2 DEF Listed
  <2>5. [doc |-> d, version |-> store[d].version, text |-> store[d].text] \in Listed(handlers[k])
    BY <2>3, <2>4
  <2>. QED  BY <2>5
<1>. QED  BY <1>1, <1>2

\* A handler refreshes the next of the documents.
LEMMA RefreshKeeps ==
  ASSUME IInv, NEW k \in DOMAIN handlers, NEW e \in Listed(handlers[k]),
         Refresh(e.doc, e.version, e.text),
         handlers' = [handlers EXCEPT ![k] =
                       [@ EXCEPT !.listed = TRUE, !.todo = StillToRefresh(handlers[k], e)]],
         UNCHANGED <<disk, editor, inbox, acts, late>>, TypeOK'
  PROVE  Filled(handlers') /\ \A d \in Docs \ late : Kept(d, editor[d], inbox, handlers', store', shown'[d])
<1>1. /\ Listed(handlers[k]) \in SUBSET Todo /\ \A f \in Listed(handlers[k]) : f.version >= 0
      /\ \A f \in Listed(handlers[k]) : f.doc \notin late =>
           /\ store[f.doc].version >= 0 /\ f.version <= store[f.doc].version
           /\ f.version = store[f.doc].version => f.text = store[f.doc].text
  BY ListedFacts
<1>2. e.doc \in Docs /\ e.version \in Int /\ e.version >= 0 /\ e.text \in Texts
  BY <1>1 DEF Todo
<1>3. TypeOK /\ disk \in [Docs -> Texts] /\ store \in [Docs -> Entries] /\ store' \in [Docs -> Entries]
  BY DEF IInv, TypeOK
<1>4. /\ store' = Refreshed(store, e.doc, e.version, e.text)
      /\ \A c \in Docs \ {e.doc} : shown'[c] = shown[c]
      /\ shown'[e.doc] = Shows(shown[e.doc], [version |-> e.version, texts |-> Read(e.doc, e.text, Sources(store))])
  BY <1>2, <1>3, RefreshKeepsTypes
<1>5. /\ store'[e.doc] = IF IsOpen(store, e.doc) /\ e.version < store[e.doc].version
                           THEN store[e.doc] ELSE [version |-> e.version, text |-> e.text]
      /\ IsOpen(store', e.doc)
      /\ \A c \in Docs \ {e.doc} : /\ IsOpen(store, c) => store'[c] = store[c]
                                   /\ ~IsOpen(store, c) => ~IsOpen(store', c)
      /\ \A c \in Docs : store[c] # Absent \/ c \in e.text.imports => store'[c] # Absent
  BY <1>2, <1>3, <1>4, RefreshFacts
<1> PICK T : T = StillToRefresh(handlers[k], e)
  OBVIOUS
<1>6. T = Listed(handlers[k]) \ {e}
  BY DEF StillToRefresh
<1>7. DOMAIN handlers' = DOMAIN handlers /\ \A j \in DOMAIN handlers \ {k} : handlers'[j] = handlers[j]
  OBVIOUS
<1>8. handlers'[k].listed = TRUE /\ handlers'[k].todo = T /\ k \in DOMAIN handlers'
  <2>1. handlers[k] \in Handler
    BY <1>3, SequenceTypes
  <2>2. handlers'[k] = [handlers[k] EXCEPT !.listed = TRUE, !.todo = T]
    OBVIOUS
  <2>. QED  BY <1>7, <2>1, <2>2 DEF Handler
<1>9. Filled(handlers')
  <2>1. Filled(handlers)
    BY DEF IInv
  <2>2. \A j \in DOMAIN handlers' : j = k \/ j \in DOMAIN handlers \ {k}
    BY <1>7
  <2>. QED  BY <1>1, <1>6, <1>7, <1>8, <2>1, <2>2 DEF Filled
<1>10. ASSUME NEW d \in Docs \ late
       PROVE  Kept(d, editor[d], inbox, handlers', store', shown'[d])
  <2>1. Kept(d, editor[d], inbox, handlers, store, shown[d])
    BY DEF IInv
  <2>2. Orderly(d, editor[d], inbox, store[d]) /\ Behind(d, handlers, store[d]) /\ Loaded(d, handlers, store)
    BY <2>1 DEF Kept
  <2>3. editor[d] \in Entry /\ store[d] \in Entries /\ store[d].text \in Texts /\ store[d].version \in Int
    BY <1>3 DEF TypeOK, Entry, Entries
  <2>4. d = e.doc => IsOpen(store, d) /\ store'[d] = store[d]
    <3>1. SUFFICES ASSUME d = e.doc  PROVE  IsOpen(store, d) /\ store'[d] = store[d]
      OBVIOUS
    <3>2. /\ store[d].version >= 0 /\ e.version <= store[d].version
          /\ e.version = store[d].version => e.text = store[d].text
      BY <1>1, <3>1
    <3>3. e.version = store[d].version => [version |-> e.version, text |-> e.text] = store[d]
      BY <2>3, <3>2 DEF Entries
    <3>. QED  BY <1>2, <1>5, <2>3, <3>1, <3>2, <3>3 DEF IsOpen
  <2>5. /\ IsOpen(store, d) => store'[d] = store[d]
        /\ ~IsOpen(store, d) => ~IsOpen(store', d)
    BY <1>5, <2>4
  <2>6. Behind(d, handlers', store[d])
    <3>1. ASSUME NEW j \in DOMAIN handlers', NEW f \in handlers'[j].todo, f.doc = d
          PROVE  /\ store[d].version >= 0 /\ f.version <= store[d].version
                 /\ f.version = store[d].version => f.text = store[d].text
      <4>1. CASE j = k
        BY <1>1, <1>6, <1>8, <3>1, <4>1
      <4>2. CASE j # k
        BY <1>7, <2>2, <3>1, <4>2 DEF Behind
      <4>. QED  BY <4>1, <4>2
    <3>. QED  BY <3>1 DEF Behind
  <2>7. ASSUME NEW c \in Docs, IsOpen(store, d), c \in store[d].text.imports,
               store[c] # Absent \/ Reloads(d, c, handlers, store[d])
        PROVE  store'[c] # Absent \/ Reloads(d, c, handlers', store[d])
    <3>1. CASE store[c] # Absent
      BY <1>5, <3>1
    <3>2. CASE store[c] = Absent
      <4> PICK j \in DOMAIN handlers :
            (~handlers[j].listed /\ handlers[j].changed = c) \/ InTurn(d, handlers[j], store[d])
        BY <2>7, <3>2 DEF Reloads
      <4>1. CASE j # k
        BY <1>7, <4>1 DEF Reloads
      <4>2. CASE j = k
        <5> PICK f \in Listed(handlers[k]) :
              f.doc = d /\ f.version = store[d].version /\ f.text = store[d].text
          BY <2>7, <3>2, <4>2, ListedReloads
        <5>1. CASE f = e
          BY <1>5, <2>7, <5>1
        <5>2. CASE f # e
          BY <1>6, <1>8, <5>2 DEF Reloads, InTurn
        <5>. QED  BY <5>1, <5>2
      <4>. QED  BY <4>1, <4>2
    <3>. QED  BY <3>1, <3>2
  <2>8. Orderly(d, editor[d], inbox, store'[d]) /\ Behind(d, handlers', store'[d]) /\ Loaded(d, handlers', store')
    <3>1. d \in Docs
      OBVIOUS
    <3>. QED  BY ONLY <1>3, <2>2, <2>3, <2>5, <2>6, <2>7, <3>1, KeptOnward
  <2>9. /\ ~IsOpen(store', d) => shown'[d] = Nothing
        /\ IsOpen(store', d) => shown'[d].version = store'[d].version
    <3>1. CASE d = e.doc
      <4>1. shown[d].version = store[d].version /\ store'[d] = store[d] /\ e.version <= store[d].version
        BY <1>1, <2>1, <2>4, <3>1 DEF Kept
      <4>2. shown'[d] = Shows(shown[d], [version |-> e.version, texts |-> Read(e.doc, e.text, Sources(store))])
        BY <1>4, <3>1
      <4>3. shown'[d].version = store[d].version
        BY <1>2, <2>3, <4>1, <4>2 DEF Shows
      <4>. QED  BY <1>5, <3>1, <4>1, <4>3
    <3>2. CASE d # e.doc
      BY <1>4, <2>1, <2>5, <3>2 DEF Kept, IsOpen
    <3>. QED  BY <3>1, <3>2
  <2>. QED  BY <2>8, <2>9 DEF Kept
<1>. QED  BY <1>9, <1>10

\* A handler ends, when it has nothing left to refresh.
LEMMA EndKeeps ==
  ASSUME IInv, NEW k \in DOMAIN handlers, Listed(handlers[k]) = {}, handlers' = RemoveAt(handlers, k)
  PROVE  /\ Filled(handlers')
         /\ \A d \in Docs \ late : Kept(d, editor[d], inbox, handlers', store, shown[d])
<1> PICK n : n = Len(handlers)
  OBVIOUS
<1>1. handlers \in Seq(Handler) /\ DOMAIN handlers = 1 .. n /\ n \in Nat /\ k \in 1 .. n
  BY SequenceTypes DEF IInv
<1>2. /\ handlers' \in Seq(Handler) /\ Len(handlers') = n - 1
      /\ \A i \in 1 .. n - 1 : handlers'[i] = IF i < k THEN handlers[i] ELSE handlers[i + 1]
  BY <1>1, RemoveFacts
<1>3. DOMAIN handlers' = 1 .. n - 1
  BY <1>2, LenProperties
<1>4. \A i \in DOMAIN handlers' : \E j \in DOMAIN handlers : handlers'[i] = handlers[j]
  <2>1. \A i \in 1 .. n - 1 : i \in 1 .. n /\ i + 1 \in 1 .. n
    BY <1>1
  <2>. QED  BY <1>1, <1>2, <1>3, <2>1
<1>5. \A j \in DOMAIN handlers \ {k} : \E i \in DOMAIN handlers' : handlers'[i] = handlers[j]
  <2> SUFFICES ASSUME NEW j \in 1 .. n, j # k  PROVE \E i \in 1 .. n - 1 : handlers'[i] = handlers[j]
    BY <1>1, <1>3
  <2>1. CASE j < k
    <3>1. j \in 1 .. n - 1
      BY <1>1, <2>1
    <3>. QED  BY <1>2, <2>1, <3>1
  <2>2. CASE ~(j < k)
    <3>1. j - 1 \in 1 .. n - 1 /\ ~(j - 1 < k) /\ (j - 1) + 1 = j
      BY <1>1, <2>2
    <3>. QED  BY <1>2, <3>1
  <2>. QED  BY <2>1, <2>2
<1>6. Filled(handlers')
  <2>1. Filled(handlers)
    BY DEF IInv
  <2>. QED  BY <1>4, <2>1 DEF Filled
<1>7. ASSUME NEW d \in Docs \ late
      PROVE  Kept(d, editor[d], inbox, handlers', store, shown[d])
  <2>1. Kept(d, editor[d], inbox, handlers, store, shown[d])
    BY DEF IInv
  <2>2. Behind(d, handlers', store[d])
    <3>1. Behind(d, handlers, store[d])
      BY <2>1 DEF Kept
    <3>. QED  BY <1>4, <3>1 DEF Behind
  <2>3. ASSUME IsOpen(store, d), NEW c \in store[d].text.imports, store[c] = Absent
        PROVE  Reloads(d, c, handlers', store[d])
    <3>1. Reloads(d, c, handlers, store[d])
      BY <2>1, <2>3 DEF Kept, Loaded
    <3>2. c \in Docs
      BY <2>3 DEF IInv, TypeOK, Entries, Texts
    <3> PICK j \in DOMAIN handlers :
          (~handlers[j].listed /\ handlers[j].changed = c) \/ InTurn(d, handlers[j], store[d])
      BY <3>1 DEF Reloads
    <3>3. j # k
      <4>1. j = k => \E e \in Listed(handlers[k]) :
                       e.doc = d /\ e.version = store[d].version /\ e.text = store[d].text
        BY <2>3, <3>2, ListedReloads
      <4>. QED  BY <4>1
    <3>4. PICK i \in DOMAIN handlers' : handlers'[i] = handlers[j]
      BY <1>5, <3>3
    <3>. QED  BY <3>4 DEF Reloads
  <2>4. Loaded(d, handlers', store)
    BY <2>3 DEF Loaded
  <2>. QED  BY <2>1, <2>2, <2>4 DEF Kept
<1>. QED  BY <1>6, <1>7

LEMMA LookupKeeps ==
  ASSUME IInv, NEW x \in Docs, Lookup(x), NEW d \in Docs \ late
  PROVE  Kept(d, editor[d], inbox, handlers, store', shown[d])
<1>1. /\ disk \in [Docs -> Texts] /\ store \in [Docs -> Entries] /\ editor[d] \in Entry
      /\ d \in Docs
  BY DEF IInv, TypeOK, Entry
<1>2. store' = Load(store, x)
  BY DEF Lookup
<1>3. /\ store' \in [Docs -> Entries]
      /\ \A c \in Docs \ {x} : store'[c] = store[c]
      /\ IsOpen(store, x) => store'[x] = store[x]
      /\ ~IsOpen(store, x) => store'[x] = [version |-> Background, text |-> disk[x]]
      /\ store'[x] # Absent
  BY <1>1, <1>2, LoadFacts
<1>4. /\ Orderly(d, editor[d], inbox, store[d]) /\ Behind(d, handlers, store[d])
      /\ Loaded(d, handlers, store) /\ (~IsOpen(store, d) => shown[d] = Nothing)
      /\ IsOpen(store, d) => shown[d].version = store[d].version
  BY DEF IInv, Kept
<1>5. /\ IsOpen(store, d) => store'[d] = store[d]
      /\ ~IsOpen(store, d) => ~IsOpen(store', d)
  <2>1. [version |-> Background, text |-> disk[x]].version = -1
    BY DEF Background
  <2>. QED  BY <1>3, <2>1 DEF IsOpen
<1>6. \A c \in Docs : IsOpen(store, d) /\ c \in store[d].text.imports
                         /\ (store[c] # Absent \/ Reloads(d, c, handlers, store[d])) =>
                       store'[c] # Absent \/ Reloads(d, c, handlers, store[d])
  BY <1>3
<1>7. Orderly(d, editor[d], inbox, store'[d]) /\ Behind(d, handlers, store'[d]) /\ Loaded(d, handlers, store')
  BY ONLY <1>1, <1>3, <1>4, <1>5, <1>6, KeptOnward
<1>. QED  BY <1>4, <1>5, <1>7 DEF Kept, IsOpen

LEMMA InitIInv == Init => IInv
<1> SUFFICES ASSUME Init  PROVE IInv
  OBVIOUS
<1>1. TypeOK
  BY InitTypes
<1>2. inbox = <<>> /\ handlers = <<>> /\ Len(inbox) = 0 /\ DOMAIN handlers = {}
  BY DEF Init
<1>3. ASSUME NEW d \in Docs \ late
      PROVE  Kept(d, editor[d], inbox, handlers, store, shown[d])
  <2>1. ~editor[d].open /\ store[d].version = -2 /\ shown[d] = Nothing
    BY DEF Init, Absent
  <2>2. Orderly(d, editor[d], inbox, store[d])
    BY <1>2, <2>1 DEF Orderly
  <2>3. Behind(d, handlers, store[d]) /\ Loaded(d, handlers, store)
    BY <1>2, <2>1 DEF Behind, Loaded, IsOpen
  <2>. QED  BY <2>1, <2>2, <2>3 DEF Kept, IsOpen
<1>. QED  BY <1>1, <1>2, <1>3 DEF IInv, Filled

LEMMA IInvKept == IInv /\ [Next]_vars => IInv'
<1> SUFFICES ASSUME IInv, [Next]_vars  PROVE IInv'
  OBVIOUS
<1>1. TypeOK'
  BY TypesKept DEF IInv
<1>2. CASE UNCHANGED vars
  BY <1>2 DEF IInv, TypeOK, vars, Filled, Kept, Loaded, Behind, Reloads, InTurn, IsOpen
<1>3. ASSUME NEW x \in Docs, Open(x) \/ Change(x) \/ Close(x)  PROVE IInv'
  <2>1. UNCHANGED <<store, handlers, shown, late>>
    BY <1>3 DEF Open, Change, Close
  <2>2. \A d \in Docs \ late : Kept(d, editor'[d], inbox', handlers, store, shown[d])
    BY <1>3, EditKeeps
  <2>. QED  BY <1>1, <2>1, <2>2 DEF IInv
<1>4. ASSUME NEW x \in Docs, Save(x)  PROVE IInv'
  <2>1. UNCHANGED <<editor, inbox, store, handlers, shown, late>>
    BY <1>4 DEF Save
  <2>. QED  BY <1>1, <2>1 DEF IInv
<1>5. CASE Start
  <2>1. \A d \in Docs \ late' : Kept(d, editor'[d], inbox', handlers', store', shown'[d])
    BY <1>5, StartKeeps
  <2>2. Filled(handlers')
    <3> PICK h : h = [changed |-> Head(inbox).doc, listed |-> FALSE, todo |-> {}]
      OBVIOUS
    <3>1. handlers' = Append(handlers, h)
      BY <1>5 DEF Start
    <3>2. Head(inbox) \in Message
      BY <1>5, SequenceTypes, TailFacts DEF Start, IInv
    <3>3. h \in Handler /\ Head(inbox).doc \in Docs /\ h.changed = Head(inbox).doc /\ ~h.listed /\ h.todo = {}
      BY <3>2 DEF Handler, Message
    <3>4. Filled(handlers) => Filled(Append(handlers, h))
      BY <3>3, StartedHandlers DEF IInv
    <3>. QED  BY <3>1, <3>4 DEF IInv
  <2>. QED  BY <1>1, <2>1, <2>2 DEF IInv
<1>6. ASSUME NEW k \in DOMAIN handlers, Resume(k)  PROVE IInv'
  <2>1. UNCHANGED <<disk, editor, inbox, acts, late>>
    BY <1>6 DEF Resume
  <2>2. ASSUME NEW e \in Listed(handlers[k]), Refresh(e.doc, e.version, e.text),
               handlers' = [handlers EXCEPT ![k] =
                             [@ EXCEPT !.listed = TRUE, !.todo = StillToRefresh(handlers[k], e)]]
        PROVE  IInv'
    <3>1. Filled(handlers') /\ \A d \in Docs \ late : Kept(d, editor[d], inbox, handlers', store', shown'[d])
      BY <1>1, <2>1, <2>2, RefreshKeeps
    <3>. QED  BY <1>1, <2>1, <3>1 DEF IInv
  <2>3. ASSUME Listed(handlers[k]) = {}, handlers' = RemoveAt(handlers, k), UNCHANGED <<store, shown>>
        PROVE  IInv'
    <3>1. Filled(handlers') /\ \A d \in Docs \ late : Kept(d, editor[d], inbox, handlers', store, shown[d])
      BY <2>3, EndKeeps
    <3>. QED  BY <1>1, <2>1, <2>3, <3>1 DEF IInv
  <2>. QED  BY <1>6, <2>2, <2>3 DEF Resume
<1>7. ASSUME NEW x \in Docs, Lookup(x)  PROVE IInv'
  <2>1. UNCHANGED <<disk, editor, inbox, acts, handlers, shown, late>>
    BY <1>7 DEF Lookup
  <2>2. \A d \in Docs \ late : Kept(d, editor[d], inbox, handlers, store', shown[d])
    BY <1>7, LookupKeeps
  <2>. QED  BY <1>1, <2>1, <2>2 DEF IInv
<1>. QED  BY <1>2, <1>3, <1>4, <1>5, <1>6, <1>7 DEF Next, Editing, ResumeSome

-----------------------------------------------------------------------------
(* What is read again.                                                     *)

\* What is stored of c is as it was, or is read again where no editor manages it.
Reread(c, s, s2, dk) ==
  s2[c] = s[c] \/ (~IsOpen(s, c) /\ s2[c] = [version |-> Background, text |-> dk[c]])

LEMMA RereadFacts ==
  ASSUME NEW s \in [Docs -> Entries], NEW s2 \in [Docs -> Entries], NEW dk \in [Docs -> Texts],
         NEW c \in Docs, Reread(c, s, s2, dk)
  PROVE  /\ IsOpen(s2, c) <=> IsOpen(s, c)
         /\ IsOpen(s, c) => s2[c] = s[c]
         /\ ReadIn(s2, dk)[c] = ReadIn(s, dk)[c]
         /\ \A ed, ib : Known(c, ed, ib, s[c], dk[c]) => Known(c, ed, ib, s2[c], dk[c])
         /\ \A ed, ib : Known(c, ed, ib, s[c], dk[c]) /\ ~Told(c, ib) =>
              s[c].text.imports \subseteq s2[c].text.imports
<1> PICK b : b = [version |-> Background, text |-> dk[c]]
  OBVIOUS
<1>1. b.version = -1 /\ b.text = dk[c]
  BY DEF Background
<1>2. CASE s2[c] = s[c]
  BY <1>2 DEF IsOpen, ReadIn
<1>3. CASE ~IsOpen(s, c) /\ s2[c] = b
  <2>1. ~IsOpen(s2, c)
    BY <1>1, <1>3 DEF IsOpen
  <2>2. ReadIn(s2, dk)[c] = dk[c] /\ ReadIn(s, dk)[c] = dk[c]
    BY <1>3, <2>1 DEF ReadIn
  <2>3. ASSUME NEW ed, NEW ib, Known(c, ed, ib, s[c], dk[c])
        PROVE  Known(c, ed, ib, s2[c], dk[c])
    BY <1>1, <1>3, <2>3 DEF Known, IsOpen
  <2>4. ASSUME NEW ed, NEW ib, Known(c, ed, ib, s[c], dk[c]), ~Told(c, ib)
        PROVE  s[c].text.imports \subseteq s2[c].text.imports
    <3>1. s[c] = Absent \/ s[c].text = dk[c]
      BY <1>3, <2>4 DEF Known, IsOpen
    <3>2. Absent.text.imports = {}
      BY DEF Absent, NoText
    <3>. QED  BY <1>1, <1>3, <3>1, <3>2
  <2>. QED  BY <1>3, <2>1, <2>2, <2>3, <2>4
<1>. QED  BY <1>2, <1>3 DEF Reread

\* A step that leaves the files alone, and what is stored of d and shown of it.
LEMMA StepOnward ==
  ASSUME NEW d \in Docs, NEW s \in [Docs -> Entries], NEW s2 \in [Docs -> Entries],
         NEW dk \in [Docs -> Texts], NEW ed, NEW ed2, NEW ib, NEW ib2, NEW hs, NEW hs2, NEW sh,
         NEW L \in SUBSET Docs, NEW L2 \in SUBSET Docs,
         L \subseteq L2, UpToDate(d, s, dk, ib, hs, sh, L), IsOpen(s, d), s2[d] = s[d],
         (\E k \in DOMAIN hs : InTurn(d, hs[k], s[d])) => \E k \in DOMAIN hs2 : InTurn(d, hs2[k], s[d]),
         \A x \in Docs : Spreads(d, x, ib, hs) =>
           \/ Spreads(d, x, ib2, hs2)
           \/ ~Told(x, ib) /\ (d \in Affected(s, x) => \E k \in DOMAIN hs2 : InTurn(d, hs2[k], s[d])),
         \A c \in Docs : \/ Spreads(d, c, ib2, hs2)
                         \/ c \in L
                         \/ c \notin L2 /\ Reread(c, s, s2, dk),
         d \notin L2 => Loaded(d, hs2, s2),
         \A c \in Docs : Known(c, ed[c], ib, s[c], dk[c]),
         \A c \in Docs : Known(c, ed2[c], ib2, s2[c], dk[c])
  PROVE  UpToDate(d, s2, dk, ib2, hs2, sh, L2)
<1>1. ASSUME NEW x \in Docs, Spreads(d, x, ib, hs), d \in Affected(Without(s, L), x)
      PROVE  Spreads(d, x, ib2, hs2) \/ \E k \in DOMAIN hs2 : InTurn(d, hs2[k], s2[d])
  <2>1. \A c, y \in Docs : y \in Without(s, L)[c].text.imports => y \in s[c].text.imports
    BY DEF Without, Absent, NoText
  <2>2. d \in Affected(s, x)
    BY <1>1, <2>1, AffectedLess
  <2>. QED  BY <1>1, <2>2
<1>2. ASSUME NEW c \in Docs \ L
      PROVE  \/ Spreads(d, c, ib2, hs2)
             \/ c \notin L2 /\ s[c].text.imports \subseteq s2[c].text.imports
  <2> SUFFICES ASSUME ~Spreads(d, c, ib2, hs2)
               PROVE  c \notin L2 /\ s[c].text.imports \subseteq s2[c].text.imports
    OBVIOUS
  <2>1. c \in Docs /\ c \notin L2 /\ Reread(c, s, s2, dk)
    BY <1>2
  <2>2. ~Told(c, ib)
    BY <2>1 DEF Spreads
  <2>3. Known(c, ed[c], ib, s[c], dk[c])
    BY <2>1
  <2>4. \A e, i : Known(c, e, i, s[c], dk[c]) /\ ~Told(c, i) =>
          s[c].text.imports \subseteq s2[c].text.imports
    BY <2>1, RereadFacts
  <2>. QED  BY <2>1, <2>2, <2>3, <2>4
<1>3. Pending(d, s, ib, hs, L) => Pending(d, s2, ib2, hs2, L2)
  <2>1. (\E k \in DOMAIN hs : InTurn(d, hs[k], s[d])) => \E k \in DOMAIN hs2 : InTurn(d, hs2[k], s2[d])
    OBVIOUS
  <2>2. \A x \in Docs : Spreads(d, x, ib, hs) /\ d \in Affected(Without(s, L), x) =>
          Spreads(d, x, ib2, hs2) \/ \E k \in DOMAIN hs2 : InTurn(d, hs2[k], s2[d])
    BY <1>1
  <2>3. \A c \in Docs \ L : \/ Spreads(d, c, ib2, hs2)
                            \/ c \notin L2 /\ s[c].text.imports \subseteq s2[c].text.imports
    BY <1>2
  <2>4. ASSUME Pending(d, s, ib, hs, L)  PROVE Pending(d, s2, ib2, hs2, L2)
    <3>1. d \in Docs
      OBVIOUS
    <3>. QED  BY ONLY <2>1, <2>2, <2>3, <2>4, <3>1, PendingOnward
  <2>. QED  BY <2>4
<1>4. \A c \in Docs : \/ Spreads(d, c, ib2, hs2)
                      \/ c \in L2
                      \/ ReadIn(s2, dk)[c] = ReadIn(s, dk)[c] /\ (IsOpen(s2, c) <=> IsOpen(s, c))
  <2> TAKE c \in Docs
  <2>1. CASE Reread(c, s, s2, dk)
    BY <2>1, RereadFacts
  <2>. QED  BY <2>1
<1>5. \A c \in Docs : Known(c, ed2[c], ib2, s2[c], dk[c])
  OBVIOUS
<1>6. /\ d \in Docs /\ s \in [Docs -> Entries] /\ s2 \in [Docs -> Entries] /\ dk \in [Docs -> Texts]
      /\ L \in SUBSET Docs /\ L2 \in SUBSET Docs /\ L \subseteq L2
      /\ UpToDate(d, s, dk, ib, hs, sh, L) /\ IsOpen(s, d) /\ s2[d] = s[d]
      /\ d \notin L2 => Loaded(d, hs2, s2)
  OBVIOUS
<1>. QED  BY ONLY <1>3, <1>4, <1>5, <1>6, UpToDateOnward

\* A text of d has been analysed and stored, and nothing else has changed but what
\* was read again.
LEMMA CleanFresh ==
  ASSUME NEW d \in Docs, NEW s \in [Docs -> Entries], NEW s2 \in [Docs -> Entries],
         NEW dk \in [Docs -> Texts], NEW t \in Texts, NEW sh,
         IsOpen(s2, d), s2[d].text = t, sh.texts = Read(d, t, ReadIn(s, dk)),
         \A c \in Docs \ {d} : Reread(c, s, s2, dk)
  PROVE  Clean(d, s2, dk, sh)
<1> PICK src, src2, op2 : src = ReadIn(s, dk) /\ src2 = ReadIn(s2, dk) /\ op2 = Opened(s2)
  OBVIOUS
<1>1. src \in [Docs -> Texts] /\ src2 \in [Docs -> Texts] /\ op2 \in SUBSET Docs
  BY SourceTypes
<1>2. d \in op2 /\ src2[d] = t
  BY DEF Opened, ReadIn
<1>3. \A c \in Docs \ {d} : src2[c] = src[c]
  BY RereadFacts
<1>4. {p \in Read(d, t, src) : p[1] \in Trace(d, src2, op2)} =
        {<<c, src2[c]>> : c \in Trace(d, src2, op2)}
  BY <1>1, <1>2, <1>3, TraceRead
<1>. QED  BY <1>4 DEF Clean, Followed

\* What a refresh makes of other documents.
LEMMA RefreshRereads ==
  ASSUME NEW s \in [Docs -> Entries], NEW d \in Docs, NEW v \in Int, NEW t \in Texts,
         disk \in [Docs -> Texts]
  PROVE  \A c \in Docs \ {d} : Reread(c, s, Refreshed(s, d, v, t), disk)
<1> PICK e : e = [version |-> v, text |-> t]
  OBVIOUS
<1> PICK s1 : s1 = Insert(s, d, e)
  OBVIOUS
<1>1. e \in Entries
  BY DEF Entries
<1>2. s1 \in [Docs -> Entries] /\ \A c \in Docs \ {d} : s1[c] = s[c]
  BY <1>1 DEF Insert
<1> TAKE c \in Docs \ {d}
<1>3. Refreshed(s, d, v, t)[c] = IF c \in t.imports THEN Load(s1, c)[c] ELSE s1[c]
  BY DEF Refreshed, LoadAll
<1>4. /\ IsOpen(s1, c) => Load(s1, c)[c] = s1[c]
      /\ ~IsOpen(s1, c) => Load(s1, c)[c] = [version |-> Background, text |-> disk[c]]
  BY <1>2, LoadFacts
<1>. QED  BY <1>2, <1>3, <1>4 DEF Reread, IsOpen

\* What a lookup makes of the store.
LEMMA LoadRereads ==
  ASSUME NEW s \in [Docs -> Entries], NEW x \in Docs, disk \in [Docs -> Texts]
  PROVE  \A c \in Docs : Reread(c, s, Load(s, x), disk)
<1>1. /\ \A c \in Docs \ {x} : Load(s, x)[c] = s[c]
      /\ IsOpen(s, x) => Load(s, x)[x] = s[x]
      /\ ~IsOpen(s, x) => Load(s, x)[x] = [version |-> Background, text |-> disk[x]]
  BY LoadFacts
<1>. QED  BY <1>1 DEF Reread

-----------------------------------------------------------------------------
(* What is known of the files.                                             *)

\* Messages come, and the first is handled.
LEMMA ToldFacts ==
  ASSUME NEW ib \in Seq(Message)
  PROVE  /\ \A m \in Message, y \in Docs :
              Told(y, ib) \/ m.doc = y <=> Told(y, Append(ib, m))
         /\ ib # <<>> => \A y \in Docs : Told(y, ib) <=> ib[1].doc = y \/ Told(y, Tail(ib))
<1> PICK n \in Nat : n = Len(ib)
  BY LenProperties
<1>1. ASSUME NEW m \in Message, NEW y \in Docs
      PROVE  Told(y, ib) \/ m.doc = y <=> Told(y, Append(ib, m))
  <2> PICK ib2 : ib2 = Append(ib, m)
    OBVIOUS
  <2>1. Len(ib2) = n + 1 /\ (\A k \in 1 .. n : ib2[k] = ib[k]) /\ ib2[n + 1] = m
    BY AppendFacts
  <2>2. \A k : k \in 1 .. n + 1 <=> k \in 1 .. n \/ k = n + 1
    OBVIOUS
  <2>. QED  BY <2>1, <2>2 DEF Told
<1>2. ASSUME ib # <<>>, NEW y \in Docs
      PROVE  Told(y, ib) <=> ib[1].doc = y \/ Told(y, Tail(ib))
  <2> PICK t : t = Tail(ib)
    OBVIOUS
  <2>1. Len(t) = n - 1 /\ n \in Nat \ {0} /\ \A k \in 1 .. n - 1 : t[k] = ib[k + 1]
    BY <1>2, TailFacts
  <2>2. \A k \in 1 .. n - 1 : k + 1 \in 1 .. n
    BY <2>1
  <2>3. 1 \in 1 .. n /\ \A k \in 1 .. n : k = 1 \/ (k - 1 \in 1 .. n - 1 /\ (k - 1) + 1 = k)
    BY <2>1
  <2>4. ASSUME Told(y, ib)  PROVE ib[1].doc = y \/ Told(y, t)
    <3> PICK k \in 1 .. n : ib[k].doc = y
      BY <2>4 DEF Told
    <3>1. CASE k # 1
      <4>1. t[k - 1] = ib[k] /\ k - 1 \in 1 .. n - 1
        BY <2>1, <2>3, <3>1
      <4>. QED  BY <2>1, <4>1 DEF Told
    <3>. QED  BY <3>1
  <2>5. ASSUME Told(y, t)  PROVE Told(y, ib)
    BY <2>1, <2>2, <2>5 DEF Told
  <2>6. ib[1].doc = y => Told(y, ib)
    BY <2>3 DEF Told
  <2>. QED  BY <2>4, <2>5, <2>6
<1>. QED  BY <1>1, <1>2

LEMMA KnownSent ==
  ASSUME NEW ib \in Seq(Message), NEW m \in Message, NEW y \in Docs, NEW ed, NEW ed2, NEW st, NEW text,
         Known(y, ed, ib, st, text),
         \/ m.doc # y /\ ed2 = ed
         \/ m.doc = y /\ (m.kind = "close" <=> ~ed2.open)
  PROVE  Known(y, ed2, Append(ib, m), st, text)
<1> PICK n \in Nat : n = Len(ib)
  BY AppendFacts
<1> PICK ib2 : ib2 = Append(ib, m)
  OBVIOUS
<1>1. Len(ib2) = n + 1 /\ (\A k \in 1 .. n : ib2[k] = ib[k]) /\ ib2[n + 1] = m
  BY AppendFacts
<1>2. Told(y, ib) \/ m.doc = y <=> Told(y, ib2)
  BY ToldFacts
<1>3. ASSUME NEW k \in 1 .. n + 1, ib2[k].doc = y, \A i \in k + 1 .. n + 1 : ib2[i].doc # y
      PROVE  ib2[k].kind = "close" <=> ~ed2.open
  <2>1. CASE k = n + 1
    BY <1>1, <1>3, <2>1
  <2>2. CASE k # n + 1
    <3>1. k \in 1 .. n /\ n + 1 \in k + 1 .. n + 1
      BY <2>2
    <3>2. m.doc # y
      BY <1>1, <1>3, <3>1
    <3>3. \A i \in k + 1 .. n : i \in 1 .. n /\ i \in k + 1 .. n + 1
      BY <3>1
    <3>4. \A i \in k + 1 .. n : ib[i].doc # y
      BY <1>1, <1>3, <3>3
    <3>. QED  BY <1>1, <1>3, <3>1, <3>2, <3>4 DEF Known
  <2>. QED  BY <2>1, <2>2
<1>4. ~(st.version >= 0) /\ ~Told(y, ib2) => ~ed2.open /\ (st # Absent => st.text = text)
  BY <1>2 DEF Known
<1>. QED  BY <1>1, <1>3, <1>4 DEF Known

LEMMA KnownHandled ==
  ASSUME NEW ib \in Seq(Message), ib # <<>>, NEW y \in Docs, NEW ed, NEW st, NEW st2, NEW text,
         Known(y, ed, ib, st, text),
         \/ ib[1].doc # y /\ st2 = st
         \/ ib[1].doc = y /\ st2.version >= 0
         \/ ib[1].doc = y /\ ib[1].kind = "close" /\ st2 = Absent
  PROVE  Known(y, ed, Tail(ib), st2, text)
<1> PICK n \in Nat : n = Len(ib) - 1
  BY TailFacts
<1> PICK t : t = Tail(ib)
  OBVIOUS
<1>1. Len(ib) = n + 1 /\ Len(t) = n /\ \A k \in 1 .. n : t[k] = ib[k + 1]
  BY TailFacts
<1>2. Told(y, ib) <=> ib[1].doc = y \/ Told(y, t)
  BY ToldFacts
<1>3. ASSUME NEW k \in 1 .. n, t[k].doc = y, \A i \in k + 1 .. n : t[i].doc # y
      PROVE  t[k].kind = "close" <=> ~ed.open
  <2>1. k + 1 \in 1 .. n + 1
    OBVIOUS
  <2>2. ASSUME NEW i \in (k + 1) + 1 .. n + 1  PROVE ib[i].doc # y
    <3>1. i - 1 \in k + 1 .. n /\ i - 1 \in 1 .. n /\ (i - 1) + 1 = i
      OBVIOUS
    <3>. QED  BY <1>1, <1>3, <3>1
  <2>. QED  BY <1>1, <1>3, <2>1, <2>2 DEF Known
<1>4. ASSUME ~(st2.version >= 0), ~Told(y, t)
      PROVE  ~ed.open /\ (st2 # Absent => st2.text = text)
  <2>1. CASE ib[1].doc # y /\ st2 = st
    BY <1>2, <1>4, <2>1 DEF Known
  <2>2. CASE ib[1].doc = y /\ ib[1].kind = "close" /\ st2 = Absent
    <3>1. ASSUME NEW i \in 1 + 1 .. n + 1  PROVE ib[i].doc # y
      <4>1. i - 1 \in 1 .. n /\ (i - 1) + 1 = i
        OBVIOUS
      <4>. QED  BY <1>1, <1>4, <4>1 DEF Told
    <3>2. 1 \in 1 .. n + 1
      OBVIOUS
    <3>3. ib[1].kind = "close" <=> ~ed.open
      BY <1>1, <2>2, <3>1, <3>2 DEF Known
    <3>. QED  BY <2>2, <3>3
  <2>. QED  BY <1>4, <2>1, <2>2
<1>. QED  BY <1>1, <1>3, <1>4 DEF Known

\* What becomes of other documents than that of the message that is handled.
LEMMA StartFacts ==
  ASSUME TypeOK, Start
  PROVE  /\ inbox \in Seq(Message) /\ inbox # <<>> /\ inbox[1] \in Message /\ inbox[1].doc \in Docs
         /\ inbox' = Tail(inbox) /\ disk' = disk /\ editor' = editor
         /\ \A c \in Docs \ {inbox[1].doc} : Reread(c, store, store', disk) /\ shown'[c] = shown[c]
         /\ late \subseteq late' /\ late' \subseteq late \cup {inbox[1].doc}
         /\ \/ inbox[1].kind = "close" /\ store'[inbox[1].doc] = Absent
            \/ /\ Refresh(inbox[1].doc, inbox[1].version, inbox[1].text) /\ late' = late
               /\ inbox[1].kind # "close" /\ IsOpen(store', inbox[1].doc)
         /\ \E h \in Handler : /\ handlers' = Append(handlers, h)
                               /\ h.changed = inbox[1].doc /\ ~h.listed /\ h.todo = {}
<1>1. inbox \in Seq(Message) /\ inbox # <<>> /\ handlers \in Seq(Handler)
  BY SequenceTypes DEF Start
<1> PICK m : m = inbox[1]
  OBVIOUS
<1>2. m = Head(inbox) /\ m \in Message
  BY <1>1, TailFacts
<1>3. m.doc \in Docs /\ m.version \in Nat /\ m.version \in Int /\ m.version >= 0 /\ m.text \in Texts
  BY <1>2 DEF Message
<1>4. inbox' = Tail(inbox) /\ disk' = disk /\ editor' = editor
  BY DEF Start
<1> PICK h : h = [changed |-> m.doc, listed |-> FALSE, todo |-> {}]
  OBVIOUS
<1>5. /\ h \in Handler /\ h.changed = m.doc /\ ~h.listed /\ h.todo = {}
      /\ handlers' = Append(handlers, h)
  BY <1>2, <1>3 DEF Start, Handler
<1>6. store \in [Docs -> Entries] /\ disk \in [Docs -> Texts]
  BY DEF TypeOK
<1>7. CASE m.kind \in {"open", "change"} /\ Refresh(m.doc, m.version, m.text) /\ late' = late
  <2>1. store' = Refreshed(store, m.doc, m.version, m.text) /\ \A c \in Docs \ {m.doc} : shown'[c] = shown[c]
    BY <1>3, <1>7, RefreshKeepsTypes
  <2>2. \A c \in Docs \ {m.doc} : Reread(c, store, store', disk)
    BY <1>3, <1>6, <2>1, RefreshRereads
  <2>3. IsOpen(store', m.doc)
    <3> PICK c, v, x : c = m.doc /\ v = m.version /\ x = m.text
      OBVIOUS
    <3>1. c \in Docs /\ v \in Int /\ v >= 0 /\ x \in Texts
      BY <1>3
    <3>2. IsOpen(Refreshed(store, c, v, x), c)
      BY ONLY <1>6, <3>1, RefreshFacts
    <3>. QED  BY <2>1, <3>2
  <2>4. m.kind # "close"
    BY <1>7
  <2>. QED  BY <1>1, <1>2, <1>3, <1>4, <1>5, <1>7, <2>1, <2>2, <2>3, <2>4
<1>8. CASE m.kind = "close" /\ Forget(m.doc)
           /\ late' = IF m.doc \in PendingRefreshes THEN late \cup {m.doc} ELSE late
  <2>1. store' = [store EXCEPT ![m.doc] = Absent] /\ shown' = [shown EXCEPT ![m.doc] = Nothing]
    BY <1>8 DEF Forget
  <2>2. store'[m.doc] = Absent /\ \A c \in Docs \ {m.doc} : store'[c] = store[c] /\ shown'[c] = shown[c]
    BY <1>3, <2>1 DEF TypeOK
  <2>3. \A c \in Docs \ {m.doc} : Reread(c, store, store', disk) /\ shown'[c] = shown[c]
    BY <2>2 DEF Reread
  <2>4. late \subseteq late' /\ late' \subseteq late \cup {m.doc}
    BY <1>8
  <2>. QED  BY <1>1, <1>2, <1>3, <1>4, <1>5, <1>8, <2>2, <2>3, <2>4
<1>. QED  BY <1>2, <1>7, <1>8 DEF Start

\* And of others than that of the entry that is refreshed.
LEMMA ResumeFacts ==
  ASSUME IInv, NEW k \in DOMAIN handlers, NEW e \in Listed(handlers[k]), Refresh(e.doc, e.version, e.text)
  PROVE  /\ e.doc \in Docs /\ e.version \in Nat /\ e.text \in Texts /\ IsOpen(store', e.doc)
         /\ \A c \in Docs \ {e.doc} : Reread(c, store, store', disk) /\ shown'[c] = shown[c]
         /\ shown'[e.doc] = Shows(shown[e.doc], [version |-> e.version, texts |-> Read(e.doc, e.text, Sources(store))])
         /\ e.doc \notin late => /\ IsOpen(store, e.doc) /\ store'[e.doc] = store[e.doc]
                                 /\ e.version <= store[e.doc].version
                                 /\ e.version = store[e.doc].version => e.text = store[e.doc].text
<1>1. /\ Listed(handlers[k]) \in SUBSET Todo /\ \A f \in Listed(handlers[k]) : f.version >= 0
      /\ \A f \in Listed(handlers[k]) : f.doc \notin late =>
           /\ store[f.doc].version >= 0 /\ f.version <= store[f.doc].version
           /\ f.version = store[f.doc].version => f.text = store[f.doc].text
  BY ListedFacts
<1>2. e.doc \in Docs /\ e.version \in Int /\ e.version >= 0 /\ e.text \in Texts
  BY <1>1 DEF Todo
<1>3. TypeOK /\ disk \in [Docs -> Texts] /\ store \in [Docs -> Entries]
  BY DEF IInv, TypeOK
<1>4. /\ store' = Refreshed(store, e.doc, e.version, e.text)
      /\ \A c \in Docs \ {e.doc} : shown'[c] = shown[c]
      /\ shown'[e.doc] = Shows(shown[e.doc], [version |-> e.version, texts |-> Read(e.doc, e.text, Sources(store))])
  BY <1>2, <1>3, RefreshKeepsTypes
<1>5. \A c \in Docs \ {e.doc} : Reread(c, store, store', disk)
  BY <1>2, <1>3, <1>4, RefreshRereads
<1>6. /\ store'[e.doc] = IF IsOpen(store, e.doc) /\ e.version < store[e.doc].version
                           THEN store[e.doc] ELSE [version |-> e.version, text |-> e.text]
      /\ IsOpen(store', e.doc)
  BY <1>2, <1>3, <1>4, RefreshFacts
<1>7. e.version \in Nat
  BY <1>2
<1>8. ASSUME e.doc \notin late
      PROVE  /\ IsOpen(store, e.doc) /\ store'[e.doc] = store[e.doc]
             /\ e.version <= store[e.doc].version
             /\ e.version = store[e.doc].version => e.text = store[e.doc].text
  <2>1. /\ store[e.doc].version >= 0 /\ e.version <= store[e.doc].version
        /\ e.version = store[e.doc].version => e.text = store[e.doc].text
    BY <1>1, <1>8
  <2>2. store[e.doc] \in Entries /\ store[e.doc].version \in Int
    BY <1>2, <1>3 DEF Entries
  <2>3. e.version = store[e.doc].version => [version |-> e.version, text |-> e.text] = store[e.doc]
    BY <2>1, <2>2 DEF Entries
  <2>. QED  BY <1>2, <1>6, <2>1, <2>2, <2>3 DEF IsOpen
<1>. QED  BY <1>2, <1>4, <1>5, <1>6, <1>7, <1>8

\* What is known stays known.
LEMMA InformedKept ==
  ASSUME IInv, Informed, [Next]_vars, IInv'
  PROVE  Informed'
<1> SUFFICES ASSUME NEW y \in Docs  PROVE Known(y, editor'[y], inbox', store'[y], disk'[y])
  BY DEF Informed
<1>1. Known(y, editor[y], inbox, store[y], disk[y])
  BY DEF Informed
<1>2. /\ store \in [Docs -> Entries] /\ store' \in [Docs -> Entries] /\ disk \in [Docs -> Texts]
      /\ inbox \in Seq(Message) /\ TypeOK
  BY SequenceTypes DEF IInv, TypeOK
<1>3. CASE UNCHANGED vars
  BY <1>1, <1>3 DEF vars
<1>4. ASSUME NEW x \in Docs, Open(x) \/ Change(x) \/ Close(x)
      PROVE  Known(y, editor'[y], inbox', store'[y], disk'[y])
  <2>1. disk' = disk /\ store' = store
    BY <1>4 DEF Open, Change, Close
  <2>2. \A d \in Docs \ {x} : editor'[d] = editor[d]
    BY <1>2, <1>4, SendFacts
  <2> PICK m \in Message : inbox' = Append(inbox, m) /\ m.doc = x /\ (m.kind = "close" <=> ~editor'[x].open)
    BY <1>2, <1>4, SendFacts
  <2>3. \/ m.doc # y /\ editor'[y] = editor[y]
        \/ m.doc = y /\ (m.kind = "close" <=> ~editor'[y].open)
    BY <2>2
  <2>4. Known(y, editor'[y], Append(inbox, m), store[y], disk[y])
    BY <1>1, <1>2, <2>3, KnownSent
  <2>. QED  BY <2>1, <2>4
<1>5. ASSUME NEW x \in Docs, Save(x)
      PROVE  Known(y, editor'[y], inbox', store'[y], disk'[y])
  <2>1. UNCHANGED <<editor, inbox, store>> /\ disk' = [disk EXCEPT ![x] = editor[x].text] /\ editor[x].open
    BY <1>5 DEF Save
  <2>2. CASE y # x
    <3>1. disk'[y] = disk[y]
      BY <1>2, <2>1, <2>2
    <3>. QED  BY <1>1, <2>1, <3>1
  <2>3. CASE y = x
    BY <1>1, <2>1, <2>3 DEF Known
  <2>. QED  BY <2>2, <2>3
<1>6. CASE Start
  <2>1. /\ inbox # <<>> /\ inbox' = Tail(inbox) /\ disk' = disk /\ editor' = editor
        /\ \A c \in Docs \ {inbox[1].doc} : Reread(c, store, store', disk)
        /\ \/ inbox[1].kind = "close" /\ store'[inbox[1].doc] = Absent
           \/ IsOpen(store', inbox[1].doc)
    BY <1>2, <1>6, StartFacts
  <2>2. CASE inbox[1].doc = y
    <3>1. \/ inbox[1].doc = y /\ store'[y].version >= 0
          \/ inbox[1].doc = y /\ inbox[1].kind = "close" /\ store'[y] = Absent
      BY <2>1, <2>2 DEF IsOpen
    <3>2. Known(y, editor[y], Tail(inbox), store'[y], disk[y])
      BY <1>1, <1>2, <2>1, <3>1, KnownHandled
    <3>. QED  BY <2>1, <3>2
  <2>3. CASE inbox[1].doc # y
    <3>1. Reread(y, store, store', disk)
      BY <2>1, <2>3
    <3>2. Known(y, editor[y], inbox, store'[y], disk[y])
      BY <1>1, <1>2, <3>1, RereadFacts
    <3>3. inbox[1].doc # y /\ store'[y] = store'[y]
      BY <2>3
    <3>4. Known(y, editor[y], Tail(inbox), store'[y], disk[y])
      BY <1>2, <2>1, <3>2, <3>3, KnownHandled
    <3>. QED  BY <2>1, <3>4
  <2>. QED  BY <2>2, <2>3
<1>7. ASSUME NEW k \in DOMAIN handlers, Resume(k)
      PROVE  Known(y, editor'[y], inbox', store'[y], disk'[y])
  <2>1. UNCHANGED <<disk, editor, inbox>>
    BY <1>7 DEF Resume
  <2>2. ASSUME NEW e \in Listed(handlers[k]), Refresh(e.doc, e.version, e.text)
        PROVE  Known(y, editor'[y], inbox', store'[y], disk'[y])
    <3>1. /\ IsOpen(store', e.doc)
          /\ \A c \in Docs \ {e.doc} : Reread(c, store, store', disk)
      BY <2>2, ResumeFacts
    <3>2. CASE e.doc = y
      BY <1>1, <2>1, <3>1, <3>2 DEF Known, IsOpen
    <3>3. CASE e.doc # y
      <4>1. Reread(y, store, store', disk)
        BY <3>1, <3>3
      <4>2. Known(y, editor[y], inbox, store'[y], disk[y])
        BY <1>1, <1>2, <4>1, RereadFacts
      <4>. QED  BY <2>1, <4>2
    <3>. QED  BY <3>2, <3>3
  <2>3. CASE store' = store
    BY <1>1, <2>1, <2>3
  <2>. QED  BY <1>7, <2>2, <2>3 DEF Resume
<1>8. ASSUME NEW x \in Docs, Lookup(x)
      PROVE  Known(y, editor'[y], inbox', store'[y], disk'[y])
  <2>1. UNCHANGED <<disk, editor, inbox>> /\ store' = Load(store, x)
    BY <1>8 DEF Lookup
  <2>2. Reread(y, store, store', disk)
    BY <1>2, <2>1, LoadRereads
  <2>3. Known(y, editor[y], inbox, store'[y], disk[y])
    BY <1>1, <1>2, <2>2, RereadFacts
  <2>. QED  BY <2>1, <2>3
<1>. QED  BY <1>3, <1>4, <1>5, <1>6, <1>7, <1>8 DEF Next, Editing, ResumeSome

-----------------------------------------------------------------------------
(* What is shown.                                                          *)

\* What every step's proof needs.
LEMMA FreshTypes ==
  ASSUME IInv, Informed, Fresh, NEW d \in Docs
  PROVE  /\ store \in [Docs -> Entries] /\ disk \in [Docs -> Texts] /\ late \in SUBSET Docs
         /\ inbox \in Seq(Message)
         /\ UpToDate(d, store, disk, inbox, handlers, shown[d], late)
         /\ d \notin late => Loaded(d, handlers, store)
         /\ \A c \in Docs : Known(c, editor[c], inbox, store[c], disk[c])
<1>1. store \in [Docs -> Entries] /\ disk \in [Docs -> Texts] /\ late \in SUBSET Docs /\ TypeOK
  BY DEF IInv, TypeOK
<1>2. inbox \in Seq(Message)
  BY <1>1, SequenceTypes
<1>3. d \notin late => Loaded(d, handlers, store)
  BY DEF IInv, Kept
<1>. QED  BY <1>1, <1>2, <1>3 DEF Informed, Fresh

LEMMA EditFresh ==
  ASSUME IInv, Informed, Fresh, NEW x \in Docs, Open(x) \/ Change(x) \/ Close(x), IInv', Informed',
         NEW d \in Docs
  PROVE  UpToDate(d, store', disk', inbox', handlers', shown'[d], late')
<1>1. UNCHANGED <<disk, store, handlers, shown, late>>
  BY DEF Open, Change, Close
<1>2. /\ store \in [Docs -> Entries] /\ disk \in [Docs -> Texts] /\ late \in SUBSET Docs
      /\ inbox \in Seq(Message)
      /\ UpToDate(d, store, disk, inbox, handlers, shown[d], late)
      /\ d \notin late => Loaded(d, handlers, store)
      /\ \A c \in Docs : Known(c, editor[c], inbox, store[c], disk[c])
  BY FreshTypes
<1> SUFFICES ASSUME IsOpen(store, d)  PROVE UpToDate(d, store, disk, inbox', handlers, shown[d], late)
  BY <1>1 DEF UpToDate
<1>3. \A c \in Docs : Known(c, editor'[c], inbox', store[c], disk[c])
  BY <1>1 DEF Informed
<1>4. \A c \in Docs : Told(c, inbox) => Told(c, inbox')
  <2> PICK m \in Message : inbox' = Append(inbox, m)
    BY SendFacts DEF IInv
  <2>. QED  BY <1>2, ToldFacts
<1>5. \A c \in Docs : Spreads(d, c, inbox, handlers) => Spreads(d, c, inbox', handlers)
  BY <1>4 DEF Spreads
<1>6. \A c \in Docs : Spreads(d, c, inbox, handlers) =>
        \/ Spreads(d, c, inbox', handlers)
        \/ ~Told(c, inbox) /\ (d \in Affected(store, c) => \E k \in DOMAIN handlers : InTurn(d, handlers[k], store[d]))
  BY <1>5
<1>7. \A c \in Docs : \/ Spreads(d, c, inbox', handlers)
                      \/ c \in late
                      \/ c \notin late /\ Reread(c, store, store, disk)
  BY DEF Reread
<1>8. d \in Docs /\ IsOpen(store, d) /\ late \subseteq late
  OBVIOUS
<1>. QED  BY ONLY <1>2, <1>3, <1>6, <1>7, <1>8, StepOnward

LEMMA SaveFresh ==
  ASSUME IInv, Informed, Fresh, NEW x \in Docs, Save(x), IInv', Informed', NEW d \in Docs
  PROVE  UpToDate(d, store', disk', inbox', handlers', shown'[d], late')
<1>1. UNCHANGED <<editor, inbox, store, handlers, shown, late>> /\ editor[x].open
  BY DEF Save
<1>2. /\ store \in [Docs -> Entries] /\ disk \in [Docs -> Texts] /\ late \in SUBSET Docs
      /\ UpToDate(d, store, disk, inbox, handlers, shown[d], late)
      /\ d \notin late => Loaded(d, handlers, store)
      /\ \A c \in Docs : Known(c, editor[c], inbox, store[c], disk[c])
  BY FreshTypes
<1>3. disk' \in [Docs -> Texts] /\ \A c \in Docs \ {x} : disk'[c] = disk[c]
  BY <1>2 DEF Save, IInv, TypeOK
<1> SUFFICES ASSUME IsOpen(store, d)
             PROVE  UpToDate(d, store, disk', inbox, handlers, shown[d], late)
  BY <1>1 DEF UpToDate
<1>4. \A c \in Docs : Known(c, editor[c], inbox, store[c], disk'[c])
  BY <1>1 DEF Informed
<1>5. \A c \in Docs : \/ Spreads(d, c, inbox, handlers)
                      \/ c \in late
                      \/ /\ ReadIn(store, disk')[c] = ReadIn(store, disk)[c]
                         /\ IsOpen(store, c) <=> IsOpen(store, c)
  <2> SUFFICES ASSUME NEW c \in Docs, ~Spreads(d, c, inbox, handlers)
               PROVE  ReadIn(store, disk')[c] = ReadIn(store, disk)[c]
    OBVIOUS
  <2>1. CASE c = x
    <3>1. ~Told(x, inbox)
      BY <2>1 DEF Spreads
    <3>2. IsOpen(store, x)
      BY <1>1, <1>2, <3>1 DEF Known, IsOpen
    <3>. QED  BY <2>1, <3>2 DEF ReadIn
  <2>2. CASE c # x
    BY <1>3, <2>2 DEF ReadIn
  <2>. QED  BY <2>1, <2>2
<1>6. d \in Docs /\ IsOpen(store, d) /\ late \subseteq late
  OBVIOUS
<1>7. Pending(d, store, inbox, handlers, late) => Pending(d, store, inbox, handlers, late)
  OBVIOUS
<1>. QED  BY ONLY <1>2, <1>3, <1>4, <1>5, <1>6, <1>7, UpToDateOnward

LEMMA LookupFresh ==
  ASSUME IInv, Informed, Fresh, NEW x \in Docs, Lookup(x), IInv', Informed', NEW d \in Docs
  PROVE  UpToDate(d, store', disk', inbox', handlers', shown'[d], late')
<1>1. UNCHANGED <<disk, editor, inbox, handlers, shown, late>> /\ store' = Load(store, x)
  BY DEF Lookup
<1>2. /\ store \in [Docs -> Entries] /\ disk \in [Docs -> Texts] /\ late \in SUBSET Docs
      /\ UpToDate(d, store, disk, inbox, handlers, shown[d], late)
      /\ \A c \in Docs : Known(c, editor[c], inbox, store[c], disk[c])
  BY FreshTypes
<1>3. \A c \in Docs : Reread(c, store, store', disk)
  BY <1>1, <1>2, LoadRereads
<1>4. store' \in [Docs -> Entries] /\ (d \notin late => Loaded(d, handlers, store'))
  BY <1>1 DEF IInv, TypeOK, Kept
<1>5. \A c \in Docs : Known(c, editor[c], inbox, store'[c], disk[c])
  BY <1>1 DEF Informed
<1>6. (IsOpen(store', d) <=> IsOpen(store, d)) /\ (IsOpen(store, d) => store'[d] = store[d])
  BY <1>2, <1>3, <1>4, RereadFacts
<1> SUFFICES ASSUME IsOpen(store, d)
             PROVE  UpToDate(d, store', disk, inbox, handlers, shown[d], late)
  BY <1>1, <1>6 DEF UpToDate
<1>7. \A c \in Docs : Spreads(d, c, inbox, handlers) =>
        \/ Spreads(d, c, inbox, handlers)
        \/ ~Told(c, inbox) /\ (d \in Affected(store, c) => \E k \in DOMAIN handlers : InTurn(d, handlers[k], store[d]))
  OBVIOUS
<1>8. \A c \in Docs : \/ Spreads(d, c, inbox, handlers)
                      \/ c \in late
                      \/ c \notin late /\ Reread(c, store, store', disk)
  BY <1>3
<1>9. d \in Docs /\ IsOpen(store, d) /\ late \subseteq late /\ store'[d] = store[d]
  BY <1>6
<1>. QED  BY ONLY <1>2, <1>4, <1>5, <1>7, <1>8, <1>9, StepOnward

\* What a new handler adds to those that run.
LEMMA StartedSpreads ==
  ASSUME NEW hs \in Seq(Handler), NEW h \in Handler
  PROVE  /\ Append(hs, h) \in Seq(Handler) /\ Len(hs) + 1 \in DOMAIN Append(hs, h)
         /\ Append(hs, h)[Len(hs) + 1] = h
         /\ \A k \in DOMAIN hs : k \in DOMAIN Append(hs, h) /\ Append(hs, h)[k] = hs[k]
<1> PICK n, hs2 : n = Len(hs) /\ hs2 = Append(hs, h)
  OBVIOUS
<1>1. /\ hs2 \in Seq(Handler) /\ Len(hs2) = n + 1 /\ n \in Nat /\ hs2[n + 1] = h
      /\ \A k \in 1 .. n : hs2[k] = hs[k]
  BY AppendFacts
<1>2. DOMAIN hs = 1 .. n /\ DOMAIN hs2 = 1 .. n + 1
  BY <1>1, LenProperties
<1>3. n + 1 \in 1 .. n + 1 /\ \A k \in 1 .. n : k \in 1 .. n + 1
  BY <1>1
<1>. QED  BY <1>1, <1>2, <1>3

LEMMA StartFresh ==
  ASSUME IInv, Informed, Fresh, Start, IInv', Informed', NEW d \in Docs
  PROVE  UpToDate(d, store', disk', inbox', handlers', shown'[d], late')
<1> PICK m : m = inbox[1]
  OBVIOUS
<1>1. /\ inbox \in Seq(Message) /\ inbox # <<>> /\ m \in Message /\ m.doc \in Docs
      /\ inbox' = Tail(inbox) /\ disk' = disk /\ editor' = editor
      /\ \A c \in Docs \ {m.doc} : Reread(c, store, store', disk) /\ shown'[c] = shown[c]
      /\ late \subseteq late' /\ late' \subseteq late \cup {m.doc}
      /\ \/ m.kind = "close" /\ store'[m.doc] = Absent
         \/ /\ Refresh(m.doc, m.version, m.text) /\ late' = late
            /\ m.kind # "close" /\ IsOpen(store', m.doc)
  BY StartFacts DEF IInv
<1> PICK h \in Handler : /\ handlers' = Append(handlers, h)
                         /\ h.changed = m.doc /\ ~h.listed /\ h.todo = {}
  BY StartFacts DEF IInv
<1>2. /\ store \in [Docs -> Entries] /\ disk \in [Docs -> Texts] /\ late \in SUBSET Docs
      /\ UpToDate(d, store, disk, inbox, handlers, shown[d], late)
      /\ \A c \in Docs : Known(c, editor[c], inbox, store[c], disk[c])
  BY FreshTypes
<1>3. store' \in [Docs -> Entries] /\ late' \in SUBSET Docs /\ (d \notin late' => Loaded(d, handlers', store'))
  <2>1. store' \in [Docs -> Entries] /\ late' \in SUBSET Docs
    BY DEF IInv, TypeOK
  <2>2. d \notin late' => Loaded(d, handlers', store')
    BY DEF IInv, Kept
  <2>. QED  BY <2>1, <2>2
<1>4. \A c \in Docs : Known(c, editor'[c], inbox', store'[c], disk[c])
  BY <1>1 DEF Informed
<1>5. handlers \in Seq(Handler)
  <2>1. TypeOK
    BY DEF IInv
  <2>. QED  BY ONLY <2>1, SequenceTypes
<1>6. CASE d # m.doc
  <2>1. (IsOpen(store', d) <=> IsOpen(store, d)) /\ (IsOpen(store, d) => store'[d] = store[d])
    <3>1. Reread(d, store, store', disk)
      BY <1>1, <1>6
    <3>. QED  BY <1>2, <1>3, <3>1, RereadFacts
  <2> SUFFICES ASSUME IsOpen(store, d)
               PROVE  UpToDate(d, store', disk, inbox', handlers', shown[d], late')
    BY <1>1, <1>6, <2>1 DEF UpToDate
  <2>2. \A k \in DOMAIN handlers : k \in DOMAIN handlers' /\ handlers'[k] = handlers[k]
    BY <1>5, StartedSpreads
  <2>3. Spreads(d, m.doc, inbox', handlers')
    BY <1>5, <1>6, StartedSpreads DEF Spreads
  <2>4. ASSUME NEW c \in Docs, Spreads(d, c, inbox, handlers)
        PROVE  Spreads(d, c, inbox', handlers')
    <3>1. CASE c = m.doc
      BY <2>3, <3>1
    <3>2. CASE c # m.doc
      <4>1. Told(c, inbox) => Told(c, inbox')
        BY <1>1, <3>2, ToldFacts
      <4>. QED  BY <2>2, <2>4, <4>1 DEF Spreads
    <3>. QED  BY <3>1, <3>2
  <2>5. \A c \in Docs : Spreads(d, c, inbox, handlers) =>
          \/ Spreads(d, c, inbox', handlers')
          \/ ~Told(c, inbox) /\ (d \in Affected(store, c) => \E k \in DOMAIN handlers' : InTurn(d, handlers'[k], store[d]))
    BY <2>4
  <2>6. (\E k \in DOMAIN handlers : InTurn(d, handlers[k], store[d]))
          => \E k \in DOMAIN handlers' : InTurn(d, handlers'[k], store[d])
    BY <2>2
  <2>7. \A c \in Docs : \/ Spreads(d, c, inbox', handlers')
                        \/ c \in late
                        \/ c \notin late' /\ Reread(c, store, store', disk)
    BY <1>1, <2>3
  <2>8. d \in Docs /\ IsOpen(store, d) /\ late \subseteq late' /\ store'[d] = store[d]
    BY <1>1, <2>1
  <2>. QED  BY ONLY <1>2, <1>3, <1>4, <2>5, <2>6, <2>7, <2>8, StepOnward
<1>7. CASE d = m.doc
  <2> SUFFICES ASSUME IsOpen(store', d), Followed(d, store', disk') \cap late' = {}
               PROVE  Clean(d, store', disk', shown'[d])
    BY DEF UpToDate
  <2>1. /\ Refresh(d, m.version, m.text) /\ late' = late /\ m.kind # "close"
    BY <1>1, <1>7 DEF IsOpen, Absent
  <2>2. d \notin late
    <3>1. d \in Followed(d, store', disk')
      BY <1>1, <1>2, <1>3, SourceTypes, TraceFacts DEF Followed
    <3>. QED  BY <2>1, <3>1
  <2>3. m.version \in Nat /\ m.version \in Int /\ m.version >= 0 /\ m.text \in Texts
    BY <1>1 DEF Message
  <2>4. /\ store[d] \in Entries /\ store[d].version \in Int
        /\ Orderly(d, editor[d], inbox, store[d])
        /\ IsOpen(store, d) => shown[d].version = store[d].version
        /\ ~IsOpen(store, d) => shown[d] = Nothing
    BY <1>2, <2>2 DEF IInv, Kept, Entries
  <2>5. IsOpen(store, d) => store[d].version < m.version
    <3>1. 1 \in 1 .. Len(inbox)
      BY <1>1, TailFacts
    <3>2. Stays(inbox, d, 1, 1)
      BY <2>1 DEF Stays, Closing
    <3>. QED  BY <1>7, <2>4, <3>1, <3>2 DEF Orderly, IsOpen
  <2>6. /\ store' = Refreshed(store, d, m.version, m.text)
        /\ shown'[d] = Shows(shown[d], [version |-> m.version, texts |-> Read(d, m.text, Sources(store))])
    BY <2>1, <2>3, RefreshKeepsTypes DEF IInv
  <2>7. store'[d] = [version |-> m.version, text |-> m.text]
    <3>1. ~(IsOpen(store, d) /\ m.version < store[d].version)
      BY <2>3, <2>4, <2>5
    <3>. QED  BY <1>2, <2>3, <2>6, <3>1, RefreshFacts
  <2>8. shown'[d] = [version |-> m.version, texts |-> Read(d, m.text, Sources(store))]
    <3>1. ~(m.version < shown[d].version)
      BY <2>3, <2>4, <2>5 DEF Nothing
    <3>. QED  BY <2>6, <3>1 DEF Shows
  <2>9. Sources(store) = ReadIn(store, disk)
    BY DEF Sources, ReadIn
  <2>10. Clean(d, store', disk, shown'[d])
    <3>1. store'[d].text = m.text /\ shown'[d].texts = Read(d, m.text, ReadIn(store, disk))
      BY <2>7, <2>8, <2>9
    <3>2. \A c \in Docs \ {d} : Reread(c, store, store', disk)
      BY <1>1, <1>7
    <3>. QED  BY <1>2, <1>3, <2>3, <3>1, <3>2, CleanFresh
  <2>. QED  BY <1>1, <2>10
<1>. QED  BY <1>6, <1>7

\* An entry for d as it is stored, in a list or about to be put in one, stays in it
\* until it is its turn.
LEMMA RefreshTurns ==
  ASSUME IInv, NEW k \in DOMAIN handlers, NEW e \in Listed(handlers[k]),
         handlers' = [handlers EXCEPT ![k] =
                       [@ EXCEPT !.listed = TRUE, !.todo = StillToRefresh(handlers[k], e)]],
         NEW d \in Docs, IsOpen(store, d),
         ~(e.doc = d /\ e.version = store[d].version /\ e.text = store[d].text)
  PROVE  /\ (\E j \in DOMAIN handlers : InTurn(d, handlers[j], store[d]))
              => \E j \in DOMAIN handlers' : InTurn(d, handlers'[j], store[d])
         /\ \A x \in Docs : Spreads(d, x, inbox, handlers) =>
              \/ Spreads(d, x, inbox, handlers')
              \/ ~Told(x, inbox) /\ (d \in Affected(store, x) => \E j \in DOMAIN handlers' : InTurn(d, handlers'[j], store[d]))
<1> PICK T : T = StillToRefresh(handlers[k], e)
  OBVIOUS
<1>1. T = Listed(handlers[k]) \ {e}
  BY DEF StillToRefresh
<1>2. DOMAIN handlers' = DOMAIN handlers /\ \A j \in DOMAIN handlers \ {k} : handlers'[j] = handlers[j]
  OBVIOUS
<1>3. handlers'[k].listed = TRUE /\ handlers'[k].todo = T /\ k \in DOMAIN handlers'
  <2>1. handlers[k] \in Handler
    BY SequenceTypes DEF IInv
  <2>2. handlers'[k] = [handlers[k] EXCEPT !.listed = TRUE, !.todo = T]
    OBVIOUS
  <2>. QED  BY <1>2, <2>1, <2>2 DEF Handler
<1>4. ASSUME NEW f \in Listed(handlers[k]), f.doc = d, f.version = store[d].version, f.text = store[d].text
      PROVE  \E j \in DOMAIN handlers' : InTurn(d, handlers'[j], store[d])
  <2>1. f \in T
    BY <1>1, <1>4
  <2>. QED  BY <1>3, <1>4, <2>1 DEF InTurn
<1>5. ASSUME NEW j \in DOMAIN handlers, InTurn(d, handlers[j], store[d])
      PROVE  \E i \in DOMAIN handlers' : InTurn(d, handlers'[i], store[d])
  <2>1. CASE j # k
    BY <1>2, <1>5, <2>1
  <2>2. CASE j = k
    BY <1>4, <1>5, <2>2 DEF InTurn, Listed
  <2>. QED  BY <2>1, <2>2
<1>6. ASSUME NEW x \in Docs, Spreads(d, x, inbox, handlers), ~Spreads(d, x, inbox, handlers'), d \in Affected(store, x)
      PROVE  ~Told(x, inbox) /\ \E j \in DOMAIN handlers' : InTurn(d, handlers'[j], store[d])
  <2>1. ~Told(x, inbox) /\ x # d /\ \E j \in DOMAIN handlers : ~handlers[j].listed /\ handlers[j].changed = x
    BY <1>6 DEF Spreads
  <2>2. ~handlers[k].listed /\ handlers[k].changed = x
    BY <1>2, <1>6, <2>1 DEF Spreads
  <2>3. d \in Dependents(store, x)
    BY <1>6, <2>1 DEF Dependents
  <2>4. Listed(handlers[k]) = {[doc |-> c, version |-> store[c].version, text |-> store[c].text] :
                                 c \in Dependents(store, x)}
    BY <2>2 DEF Listed
  <2> PICK f : f = [doc |-> d, version |-> store[d].version, text |-> store[d].text]
    OBVIOUS
  <2>5. f \in Listed(handlers[k])
    BY <2>3, <2>4
  <2>. QED  BY <1>4, <2>1, <2>5
<1>7. \A x \in Docs : Spreads(d, x, inbox, handlers) /\ ~Spreads(d, x, inbox, handlers') => ~Told(x, inbox)
  BY DEF Spreads
<1>. QED  BY <1>5, <1>6, <1>7

LEMMA RefreshFresh ==
  ASSUME IInv, Informed, Fresh, NEW k \in DOMAIN handlers, NEW e \in Listed(handlers[k]),
         Refresh(e.doc, e.version, e.text),
         handlers' = [handlers EXCEPT ![k] =
                       [@ EXCEPT !.listed = TRUE, !.todo = StillToRefresh(handlers[k], e)]],
         UNCHANGED <<disk, editor, inbox, acts, late>>, IInv', Informed', NEW d \in Docs
  PROVE  UpToDate(d, store', disk', inbox', handlers', shown'[d], late')
<1>1. /\ e.doc \in Docs /\ e.version \in Nat /\ e.text \in Texts /\ IsOpen(store', e.doc)
      /\ \A c \in Docs \ {e.doc} : Reread(c, store, store', disk) /\ shown'[c] = shown[c]
      /\ shown'[e.doc] = Shows(shown[e.doc], [version |-> e.version, texts |-> Read(e.doc, e.text, Sources(store))])
      /\ e.doc \notin late => /\ IsOpen(store, e.doc) /\ store'[e.doc] = store[e.doc]
                              /\ e.version <= store[e.doc].version
                              /\ e.version = store[e.doc].version => e.text = store[e.doc].text
  BY ResumeFacts
<1>2. /\ store \in [Docs -> Entries] /\ disk \in [Docs -> Texts] /\ late \in SUBSET Docs
      /\ UpToDate(d, store, disk, inbox, handlers, shown[d], late)
      /\ \A c \in Docs : Known(c, editor[c], inbox, store[c], disk[c])
  BY FreshTypes
<1>3. store' \in [Docs -> Entries]
  BY DEF IInv, TypeOK
<1>4. d \notin late => Loaded(d, handlers', store')
  BY DEF IInv, Kept
<1>5. \A c \in Docs : Known(c, editor[c], inbox, store'[c], disk[c])
  BY DEF Informed
<1>6. ASSUME IsOpen(store, d), store'[d] = store[d],
             ~(e.doc = d /\ e.version = store[d].version /\ e.text = store[d].text), shown'[d] = shown[d]
      PROVE  UpToDate(d, store', disk, inbox, handlers', shown[d], late)
  <2>1. /\ (\E j \in DOMAIN handlers : InTurn(d, handlers[j], store[d]))
             => \E j \in DOMAIN handlers' : InTurn(d, handlers'[j], store[d])
        /\ \A x \in Docs : Spreads(d, x, inbox, handlers) =>
             \/ Spreads(d, x, inbox, handlers')
             \/ ~Told(x, inbox) /\ (d \in Affected(store, x) => \E j \in DOMAIN handlers' : InTurn(d, handlers'[j], store[d]))
    BY <1>6, RefreshTurns
  <2>2. \A c \in Docs : \/ Spreads(d, c, inbox, handlers')
                        \/ c \in late
                        \/ c \notin late /\ Reread(c, store, store', disk)
    BY <1>1 DEF Reread
  <2>3. d \in Docs /\ IsOpen(store, d) /\ late \subseteq late /\ store'[d] = store[d]
    BY <1>6
  <2>. QED  BY ONLY <1>2, <1>3, <1>4, <1>5, <2>1, <2>2, <2>3, StepOnward
<1>7. CASE d # e.doc
  <2>1. Reread(d, store, store', disk) /\ shown'[d] = shown[d]
    BY <1>1, <1>7
  <2>2. (IsOpen(store', d) <=> IsOpen(store, d)) /\ (IsOpen(store, d) => store'[d] = store[d])
    BY <1>2, <1>3, <2>1, RereadFacts
  <2>3. CASE IsOpen(store, d)
    BY <1>6, <1>7, <2>1, <2>2, <2>3
  <2>4. CASE ~IsOpen(store, d)
    BY <2>2, <2>4 DEF UpToDate
  <2>. QED  BY <2>3, <2>4
<1>8. CASE d = e.doc
  <2> SUFFICES ASSUME Followed(d, store', disk) \cap late = {}
               PROVE  UpToDate(d, store', disk, inbox, handlers', shown'[d], late)
    BY DEF UpToDate
  <2>1. d \notin late
    <3>1. d \in Followed(d, store', disk)
      BY <1>2, <1>3, SourceTypes, TraceFacts DEF Followed
    <3>. QED  BY <3>1
  <2>2. /\ IsOpen(store, d) /\ store'[d] = store[d] /\ e.version <= store[d].version
        /\ e.version = store[d].version => e.text = store[d].text
        /\ store[d].version \in Int /\ shown[d].version = store[d].version
    BY <1>1, <1>2, <1>8, <2>1 DEF IInv, Kept, Entries
  <2>3. shown'[d] = Shows(shown[d], [version |-> e.version, texts |-> Read(d, e.text, Sources(store))])
    BY <1>1, <1>8
  <2>4. CASE e.version # store[d].version
    <3>1. e.version < shown[d].version
      BY <1>1, <2>2, <2>4
    <3>2. shown'[d] = shown[d]
      BY <2>3, <3>1 DEF Shows
    <3>. QED  BY <1>6, <2>2, <2>4, <3>2
  <2>5. CASE e.version = store[d].version
    <3>1. ~(e.version < shown[d].version)
      BY <1>1, <2>2, <2>5
    <3>2. shown'[d] = [version |-> e.version, texts |-> Read(d, e.text, Sources(store))]
      BY <2>3, <3>1 DEF Shows
    <3>3. Sources(store) = ReadIn(store, disk)
      BY DEF Sources, ReadIn
    <3>4. shown'[d].texts = Read(d, e.text, ReadIn(store, disk)) /\ store'[d].text = e.text /\ IsOpen(store', d)
      BY <1>1, <1>8, <2>2, <2>5, <3>2, <3>3
    <3>5. \A c \in Docs \ {d} : Reread(c, store, store', disk)
      BY <1>1, <1>8
    <3>6. Clean(d, store', disk, shown'[d])
      BY <1>1, <1>2, <1>3, <3>4, <3>5, CleanFresh
    <3>. QED  BY <3>6 DEF UpToDate
  <2>. QED  BY <2>4, <2>5
<1>. QED  BY <1>7, <1>8

\* The handlers but for one that ends.
LEMMA RemainingHandlers ==
  ASSUME NEW hs \in Seq(Handler), NEW k \in DOMAIN hs
  PROVE  \A j \in DOMAIN hs \ {k} : \E i \in DOMAIN RemoveAt(hs, k) : RemoveAt(hs, k)[i] = hs[j]
<1> PICK n, hs2 : n = Len(hs) /\ hs2 = RemoveAt(hs, k)
  OBVIOUS
<1>1. DOMAIN hs = 1 .. n /\ n \in Nat /\ k \in 1 .. n
  BY LenProperties
<1>2. /\ hs2 \in Seq(Handler) /\ Len(hs2) = n - 1
      /\ \A i \in 1 .. n - 1 : hs2[i] = IF i < k THEN hs[i] ELSE hs[i + 1]
  BY <1>1, RemoveFacts
<1>3. DOMAIN hs2 = 1 .. n - 1
  BY <1>2, LenProperties
<1> SUFFICES ASSUME NEW j \in 1 .. n, j # k  PROVE \E i \in 1 .. n - 1 : hs2[i] = hs[j]
  BY <1>1, <1>3
<1>4. CASE j < k
  <2>1. j \in 1 .. n - 1
    BY <1>1, <1>4
  <2>. QED  BY <1>2, <1>4, <2>1
<1>5. CASE ~(j < k)
  <2>1. j - 1 \in 1 .. n - 1 /\ ~(j - 1 < k) /\ (j - 1) + 1 = j
    BY <1>1, <1>5
  <2>. QED  BY <1>2, <2>1
<1>. QED  BY <1>4, <1>5

LEMMA EndFresh ==
  ASSUME IInv, Informed, Fresh, NEW k \in DOMAIN handlers, Listed(handlers[k]) = {},
         handlers' = RemoveAt(handlers, k), UNCHANGED <<disk, editor, inbox, acts, late, store, shown>>,
         IInv', Informed', NEW d \in Docs
  PROVE  UpToDate(d, store', disk', inbox', handlers', shown'[d], late')
<1>1. /\ store \in [Docs -> Entries] /\ disk \in [Docs -> Texts] /\ late \in SUBSET Docs
      /\ UpToDate(d, store, disk, inbox, handlers, shown[d], late)
      /\ \A c \in Docs : Known(c, editor[c], inbox, store[c], disk[c])
  BY FreshTypes
<1> SUFFICES ASSUME IsOpen(store, d)
             PROVE  UpToDate(d, store, disk, inbox, handlers', shown[d], late)
  BY DEF UpToDate
<1>2. handlers \in Seq(Handler)
  BY DEF IInv, TypeOK, Handler, Todo
<1>3. d \notin late => Loaded(d, handlers', store)
  BY DEF IInv, Kept
<1>4. \A j \in DOMAIN handlers \ {k} : \E i \in DOMAIN handlers' : handlers'[i] = handlers[j]
  BY <1>2, RemainingHandlers
<1>5. ~InTurn(d, handlers[k], store[d])
  BY DEF InTurn, Listed
<1>6. (\E j \in DOMAIN handlers : InTurn(d, handlers[j], store[d]))
        => \E i \in DOMAIN handlers' : InTurn(d, handlers'[i], store[d])
  BY <1>4, <1>5
<1>7. ASSUME NEW x \in Docs, Spreads(d, x, inbox, handlers)
      PROVE  \/ Spreads(d, x, inbox, handlers')
             \/ ~Told(x, inbox) /\ (d \in Affected(store, x) => \E i \in DOMAIN handlers' : InTurn(d, handlers'[i], store[d]))
  <2> SUFFICES ASSUME ~Spreads(d, x, inbox, handlers')
               PROVE  ~Told(x, inbox) /\ d \notin Affected(store, x)
    OBVIOUS
  <2>1. ~Told(x, inbox) /\ x # d /\ \E j \in DOMAIN handlers : ~handlers[j].listed /\ handlers[j].changed = x
    BY <1>7 DEF Spreads
  <2>2. ~handlers[k].listed /\ handlers[k].changed = x
    BY <1>4, <2>1 DEF Spreads
  <2>3. Listed(handlers[k]) = {[doc |-> c, version |-> store[c].version, text |-> store[c].text] :
                                 c \in Dependents(store, x)}
    BY <2>2 DEF Listed
  <2>4. d \notin Dependents(store, x)
    BY <2>3
  <2>. QED  BY <2>1, <2>4 DEF Dependents
<1>8. \A c \in Docs : \/ Spreads(d, c, inbox, handlers')
                      \/ c \in late
                      \/ c \notin late /\ Reread(c, store, store, disk)
  BY DEF Reread
<1>9. d \in Docs /\ IsOpen(store, d) /\ late \subseteq late /\ store[d] = store[d]
  OBVIOUS
<1>. QED  BY ONLY <1>1, <1>3, <1>6, <1>7, <1>8, <1>9, StepOnward

LEMMA InitDInv == Init => DInv
<1> SUFFICES ASSUME Init  PROVE DInv
  OBVIOUS
<1>1. IInv
  BY InitIInv
<1>2. inbox = <<>> /\ Len(inbox) = 0
  BY DEF Init
<1>3. \A d \in Docs : store[d] = Absent /\ ~editor[d].open /\ ~IsOpen(store, d)
  BY DEF Init, IsOpen, Absent
<1>4. Informed
  BY <1>2, <1>3 DEF Informed, Known
<1>5. Fresh
  BY <1>3 DEF Fresh, UpToDate
<1>. QED  BY <1>1, <1>4, <1>5 DEF DInv

LEMMA DInvKept == DInv /\ [Next]_vars => DInv'
<1> SUFFICES ASSUME DInv, [Next]_vars  PROVE DInv'
  OBVIOUS
<1>1. IInv /\ Informed /\ Fresh
  BY DEF DInv
<1>2. IInv'
  BY <1>1, IInvKept
<1>3. Informed'
  BY <1>1, <1>2, InformedKept
<1>4. ASSUME NEW d \in Docs  PROVE UpToDate(d, store', disk', inbox', handlers', shown'[d], late')
  <2>1. CASE UNCHANGED vars
    BY <1>1, <2>1 DEF Fresh, vars
  <2>2. ASSUME NEW x \in Docs, Open(x) \/ Change(x) \/ Close(x)
        PROVE  UpToDate(d, store', disk', inbox', handlers', shown'[d], late')
    BY <1>1, <1>2, <1>3, <2>2, EditFresh
  <2>3. ASSUME NEW x \in Docs, Save(x)
        PROVE  UpToDate(d, store', disk', inbox', handlers', shown'[d], late')
    BY <1>1, <1>2, <1>3, <2>3, SaveFresh
  <2>4. CASE Start
    BY <1>1, <1>2, <1>3, <2>4, StartFresh
  <2>5. ASSUME NEW k \in DOMAIN handlers, Resume(k)
        PROVE  UpToDate(d, store', disk', inbox', handlers', shown'[d], late')
    <3>1. UNCHANGED <<disk, editor, inbox, acts, late>>
      BY <2>5 DEF Resume
    <3>2. ASSUME NEW e \in Listed(handlers[k]), Refresh(e.doc, e.version, e.text),
                 handlers' = [handlers EXCEPT ![k] =
                               [@ EXCEPT !.listed = TRUE, !.todo = StillToRefresh(handlers[k], e)]]
          PROVE  UpToDate(d, store', disk', inbox', handlers', shown'[d], late')
      BY <1>1, <1>2, <1>3, <3>1, <3>2, RefreshFresh
    <3>3. ASSUME Listed(handlers[k]) = {}, handlers' = RemoveAt(handlers, k), UNCHANGED <<store, shown>>
          PROVE  UpToDate(d, store', disk', inbox', handlers', shown'[d], late')
      BY <1>1, <1>2, <1>3, <3>1, <3>3, EndFresh
    <3>. QED  BY <2>5, <3>2, <3>3 DEF Resume
  <2>6. ASSUME NEW x \in Docs, Lookup(x)
        PROVE  UpToDate(d, store', disk', inbox', handlers', shown'[d], late')
    BY <1>1, <1>2, <1>3, <2>6, LookupFresh
  <2>. QED  BY <2>1, <2>2, <2>3, <2>4, <2>5, <2>6 DEF Next, Editing, ResumeSome
<1>5. Fresh'
  BY <1>4 DEF Fresh
<1>. QED  BY <1>2, <1>3, <1>5 DEF DInv

-----------------------------------------------------------------------------
(* What follows of a server at rest.                                       *)

\* A server at rest agrees with its editor on which documents are open and on their
\* texts, has stored what they import, and shows nothing for closed ones.
THEOREM ServerAgrees == Spec => []Consistent
<1>1. IInv => Consistent
  <2> SUFFICES ASSUME IInv, Quiet, NEW d \in Docs \ late
               PROVE  /\ IF editor[d].open
                         THEN /\ store[d] = [version |-> editor[d].version, text |-> editor[d].text]
                              /\ \A c \in editor[d].text.imports : store[c] # Absent
                         ELSE ~IsOpen(store, d)
                      /\ ~editor[d].open => shown[d] = Nothing
    BY DEF Consistent, StoreIsEditors, ClosedShowNothing, IInv
  <2>1. inbox = <<>> /\ handlers = <<>> /\ Len(inbox) = 0 /\ DOMAIN handlers = {}
    BY DEF Quiet
  <2>2. store[d] \in Entries /\ editor[d] \in Entry
    BY DEF IInv, TypeOK, Entry
  <2>3. /\ Orderly(d, editor[d], inbox, store[d]) /\ Loaded(d, handlers, store)
        /\ ~IsOpen(store, d) => shown[d] = Nothing
    BY DEF IInv, Kept
  <2>4. Stays(inbox, d, 1, Len(inbox))
    BY <2>1 DEF Stays
  <2>5. CASE editor[d].open
    <3>1. store[d].version = editor[d].version /\ store[d].text = editor[d].text
      BY <2>1, <2>3, <2>5 DEF Orderly
    <3>2. store[d] = [version |-> editor[d].version, text |-> editor[d].text]
      BY <2>2, <3>1 DEF Entries
    <3>3. IsOpen(store, d)
      BY <2>2, <3>1 DEF IsOpen, Entry
    <3>4. \A c \in Docs : ~Reloads(d, c, handlers, store[d])
      BY <2>1 DEF Reloads
    <3>5. editor[d].text.imports \subseteq Docs
      BY <2>2 DEF Entry, Texts
    <3>6. \A c \in editor[d].text.imports : store[c] # Absent
      BY <2>3, <3>1, <3>3, <3>4, <3>5 DEF Loaded
    <3>. QED  BY <2>5, <3>2, <3>6
  <2>6. CASE ~editor[d].open
    <3>1. ~IsOpen(store, d)
      BY <2>3, <2>4, <2>6 DEF Orderly, IsOpen
    <3>. QED  BY <2>3, <2>6, <3>1
  <2>. QED  BY <2>5, <2>6
<1>. QED  BY <1>1, InitIInv, IInvKept, PTL DEF Spec
\* When the server is at rest, the diagnostics on show for an open document are those
\* of its newest text, and of the newest texts of everything it was traced to.
THEOREM WhatIsShownIsCurrent == Spec => []DiagnosticsAreCurrent
<1>1. DInv => DiagnosticsAreCurrent
  <2> SUFFICES ASSUME DInv, Quiet, NEW d \in Docs, editor[d].open, Traced(d) \cap late = {}
               PROVE  /\ shown[d].version = editor[d].version
                      /\ {p \in shown[d].texts : p[1] \in Traced(d)} = {<<c, Current(c)>> : c \in Traced(d)}
    BY DEF DiagnosticsAreCurrent
  <2>1. IInv /\ Informed /\ Fresh
    BY DEF DInv
  <2>2. inbox = <<>> /\ handlers = <<>> /\ Len(inbox) = 0 /\ DOMAIN handlers = {}
    BY DEF Quiet
  <2> PICK src, op : src = [c \in Docs |-> Current(c)] /\ op = {c \in Docs : editor[c].open}
    OBVIOUS
  <2> PICK T : T = Traced(d)
    OBVIOUS
  <2>3. store \in [Docs -> Entries] /\ disk \in [Docs -> Texts] /\ editor \in [Docs -> Entry]
    BY <2>1 DEF IInv, TypeOK, Entry
  <2>4. src \in [Docs -> Texts] /\ op \in SUBSET Docs /\ T = Trace(d, src, op)
    BY <2>3 DEF Current, Traced, Entry
  <2>5. d \in T /\ T \subseteq Docs /\ T \cap late = {}
    BY <2>4, TraceFacts
  <2>6. ASSUME NEW c \in Docs, c \notin late
        PROVE  /\ IsOpen(store, c) <=> editor[c].open
               /\ editor[c].open => store[c].version = editor[c].version /\ store[c].text = editor[c].text
               /\ ReadIn(store, disk)[c] = src[c]
    <3>1. Orderly(c, editor[c], inbox, store[c])
      BY <2>1, <2>6 DEF IInv, Kept
    <3>2. Stays(inbox, c, 1, Len(inbox))
      BY <2>2 DEF Stays
    <3>3. editor[c].open => store[c].version = editor[c].version /\ store[c].text = editor[c].text
      BY <2>2, <3>1 DEF Orderly
    <3>4. editor[c].open => IsOpen(store, c)
      BY <2>3, <3>3 DEF IsOpen, Entry
    <3>5. IsOpen(store, c) => editor[c].open
      BY <3>1, <3>2 DEF Orderly, IsOpen
    <3>. QED  BY <3>3, <3>4, <3>5 DEF ReadIn, Current
  <2>7. \A c \in T : ReadIn(store, disk)[c] = src[c] /\ (c \in Opened(store) <=> c \in op)
    BY <2>5, <2>6 DEF Opened
  <2>8. Followed(d, store, disk) = T
    <3>1. ReadIn(store, disk) \in [Docs -> Texts] /\ Opened(store) \in SUBSET Docs
      BY <2>3, SourceTypes
    <3>2. d \in Docs
      OBVIOUS
    <3>3. Trace(d, ReadIn(store, disk), Opened(store)) = Trace(d, src, op)
      BY ONLY <2>4, <2>7, <3>1, <3>2, TraceSame
    <3>. QED  BY <2>4, <3>3 DEF Followed
  <2>9. ~Pending(d, store, inbox, handlers, late)
    BY <2>2 DEF Pending, Spreads, Told
  <2>10. IsOpen(store, d) /\ store[d].version = editor[d].version
    BY <2>5, <2>6
  <2>11. Clean(d, store, disk, shown[d])
    BY <2>1, <2>5, <2>8, <2>9, <2>10 DEF Fresh, UpToDate
  <2>12. shown[d].version = store[d].version
    BY <2>1, <2>5, <2>10 DEF IInv, Kept
  <2>13. \A c \in T : ReadIn(store, disk)[c] = Current(c)
    BY <2>5, <2>7
  <2>14. {<<c, ReadIn(store, disk)[c]>> : c \in T} = {<<c, Current(c)>> : c \in T}
    BY <2>13
  <2>. QED  BY <2>8, <2>10, <2>11, <2>12, <2>14 DEF Clean
<1>. QED  BY <1>1, InitDInv, DInvKept, PTL DEF Spec
=============================================================================
