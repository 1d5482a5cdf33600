---------------------------- MODULE ServicesProofs ----------------------------
(***************************************************************************)
(* The protocols turnstone has with threads and files it does not own, for *)
(* any contents, documents, editors, settings and queues.                  *)
(*                                                                         *)
(* The sidecars that are renamed over their target are atomic files, and   *)
(* none is ever read torn: the invariant is what the temporary file holds  *)
(* once it is written.  What an editor of a knot calls saved its document  *)
(* had: so did every view of the hub (Had), every event on its way         *)
(* (Sent), and the text of a save accepted and not folded again            *)
(* (Registered); and an editor changes its document only while it is not   *)
(* open and the UI thread waits (Fits).                                    *)
(***************************************************************************)
EXTENDS MCServices, SequenceTheorems, TLAPS

USE ServicesAssumption

(***************************************************************************)
(* Sidecars.                                                               *)
(***************************************************************************)
\* What is about to be renamed is complete, and it is what the save is about.
TmpComplete ==
    /\ writer.at \in {"written", "cleared"} => tmp = writer.value
    /\ target # Torn

Inv == TypeOK /\ TmpComplete

LEMMA InvInit == Init => Inv
  BY SidecarFileAssumption DEF Init, Inv, TypeOK, TmpComplete, File, Idle

LEMMA InvStep == Inv /\ [Next]_vars => Inv'
  <1> SUFFICES ASSUME Inv, [Next]_vars PROVE Inv'
    OBVIOUS
  <1> USE DEF Inv, TypeOK, TmpComplete, File, Steps, Idle, At, GoOn
  <1>1. ASSUME NEW v \in Values, Save(v) PROVE Inv'
    BY <1>1 DEF Save, Writing
  <1>2. ASSUME NEW v \in Values, Update(v) PROVE Inv'
    BY <1>2 DEF Update, Writing
  <1>3. CASE OpenTmp
    BY <1>3 DEF OpenTmp
  <1>4. CASE FillTmp
    BY <1>4 DEF FillTmp
  <1>5. CASE RemoveTarget
    BY <1>5, SidecarFileAssumption DEF RemoveTarget
  <1>6. CASE Rename
    BY <1>6, SidecarFileAssumption DEF Rename
  <1>7. CASE Fail \/ Crash
    BY <1>7 DEF Fail, Crash
  <1>8. CASE UNCHANGED vars
    BY <1>8 DEF vars
  <1> QED
    BY <1>1, <1>2, <1>3, <1>4, <1>5, <1>6, <1>7, <1>8 DEF Next

\* Whatever calls fail and wherever the process dies, no reader of place.json,
\* projection-score.json, frame.json or windows.json finds half a file.
THEOREM ReadersFindWholeFiles == Spec => []NeverTorn
  <1>1. Inv => NeverTorn
    BY DEF Inv, TmpComplete, NeverTorn
  <1> QED
    BY InvInit, InvStep, <1>1, PTL DEF Spec

LEMMA SaveIsAtomic ==
    ASSUME Inv, ~ RemovesFirst, [Next]_vars
    PROVE  [File1!Next]_<<target, Pending>>
  <1> USE DEF Inv, TypeOK, TmpComplete, File, Steps, Idle, At, GoOn, Pending,
              File1!Next, File1!Begin, File1!Commit, File1!Abort
  <1>1. ASSUME NEW v \in Values, Save(v) PROVE File1!Begin
    BY <1>1, SidecarFileAssumption DEF Save, Writing
  <1>2. ASSUME NEW v \in Values, Update(v) PROVE FALSE
    BY <1>2 DEF Update, RemovesFirst
  <1>3. CASE OpenTmp \/ FillTmp
    BY <1>3 DEF OpenTmp, FillTmp
  <1>4. CASE RemoveTarget
    BY <1>4 DEF RemoveTarget
  <1>5. CASE Rename
    <2>1. writer.at = "written" /\ target' = tmp /\ tmp = writer.value /\ writer' = Idle
      BY <1>5 DEF Rename
    <2>2. writer.value \in Values
      BY <2>1
    <2> QED
      BY <2>1, <2>2, SidecarFileAssumption
  <1>6. CASE Fail \/ Crash
    <2>1. writer # Idle /\ writer' = Idle /\ UNCHANGED target
      BY <1>6 DEF Fail, Crash
    <2>2. writer.value \in Values
      BY <2>1
    <2> QED
      BY <2>1, <2>2, SidecarFileAssumption
  <1>7. CASE UNCHANGED vars
    BY <1>7 DEF vars
  <1> QED
    BY <1>1, <1>2, <1>3, <1>4, <1>5, <1>6, <1>7 DEF Next

\* The save of a sidecar that is renamed over its target takes the steps of an
\* atomic file (panes/store.rs): it replaces it whole or not at all.
THEOREM RenameIsAtomic == Spec => RenamesAtomically
  <1>1. Inv /\ [Next]_vars => [file = "frame.json" => File1!Next]_<<target, Pending>>
    BY SaveIsAtomic DEF RemovesFirst
  <1> QED
    BY InvInit, InvStep, <1>1, PTL DEF Spec, RenamesAtomically

-----------------------------------------------------------------------------
(***************************************************************************)
(* Knots.                                                                  *)
(***************************************************************************)
Editors == [open : BOOLEAN, doc : Doc \cup {NoDoc}, text : K!Text, saved : K!Text,
            base : K!Text, status : K!Status]
Kinds == {"remote", "reloaded", "saved", "stale", "rejected", "revoked"}
Events == [kind : Kinds, token : K!Text, source : K!Text]
Asks == {"save", "reload", "resolve", "run", "unregister", "clip", "open"}
Commands == [kind : Asks, editor : Editor \cup {NoDoc}, token : K!Text \cup Doc,
             source : K!Text]
Hubs == [at : {"idle", "saved", "clipped", "effected", "ended"},
         editor : Editor \cup {NoDoc}, source : K!Text]

\* The settings, and what has no document.
KnotTypes ==
    /\ conf \in [writable : BOOLEAN, resolve : K!EffectMode, run : K!EffectMode,
                 target : BOOLEAN, opened : SUBSET Editor]
    /\ kept \in [Doc -> SUBSET K!Text]
    /\ moved \in BOOLEAN /\ mounted \in BOOLEAN /\ fresh \in BOOLEAN
    /\ edits \in 0..MaxEdits
    /\ hub \in Hubs
    /\ clip \in {"ready", "sending", "saved", "stale", "rejected"}

\* A view of the documents is of texts they had.
Had(view, k) ==
    /\ view \in [Doc -> K!Text \cup {NoDoc}]
    /\ \A d \in Doc : view[d] # NoDoc => view[d] \in k[d]

\* The endpoint and the hub hold of a document what it had; it began empty.
HeldWasKept ==
    /\ \A d \in Doc : {} \in kept[d]
    /\ Had(store, kept) /\ Had(seen, kept) /\ Had(bindings, kept)

\* What an open editor calls saved its document had.
EditorsFit(e, k) ==
    /\ e \in [Editor -> Editors]
    /\ \A i \in Editor : e[i].open => e[i].doc \in Doc /\ e[i].saved \in k[e[i].doc]

\* So did it what is on its way to an editor, and nothing is to one not open.
Sent(v, those) ==
    /\ v.kind \in {"remote", "reloaded"} => v.token \in those
    /\ v.kind = "saved" => v.source \in those

EventsFit(q, e, k) ==
    /\ q \in [Editor -> Seq(Events)]
    /\ \A i \in Editor : /\ ~ e[i].open => q[i] = <<>>
                         /\ \A j \in DOMAIN q[i] : Sent(q[i][j], k[e[i].doc])

\* Only one who waits for it is sent a document, and the UI thread waits.
Fits(c, e) ==
    /\ c.kind # "clip" => c.editor \in Editor
    /\ c.kind = "save" => c.token \in K!Text
    /\ c.kind = "open" => c.token \in Doc /\ ~ e[c.editor].open

CommandsFit(q, e) ==
    /\ q \in Seq(Commands)
    /\ \A j \in DOMAIN q : Fits(q[j], e) /\ (q[j].kind = "open" => j = Len(q))

\* Who is registered has a document, and what is being saved it had.
Registered(s, h, e, k) ==
    /\ s \subseteq Editor /\ \A i \in s : e[i].doc \in Doc
    /\ h.at = "saved" => /\ h.editor \in Editor /\ e[h.editor].doc \in Doc
                         /\ h.source \in k[e[h.editor].doc]
    /\ h.at = "effected" => h.editor \in Editor

\* The inductive invariant of the knots.
KInv ==
    /\ KnotTypes /\ HeldWasKept
    /\ EditorsFit(ed, kept) /\ EventsFit(events, ed, kept)
    /\ CommandsFit(cmds, ed) /\ Registered(subs, hub, ed, kept)

LEMMA KnotInit == K!KnotInit => KInv
  <1> SUFFICES ASSUME K!KnotInit PROVE KInv
    OBVIOUS
  <1> USE DEF K!KnotInit, K!Text
  <1>1. conf \in [writable : BOOLEAN, resolve : K!EffectMode, run : K!EffectMode,
                  target : BOOLEAN, opened : SUBSET Editor]
    <2>1. PICK e \in Environments :
             conf = [writable |-> K!Writable(e), resolve |-> e.resolve, run |-> e.run,
                     target |-> e.target, opened |-> e.opened]
      BY DEF K!FromEnv
    <2>2. e \in K!Settings
      OBVIOUS
    <2>3. K!Writable(e) \in BOOLEAN
      BY <2>2 DEF K!Writable, K!EffectsEnabled, K!Settings
    <2> QED
      BY <2>1, <2>2, <2>3 DEF K!Settings
  <1>2. KnotTypes
    <2>1. {} \in K!Text /\ 0 \in 0..MaxEdits
      OBVIOUS
    <2>2. hub \in Hubs
      BY <2>1 DEF Hubs, K!Idle
    <2> HIDE DEF K!Text
    <2>3. kept \in [Doc -> SUBSET K!Text]
      BY <2>1
    <2> QED
      BY <1>1, <2>1, <2>2, <2>3 DEF KnotTypes
  <1>3. HeldWasKept
    BY DEF HeldWasKept, Had
  <1>4. EditorsFit(ed, kept)
    BY DEF EditorsFit, Editors, K!Closed, K!Status
  <1>5. EventsFit(events, ed, kept)
    BY DEF EventsFit
  <1>6. CommandsFit(cmds, ed) /\ Registered(subs, hub, ed, kept)
    BY DEF CommandsFit, Registered, K!Idle
  <1> QED
    BY <1>2, <1>3, <1>4, <1>5, <1>6 DEF KInv

-----------------------------------------------------------------------------
\* One event more for an open editor.
LEMMA AddEvent ==
    ASSUME NEW q, NEW e, NEW k, EventsFit(q, e, k), NEW i \in Editor, e[i].open,
           NEW v \in Events, Sent(v, k[e[i].doc])
    PROVE  EventsFit([q EXCEPT ![i] = Append(@, v)], e, k)
  <1> DEFINE r == [q EXCEPT ![i] = Append(@, v)]
  <1>1. r \in [Editor -> Seq(Events)]
    BY DEF EventsFit
  <1>2. ASSUME NEW x \in Editor, ~ e[x].open PROVE r[x] = <<>>
    BY <1>2 DEF EventsFit
  <1>3. ASSUME NEW x \in Editor, NEW j \in DOMAIN r[x] PROVE Sent(r[x][j], k[e[x].doc])
    <2>1. CASE x # i
      BY <2>1, <1>3 DEF EventsFit
    <2>2. CASE x = i
      <3>1. q[i] \in Seq(Events) /\ r[x] = Append(q[i], v)
        BY <2>2 DEF EventsFit
      <3>2. j \in DOMAIN q[i] \/ r[x][j] = v
        BY <3>1
      <3>3. j \in DOMAIN q[i] => r[x][j] = q[i][j]
        BY <3>1
      <3> QED
        BY <3>2, <3>3, <2>2 DEF EventsFit
    <2> QED
      BY <2>1, <2>2
  <1> QED
    BY <1>1, <1>2, <1>3 DEF EventsFit

LEMMA PostFits ==
    ASSUME KInv, NEW i \in Editor, NEW v \in Events, Sent(v, kept[ed[i].doc])
    PROVE  EventsFit(K!Post(i, v), ed, kept)
  <1>1. CASE ed[i].open
    <2>1. K!Post(i, v) = [events EXCEPT ![i] = Append(@, v)]
      BY <1>1 DEF K!Post
    <2>2. EventsFit(events, ed, kept)
      BY DEF KInv
    <2>3. EventsFit([events EXCEPT ![i] = Append(@, v)], ed, kept)
      BY <2>2, <1>1, AddEvent
    <2> QED
      BY <2>1, <2>3
  <1>2. CASE ~ ed[i].open
    <2>1. K!Post(i, v) = events
      BY <1>2 DEF K!Post, KInv, EventsFit
    <2> QED
      BY <2>1 DEF KInv
  <1> QED
    BY <1>1, <1>2

LEMMA RefusalFits ==
    ASSUME KInv, NEW i \in Editor, NEW kind \in {"stale", "rejected", "revoked"}
    PROVE  EventsFit(K!Post(i, K!Refused(kind)), ed, kept)
  <1>1. K!Refused(kind) \in Events /\ Sent(K!Refused(kind), kept[ed[i].doc])
    BY DEF K!Refused, K!Event, Events, Kinds, Sent, K!Text
  <1> QED
    BY <1>1, PostFits

\* Everybody registered is told of a text the document had, or that it is gone.
LEMMA RefreshFits ==
    ASSUME KInv, NEW view, Had(view, kept), NEW q, EventsFit(q, ed, kept)
    PROVE  /\ EventsFit(K!RefreshedEvents(view, q), ed, kept)
           /\ Had(K!RefreshedBindings(view, bindings), kept)
  <1> DEFINE r == K!RefreshedEvents(view, q)
             news(x) == IF K!Resolves(view, ed[x].doc)
                        THEN K!Event("remote", view[ed[x].doc], {})
                        ELSE K!Refused("revoked")
  <1>1. ASSUME NEW x \in Editor, ed[x].open
        PROVE  news(x) \in Events /\ Sent(news(x), kept[ed[x].doc])
    <2>1. ed[x].doc \in Doc
      BY <1>1 DEF KInv, EditorsFit
    <2>2. CASE K!Resolves(view, ed[x].doc)
      <3>1. view[ed[x].doc] \in K!Text /\ view[ed[x].doc] \in kept[ed[x].doc]
        BY <2>1, <2>2 DEF Had, K!Resolves
      <3> QED
        BY <3>1, <2>2 DEF K!Event, Events, Kinds, Sent, K!Text
    <2>3. CASE ~ K!Resolves(view, ed[x].doc)
      BY <2>3 DEF K!Refused, K!Event, Events, Kinds, Sent, K!Text
    <2> QED
      BY <2>2, <2>3
  <1>2. ASSUME NEW x \in Editor
        PROVE  /\ r[x] \in Seq(Events) /\ (~ ed[x].open => r[x] = <<>>)
               /\ \A j \in DOMAIN r[x] : Sent(r[x][j], kept[ed[x].doc])
    <2>1. CASE x \notin subs \/ ~ ed[x].open
      <3>1. r[x] = q[x]
        BY <2>1 DEF K!RefreshedEvents
      <3> QED
        BY <3>1 DEF EventsFit
    <2>2. CASE x \in subs /\ ed[x].open
      <3>1. r[x] = Append(q[x], news(x))
        BY <2>2 DEF K!RefreshedEvents
      <3>2. q[x] \in Seq(Events) /\ news(x) \in Events
        BY <1>1, <2>2 DEF EventsFit
      <3> HIDE DEF news
      <3>3. ASSUME NEW j \in DOMAIN r[x] PROVE Sent(r[x][j], kept[ed[x].doc])
        <4>1. r[x][j] = news(x) \/ (j \in DOMAIN q[x] /\ r[x][j] = q[x][j])
          BY <3>1, <3>2
        <4> QED
          BY <4>1, <1>1, <2>2 DEF EventsFit
      <3> QED
        BY <3>1, <3>2, <3>3, <2>2
    <2> QED
      BY <2>1, <2>2
  <1>3. r \in [Editor -> Seq(Events)]
    BY <1>2 DEF K!RefreshedEvents
  <1>4. EventsFit(r, ed, kept)
    BY <1>2, <1>3 DEF EventsFit
  <1>5. Had(bindings, kept)
    BY DEF KInv, HeldWasKept
  <1>6. Had(K!RefreshedBindings(view, bindings), kept)
    BY <1>5 DEF K!RefreshedBindings, Had, K!Resolves
  <1> QED
    BY <1>4, <1>6

\* An editor is left with a text that was stored.
LEMMA FoldFits ==
    ASSUME NEW e \in Editors, e.doc \in Doc, e.saved \in kept[e.doc], {} \in kept[e.doc],
           NEW v \in Events, Sent(v, kept[e.doc])
    PROVE  /\ K!OnEvent(e, v) \in Editors
           /\ K!OnEvent(e, v).doc = e.doc /\ K!OnEvent(e, v).open \in {TRUE, e.open}
           /\ K!OnEvent(e, v).saved \in kept[e.doc]
  <1> USE DEF Editors, Events, Kinds, Sent, K!Status, K!Busy
  <1>1. CASE v.kind = "remote"
    BY <1>1 DEF K!OnEvent, K!OnRemote, K!Fresh, K!Dirty
  <1>2. CASE v.kind = "reloaded"
    BY <1>2 DEF K!OnEvent, K!Fresh
  <1>3. CASE v.kind = "saved"
    BY <1>3 DEF K!OnEvent
  <1>4. CASE v.kind = "revoked"
    BY <1>4 DEF K!OnEvent, K!Fresh, K!Text
  <1>5. CASE v.kind \in {"stale", "rejected"}
    BY <1>5 DEF K!OnEvent
  <1> QED
    BY <1>1, <1>2, <1>3, <1>4, <1>5

-----------------------------------------------------------------------------
\* The commands, sent and taken in order.
LEMMA SendFits ==
    ASSUME NEW q, NEW e, CommandsFit(q, e), \A j \in DOMAIN q : q[j].kind # "open",
           NEW c \in Commands, Fits(c, e)
    PROVE  CommandsFit(Append(q, c), e)
  <1>1. q \in Seq(Commands)
    BY DEF CommandsFit
  <1>2. Append(q, c) \in Seq(Commands) /\ Len(Append(q, c)) = Len(q) + 1
    BY <1>1
  <1>3. \A j \in DOMAIN Append(q, c) : 
          IF j = Len(q) + 1 THEN Append(q, c)[j] = c ELSE j \in DOMAIN q /\ Append(q, c)[j] = q[j]
    BY <1>1
  <1> QED
    BY <1>2, <1>3 DEF CommandsFit

LEMMA TakeFits ==
    ASSUME NEW q, NEW e, CommandsFit(q, e), q # <<>>
    PROVE  /\ CommandsFit(Tail(q), e)
           /\ Head(q) \in Commands /\ Fits(Head(q), e)
           /\ Head(q).kind = "open" => Tail(q) = <<>>
  <1>1. q \in Seq(Commands) /\ Head(q) = q[1] /\ 1 \in DOMAIN q
    BY DEF CommandsFit
  <1>2. Tail(q) \in Seq(Commands) /\ Len(Tail(q)) = Len(q) - 1 /\ Len(q) \in Nat
    BY <1>1
  <1>3. \A j \in DOMAIN Tail(q) : j \in Nat /\ j + 1 \in DOMAIN q /\ Tail(q)[j] = q[j + 1]
    BY <1>1
  <1>4. CommandsFit(Tail(q), e)
    BY <1>2, <1>3 DEF CommandsFit
  <1>5. Head(q) \in Commands /\ Fits(Head(q), e)
    BY <1>1 DEF CommandsFit
  <1>6. ASSUME Head(q).kind = "open" PROVE Tail(q) = <<>>
    <2>1. Len(q) = 1
      BY <1>1, <1>6 DEF CommandsFit
    <2>2. Len(Tail(q)) = 0 /\ Tail(q) \in Seq(Commands)
      BY <1>2, <2>1
    <2> QED
      BY <2>2, EmptySeq
  <1> QED
    BY <1>4, <1>5, <1>6

\* An editor that is open changes and stays with its document.
LEMMA EditFits ==
    ASSUME NEW e, NEW k, EditorsFit(e, k), NEW i \in Editor, e[i].open,
           NEW x \in Editors, x.doc = e[i].doc, x.open => x.saved \in k[x.doc],
           NEW q, EventsFit(q, e, k), x.open \/ q[i] = <<>>,
           NEW s, NEW h, Registered(s, h, e, k), NEW c, CommandsFit(c, e)
    PROVE  /\ EditorsFit([e EXCEPT ![i] = x], k)
           /\ EventsFit(q, [e EXCEPT ![i] = x], k)
           /\ Registered(s, h, [e EXCEPT ![i] = x], k)
           /\ CommandsFit(c, [e EXCEPT ![i] = x])
  <1> DEFINE f == [e EXCEPT ![i] = x]
  <1>1. /\ f \in [Editor -> Editors] /\ f[i] = x
        /\ \A y \in Editor : f[y].doc = e[y].doc /\ (y # i => f[y] = e[y])
    BY DEF EditorsFit
  <1> HIDE DEF f
  <1>2. EditorsFit(f, k)
    BY <1>1 DEF EditorsFit
  <1>3. EventsFit(q, f, k)
    BY <1>1 DEF EventsFit
  <1>4. Registered(s, h, f, k)
    BY <1>1 DEF Registered
  <1>5. ASSUME NEW j \in DOMAIN c PROVE Fits(c[j], f)
    <2>1. Fits(c[j], e)
      BY DEF CommandsFit
    <2> QED
      BY <2>1, <1>1 DEF Fits
  <1>6. CommandsFit(c, f)
    BY <1>5 DEF CommandsFit
  <1> QED
    BY <1>2, <1>3, <1>4, <1>6 DEF f

\* A document that had more texts had those it had.
LEMMA HadMore ==
    ASSUME NEW k, NEW l, \A d \in Doc : k[d] \subseteq l[d],
           NEW e, EditorsFit(e, k), NEW q, EventsFit(q, e, k),
           NEW s, NEW h, Registered(s, h, e, k)
    PROVE  /\ \A view : Had(view, k) => Had(view, l)
           /\ EditorsFit(e, l) /\ EventsFit(q, e, l) /\ Registered(s, h, e, l)
  <1>1. \A view : Had(view, k) => Had(view, l)
    BY DEF Had
  <1>2. EditorsFit(e, l)
    BY DEF EditorsFit
  <1>3. ASSUME NEW i \in Editor, NEW j \in DOMAIN q[i] PROVE Sent(q[i][j], l[e[i].doc])
    <2>1. e[i].open
      BY DEF EventsFit
    <2>2. k[e[i].doc] \subseteq l[e[i].doc]
      BY <2>1 DEF EditorsFit
    <2> QED
      BY <2>2 DEF EventsFit, Sent
  <1>4. EventsFit(q, e, l)
    BY <1>3 DEF EventsFit
  <1>5. Registered(s, h, e, l)
    BY DEF Registered
  <1> QED
    BY <1>1, <1>2, <1>4, <1>5

-----------------------------------------------------------------------------
\* What the UI thread does.
LEMMA DrainKeeps ==
    ASSUME KInv, NEW i \in Editor, K!Drain(i)
    PROVE  KInv'
  <1> DEFINE v == Head(events[i])
             x == K!OnEvent(ed[i], v)
             q == [events EXCEPT ![i] = Tail(@)]
  <1>1. /\ events[i] # <<>> /\ ed[i].open /\ ed' = [ed EXCEPT ![i] = x] /\ events' = q
        /\ UNCHANGED <<conf, store, moved, edits, kept, seen, mounted, bindings, subs, hub,
                       cmds, clip, fresh>>
    BY DEF K!Drain, K!Becomes, K!endpoint, K!hubState
  <1>2. /\ events[i] \in Seq(Events) /\ events \in [Editor -> Seq(Events)]
        /\ \A j \in DOMAIN events[i] : Sent(events[i][j], kept[ed[i].doc])
    BY DEF KInv, EventsFit
  <1>3. v \in Events /\ Sent(v, kept[ed[i].doc])
    BY <1>1, <1>2
  <1>4. ed[i] \in Editors /\ ed[i].doc \in Doc /\ ed[i].saved \in kept[ed[i].doc]
    BY <1>1 DEF KInv, EditorsFit
  <1>5. /\ x \in Editors /\ x.doc = ed[i].doc /\ x.open
        /\ x.saved \in kept[x.doc]
    <2>1. {} \in kept[ed[i].doc]
      BY <1>4 DEF KInv, HeldWasKept
    <2> HIDE DEF v
    <2>2. x \in Editors /\ x.doc = ed[i].doc /\ x.saved \in kept[ed[i].doc]
      BY <1>3, <1>4, <2>1, FoldFits
    <2>3. x.open \in {TRUE, ed[i].open}
      BY <1>3, <1>4, <2>1, FoldFits
    <2> QED
      BY <2>2, <2>3, <1>1
  <1>6. EventsFit(q, ed, kept)
    <2>1. Tail(events[i]) \in Seq(Events)
      BY <1>1, <1>2
    <2>2. q \in [Editor -> Seq(Events)]
      BY <1>2, <2>1
    <2>3. ASSUME NEW y \in Editor, NEW j \in DOMAIN q[y] PROVE Sent(q[y][j], kept[ed[y].doc])
      <3>1. CASE y # i
        BY <3>1, <2>3, <1>2 DEF KInv, EventsFit
      <3>2. CASE y = i
        <4>1. q[y] = Tail(events[i])
          BY <3>2, <1>2
        <4>2. j + 1 \in DOMAIN events[i] /\ q[y][j] = events[i][j + 1]
          BY <4>1, <2>3, <1>1, <1>2
        <4> QED
          BY <4>2, <1>2, <3>2
      <3> QED
        BY <3>1, <3>2
    <2>4. ASSUME NEW y \in Editor, ~ ed[y].open PROVE q[y] = <<>>
      BY <2>4, <1>1 DEF KInv, EventsFit
    <2> QED
      BY <2>2, <2>3, <2>4 DEF EventsFit
  <1> HIDE DEF q, x
  <1>7. /\ EditorsFit([ed EXCEPT ![i] = x], kept) /\ EventsFit(q, [ed EXCEPT ![i] = x], kept)
        /\ Registered(subs, hub, [ed EXCEPT ![i] = x], kept)
        /\ CommandsFit(cmds, [ed EXCEPT ![i] = x])
    BY <1>1, <1>5, <1>6, EditFits DEF KInv
  <1>8. /\ EditorsFit(ed, kept)' /\ EventsFit(events, ed, kept)' /\ CommandsFit(cmds, ed)'
        /\ Registered(subs, hub, ed, kept)'
    BY <1>1, <1>7
  <1>9. KnotTypes'
    BY <1>1 DEF KInv, KnotTypes
  <1>10. HeldWasKept'
    BY <1>1 DEF KInv, HeldWasKept
  <1> QED
    BY <1>8, <1>9, <1>10 DEF KInv

LEMMA TypeKeeps ==
    ASSUME KInv, NEW i \in Editor, K!Type(i)
    PROVE  KInv'
  <1> DEFINE x == [ed[i] EXCEPT !.text = @ \cup {edits + 1}]
  <1>1. /\ edits < MaxEdits /\ edits' = edits + 1 /\ ed[i].open /\ ed' = [ed EXCEPT ![i] = x]
        /\ UNCHANGED <<conf, store, moved, kept, seen, mounted, bindings, subs, hub,
                       cmds, events, clip, fresh>>
    BY DEF K!Type, K!Becomes, K!hubState
  <1>2. edits \in 0..MaxEdits
    BY DEF KInv, KnotTypes
  <1>3. ed[i] \in Editors /\ ed[i].saved \in kept[ed[i].doc]
    BY <1>1 DEF KInv, EditorsFit
  <1>4. x \in Editors /\ x.doc = ed[i].doc /\ x.open /\ x.saved \in kept[x.doc]
    <2>1. ed[i].text \cup {edits + 1} \in K!Text
      BY <1>1, <1>2, <1>3 DEF Editors, K!Text
    <2> QED
      BY <1>1, <1>3, <2>1 DEF Editors
  <1> HIDE DEF x
  <1>5. /\ EditorsFit([ed EXCEPT ![i] = x], kept) /\ EventsFit(events, [ed EXCEPT ![i] = x], kept)
        /\ Registered(subs, hub, [ed EXCEPT ![i] = x], kept)
        /\ CommandsFit(cmds, [ed EXCEPT ![i] = x])
    BY <1>1, <1>4, EditFits DEF KInv
  <1>6. /\ EditorsFit(ed, kept)' /\ EventsFit(events, ed, kept)' /\ CommandsFit(cmds, ed)'
        /\ Registered(subs, hub, ed, kept)'
    BY <1>1, <1>5
  <1>7. KnotTypes'
    BY <1>1, <1>2 DEF KInv, KnotTypes
  <1>8. HeldWasKept'
    BY <1>1 DEF KInv, HeldWasKept
  <1> QED
    BY <1>6, <1>7, <1>8 DEF KInv

\* While the UI thread does something, nothing it waits for is queued.
LEMMA NobodyOpens ==
    ASSUME KInv, ~ K!UiWaits
    PROVE  \A j \in DOMAIN cmds : cmds[j].kind # "open"
BY DEF KInv, CommandsFit, K!UiWaits, K!Range

\* What an editor asks for is sent, or refused when the hub has ended.
LEMMA RequestKeeps ==
    ASSUME KInv, ~ K!UiWaits, NEW i \in Editor, NEW c \in Commands, Fits(c, ed),
           NEW status \in K!Status, K!Request(i, c, status),
           UNCHANGED <<conf, store, moved, edits, kept, seen, mounted, bindings, subs, hub,
                       events, clip, fresh>>
    PROVE  KInv'
  <1>1. PICK s \in K!Status : ed[i].open /\ ed' = [ed EXCEPT ![i] = [ed[i] EXCEPT !.status = s]]
    <2>1. "rejected" \in K!Status
      BY DEF K!Status
    <2> QED
      BY <2>1 DEF K!Request, K!Becomes
  <1>2. cmds' = cmds \/ cmds' = Append(cmds, c)
    BY DEF K!Request
  <1>3. CommandsFit(cmds', ed)
    <2>1. CommandsFit(cmds, ed) /\ CommandsFit(Append(cmds, c), ed)
      BY NobodyOpens, SendFits DEF KInv
    <2> QED
      BY <2>1, <1>2
  <1> DEFINE x == [ed[i] EXCEPT !.status = s]
  <1>4. x \in Editors /\ x.doc = ed[i].doc /\ x.open /\ x.saved \in kept[x.doc]
    <2>1. ed[i] \in Editors /\ ed[i].saved \in kept[ed[i].doc]
      BY <1>1 DEF KInv, EditorsFit
    <2> QED
      BY <1>1, <2>1 DEF Editors
  <1>5. ed' = [ed EXCEPT ![i] = x]
    BY <1>1
  <1> HIDE DEF x
  <1>6. /\ EditorsFit([ed EXCEPT ![i] = x], kept) /\ EventsFit(events, [ed EXCEPT ![i] = x], kept)
        /\ Registered(subs, hub, [ed EXCEPT ![i] = x], kept)
    BY <1>1, <1>4, EditFits DEF KInv
  <1>7. \A q : CommandsFit(q, ed) => CommandsFit(q, [ed EXCEPT ![i] = x])
    BY <1>1, <1>4, EditFits DEF KInv
  <1>8. /\ EditorsFit(ed, kept)' /\ EventsFit(events, ed, kept)'
        /\ Registered(subs, hub, ed, kept)'
    BY <1>5, <1>6
  <1>9. CommandsFit(cmds, ed)'
    BY <1>3, <1>5, <1>7
  <1>10. KnotTypes' /\ HeldWasKept'
    BY DEF KInv, KnotTypes, HeldWasKept
  <1> QED
    BY <1>8, <1>9, <1>10 DEF KInv

\* A command for an open editor.
LEMMA CommandType ==
    ASSUME NEW i \in Editor, NEW kind \in Asks \ {"open"}, NEW t \in K!Text, NEW x \in K!Text
    PROVE  K!Command(kind, i, t, x) \in Commands /\ Fits(K!Command(kind, i, t, x), ed)
BY DEF K!Command, Commands, Fits, Asks

LEMMA NoText == {} \in K!Text
BY DEF K!Text

LEMMA AsksKeep ==
    ASSUME KInv, ~ K!UiWaits, NEW i \in Editor,
           K!Save(i) \/ K!Reload(i) \/ \E k \in K!Effect : K!InvokeEffect(i, k)
    PROVE  KInv'
  <1>1. CASE K!Save(i)
    <2>1. ed[i].base \in K!Text /\ ed[i].text \in K!Text
      BY DEF KInv, EditorsFit, Editors
    <2>2. /\ K!Command("save", i, ed[i].base, ed[i].text) \in Commands
          /\ Fits(K!Command("save", i, ed[i].base, ed[i].text), ed)
      BY <2>1, CommandType DEF Asks
    <2>3. "saving" \in K!Status
      BY DEF K!Status, K!Busy
    <2> QED
      BY <1>1, <2>2, <2>3, RequestKeeps DEF K!Save, K!endpoint, K!hubState
  <1>2. CASE K!Reload(i)
    <2>1. /\ K!Command("reload", i, {}, {}) \in Commands
          /\ Fits(K!Command("reload", i, {}, {}), ed)
      BY NoText, CommandType DEF Asks
    <2>2. "reloading" \in K!Status
      BY DEF K!Status, K!Busy
    <2> QED
      BY <1>2, <2>1, <2>2, RequestKeeps DEF K!Reload, K!endpoint, K!hubState
  <1>3. ASSUME NEW k \in K!Effect, K!InvokeEffect(i, k) PROVE KInv'
    <2>1. /\ K!Command(k, i, {}, {}) \in Commands /\ Fits(K!Command(k, i, {}, {}), ed)
      BY NoText, CommandType DEF Asks, K!Effect
    <2>2. (IF k = "resolve" THEN "resolving" ELSE "running") \in K!Status
      BY DEF K!Status, K!Busy
    <2> QED
      BY <1>3, <2>1, <2>2, RequestKeeps DEF K!InvokeEffect, K!endpoint, K!hubState
  <1> QED
    BY <1>1, <1>2, <1>3

LEMMA DropKeeps ==
    ASSUME KInv, ~ K!UiWaits, NEW i \in Editor, K!Drop(i)
    PROVE  KInv'
  <1> DEFINE x == K!Dropped(ed[i])
             q == [events EXCEPT ![i] = <<>>]
  <1>1. /\ ed[i].open /\ ed' = [ed EXCEPT ![i] = x] /\ events' = q
        /\ cmds' = cmds \/ cmds' = Append(cmds, K!Command("unregister", i, {}, {}))
        /\ UNCHANGED <<conf, store, moved, edits, kept, seen, mounted, bindings, subs, hub,
                       clip, fresh>>
    BY DEF K!Drop, K!Becomes, K!endpoint, K!hubState
  <1>2. x \in Editors /\ x.doc = ed[i].doc /\ ~ x.open
    <2>1. ed[i] \in Editors
      BY DEF KInv, EditorsFit
    <2> QED
      BY <2>1, NoText DEF Editors, K!Dropped, K!Closed, K!Status
  <1>3. q[i] = <<>> /\ EventsFit(q, ed, kept)
    BY DEF KInv, EventsFit
  <1>4. CommandsFit(cmds', ed)
    <2>1. CommandsFit(cmds, ed)
      BY DEF KInv
    <2>2. /\ K!Command("unregister", i, {}, {}) \in Commands
          /\ Fits(K!Command("unregister", i, {}, {}), ed)
      BY NoText, CommandType DEF Asks
    <2>3. CommandsFit(Append(cmds, K!Command("unregister", i, {}, {})), ed)
      BY <2>1, <2>2, NobodyOpens, SendFits
    <2> QED
      BY <2>1, <2>3, <1>1
  <1> HIDE DEF x, q
  <1>5. /\ EditorsFit([ed EXCEPT ![i] = x], kept) /\ EventsFit(q, [ed EXCEPT ![i] = x], kept)
        /\ Registered(subs, hub, [ed EXCEPT ![i] = x], kept)
    BY <1>1, <1>2, <1>3, EditFits DEF KInv
  <1>6. \A p : CommandsFit(p, ed) => CommandsFit(p, [ed EXCEPT ![i] = x])
    BY <1>1, <1>2, <1>3, EditFits DEF KInv
  <1>7. CommandsFit(cmds, ed)'
    BY <1>1, <1>4, <1>6
  <1>8. KnotTypes' /\ HeldWasKept'
    BY <1>1 DEF KInv, KnotTypes, HeldWasKept
  <1> QED
    BY <1>1, <1>5, <1>7, <1>8 DEF KInv

LEMMA ClipKeeps ==
    ASSUME KInv, ~ K!UiWaits, K!InsertClip
    PROVE  KInv'
  <1> DEFINE c == K!Command("clip", NoDoc, {}, {})
  <1>1. c \in Commands /\ Fits(c, ed)
    BY NoText DEF K!Command, Commands, Fits, Asks
  <1>2. cmds' = cmds \/ cmds' = Append(cmds, c)
    BY DEF K!InsertClip
  <1> HIDE DEF c
  <1>3. CommandsFit(cmds', ed)
    <2>1. CommandsFit(cmds, ed) /\ CommandsFit(Append(cmds, c), ed)
      BY <1>1, NobodyOpens, SendFits DEF KInv
    <2> QED
      BY <2>1, <1>2
  <1> QED
    BY <1>3 DEF KInv, KnotTypes, HeldWasKept, K!InsertClip, K!endpoint, K!hubState

LEMMA AskOpenKeeps ==
    ASSUME KInv, ~ K!UiWaits, NEW i \in Editor, NEW d \in Doc, K!AskOpen(i, d)
    PROVE  KInv'
  <1> DEFINE c == [K!Command("open", i, {}, {}) EXCEPT !.token = d]
  <1>1. ~ ed[i].open
    BY DEF K!AskOpen, K!Closed
  <1>2. c \in Commands /\ Fits(c, ed)
    BY <1>1, NoText DEF K!Command, Commands, Fits, Asks
  <1>3. cmds' = Append(cmds, c)
    BY DEF K!AskOpen
  <1> HIDE DEF c
  <1>4. CommandsFit(Append(cmds, c), ed)
    BY <1>2, NobodyOpens, SendFits DEF KInv
  <1> QED
    BY <1>3, <1>4 DEF KInv, KnotTypes, HeldWasKept, K!AskOpen, K!endpoint, K!hubState

-----------------------------------------------------------------------------
\* What the hub does.
LEMMA Taken ==
    ASSUME KInv, NEW kind, K!Take(kind)
    PROVE  /\ cmds' = Tail(cmds) /\ Head(cmds).kind = kind /\ hub = K!Idle
           /\ CommandsFit(Tail(cmds), ed) /\ Head(cmds) \in Commands /\ Fits(Head(cmds), ed)
           /\ kind # "clip" => K!Asker \in Editor
  <1>1. CommandsFit(Tail(cmds), ed) /\ Head(cmds) \in Commands /\ Fits(Head(cmds), ed)
    BY TakeFits DEF KInv, K!Take
  <1>2. kind # "clip" => K!Asker \in Editor
    BY <1>1 DEF Fits, K!Asker, K!Take
  <1> QED
    BY <1>1, <1>2 DEF K!Take

\* An opened document sends its effects.
LEMMA AutoFits ==
    ASSUME KInv, NEW i \in Editor, NEW e
    PROVE  CommandsFit(K!Auto(i), e)
  <1>1. ASSUME NEW k \in {"resolve", "run"}
        PROVE  /\ K!AutoOf(k, i) \in Seq(Commands)
               /\ \A j \in DOMAIN K!AutoOf(k, i) : K!AutoOf(k, i)[j] = K!Command(k, i, {}, {})
    <2>1. K!Command(k, i, {}, {}) \in Commands
      BY NoText, CommandType DEF Asks
    <2> QED
      BY <2>1 DEF K!AutoOf
  <1> DEFINE p == K!AutoOf("resolve", i)
             q == K!AutoOf("run", i)
  <1>2. p \in Seq(Commands) /\ q \in Seq(Commands)
    BY <1>1
  <1>3. /\ \A j \in DOMAIN p : p[j] = K!Command("resolve", i, {}, {})
        /\ \A j \in DOMAIN q : q[j] = K!Command("run", i, {}, {})
    BY <1>1
  <1>4. K!Auto(i) = p \o q
    BY DEF K!Auto
  <1> HIDE DEF p, q
  <1>5. ASSUME NEW j \in DOMAIN (p \o q)
        PROVE  (p \o q)[j] \in {K!Command("resolve", i, {}, {}), K!Command("run", i, {}, {})}
    <2>1. (j \in DOMAIN p /\ (p \o q)[j] = p[j])
          \/ (j - Len(p) \in DOMAIN q /\ (p \o q)[j] = q[j - Len(p)])
      BY <1>2
    <2> QED
      BY <2>1, <1>3
  <1>6. /\ Fits(K!Command("resolve", i, {}, {}), e) /\ Fits(K!Command("run", i, {}, {}), e)
        /\ K!Command("resolve", i, {}, {}).kind # "open"
        /\ K!Command("run", i, {}, {}).kind # "open"
    BY DEF Fits, K!Command
  <1>7. p \o q \in Seq(Commands)
    BY <1>2
  <1>8. ASSUME NEW j \in DOMAIN (p \o q)
        PROVE  Fits((p \o q)[j], e) /\ (p \o q)[j].kind # "open"
    BY <1>5, <1>6
  <1> QED
    BY <1>4, <1>7, <1>8 DEF CommandsFit

\* What is bound for an address was disclosed for it.
LEMMA EnsureHad ==
    ASSUME KInv, NEW d \in Doc, K!Ensure(d), kept' = kept
    PROVE  /\ Had(seen, kept)' /\ Had(bindings, kept)'
           /\ mounted' \in BOOLEAN /\ moved' \in BOOLEAN
  <1>1. Had(store, kept) /\ Had(seen, kept) /\ Had(bindings, kept) /\ moved \in BOOLEAN /\ mounted \in BOOLEAN
    BY DEF KInv, HeldWasKept, KnotTypes
  <1>2. Had(seen', kept)
    BY <1>1 DEF K!Ensure
  <1>3. mounted' \in BOOLEAN /\ moved' \in BOOLEAN
    BY <1>1 DEF K!Ensure
  <1>4. bindings' = bindings \/ (seen'[d] # NoDoc /\ bindings' = [bindings EXCEPT ![d] = seen'[d]])
    BY DEF K!Ensure, K!Resolves
  <1>5. Had(bindings', kept)
    BY <1>1, <1>2, <1>4 DEF Had
  <1> QED
    BY <1>2, <1>3, <1>5

LEMMA OpenKeeps ==
    ASSUME KInv, K!Open
    PROVE  KInv'
  <1> DEFINE d == Head(cmds).token
  <1>1. /\ hub = K!Idle /\ cmds # <<>> /\ Head(cmds).kind = "open"
        /\ UNCHANGED <<conf, store, edits, kept, hub, events, clip, fresh>>
        /\ K!Ensure(d)
    BY DEF K!Open
  <1>2. /\ d \in Doc /\ K!Asker \in Editor /\ ~ ed[K!Asker].open /\ Tail(cmds) = <<>>
    <2>1. Fits(Head(cmds), ed) /\ Tail(cmds) = <<>>
      BY <1>1, TakeFits DEF KInv
    <2> QED
      BY <1>1, <2>1 DEF Fits, K!Asker
  <1> HIDE DEF d
  <1>3. /\ Had(seen, kept)' /\ Had(bindings, kept)' /\ mounted' \in BOOLEAN /\ moved' \in BOOLEAN
    BY <1>1, <1>2, EnsureHad
  <1>4. \/ /\ bindings'[d] # NoDoc /\ subs' = subs \cup {K!Asker}
           /\ ed' = [ed EXCEPT ![K!Asker] = K!Fresh(d, bindings'[d])]
           /\ cmds' = Tail(cmds) \o K!Auto(K!Asker)
        \/ /\ ed' = [ed EXCEPT ![K!Asker] = [K!Closed EXCEPT !.doc = d]]
           /\ cmds' = Tail(cmds) /\ UNCHANGED subs
    BY DEF K!Open, d
  <1>5. PICK x \in Editors :
           /\ ed' = [ed EXCEPT ![K!Asker] = x] /\ x.doc = d /\ (x.open => x.saved \in kept[d])
    <2>1. CASE bindings'[d] # NoDoc /\ ed' = [ed EXCEPT ![K!Asker] = K!Fresh(d, bindings'[d])]
      <3>1. bindings'[d] \in K!Text /\ bindings'[d] \in kept[d]
        BY <1>1, <1>2, <1>3, <2>1 DEF Had
      <3>2. K!Fresh(d, bindings'[d]) \in Editors
        BY <3>1, <1>2 DEF K!Fresh, Editors, K!Status
      <3> QED
        BY <2>1, <3>1, <3>2 DEF K!Fresh
    <2>2. CASE ed' = [ed EXCEPT ![K!Asker] = [K!Closed EXCEPT !.doc = d]]
      <3>1. [K!Closed EXCEPT !.doc = d] \in Editors
        BY <1>2, NoText DEF K!Closed, Editors, K!Status
      <3> QED
        BY <2>2, <3>1 DEF K!Closed
    <2> QED
      BY <1>4, <2>1, <2>2
  <1>6. EditorsFit(ed, kept)'
    BY <1>1, <1>2, <1>5 DEF KInv, EditorsFit
  <1>7. events[K!Asker] = <<>>
    BY <1>2 DEF KInv, EventsFit
  <1>8. EventsFit(events, ed, kept)'
    <2>1. /\ \A y \in Editor : y # K!Asker => ed'[y] = ed[y]
      BY <1>2, <1>5 DEF KInv, EditorsFit
    <2>2. EventsFit(events, ed', kept)
      BY <1>2, <1>7, <2>1 DEF KInv, EventsFit
    <2> QED
      BY <1>1, <2>2
  <1>9. CommandsFit(cmds, ed)'
    <2>1. CommandsFit(K!Auto(K!Asker), ed')
      BY <1>2, AutoFits
    <2>2. K!Auto(K!Asker) \in Seq(Commands)
      BY <2>1 DEF CommandsFit
    <2>3. <<>> \o K!Auto(K!Asker) = K!Auto(K!Asker)
      BY <2>2
    <2>4. CommandsFit(<<>>, ed')
      BY DEF CommandsFit
    <2> QED
      BY <1>2, <1>4, <2>1, <2>3, <2>4
  <1>10. Registered(subs, hub, ed, kept)'
    <2>1. hub'.at = "idle"
      BY <1>1 DEF K!Idle
    <2>2. subs' \subseteq Editor
      BY <1>2, <1>4 DEF KInv, Registered
    <2>3. \A y \in subs' : ed'[y].doc \in Doc
      BY <1>2, <1>4, <1>5 DEF KInv, Registered, EditorsFit
    <2> QED
      BY <2>1, <2>2, <2>3 DEF Registered
  <1>11. HeldWasKept'
    BY <1>1, <1>3 DEF KInv, HeldWasKept
  <1>12. KnotTypes'
    BY <1>1, <1>3 DEF KInv, KnotTypes
  <1> QED
    BY <1>6, <1>8, <1>9, <1>10, <1>11, <1>12 DEF KInv

\* A document written keeps the texts it had, and has one more.
LEMMA WritesHad ==
    ASSUME KInv, NEW d \in Doc, NEW t \in K!Text, K!Writes(d, t)
    PROVE  /\ kept' \in [Doc -> SUBSET K!Text] /\ moved' \in BOOLEAN /\ fresh' \in BOOLEAN
           /\ t \in kept'[d] /\ \A x \in Doc : {} \in kept'[x]
           /\ Had(store', kept') /\ Had(seen, kept') /\ Had(bindings, kept')
           /\ EditorsFit(ed, kept') /\ EventsFit(events, ed, kept')
           /\ Registered(subs, hub, ed, kept')
  <1>1. kept \in [Doc -> SUBSET K!Text] /\ fresh \in BOOLEAN
    BY DEF KInv, KnotTypes
  <1>2. store' = [store EXCEPT ![d] = t] /\ kept' = [kept EXCEPT ![d] = @ \cup {t}]
    BY DEF K!Writes
  <1>3. /\ kept' \in [Doc -> SUBSET K!Text] /\ t \in kept'[d]
        /\ \A x \in Doc : kept[x] \subseteq kept'[x]
    BY <1>1, <1>2
  <1>4. moved' \in BOOLEAN /\ fresh' \in BOOLEAN
    BY <1>1 DEF K!Writes
  <1>5. Had(store, kept) /\ Had(seen, kept) /\ Had(bindings, kept) /\ \A x \in Doc : {} \in kept[x]
    BY DEF KInv, HeldWasKept
  <1>6. /\ Had(store, kept') /\ Had(seen, kept') /\ Had(bindings, kept')
        /\ EditorsFit(ed, kept') /\ EventsFit(events, ed, kept') /\ Registered(subs, hub, ed, kept')
    <2>1. EditorsFit(ed, kept) /\ EventsFit(events, ed, kept) /\ Registered(subs, hub, ed, kept)
      BY DEF KInv
    <2> DEFINE l == kept'
    <2>2. \A x \in Doc : kept[x] \subseteq l[x]
      BY <1>3
    <2> HIDE DEF l
    <2>3. /\ Had(store, l) /\ Had(seen, l) /\ Had(bindings, l)
          /\ EditorsFit(ed, l) /\ EventsFit(events, ed, l) /\ Registered(subs, hub, ed, l)
      BY <1>5, <2>1, <2>2, HadMore
    <2> QED
      BY <2>3 DEF l
  <1>7. Had(store', kept')
    BY <1>2, <1>3, <1>6 DEF Had
  <1> QED
    BY <1>3, <1>4, <1>5, <1>6, <1>7

LEMMA InvokeSaveKeeps ==
    ASSUME KInv, K!InvokeSave
    PROVE  KInv'
  <1> DEFINE d == ed[K!Asker].doc
             c == Head(cmds)
  <1>1. K!Take("save")
    BY DEF K!InvokeSave
  <1>2. /\ cmds' = Tail(cmds) /\ c.kind = "save" /\ hub = K!Idle
        /\ CommandsFit(Tail(cmds), ed) /\ c \in Commands /\ K!Asker \in Editor
    BY <1>1, Taken
  <1>3. UNCHANGED <<conf, edits, seen, mounted, bindings, subs, ed, clip>> /\ K!Asker \in subs
    BY DEF K!InvokeSave
  <1>4. d \in Doc /\ c.source \in K!Text
    BY <1>2, <1>3 DEF KInv, Registered, Commands
  <1>5. CommandsFit(cmds, ed)'
    BY <1>2, <1>3
  <1>6. CASE /\ K!Writes(d, c.source) /\ UNCHANGED events
             /\ hub' = [at |-> "saved", editor |-> K!Asker, source |-> c.source]
    <2> HIDE DEF d, c
    <2>1. /\ kept' \in [Doc -> SUBSET K!Text] /\ moved' \in BOOLEAN /\ fresh' \in BOOLEAN
          /\ c.source \in kept'[d] /\ \A x \in Doc : {} \in kept'[x]
          /\ Had(store', kept') /\ Had(seen, kept') /\ Had(bindings, kept')
          /\ EditorsFit(ed, kept') /\ EventsFit(events, ed, kept')
          /\ Registered(subs, hub, ed, kept')
      BY <1>4, <1>6, WritesHad
    <2>2. hub' \in Hubs
      BY <1>2, <1>4, <1>6 DEF Hubs
    <2>3. Registered(subs, hub', ed, kept')
      BY <1>2, <1>4, <1>6, <2>1 DEF Registered, d
    <2>4. KnotTypes'
      BY <1>3, <2>1, <2>2 DEF KInv, KnotTypes
    <2>5. HeldWasKept'
      BY <1>3, <2>1 DEF HeldWasKept
    <2> QED
      BY <1>3, <1>5, <1>6, <2>1, <2>3, <2>4, <2>5 DEF KInv
  <1>7. CASE /\ UNCHANGED <<store, moved, kept, hub, fresh>>
             /\ \/ events' = K!Post(K!Asker, K!Refused("stale"))
                \/ events' = K!Post(K!Asker, K!Refused("rejected"))
    <2>1. EventsFit(events', ed, kept)
      BY <1>2, <1>7, RefusalFits
    <2> QED
      BY <1>3, <1>5, <1>7, <2>1 DEF KInv, KnotTypes, HeldWasKept
  <1> QED
    BY <1>6, <1>7 DEF K!InvokeSave

\* A hub that is done saves nothing.
LEMMA IdleFits ==
    ASSUME NEW h, h.at \in {"idle", "clipped", "ended"}, NEW s, NEW g, NEW e, NEW k, Registered(s, g, e, k)
    PROVE  Registered(s, h, e, k)
BY DEF Registered

LEMMA IdleHub == K!Idle \in Hubs /\ K!Idle.at = "idle"
BY NoText DEF K!Idle, Hubs

LEMMA FinishSaveKeeps ==
    ASSUME KInv, K!FinishSave
    PROVE  KInv'
  <1> DEFINE i == hub.editor
             d == ed[i].doc
             v == K!Event("saved", store[d], hub.source)
  <1>1. /\ hub.at = "saved" /\ hub' = K!Idle
        /\ UNCHANGED <<conf, store, edits, kept, mounted, subs, cmds, ed, clip, fresh>>
    BY DEF K!FinishSave
  <1>2. i \in Editor /\ d \in Doc /\ hub.source \in kept[d] /\ hub.source \in K!Text
    BY <1>1 DEF KInv, Registered, KnotTypes, Hubs
  <1>3. Registered(subs, hub, ed, kept)'
    <2>1. Registered(subs, hub', ed, kept)
      BY <1>1, IdleHub, IdleFits DEF KInv
    <2> QED
      BY <1>1, <2>1
  <1>4. Had(store, kept) /\ Had(seen, kept) /\ Had(bindings, kept)
    BY DEF KInv, HeldWasKept
  <1>5. /\ Had(seen', kept) /\ moved' \in BOOLEAN
    BY <1>4 DEF K!FinishSave, K!Look, KInv, KnotTypes
  <1>6. EventsFit(events', ed, kept) /\ Had(bindings', kept)
    <2>1. CASE /\ K!Resolves(store, d)
               /\ events' = K!RefreshedEvents(store, K!Post(i, v))
               /\ bindings' = K!RefreshedBindings(store, bindings)
      <3>1. v \in Events /\ Sent(v, kept[d])
        <4>1. store[d] \in K!Text
          BY <1>2, <1>4, <2>1 DEF Had, K!Resolves
        <4> QED
          BY <1>2, <4>1 DEF K!Event, Events, Kinds, Sent
      <3> HIDE DEF v
      <3>2. EventsFit(K!Post(i, v), ed, kept)
        BY <1>2, <3>1, PostFits
      <3> DEFINE q == K!Post(i, v)
      <3> HIDE DEF q
      <3>3. EventsFit(q, ed, kept)
        BY <3>2 DEF q
      <3>4. EventsFit(K!RefreshedEvents(store, q), ed, kept) /\ Had(K!RefreshedBindings(store, bindings), kept)
        BY <3>3, <1>4, RefreshFits
      <3> QED
        BY <2>1, <3>4 DEF q
    <2>2. CASE events' = K!Post(i, K!Refused("rejected")) /\ UNCHANGED bindings
      <3>1. EventsFit(K!Post(i, K!Refused("rejected")), ed, kept)
        BY <1>2, RefusalFits
      <3> QED
        BY <2>2, <3>1, <1>4
    <2> QED
      BY <2>1, <2>2 DEF K!FinishSave
  <1>7. KnotTypes'
    BY <1>1, <1>5, IdleHub DEF KInv, KnotTypes
  <1>8. HeldWasKept'
    BY <1>1, <1>4, <1>5, <1>6 DEF KInv, HeldWasKept
  <1> QED
    BY <1>1, <1>3, <1>6, <1>7, <1>8 DEF KInv

\* A clip is written over the text its binding was disclosed with.
LEMMA InvokeClipKeeps ==
    ASSUME KInv, K!InvokeClip
    PROVE  KInv'
  <1> DEFINE view == IF mounted THEN seen ELSE store
             bound == IF bindings[ClipTarget] # NoDoc THEN bindings[ClipTarget]
                      ELSE IF K!Resolves(view, ClipTarget) THEN view[ClipTarget] ELSE NoDoc
  <1>1. K!Take("clip")
    BY DEF K!InvokeClip
  <1>2. cmds' = Tail(cmds) /\ hub = K!Idle /\ CommandsFit(Tail(cmds), ed)
    BY <1>1, Taken
  <1>3. /\ bindings' = [bindings EXCEPT ![ClipTarget] = bound] /\ mounted' = TRUE /\ seen' = view
        /\ UNCHANGED <<conf, subs, events, ed>>
    BY DEF K!InvokeClip
  <1>4. Had(store, kept) /\ Had(seen, kept) /\ Had(bindings, kept)
    BY DEF KInv, HeldWasKept
  <1>5. Had(view, kept)
    BY <1>4
  <1>6. bound # NoDoc => bound \in K!Text /\ bound \in kept[ClipTarget]
    BY <1>4, <1>5 DEF Had
  <1>7. CommandsFit(cmds, ed)'
    BY <1>2, <1>3
  <1>8. \A k : Had(bindings, k) /\ (bound # NoDoc => bound \in k[ClipTarget]) => Had(bindings', k)
    BY <1>3, <1>6 DEF Had
  <1>9. moved \in BOOLEAN /\ mounted \in BOOLEAN /\ edits \in 0..MaxEdits
    BY DEF KInv, KnotTypes
  <1>10. \/ /\ bound # NoDoc /\ edits < MaxEdits /\ edits' = edits + 1
            /\ K!Writes(ClipTarget, bound \cup {edits + 1})
            /\ hub' = [K!Idle EXCEPT !.at = "clipped"] /\ UNCHANGED clip
         \/ /\ clip' \in {"stale", "rejected"} /\ fresh' \in {fresh, FALSE}
            /\ moved' = (mounted /\ moved)
            /\ UNCHANGED <<store, edits, kept, hub>>
    BY DEF K!InvokeClip
  <1> HIDE DEF view, bound
  <1>11. CASE /\ bound # NoDoc /\ edits < MaxEdits /\ edits' = edits + 1
              /\ K!Writes(ClipTarget, bound \cup {edits + 1})
              /\ hub' = [K!Idle EXCEPT !.at = "clipped"] /\ UNCHANGED clip
    <2>1. bound \cup {edits + 1} \in K!Text
      BY <1>6, <1>9, <1>11 DEF K!Text
    <2>2. /\ kept' \in [Doc -> SUBSET K!Text] /\ moved' \in BOOLEAN /\ fresh' \in BOOLEAN
          /\ \A x \in Doc : {} \in kept'[x] /\ kept[x] \subseteq kept'[x]
          /\ Had(store', kept') /\ Had(seen, kept') /\ Had(bindings, kept')
          /\ EditorsFit(ed, kept') /\ EventsFit(events, ed, kept')
          /\ Registered(subs, hub, ed, kept')
      <3>1. \A x \in Doc : kept[x] \subseteq kept'[x]
        BY <1>11 DEF K!Writes, KInv, KnotTypes
      <3> QED
        BY <1>11, <2>1, <3>1, WritesHad
    <2>3. Had(seen', kept')
      BY <1>3, <1>5, <2>2 DEF Had
    <2>4. bound \in kept'[ClipTarget]
      BY <1>6, <1>11, <2>2
    <2>5. Had(bindings', kept')
      <3> DEFINE l == kept'
      <3>1. Had(bindings, l) /\ bound \in l[ClipTarget]
        BY <2>2, <2>4
      <3> HIDE DEF l
      <3>2. Had(bindings', l)
        BY <3>1, <1>8
      <3> QED
        BY <3>2 DEF l
    <2>6. hub' \in Hubs /\ hub'.at = "clipped"
      BY <1>11, NoText DEF K!Idle, Hubs
    <2>7. Registered(subs, hub', ed, kept')
      BY <2>2, <2>6 DEF Registered
    <2>8. KnotTypes'
      <3>1. edits' \in 0..MaxEdits
        BY <1>9, <1>11
      <3> QED
        BY <3>1, <1>3, <1>11, <2>2, <2>6 DEF KInv, KnotTypes
    <2>9. HeldWasKept'
      BY <2>2, <2>3, <2>5 DEF HeldWasKept
    <2> QED
      BY <1>3, <1>7, <2>2, <2>7, <2>8, <2>9 DEF KInv
  <1>12. CASE /\ clip' \in {"stale", "rejected"} /\ fresh' \in {fresh, FALSE}
              /\ moved' = (mounted /\ moved)
              /\ UNCHANGED <<store, edits, kept, hub>>
    <2>1. Had(bindings', kept)
      BY <1>4, <1>6, <1>8
    <2>2. HeldWasKept'
      BY <1>3, <1>4, <1>5, <1>12, <2>1 DEF KInv, HeldWasKept
    <2>3. KnotTypes'
      BY <1>3, <1>9, <1>12 DEF KInv, KnotTypes
    <2> QED
      BY <1>3, <1>7, <1>12, <2>2, <2>3 DEF KInv
  <1> QED
    BY <1>10, <1>11, <1>12

LEMMA FinishClipKeeps ==
    ASSUME KInv, K!FinishClip
    PROVE  KInv'
  <1> DEFINE b == [bindings EXCEPT ![ClipTarget] = store[ClipTarget]]
  <1>1. /\ hub' = K!Idle /\ clip' \in {"saved", "rejected"}
        /\ UNCHANGED <<conf, store, edits, kept, mounted, subs, cmds, ed, fresh>>
    BY DEF K!FinishClip
  <1>2. Registered(subs, hub, ed, kept)'
    <2>1. Registered(subs, hub', ed, kept)
      BY <1>1, IdleHub, IdleFits DEF KInv
    <2> QED
      BY <1>1, <2>1
  <1>3. Had(store, kept) /\ Had(seen, kept) /\ Had(bindings, kept) /\ EventsFit(events, ed, kept)
    BY DEF KInv, HeldWasKept
  <1>4. Had(seen', kept) /\ moved' \in BOOLEAN
    BY <1>3 DEF K!FinishClip, K!Look, KInv, KnotTypes
  <1>5. EventsFit(events', ed, kept) /\ Had(bindings', kept)
    <2>1. CASE events' = K!RefreshedEvents(store, events) /\ bindings' = K!RefreshedBindings(store, b)
      <3>1. EventsFit(K!RefreshedEvents(store, events), ed, kept)
        BY <1>3, RefreshFits
      <3>2. Had(b, kept)
        BY <1>3 DEF Had
      <3> HIDE DEF b
      <3>3. Had(K!RefreshedBindings(store, b), kept)
        BY <1>3, <3>2 DEF Had, K!RefreshedBindings, K!Resolves
      <3> QED
        BY <2>1, <3>1, <3>3
    <2>2. CASE UNCHANGED <<bindings, events>>
      BY <2>2, <1>3
    <2> QED
      BY <2>1, <2>2 DEF K!FinishClip
  <1>6. KnotTypes'
    BY <1>1, <1>4, IdleHub DEF KInv, KnotTypes
  <1>7. HeldWasKept'
    BY <1>1, <1>3, <1>4, <1>5 DEF KInv, HeldWasKept
  <1> QED
    BY <1>1, <1>2, <1>5, <1>6, <1>7 DEF KInv

LEMMA InvokeEffectKeeps ==
    ASSUME KInv, NEW k \in K!Effect, K!InvokeEffectNow(k)
    PROVE  KInv'
  <1>1. K!Take(k) /\ k # "clip"
    BY DEF K!InvokeEffectNow, K!Effect
  <1>2. cmds' = Tail(cmds) /\ hub = K!Idle /\ CommandsFit(Tail(cmds), ed) /\ K!Asker \in Editor
    BY <1>1, Taken
  <1>3. UNCHANGED <<conf, store, edits, kept, seen, mounted, bindings, subs, ed, clip, fresh>>
    BY DEF K!InvokeEffectNow
  <1>4. CASE /\ moved' = TRUE /\ UNCHANGED events
             /\ hub' = [K!Idle EXCEPT !.at = "effected", !.editor = K!Asker]
    <2>1. hub' \in Hubs /\ hub'.at = "effected" /\ hub'.editor = K!Asker
      BY <1>2, <1>4, NoText DEF K!Idle, Hubs
    <2>2. Registered(subs, hub', ed, kept)
      BY <1>2, <2>1 DEF KInv, Registered
    <2> QED
      BY <1>2, <1>3, <1>4, <2>1, <2>2 DEF KInv, KnotTypes, HeldWasKept
  <1>5. CASE /\ UNCHANGED <<moved, hub>>
             /\ \/ events' = K!Post(K!Asker, K!Refused("stale"))
                \/ events' = K!Post(K!Asker, K!Refused("rejected"))
    <2>1. EventsFit(events', ed, kept)
      BY <1>2, <1>5, RefusalFits
    <2> QED
      BY <1>2, <1>3, <1>5, <2>1 DEF KInv, KnotTypes, HeldWasKept
  <1> QED
    BY <1>4, <1>5 DEF K!InvokeEffectNow

LEMMA FinishEffectKeeps ==
    ASSUME KInv, K!FinishEffect
    PROVE  KInv'
  <1>1. /\ hub.at = "effected" /\ hub' = K!Idle
        /\ UNCHANGED <<conf, store, edits, kept, mounted, subs, cmds, ed, clip, fresh>>
    BY DEF K!FinishEffect
  <1>2. Registered(subs, hub, ed, kept)'
    <2>1. Registered(subs, hub', ed, kept)
      BY <1>1, IdleHub, IdleFits DEF KInv
    <2> QED
      BY <1>1, <2>1
  <1>3. /\ Had(store, kept) /\ Had(seen, kept) /\ Had(bindings, kept) /\ EventsFit(events, ed, kept)
        /\ hub.editor \in Editor
    BY <1>1 DEF KInv, HeldWasKept, Registered
  <1>4. Had(seen', kept) /\ moved' \in BOOLEAN
    BY <1>3 DEF K!FinishEffect, K!Look, KInv, KnotTypes
  <1>5. EventsFit(events', ed, kept) /\ Had(bindings', kept)
    <2>1. CASE events' = K!RefreshedEvents(store, events) /\ bindings' = K!RefreshedBindings(store, bindings)
      BY <2>1, <1>3, RefreshFits
    <2>2. CASE events' = K!Post(hub.editor, K!Refused("rejected")) /\ UNCHANGED bindings
      <3>1. EventsFit(K!Post(hub.editor, K!Refused("rejected")), ed, kept)
        BY <1>3, RefusalFits
      <3> QED
        BY <2>2, <3>1, <1>3
    <2> QED
      BY <2>1, <2>2 DEF K!FinishEffect
  <1>6. KnotTypes'
    BY <1>1, <1>4, IdleHub DEF KInv, KnotTypes
  <1>7. HeldWasKept'
    BY <1>1, <1>3, <1>4, <1>5 DEF KInv, HeldWasKept
  <1> QED
    BY <1>1, <1>2, <1>5, <1>6, <1>7 DEF KInv

LEMMA ReloadKeeps ==
    ASSUME KInv, K!ReloadNow
    PROVE  KInv'
  <1> DEFINE d == ed[K!Asker].doc
             v == K!Event("reloaded", seen[d], {})
  <1>1. K!Take("reload") /\ K!Asker \in subs
    BY DEF K!ReloadNow
  <1>2. cmds' = Tail(cmds) /\ CommandsFit(Tail(cmds), ed) /\ K!Asker \in Editor
    BY <1>1, Taken
  <1>3. UNCHANGED <<conf, store, moved, edits, kept, seen, mounted, subs, hub, ed, clip, fresh>>
    BY DEF K!ReloadNow, K!endpoint
  <1>4. d \in Doc /\ Had(seen, kept) /\ Had(bindings, kept)
    BY <1>1 DEF KInv, Registered, HeldWasKept
  <1>5. EventsFit(events', ed, kept) /\ Had(bindings', kept)
    <2>1. CASE K!Resolves(seen, d)
      <3>1. seen[d] \in K!Text /\ seen[d] \in kept[d]
        BY <1>4, <2>1 DEF Had, K!Resolves
      <3>2. v \in Events /\ Sent(v, kept[d])
        BY <3>1, NoText DEF K!Event, Events, Kinds, Sent
      <3>3. bindings' = [bindings EXCEPT ![d] = seen[d]] /\ events' = K!Post(K!Asker, v)
        BY <2>1 DEF K!ReloadNow
      <3> HIDE DEF v
      <3>4. EventsFit(K!Post(K!Asker, v), ed, kept)
        BY <1>2, <3>2, PostFits
      <3>5. Had([bindings EXCEPT ![d] = seen[d]], kept)
        BY <1>4, <3>1 DEF Had
      <3> QED
        BY <3>3, <3>4, <3>5
    <2>2. CASE ~ K!Resolves(seen, d)
      <3>1. events' = K!Post(K!Asker, K!Refused("revoked")) /\ UNCHANGED bindings
        BY <2>2 DEF K!ReloadNow
      <3>2. EventsFit(K!Post(K!Asker, K!Refused("revoked")), ed, kept)
        BY <1>2, RefusalFits
      <3> QED
        BY <3>1, <3>2, <1>4
    <2> QED
      BY <2>1, <2>2
  <1> QED
    BY <1>2, <1>3, <1>5 DEF KInv, KnotTypes, HeldWasKept

LEMMA UnregisterKeeps ==
    ASSUME KInv, K!Unregister
    PROVE  KInv'
  <1>1. K!Take("unregister")
    BY DEF K!Unregister
  <1>2. cmds' = Tail(cmds) /\ CommandsFit(Tail(cmds), ed)
    BY <1>1, Taken
  <1>3. /\ UNCHANGED <<conf, store, moved, edits, kept, seen, hub, events, ed, clip, fresh>>
        /\ subs' = subs \ {K!Asker} /\ mounted' \in {FALSE, mounted}
        /\ bindings' = [d \in Doc |-> NoDoc] \/ bindings' = bindings
    BY DEF K!Unregister, K!endpoint
  <1>4. Had(bindings', kept)
    <2>1. Had(bindings, kept) /\ Had([d \in Doc |-> NoDoc], kept)
      BY DEF KInv, HeldWasKept, Had
    <2> QED
      BY <1>3, <2>1
  <1>5. Registered(subs, hub, ed, kept)'
    BY <1>3 DEF KInv, Registered
  <1>6. KnotTypes'
    BY <1>3 DEF KInv, KnotTypes
  <1> QED
    BY <1>2, <1>3, <1>4, <1>5, <1>6 DEF KInv, HeldWasKept

LEMMA PollKeeps ==
    ASSUME KInv, K!Poll
    PROVE  KInv'
  <1>1. /\ seen' = store /\ moved' = FALSE
        /\ events' = K!RefreshedEvents(store, events)
        /\ bindings' = K!RefreshedBindings(store, bindings)
        /\ UNCHANGED <<conf, store, edits, kept, mounted, subs, hub, cmds, ed, clip, fresh>>
    BY DEF K!Poll, K!Look
  <1>2. Had(store, kept) /\ EventsFit(events, ed, kept)
    BY DEF KInv, HeldWasKept
  <1>3. EventsFit(events', ed, kept) /\ Had(bindings', kept)
    BY <1>1, <1>2, RefreshFits
  <1> QED
    BY <1>1, <1>2, <1>3 DEF KInv, KnotTypes, HeldWasKept

LEMMA PollFailsKeeps ==
    ASSUME KInv, K!PollFails
    PROVE  KInv'
  <1> DEFINE v == K!Refused("revoked")
  <1>1. /\ hub = K!Idle /\ hub' = [K!Idle EXCEPT !.at = "ended"] /\ cmds' = <<>>
        /\ events' = [i \in Editor |-> IF i \in subs /\ ed[i].open
                                       THEN Append(events[i], v) ELSE events[i]]
        /\ UNCHANGED <<conf, store, moved, edits, kept, seen, mounted, bindings, subs, ed, clip,
                       fresh>>
    BY DEF K!PollFails, K!endpoint
  <1>2. v \in Events /\ (\A those : Sent(v, those))
    BY NoText DEF K!Refused, K!Event, Events, Kinds, Sent
  <1> HIDE DEF v
  <1>3. EventsFit(events, ed, kept)
    BY DEF KInv
  <1>4. ASSUME NEW x \in Editor
        PROVE  /\ events'[x] \in Seq(Events) /\ (~ ed[x].open => events'[x] = <<>>)
               /\ \A j \in DOMAIN events'[x] : Sent(events'[x][j], kept[ed[x].doc])
    <2>1. events[x] \in Seq(Events)
      BY <1>3 DEF EventsFit
    <2>2. CASE x \in subs /\ ed[x].open
      <3>1. events'[x] = Append(events[x], v)
        BY <1>1, <2>2
      <3>2. \A j \in DOMAIN events'[x] :
              events'[x][j] = v \/ (j \in DOMAIN events[x] /\ events'[x][j] = events[x][j])
        BY <2>1, <1>2, <3>1
      <3> QED
        BY <3>1, <3>2, <2>1, <2>2, <1>2, <1>3 DEF EventsFit
    <2>3. CASE ~ (x \in subs /\ ed[x].open)
      BY <2>3, <1>1, <1>3 DEF EventsFit
    <2> QED
      BY <2>2, <2>3
  <1>5. EventsFit(events', ed, kept)
    <2>1. events' \in [Editor -> Seq(Events)]
      BY <1>1, <1>4
    <2> QED
      BY <1>4, <2>1 DEF EventsFit
  <1>6. hub' \in Hubs /\ hub'.at = "ended"
    BY <1>1, NoText DEF K!Idle, Hubs
  <1>7. Registered(subs, hub', ed, kept)
    BY <1>6, IdleFits DEF KInv
  <1>8. CommandsFit(<<>>, ed)
    BY DEF CommandsFit
  <1> QED
    BY <1>1, <1>5, <1>6, <1>7, <1>8 DEF KInv, KnotTypes, HeldWasKept

\* What other programs do.
LEMMA ExternalKeeps ==
    ASSUME KInv, K!External
    PROVE  KInv'
  <1>1. UNCHANGED <<conf, seen, mounted, bindings, subs, hub, cmds, events, ed, clip>>
    BY DEF K!External, K!hubState
  <1>2. PICK d \in Doc :
          /\ store[d] # NoDoc
          /\ \/ /\ edits < MaxEdits /\ edits' = edits + 1
                /\ K!Writes(d, store[d] \cup {edits + 1})
             \/ /\ store' = [store EXCEPT ![d] = NoDoc] /\ moved' = TRUE
                /\ fresh' = (fresh \/ d = ClipTarget) /\ UNCHANGED <<edits, kept>>
    BY DEF K!External
  <1>3. /\ Had(store, kept) /\ edits \in 0..MaxEdits /\ fresh \in BOOLEAN
    BY DEF KInv, KnotTypes, HeldWasKept
  <1>4. CASE edits < MaxEdits /\ edits' = edits + 1 /\ K!Writes(d, store[d] \cup {edits + 1})
    <2>1. store[d] \cup {edits + 1} \in K!Text
      <3>1. store[d] \in K!Text
        BY <1>2, <1>3 DEF Had
      <3> QED
        BY <3>1, <1>3, <1>4 DEF K!Text
    <2>2. /\ kept' \in [Doc -> SUBSET K!Text] /\ moved' \in BOOLEAN /\ fresh' \in BOOLEAN
          /\ \A x \in Doc : {} \in kept'[x]
          /\ Had(store', kept') /\ Had(seen, kept') /\ Had(bindings, kept')
          /\ EditorsFit(ed, kept') /\ EventsFit(events, ed, kept')
          /\ Registered(subs, hub, ed, kept')
      BY <1>4, <2>1, WritesHad
    <2>3. edits' \in 0..MaxEdits
      BY <1>3, <1>4
    <2>4. KnotTypes'
      BY <1>1, <2>2, <2>3 DEF KInv, KnotTypes
    <2>5. HeldWasKept'
      BY <1>1, <2>2 DEF HeldWasKept
    <2> QED
      BY <1>1, <2>2, <2>4, <2>5 DEF KInv
  <1>5. CASE /\ store' = [store EXCEPT ![d] = NoDoc] /\ moved' = TRUE
             /\ fresh' = (fresh \/ d = ClipTarget) /\ UNCHANGED <<edits, kept>>
    <2>1. Had(store', kept)
      BY <1>3, <1>5 DEF Had
    <2> QED
      BY <1>1, <1>3, <1>5, <2>1 DEF KInv, KnotTypes, HeldWasKept
  <1> QED
    BY <1>2, <1>4, <1>5

LEMMA KnotStep ==
    ASSUME KInv, [K!KnotNext]_(K!knotVars)
    PROVE  KInv'
  <1>1. CASE K!Ui
    BY <1>1, DrainKeeps, TypeKeeps, AsksKeep, DropKeeps, ClipKeeps, AskOpenKeeps DEF K!Ui
  <1>2. CASE K!Hub
    BY <1>2, OpenKeeps, InvokeSaveKeeps, FinishSaveKeeps, InvokeClipKeeps, FinishClipKeeps,
       InvokeEffectKeeps, FinishEffectKeeps, ReloadKeeps, UnregisterKeeps, PollKeeps DEF K!Hub
  <1>3. CASE K!PollFails \/ K!External
    BY <1>3, PollFailsKeeps, ExternalKeeps
  <1>4. CASE UNCHANGED K!knotVars
    BY <1>4 DEF K!knotVars, KInv, KnotTypes, HeldWasKept
  <1> QED
    BY <1>1, <1>2, <1>3, <1>4 DEF K!KnotNext

LEMMA KnotHolds == KInv => K!KnotTypeOK /\ K!SavedWasStored
  <1> SUFFICES ASSUME KInv PROVE K!KnotTypeOK /\ K!SavedWasStored
    OBVIOUS
  <1>1. /\ store \in [Doc -> K!Text \cup {NoDoc}] /\ seen \in [Doc -> K!Text \cup {NoDoc}]
        /\ bindings \in [Doc -> K!Text \cup {NoDoc}]
    BY DEF KInv, HeldWasKept, Had
  <1>2. subs \subseteq Editor /\ \A i \in Editor : ed[i].status \in K!Status
    BY DEF KInv, Registered, EditorsFit, Editors
  <1>3. hub.at \in {"idle", "saved", "clipped", "effected", "ended"}
    BY DEF KInv, KnotTypes, Hubs
  <1>4. K!KnotTypeOK
    BY <1>1, <1>2, <1>3 DEF KInv, KnotTypes, K!KnotTypeOK
  <1>5. K!SavedWasStored
    BY DEF K!SavedWasStored, KInv, EditorsFit
  <1> QED
    BY <1>4, <1>5

-----------------------------------------------------------------------------
(***************************************************************************)
(* Lanes, and all three.                                                   *)
(***************************************************************************)
LEMMA LanesInit == L!Init => L!TypeOK
BY DEF L!Init, L!TypeOK, L!Snapshot, L!Answer

LEMMA LanesStep ==
    ASSUME L!TypeOK, [L!Next]_(L!vars)
    PROVE  L!TypeOK'
  <1> USE DEF L!TypeOK
  <1>1. CASE L!Arrive
    BY <1>1 DEF L!Arrive
  <1>2. CASE L!Reopen
    BY <1>2 DEF L!Reopen
  <1>3. ASSUME NEW n \in Nat PROVE {L!Snapshot(n), L!Refusal(n), L!Nudge} \subseteq L!Update
    BY DEF L!Snapshot, L!Refusal, L!Update, L!Answer, L!Nudge
  <1>4. CASE L!JoinLive
    BY <1>3, <1>4 DEF L!JoinLive
  <1>5. CASE L!Resync
    BY <1>3, <1>5 DEF L!Resync
  <1>6. CASE L!FirstLook \/ L!Look
    <2>1. stored \in Nat
      OBVIOUS
    <2>2. \/ watcher' = [at |-> "tick", settled |-> stored, now |-> stored]
          \/ watcher' = [watcher EXCEPT !.at = "burst", !.now = stored]
      BY <1>6 DEF L!FirstLook, L!Look
    <2>3. watcher' \in [at : {"off", "start", "tick", "burst"}, settled : Nat, now : Nat]
      <3>1. watcher \in [at : {"off", "start", "tick", "burst"}, settled : Nat, now : Nat]
        OBVIOUS
      <3> HIDE DEF L!TypeOK
      <3>2. CASE watcher' = [at |-> "tick", settled |-> stored, now |-> stored]
        BY <3>2, <2>1
      <3>3. CASE watcher' = [watcher EXCEPT !.at = "burst", !.now = stored]
        BY <3>1, <2>1, <3>3
      <3> QED
        BY <2>2, <3>2, <3>3
    <2> QED
      BY <1>6, <2>3 DEF L!FirstLook, L!Look
  <1>7. CASE L!Settle
    <2>1. stored \in Nat
      OBVIOUS
    <2>2. watcher' \in [at : {"off", "start", "tick", "burst"}, settled : Nat, now : Nat]
      BY <1>7, <2>1 DEF L!Settle
    <2>3. updates' \in Seq(L!Update)
      BY <1>3, <1>7 DEF L!Settle
    <2> QED
      BY <1>7, <2>2, <2>3 DEF L!Settle
  <1>8. CASE L!Fold
    <2>1. Head(updates) \in L!Update /\ Tail(updates) \in Seq(L!Update)
      BY <1>8 DEF L!Fold
    <2>2. Head(updates) # L!Nudge => Head(updates) \in L!Answer
      BY <2>1 DEF L!Update
    <2> QED
      BY <1>8, <2>1, <2>2 DEF L!Fold
  <1>9. CASE UNCHANGED L!vars
    BY <1>9 DEF L!vars
  <1> QED
    BY <1>1, <1>2, <1>4, <1>5, <1>6, <1>7, <1>8, <1>9 DEF L!Next, L!Worker, L!Watcher

\* Every part keeps its own invariant.
PartsInv ==
    /\ Inv
    /\ part = "lanes" => L!TypeOK
    /\ part = "knot" => KInv

LEMMA PartsInit == ServicesInit => PartsInv
BY InvInit, LanesInit, KnotInit DEF ServicesInit, PartsInv

LEMMA PartsStep == PartsInv /\ [ServicesNext]_servicesVars => PartsInv'
  <1> SUFFICES ASSUME PartsInv, [ServicesNext]_servicesVars PROVE PartsInv'
    OBVIOUS
  <1>1. CASE ServicesNext
    <2>1. part' = part
      BY <1>1 DEF ServicesNext
    <2>2. Inv'
      <3>1. [Next]_vars
        BY <1>1 DEF ServicesNext
      <3> QED
        BY <3>1, InvStep DEF PartsInv
    <2>3. ASSUME part = "lanes" PROVE L!TypeOK'
      BY <1>1, <2>3, LanesStep DEF ServicesNext, PartsInv
    <2>4. ASSUME part = "knot" PROVE KInv'
      BY <1>1, <2>4, KnotStep DEF ServicesNext, PartsInv
    <2> QED
      BY <2>1, <2>2, <2>3, <2>4 DEF PartsInv
  <1>2. CASE UNCHANGED servicesVars
    <2>1. part' = part /\ UNCHANGED vars /\ UNCHANGED L!vars /\ UNCHANGED K!knotVars
      BY <1>2 DEF servicesVars, laneVars, knotVars, L!vars, K!knotVars
    <2> QED
      BY <2>1, InvStep, LanesStep, KnotStep DEF PartsInv
  <1> QED
    BY <1>1, <1>2

LEMMA PartsHold == ServicesSpec => []PartsInv
BY PartsInit, PartsStep, PTL DEF ServicesSpec

\* The sidecars, the watcher's lanes and the knots' hub and editors keep their
\* types (session.rs, place/lanes.rs, knot_authoring.rs), whatever is sent.
THEOREM ServicesTyped == ServicesSpec => []TypesHold
  <1>1. PartsInv => TypesHold
    BY KnotHolds DEF PartsInv, Inv, TypesHold
  <1> QED
    BY <1>1, PartsHold, PTL

\* What an editor of a knot calls saved, its document had (drain_events and
\* run_hub in knot_authoring.rs).
THEOREM SavedIsStored == ServicesSpec => []SavedWasStored
  <1>1. PartsInv => SavedWasStored
    BY KnotHolds DEF PartsInv, SavedWasStored
  <1> QED
    BY <1>1, PartsHold, PTL

=============================================================================
