-------------------------- MODULE StoreProofs --------------------------
(***************************************************************************)
(* SessionStore, for any number of sessions and images, any set of calls   *)
(* that fail and any number of failures: what the disk holds at any moment *)
(* a crash may come, and what a start of the app finds there.              *)
(*                                                                         *)
(* What is still to be done says what is not yet so.  The steps to be      *)
(* taken form a program of the shapes the effects produce (Follows looks   *)
(* from a step at those after it, so what remains of a program is one);    *)
(* while no save is among them the graph in memory is the one on disk and  *)
(* what was opened since (Saved), while no flush is at their head every    *)
(* session listed has its manifest (Listed), and only between the adoption *)
(* and the load of a session is the graph in memory another's (Loading).   *)
(***************************************************************************)
EXTENDS SessionStore, SequenceTheorems, TLAPS

\* What the code does after step j of a program, for the sessions listed and
\* the one shown.
Follows(p, j, those, shown) ==
    /\ p[j].op \in {"adopt", "copy"} => p[j].on \in those
    /\ p[j].op = "move" => p[j].on \in Session /\ j = Len(p)
    /\ p[j].op = "blob" => p[j].on \in Ref /\ p[j].on[1] = shown
    /\ p[j].op = "adopt" => Len(p) = j + 2 /\ p[j + 2].op = "load"
    /\ p[j].op = "load" => j = Len(p)
    /\ p[j].op = "gc" => \A k \in DOMAIN p : j < k => p[k].op # "graph"
    /\ p[j].op = "trash" => j < Len(p) /\ p[j + 1].op = "adopt" /\ p[j + 1].on # shown
    /\ p[j].op = "copy" => j < Len(p) /\ p[j + 1].op = "graph"
    /\ j < Len(p) => p[j + 1].op \notin {"blob", "move"}
    /\ Len(p) = j + 1 /\ p[j + 1].op = "load" => p[j].op = "manifest"
    /\ Len(p) = j + 2 /\ p[j + 2].op = "load" => p[j].op = "adopt"

\* What may be still to do.
Program(those, shown) == {p \in Seq(Step) : \A j \in DOMAIN p : Follows(p, j, those, shown)}

\* The step that comes next.
AtHead(op) == todo # <<>> /\ todo[1].op = op
\* A session is adopted and its graph not loaded.
Loading == todo # <<>> /\ Len(todo) <= 2 /\ todo[Len(todo)].op = "load"
\* A save of the graph is still to come.
Saving == \E j \in DOMAIN todo : todo[j].op = "graph"

\* The session shown is listed and marked, and no session in the trash is listed.
Shown ==
    /\ todo \in Program(listed, sess)
    /\ Loading => sess # None
    /\ sess # None => sess \in listed \/ AtHead("adopt")
    /\ sess # None /\ Ok("mark", sess) => mark = sess
    /\ listed \cap trash = {}
    /\ AtHead("move") => sess = None /\ todo[1].on \notin trash

\* What is listed has its manifest once it was flushed.
Listed ==
    ~ AtHead("manifest") => \A s \in listed : s \in manifests \/ ~ Ok("manifest", s)

\* Until the flat graph is moved, or that failed, there is nothing else.
Flat ==
    flat # None /\ Ok("move", None) =>
        /\ manifests = {} /\ listed = {} /\ trash = {}
        /\ sess = None
        /\ todo = <<>> \/ AtHead("move")

\* With no save to come, the graph shown is the one on disk and what was opened
\* since.
Saved ==
    sess # None /\ ~ Loading /\ ~ Saving /\ Ok("graph", sess) =>
        Loaded(sess) \subseteq graph /\ graph \ Loaded(sess) \subseteq opened

\* The graph shown has the nodes of the session shown ...
Own == sess # None /\ ~ Loading => \A x \in graph : x[1] = sess

\* ... and their images are stored, but for the one being stored and those whose
\* write failed.
Stored ==
    sess # None /\ ~ Loading /\ Ok("gc", sess) =>
        \A r \in graph \cap Ref :
            r \in blobs[sess] \/ ~ Ok("blob", r) \/ (AtHead("blob") /\ todo[1].on = r)

\* A graph on disk has the nodes of its own session.
OwnImages == \A s \in Session : graphs[s] # None => \A x \in graphs[s] : x[1] = s

\* The inductive invariant.
IInv ==
    /\ TypeOK /\ OwnImages /\ Shown /\ Listed /\ Flat
    /\ Saved /\ Own /\ Stored
    /\ ImagesKept /\ NoGraphForgotten

-----------------------------------------------------------------------------
(***************************************************************************)
(* Programs.                                                               *)
(***************************************************************************)
\* A step looks only at those after it.
LEMMA FollowsShifted ==
    ASSUME NEW p \in Seq(Step), NEW q \in Seq(Step), Len(q) = Len(p) + 1,
           \A j \in DOMAIN p : q[j + 1] = p[j],
           NEW those, NEW shown, NEW j \in DOMAIN p
    PROVE  Follows(p, j, those, shown) <=> Follows(q, j + 1, those, shown)
<1>1. Len(p) \in Nat /\ Len(q) \in Nat /\ DOMAIN p = 1..Len(p) /\ DOMAIN q = 1..Len(q) /\ j \in Nat
    BY LenProperties
<1>2. q[j + 1] = p[j]
    OBVIOUS
<1>3. j < Len(p) => p[j + 1] = q[j + 2]
    BY <1>1
<1>4. Len(p) = j + 2 => p[j + 2] = q[j + 3]
    BY <1>1
<1>5. ASSUME NEW k \in DOMAIN q, j + 1 < k
      PROVE  k - 1 \in DOMAIN p /\ j < k - 1 /\ p[k - 1] = q[k]
    BY <1>1, <1>5
<1>6. (\A k \in DOMAIN p : j < k => p[k].op # "graph")
        <=> (\A k \in DOMAIN q : j + 1 < k => q[k].op # "graph")
    <2>1. ASSUME NEW k \in DOMAIN p, j < k
          PROVE  k + 1 \in DOMAIN q /\ j + 1 < k + 1 /\ q[k + 1] = p[k]
        BY <1>1, <2>1
    <2>2. ASSUME \A k \in DOMAIN p : j < k => p[k].op # "graph", NEW k \in DOMAIN q, j + 1 < k
          PROVE  q[k].op # "graph"
        BY <1>5, <2>2
    <2>3. ASSUME \A k \in DOMAIN q : j + 1 < k => q[k].op # "graph", NEW k \in DOMAIN p, j < k
          PROVE  p[k].op # "graph"
        BY <2>1, <2>3
    <2> QED
        BY <2>2, <2>3
<1>7. /\ j < Len(p) <=> j + 1 < Len(q)
      /\ \A n \in {0, 1, 2} : Len(p) = j + n <=> Len(q) = j + 1 + n
      /\ (j + 1) + 1 = j + 2 /\ (j + 1) + 2 = j + 3
    BY <1>1
<1>8. /\ j = Len(p) <=> j + 1 = Len(q)
      /\ Len(p) = j + 1 <=> Len(q) = (j + 1) + 1
      /\ Len(p) = j + 2 <=> Len(q) = (j + 1) + 2
    BY <1>1
<1>9. Len(p) = j + 1 => j < Len(p)
    BY <1>1
<1> QED
    BY <1>2, <1>3, <1>4, <1>6, <1>7, <1>8, <1>9 DEF Follows

\* What is done and what is left of a program.
LEMMA Rest ==
    ASSUME NEW those, NEW shown, NEW p \in Program(those, shown), p # <<>>
    PROVE  /\ Head(p) = p[1] /\ p[1] \in Step
           /\ Follows(p, 1, those, shown)
           /\ Len(p) \in Nat /\ Len(p) >= 1
           /\ Tail(p) \in Program(those, shown)
           /\ Len(Tail(p)) = Len(p) - 1
           /\ \A j \in DOMAIN Tail(p) : j + 1 \in DOMAIN p /\ Tail(p)[j] = p[j + 1]
<1>1. p \in Seq(Step)
    BY DEF Program
<1>2. /\ Head(p) = p[1] /\ p[1] \in Step /\ 1 \in DOMAIN p
      /\ Len(p) \in Nat /\ Len(p) >= 1
      /\ Tail(p) \in Seq(Step) /\ Len(Tail(p)) = Len(p) - 1
      /\ \A j \in DOMAIN Tail(p) : j + 1 \in DOMAIN p /\ Tail(p)[j] = p[j + 1]
    BY <1>1
<1>3. ASSUME NEW j \in DOMAIN Tail(p)
      PROVE  Follows(Tail(p), j, those, shown)
    <2>1. Follows(p, j + 1, those, shown)
        BY <1>2 DEF Program
    <2>2. Len(p) = Len(Tail(p)) + 1 /\ \A k \in DOMAIN Tail(p) : p[k + 1] = Tail(p)[k]
        BY <1>2
    <2> QED
        BY <1>1, <1>2, <2>1, <2>2, FollowsShifted
<1> QED
    BY <1>2, <1>3 DEF Program

\* One step more in front of others.
Push(op, x, p) == Do(op, x) \o p
Pushed(q, op, x, p) ==
    /\ q \in Seq(Step) /\ p \in Seq(Step)
    /\ Len(q) = Len(p) + 1 /\ Len(p) = Len(q) - 1
    /\ q[1].op = op /\ q[1].on = x
    /\ \A j \in 1..Len(p) : q[j + 1] = p[j]
    /\ Len(p) >= 1 => q[2] = p[1]
    /\ Len(p) >= 2 => q[3] = p[2]

\* What a sequence with a step put in front is.
LEMMA PushedSeq ==
    ASSUME NEW p \in Seq(Step), NEW op, NEW x, [op |-> op, on |-> x] \in Step
    PROVE  Pushed(Push(op, x, p), op, x, p)
<1>1. Do(op, x) \in Seq(Step) /\ Len(Do(op, x)) = 1 /\ Do(op, x)[1] = [op |-> op, on |-> x]
    BY DEF Do
<1>2. /\ Push(op, x, p) \in Seq(Step)
      /\ Len(p) \in Nat /\ Len(Push(op, x, p)) = Len(p) + 1
      /\ Push(op, x, p)[1] = [op |-> op, on |-> x]
      /\ \A j \in 1..Len(p) : Push(op, x, p)[j + 1] = p[j]
    BY <1>1, ConcatProperties DEF Push
<1>3. Len(p) >= 1 => Push(op, x, p)[1 + 1] = p[1]
    BY <1>2
<1>4. Len(p) >= 2 => Push(op, x, p)[2 + 1] = p[2]
    BY <1>2
<1> QED
    BY <1>2, <1>3, <1>4 DEF Pushed

\* One step more in front of a program.
LEMMA PushedProgram ==
    ASSUME NEW those, NEW shown, NEW p \in Program(those, shown),
           NEW op, NEW x, [op |-> op, on |-> x] \in Step,
           Follows(Push(op, x, p), 1, those, shown)
    PROVE  Push(op, x, p) \in Program(those, shown)
<1> DEFINE q == Push(op, x, p)
<1>1. p \in Seq(Step)
    BY DEF Program
<1>2. /\ q \in Seq(Step) /\ Len(p) \in Nat /\ Len(q) = Len(p) + 1
      /\ DOMAIN p = 1..Len(p) /\ DOMAIN q = 1..Len(q)
      /\ \A j \in 1..Len(p) : q[j + 1] = p[j]
    BY <1>1, PushedSeq DEF Pushed
<1>3. Follows(q, 1, those, shown)
    OBVIOUS
<1> HIDE DEF q
<1>4. ASSUME NEW j \in DOMAIN q, j # 1
      PROVE  Follows(q, j, those, shown)
    <2>1. PICK i \in DOMAIN p : i + 1 = j
        <3>1. j - 1 \in DOMAIN p /\ (j - 1) + 1 = j
            BY <1>2, <1>4
        <3> QED
            BY <3>1
    <2>2. Follows(p, i, those, shown)
        BY DEF Program
    <2>3. Follows(q, i + 1, those, shown)
        BY <1>1, <1>2, <2>2, FollowsShifted
    <2> QED
        BY <2>1, <2>3
<1>5. q \in Program(those, shown)
    BY <1>2, <1>3, <1>4 DEF Program
<1> QED
    BY <1>5 DEF q

\* A step is in the set of steps.
LEMMA Steps1 ==
    /\ \A op \in {"graph", "gc", "manifest", "load"} : [op |-> op, on |-> None] \in Step
    /\ \A s \in Session : \A op \in {"trash", "adopt", "copy", "move"} : [op |-> op, on |-> s] \in Step
    /\ \A r \in Ref : [op |-> "blob", on |-> r] \in Step
BY DEF Step

\* What has a length is not empty.
LEMMA NotEmpty ==
    ASSUME NEW S, NEW q \in Seq(S), Len(q) \in {1, 3, 4}
    PROVE  q # <<>>
  OBVIOUS

\* Nothing to do is a program.
LEMMA Done == \A those, shown : <<>> \in Program(those, shown)
BY DEF Program

\* A program of one step.
LEMMA Single ==
    ASSUME NEW those, NEW shown, NEW op, NEW x, [op |-> op, on |-> x] \in Step
    PROVE  /\ Do(op, x) \in Seq(Step) /\ Len(Do(op, x)) = 1
           /\ Do(op, x)[1] = [op |-> op, on |-> x]
           /\ Follows(Do(op, x), 1, those, shown) => Do(op, x) \in Program(those, shown)
BY DEF Do, Program

\* adopt_session
LEMMA Adopting ==
    ASSUME NEW those, NEW shown, NEW s \in Session \cap those
    PROVE  /\ AdoptSession(s) \in Program(those, shown)
           /\ Len(AdoptSession(s)) = 3
           /\ AdoptSession(s)[1].op = "adopt" /\ AdoptSession(s)[1].on = s
           /\ \A j \in 1..3 : AdoptSession(s)[j].op # "graph"
<1> DEFINE p1 == Do("load", None)
           p2 == Push("manifest", None, p1)
           p3 == Push("adopt", s, p2)
<1>1. /\ [op |-> "load", on |-> None] \in Step /\ [op |-> "manifest", on |-> None] \in Step
      /\ [op |-> "adopt", on |-> s] \in Step
    BY Steps1
<1>2. /\ p1 \in Seq(Step) /\ Len(p1) = 1 /\ p1[1].op = "load"
      /\ Follows(p1, 1, those, shown) => p1 \in Program(those, shown)
    BY <1>1, Single
<1> HIDE DEF p1
<1>3. Pushed(p2, "manifest", None, p1)
    BY <1>1, <1>2, PushedSeq
<1> HIDE DEF p2
<1>4. Pushed(p3, "adopt", s, p2)
    <2>1. p2 \in Seq(Step)
        BY <1>3 DEF Pushed
    <2> QED
        BY <1>1, <2>1, PushedSeq
<1> HIDE DEF p3
<1>5. /\ Len(p2) = 2 /\ p2[1].op = "manifest" /\ p2[2].op = "load"
      /\ Len(p3) = 3 /\ p3[1].op = "adopt" /\ p3[1].on = s
      /\ p3[2].op = "manifest" /\ p3[3].op = "load"
    BY <1>2, <1>3, <1>4 DEF Pushed
<1>6. /\ Follows(p1, 1, those, shown) /\ Follows(p2, 1, those, shown)
      /\ Follows(p3, 1, those, shown)
    BY <1>2, <1>5 DEF Follows
<1>7. p2 \in Program(those, shown)
    BY <1>1, <1>2, <1>6, PushedProgram DEF p2
<1>8. p3 \in Program(those, shown)
    BY <1>1, <1>6, <1>7, PushedProgram DEF p3
<1>9. p3 = AdoptSession(s)
    <2>1. /\ Do("adopt", s) \in Seq(Step) /\ Do("manifest", None) \in Seq(Step)
          /\ Do("load", None) \in Seq(Step)
        BY <1>1, Single
    <2> QED
        BY <2>1, ConcatAssociative DEF Push, AdoptSession, p1, p2, p3
<1> QED
    BY <1>5, <1>8, <1>9

\* What a save comes to, before what the manifest's write begins.
LEMMA Saves ==
    ASSUME NEW those, NEW shown, NEW m \in Program(those, shown), Len(m) >= 1,
           m[1].op = "manifest", Len(m) = 2 => m[2].op # "load",
           \A j \in 1..Len(m) : m[j].op # "graph"
    PROVE  LET q == Push("graph", None, Push("gc", None, m)) IN
           /\ q \in Program(those, shown)
           /\ Len(q) >= 3 /\ q[1].op = "graph"
<1> DEFINE p == Push("gc", None, m)
           q == Push("graph", None, p)
<1>1. /\ [op |-> "gc", on |-> None] \in Step /\ [op |-> "graph", on |-> None] \in Step
      /\ m \in Seq(Step)
    BY Steps1 DEF Program
<1>2. Pushed(p, "gc", None, m)
    BY <1>1, PushedSeq
<1> HIDE DEF p
<1>3. Pushed(q, "graph", None, p)
    <2>1. p \in Seq(Step)
        BY <1>2 DEF Pushed
    <2> QED
        BY <1>1, <2>1, PushedSeq
<1> HIDE DEF q
<1>4. /\ m \in Seq(Step) /\ p \in Seq(Step) /\ q \in Seq(Step)
      /\ Len(p) = Len(m) + 1 /\ p[1].op = "gc" /\ p[2].op = "manifest"
      /\ Len(q) = Len(m) + 2 /\ q[1].op = "graph" /\ q[2].op = "gc" /\ q[3].op = "manifest"
      /\ Len(p) = 3 => p[3].op # "load"
    BY <1>1, <1>2, <1>3 DEF Pushed
<1>5. ASSUME NEW k \in DOMAIN p, 1 < k
      PROVE  p[k].op # "graph"
    <2>1. DOMAIN p = 1..Len(p)
        BY <1>2 DEF Pushed
    <2>2. k - 1 \in 1..Len(m) /\ (k - 1) + 1 = k
        BY <1>4, <1>5, <2>1
    <2>3. p[(k - 1) + 1] = m[k - 1]
        BY <1>2, <2>2 DEF Pushed
    <2> QED
        BY <2>2, <2>3
<1>6. Follows(p, 1, those, shown) /\ Follows(q, 1, those, shown)
    <2>1. Follows(p, 1, those, shown)
        <3>1. \A k \in DOMAIN p : 1 < k => p[k].op # "graph"
            BY <1>5
        <3>2. Len(p) = 3 => p[3].op # "load"
            BY <1>4
        <3>3. 1 < Len(p) /\ p[1].op = "gc" /\ p[1 + 1].op = "manifest"
            BY <1>4
        <3> QED
            BY <3>1, <3>2, <3>3 DEF Follows
    <2>2. Follows(q, 1, those, shown)
        BY <1>4 DEF Follows
    <2> QED
        BY <2>1, <2>2
<1>7. p \in Program(those, shown)
    BY <1>1, <1>6, PushedProgram DEF p
<1>8. q \in Program(those, shown)
    BY <1>1, <1>6, <1>7, PushedProgram DEF q
<1> QED
    BY <1>4, <1>8 DEF p, q

\* Effect::SaveSession
LEMMA SavingAlone ==
    ASSUME NEW those, NEW shown
    PROVE  /\ SaveSession \in Program(those, shown)
           /\ Len(SaveSession) >= 3 /\ SaveSession[1].op = "graph"
<1> DEFINE m == Do("manifest", None)
<1>1. /\ [op |-> "gc", on |-> None] \in Step /\ [op |-> "graph", on |-> None] \in Step
      /\ [op |-> "manifest", on |-> None] \in Step
    BY Steps1
<1>2. /\ m \in Seq(Step) /\ Len(m) = 1 /\ m[1].op = "manifest"
      /\ Follows(m, 1, those, shown) => m \in Program(those, shown)
    BY <1>1, Single
<1>3. SaveSession = Push("graph", None, Push("gc", None, m))
    <2>1. Do("graph", None) \in Seq(Step) /\ Do("gc", None) \in Seq(Step)
        BY <1>1, Single
    <2> QED
        BY <1>2, <2>1, ConcatAssociative DEF SaveSession, Push
<1> HIDE DEF m
<1>4. m \in Program(those, shown) /\ \A j \in 1..Len(m) : m[j].op # "graph"
    BY <1>2 DEF Follows
<1> QED
    BY <1>2, <1>3, <1>4, Saves

\* mint_session: the manifest, and the session adopted.
AdoptMinted(s) == Do("manifest", None) \o AdoptSession(s)

\* What is minted is listed before it is adopted.
LEMMA Minting ==
    ASSUME NEW those, NEW shown, NEW s \in Session \cap those
    PROVE  /\ AdoptMinted(s) \in Program(those, shown)
           /\ Len(AdoptMinted(s)) = 4 /\ AdoptMinted(s)[1].op = "manifest"
           /\ \A j \in 1..4 : AdoptMinted(s)[j].op # "graph"
<1> DEFINE a == AdoptSession(s)
           q == Push("manifest", None, a)
<1>1. /\ a \in Program(those, shown) /\ Len(a) = 3 /\ a[1].op = "adopt" /\ a[1].on = s
      /\ \A j \in 1..3 : a[j].op # "graph"
    BY Adopting
<1>2. [op |-> "manifest", on |-> None] \in Step /\ a \in Seq(Step)
    BY <1>1, Steps1 DEF Program
<1> HIDE DEF a
<1>3. Pushed(q, "manifest", None, a)
    BY <1>2, PushedSeq
<1> HIDE DEF q
<1>4. Len(q) = 4 /\ q[1].op = "manifest" /\ q[2] = a[1]
    BY <1>1, <1>3 DEF Pushed
<1>5. Follows(q, 1, those, shown)
    BY <1>1, <1>4 DEF Follows
<1>6. q \in Program(those, shown)
    BY <1>1, <1>2, <1>5, PushedProgram DEF q
<1>7. ASSUME NEW j \in 1..4
      PROVE  q[j].op # "graph"
    <2>1. CASE j = 1
        BY <1>4, <2>1
    <2>2. CASE j > 1
        <3>1. j - 1 \in 1..3 /\ q[(j - 1) + 1] = a[j - 1] /\ (j - 1) + 1 = j
            BY <1>1, <1>3, <2>2 DEF Pushed
        <3> QED
            BY <1>1, <3>1
    <2> QED
        BY <2>1, <2>2
<1> QED
    BY <1>1, <1>4, <1>6, <1>7 DEF q, a, Push, AdoptMinted

\* Effect::SwitchSession: the session shown is saved, the next one adopted.
LEMMA Switching ==
    ASSUME NEW those, NEW shown, NEW s \in Session \cap those
    PROVE  /\ SwitchSession(s) \in Program(those, shown)
           /\ Len(SwitchSession(s)) >= 3 /\ SwitchSession(s)[1].op = "graph"
<1> DEFINE a == AdoptSession(s)
           m == AdoptMinted(s)
<1>1. /\ m \in Program(those, shown) /\ Len(m) = 4 /\ m[1].op = "manifest"
      /\ \A j \in 1..4 : m[j].op # "graph"
    BY Minting
<1>2. /\ Do("graph", None) \in Seq(Step) /\ Do("gc", None) \in Seq(Step)
      /\ Do("manifest", None) \in Seq(Step) /\ a \in Seq(Step)
    BY Steps1, Single, Adopting DEF Program
<1>3. SwitchSession(s) = Push("graph", None, Push("gc", None, m))
    <2> DEFINE dg == Do("graph", None)
               dc == Do("gc", None)
               dm == Do("manifest", None)
    <2>1. SwitchSession(s) = ((dg \o dc) \o dm) \o a
        BY DEF SwitchSession, SaveSession
    <2>2. /\ Push("graph", None, Push("gc", None, m)) = dg \o (dc \o (dm \o a))
        BY DEF Push, AdoptMinted
    <2> HIDE DEF dg, dc, dm, a
    <2>3. /\ dg \in Seq(Step) /\ dc \in Seq(Step) /\ dm \in Seq(Step) /\ a \in Seq(Step)
          /\ dg \o dc \in Seq(Step) /\ dm \o a \in Seq(Step)
        BY <1>2, ConcatProperties DEF dg, dc, dm
    <2> DEFINE dgc == dg \o dc
               dma == dm \o a
    <2>4. dgc \in Seq(Step) /\ dma \in Seq(Step)
        BY <2>3
    <2>5. (dg \o dc) \o dma = dg \o (dc \o dma)
        <3> HIDE DEF dma
        <3> QED
            BY <2>3, <2>4, ConcatAssociative
    <2>6. (dgc \o dm) \o a = dgc \o (dm \o a)
        <3> HIDE DEF dgc
        <3> QED
            BY <2>3, <2>4, ConcatAssociative
    <2> QED
        BY <2>1, <2>2, <2>5, <2>6
<1> HIDE DEF m
<1> QED
    BY <1>1, <1>3, Saves

\* The manifest of a session minted, and the switch to it.
LEMMA MintSwitching ==
    ASSUME NEW those, NEW shown, NEW s \in Session \cap those
    PROVE  LET q == Do("manifest", None) \o SwitchSession(s) IN
           /\ q \in Program(those, shown)
           /\ Len(q) >= 4 /\ q[1].op = "manifest"
<1> DEFINE w == SwitchSession(s)
           q == Push("manifest", None, w)
<1>1. w \in Program(those, shown) /\ Len(w) >= 3 /\ w[1].op = "graph"
    BY Switching
<1>2. w \in Seq(Step) /\ [op |-> "manifest", on |-> None] \in Step
    BY <1>1, Steps1 DEF Program
<1> HIDE DEF w
<1>3. Pushed(q, "manifest", None, w)
    BY <1>2, PushedSeq
<1> HIDE DEF q
<1>4. Len(q) = Len(w) + 1 /\ Len(q) >= 4 /\ q[1].op = "manifest" /\ q[2].op = "graph"
    BY <1>1, <1>3 DEF Pushed
<1>5. Follows(q, 1, those, shown)
    BY <1>3, <1>4 DEF Follows, Pushed
<1>6. q \in Program(those, shown)
    BY <1>1, <1>2, <1>5, PushedProgram DEF q
<1>7. q = Do("manifest", None) \o w
    BY DEF q, Push
<1> QED
    BY <1>4, <1>6, <1>7 DEF w

\* fork_session_from
LEMMA Forking ==
    ASSUME NEW those, NEW shown, NEW s \in Session \cap those
    PROVE  LET q == Do("manifest", None) \o Do("copy", s) \o SwitchSession(s) IN
           /\ q \in Program(those, shown)
           /\ Len(q) >= 4 /\ q[1].op = "manifest"
<1> DEFINE w == SwitchSession(s)
           c == Push("copy", s, w)
           q == Push("manifest", None, c)
<1>1. w \in Program(those, shown) /\ Len(w) >= 3 /\ w[1].op = "graph"
    BY Switching
<1>2. /\ w \in Seq(Step) /\ [op |-> "manifest", on |-> None] \in Step
      /\ [op |-> "copy", on |-> s] \in Step
      /\ Do("copy", s) \in Seq(Step) /\ Do("manifest", None) \in Seq(Step)
    BY <1>1, Steps1, Single DEF Program
<1> HIDE DEF w
<1>3. Pushed(c, "copy", s, w)
    BY <1>2, PushedSeq
<1> HIDE DEF c
<1>4. Pushed(q, "manifest", None, c)
    <2>1. c \in Seq(Step)
        BY <1>3 DEF Pushed
    <2> QED
        BY <1>2, <2>1, PushedSeq
<1> HIDE DEF q
<1>5. /\ Len(c) >= 4 /\ c[1].op = "copy" /\ c[1].on = s /\ c[2].op = "graph"
      /\ Len(q) >= 5 /\ q[1].op = "manifest" /\ q[2].op = "copy"
    BY <1>1, <1>3, <1>4 DEF Pushed
<1>6. Follows(c, 1, those, shown) /\ Follows(q, 1, those, shown)
    BY <1>1, <1>2, <1>3, <1>4, <1>5 DEF Follows, Pushed
<1>7. c \in Program(those, shown)
    BY <1>1, <1>2, <1>6, PushedProgram DEF c
<1>8. q \in Program(those, shown)
    BY <1>2, <1>6, <1>7, PushedProgram DEF q
<1>9. q = (Do("manifest", None) \o Do("copy", s)) \o w
    BY <1>2, ConcatAssociative DEF q, c, Push
<1> QED
    BY <1>5, <1>8, <1>9 DEF w

\* close_session: the session shown goes to the trash and another is adopted ...
LEMMA Trashing ==
    ASSUME NEW those, NEW shown \in Session, NEW s \in Session \cap those, s # shown
    PROVE  LET q == Do("trash", shown) \o AdoptSession(s) IN
           /\ q \in Program(those, shown)
           /\ Len(q) = 4 /\ q[1].op = "trash" /\ q[2].op = "adopt"
<1> DEFINE a == AdoptSession(s)
           q == Push("trash", shown, a)
<1>1. /\ a \in Program(those, shown) /\ Len(a) = 3 /\ a[1].op = "adopt" /\ a[1].on = s
    BY Adopting
<1>2. [op |-> "trash", on |-> shown] \in Step /\ a \in Seq(Step)
    BY <1>1, Steps1 DEF Program
<1> HIDE DEF a
<1>3. Pushed(q, "trash", shown, a)
    BY <1>2, PushedSeq
<1> HIDE DEF q
<1>4. Len(q) = 4 /\ q[1].op = "trash" /\ q[2] = a[1]
    BY <1>1, <1>3 DEF Pushed
<1>5. Follows(q, 1, those, shown)
    BY <1>1, <1>4 DEF Follows
<1>6. q \in Program(those, shown)
    BY <1>1, <1>2, <1>5, PushedProgram DEF q
<1> QED
    BY <1>1, <1>4, <1>6 DEF q, a, Push

\* ... once it has its manifest, when it was minted for that.
LEMMA Closing ==
    ASSUME NEW those, NEW shown \in Session, NEW s \in Session \cap those, s # shown,
           NEW known \in BOOLEAN
    PROVE  LET q == (IF known THEN <<>> ELSE Do("manifest", None)) \o Do("trash", shown) \o AdoptSession(s) IN
           /\ q \in Program(those, shown)
           /\ Len(q) >= 4 /\ q[1].op = IF known THEN "trash" ELSE "manifest"
<1> DEFINE r == Do("trash", shown) \o AdoptSession(s)
           q == Push("manifest", None, r)
<1>1. r \in Program(those, shown) /\ Len(r) = 4 /\ r[1].op = "trash"
    BY Trashing
<1>2. /\ r \in Seq(Step) /\ [op |-> "manifest", on |-> None] \in Step
      /\ Do("manifest", None) \in Seq(Step) /\ Do("trash", shown) \in Seq(Step)
      /\ AdoptSession(s) \in Seq(Step)
    BY <1>1, Steps1, Single, Adopting DEF Program
<1>3. CASE known
    <2>1. <<>> \o Do("trash", shown) = Do("trash", shown)
        BY <1>2, ConcatEmptySeq
    <2> QED
        BY <1>1, <1>3, <2>1
<1>4. CASE ~ known
    <2>1. q = (Do("manifest", None) \o Do("trash", shown)) \o AdoptSession(s)
        BY <1>2, ConcatAssociative DEF Push
    <2> HIDE DEF r
    <2>2. Pushed(q, "manifest", None, r)
        BY <1>2, PushedSeq
    <2> HIDE DEF q
    <2>3. Len(q) = 5 /\ q[1].op = "manifest" /\ q[2].op = "trash"
        BY <1>1, <2>2 DEF Pushed
    <2>4. Follows(q, 1, those, shown)
        BY <2>3 DEF Follows
    <2>5. q \in Program(those, shown)
        BY <1>1, <1>2, <2>4, PushedProgram DEF q
    <2> QED
        BY <1>4, <2>1, <2>3, <2>5
<1> QED
    BY <1>3, <1>4

\* apply_favicon: the image is stored ...
LEMMA Storing ==
    ASSUME NEW those, NEW shown, NEW r \in Ref, r[1] = shown
    PROVE  /\ Do("blob", r) \in Program(those, shown)
           /\ Do("blob", r) \in Seq(Step) /\ Len(Do("blob", r)) = 1
           /\ Do("blob", r)[1].op = "blob" /\ Do("blob", r)[1].on = r
<1> DEFINE q == Do("blob", r)
<1>1. [op |-> "blob", on |-> r] \in Step
    BY Steps1
<1>2. /\ q \in Seq(Step) /\ Len(q) = 1 /\ q[1] = [op |-> "blob", on |-> r]
      /\ Follows(q, 1, those, shown) => q \in Program(those, shown)
    BY <1>1, Single
<1> HIDE DEF q
<1>3. q[1].op = "blob" /\ q[1].on = r
    BY <1>2
<1>4. Follows(q, 1, those, shown)
    BY <1>2, <1>3 DEF Follows
<1> QED
    BY <1>2, <1>3, <1>4 DEF q

\* ... and the session saved after it.
LEMMA StoringSaved ==
    ASSUME NEW those, NEW shown, NEW r \in Ref, r[1] = shown
    PROVE  /\ Do("blob", r) \o SaveSession \in Program(those, shown)
           /\ Len(Do("blob", r) \o SaveSession) >= 4
           /\ (Do("blob", r) \o SaveSession)[1].op = "blob"
           /\ (Do("blob", r) \o SaveSession)[1].on = r
           /\ (Do("blob", r) \o SaveSession)[2].op = "graph"
<1> DEFINE v == SaveSession
           q == Push("blob", r, v)
<1>1. [op |-> "blob", on |-> r] \in Step
    BY Steps1
<1>2. v \in Program(those, shown) /\ Len(v) >= 3 /\ v[1].op = "graph"
    BY SavingAlone
<1>3. v \in Seq(Step)
    BY <1>2 DEF Program
<1> HIDE DEF v
<1>4. Pushed(q, "blob", r, v)
    BY <1>1, <1>3, PushedSeq
<1> HIDE DEF q
<1>5. Len(q) >= 4 /\ q[1].op = "blob" /\ q[1].on = r /\ q[2].op = "graph"
    BY <1>2, <1>4 DEF Pushed
<1>6. Follows(q, 1, those, shown)
    BY <1>2, <1>4, <1>5 DEF Follows, Pushed
<1>7. q \in Program(those, shown)
    BY <1>1, <1>2, <1>6, PushedProgram DEF q
<1> QED
    BY <1>5, <1>7 DEF q, v, Push

\* Moving the flat graph.
LEMMA Moving ==
    ASSUME NEW those, NEW shown, NEW s \in Session
    PROVE  /\ Do("move", s) \in Program(those, shown)
           /\ Len(Do("move", s)) = 1 /\ Do("move", s)[1] = [op |-> "move", on |-> s]
<1> DEFINE q == Do("move", s)
<1>1. /\ q \in Seq(Step) /\ Len(q) = 1 /\ q[1] = [op |-> "move", on |-> s]
      /\ Follows(q, 1, those, shown) => q \in Program(those, shown)
    BY Steps1, Single
<1> HIDE DEF q
<1>2. Follows(q, 1, those, shown)
    BY <1>1 DEF Follows
<1> QED
    BY <1>1, <1>2 DEF q

-----------------------------------------------------------------------------
(***************************************************************************)
(* Steps.                                                                  *)
(***************************************************************************)
USE SessionStoreAssumption

\* What taking a step leaves to do.
LEMMA Taking ==
    ASSUME todo \in Program(listed, sess), NEW op, Take(op)
    PROVE  /\ todo[1] \in Step /\ todo[1].op = op /\ Head(todo) = todo[1] /\ todo # <<>>
           /\ Follows(todo, 1, listed, sess)
           /\ todo' \in Program(listed, sess)
           /\ op # "adopt" /\ Loading' => Loading
           /\ op # "load" /\ Loading => Loading'
           /\ Loading => op \in {"manifest", "load"}
           /\ Saving' => Saving
           /\ op # "graph" /\ Saving => Saving'
           /\ ~ AtHead("blob")' /\ ~ AtHead("move")'
<1>1. /\ todo \in Seq(Step) /\ todo # <<>> /\ Head(todo).op = op /\ todo' = Tail(todo)
    BY DEF Program, Take
<1>2. /\ Head(todo) = todo[1] /\ todo[1] \in Step
      /\ Follows(todo, 1, listed, sess)
      /\ Len(todo) \in Nat /\ Len(todo) >= 1
      /\ todo' \in Program(listed, sess)
      /\ Len(todo') = Len(todo) - 1
      /\ \A j \in DOMAIN todo' : j + 1 \in DOMAIN todo /\ todo'[j] = todo[j + 1]
    BY <1>1, Rest
<1>3. /\ todo' \in Seq(Step) /\ DOMAIN todo = 1..Len(todo) /\ DOMAIN todo' = 1..Len(todo')
      /\ Len(todo) = 1 \/ Len(todo) = 2 \/ Len(todo) = 3 \/ Len(todo) >= 4
      /\ todo' # <<>> => Len(todo) >= 2
    BY <1>1, <1>2 DEF Program
<1>4. /\ Len(todo) >= 2 => todo'[1] = todo[2]
      /\ Len(todo) >= 3 => todo'[2] = todo[3]
    <2>1. Len(todo) >= 2 => todo'[1] = todo[1 + 1]
        BY <1>2, <1>3
    <2>2. Len(todo) >= 3 => todo'[2] = todo[2 + 1]
        BY <1>2, <1>3
    <2> QED
        BY <2>1, <2>2
<1>5. Loading' => \/ Len(todo) = 2 /\ todo[2].op = "load"
                  \/ Len(todo) = 3 /\ todo[3].op = "load"
    <2>1. Len(todo) = 2 => Len(todo') = 1
        BY <1>2
    <2>2. Len(todo) = 3 => Len(todo') = 2
        BY <1>2
    <2>3. Len(todo) >= 4 => Len(todo') >= 3
        BY <1>2
    <2> QED
        BY <1>3, <1>4, <2>1, <2>2, <2>3 DEF Loading
<1>6. Loading => \/ Len(todo) = 1 /\ todo[1].op = "load"
                 \/ Len(todo) = 2 /\ todo[2].op = "load"
    BY <1>3 DEF Loading
<1>7. /\ Len(todo) = 3 /\ todo[3].op = "load" => op = "adopt"
      /\ Len(todo) = 2 /\ todo[2].op = "load" => op = "manifest"
    BY <1>1, <1>2 DEF Follows
<1>8. Len(todo) = 2 /\ todo[2].op = "load" => Loading /\ Loading'
    <2>1. Len(todo) = 2 => Len(todo') = 1 /\ todo' # <<>>
        BY <1>2, <1>3
    <2> QED
        BY <1>1, <1>4, <2>1 DEF Loading
<1>9. Saving' => Saving
    BY <1>2 DEF Saving
<1>10. op # "graph" /\ Saving => Saving'
    <2>1. ASSUME op # "graph", NEW j \in DOMAIN todo, todo[j].op = "graph"
          PROVE  Saving'
        <3>1. j # 1
            BY <1>1, <1>2, <2>1
        <3>2. j - 1 \in DOMAIN todo' /\ (j - 1) + 1 = j
            BY <1>2, <1>3, <3>1
        <3>3. todo'[j - 1] = todo[j]
            BY <1>2, <3>2
        <3> QED
            BY <2>1, <3>2, <3>3 DEF Saving
    <2> QED
        BY <2>1 DEF Saving
<1>11. ~ AtHead("blob")' /\ ~ AtHead("move")'
    <2>1. 1 < Len(todo) => todo[1 + 1].op \notin {"blob", "move"}
        BY <1>2 DEF Follows
    <2> QED
        BY <1>2, <1>3, <1>4, <2>1 DEF AtHead
<1> QED
    BY <1>1, <1>2, <1>5, <1>6, <1>7, <1>8, <1>9, <1>10, <1>11

\* What is known of a failed write.
LEMMA FailedFacts ==
    ASSUME TypeOK, NEW call, NEW who \in SUBSET (Session \cup Ref \cup {None}), Failed(call, who)
    PROVE  /\ \A c, x : Ok(c, x)' <=> Ok(c, x) /\ ~ (c = call /\ x \in who)
           /\ spoilt' \subseteq (Faults \cup {"gc"}) \X (Session \cup Ref \cup {None})
BY DEF Failed, Ok, TypeOK

\* What is known of a write made.
LEMMA SucceededFacts ==
    ASSUME TypeOK, NEW call, NEW who, Succeeded(call, who)
    PROVE  /\ \A c, x : Ok(c, x)' <=> Ok(c, x) \/ (c = call /\ x \in who)
           /\ spoilt' \subseteq (Faults \cup {"gc"}) \X (Session \cup Ref \cup {None})
BY DEF Succeeded, Ok, TypeOK

\* Adopting is followed by its manifest and its graph, and that is all.
LEMMA AdoptingIs ==
    ASSUME NEW those, NEW shown, NEW p \in Program(those, shown), p # <<>>, p[1].op = "adopt"
    PROVE  /\ p \in Seq(Step) /\ Len(p) = 3 /\ p[1].on \in those
           /\ p[2].op = "manifest" /\ p[3].op = "load"
<1>1. p \in Seq(Step) /\ DOMAIN p = 1..Len(p) /\ 1 \in DOMAIN p
    BY DEF Program
<1>2. Len(p) = 3 /\ p[3].op = "load" /\ p[1].on \in those
    <2>1. Follows(p, 1, those, shown)
        BY <1>1 DEF Program
    <2> QED
        BY <2>1 DEF Follows
<1>3. p[2].op = "manifest"
    <2>1. 2 \in DOMAIN p
        BY <1>1, <1>2
    <2>2. Follows(p, 2, those, shown)
        BY <2>1 DEF Program
    <2> QED
        BY <1>2, <2>2 DEF Follows
<1> QED
    BY <1>1, <1>2, <1>3

\* So it is a program whoever is shown.
LEMMA AdoptingAnyway ==
    ASSUME NEW those, NEW shown, NEW p \in Program(those, shown), p # <<>>, p[1].op = "adopt",
           NEW others, NEW other, p[1].on \in others
    PROVE  p \in Program(others, other)
<1>1. /\ p \in Seq(Step) /\ Len(p) = 3
      /\ p[2].op = "manifest" /\ p[3].op = "load"
    BY AdoptingIs
<1>2. /\ Follows(p, 1, others, other) /\ Follows(p, 2, others, other)
      /\ Follows(p, 3, others, other)
    BY <1>1 DEF Follows
<1>3. DOMAIN p = {1, 2, 3}
    BY <1>1
<1> QED
    BY <1>1, <1>2, <1>3 DEF Program

\* What the ops say of what is left.
LEMMA TakingOne ==
    ASSUME todo \in Program(listed, sess), NEW op, Take(op)
    PROVE  /\ op = "gc" => ~ Saving
           /\ op = "copy" => Saving'
           /\ op = "trash" => AtHead("adopt")' /\ todo' \in Program(listed \ {sess}, sess)
           /\ op = "load" => todo' = <<>> /\ Loading
<1>1. /\ todo \in Seq(Step) /\ todo # <<>> /\ Head(todo).op = op /\ todo' = Tail(todo)
    BY DEF Program, Take
<1>2. /\ Head(todo) = todo[1] /\ todo[1] \in Step
      /\ Follows(todo, 1, listed, sess)
      /\ Len(todo) \in Nat /\ Len(todo) >= 1
      /\ todo' \in Program(listed, sess)
      /\ Len(todo') = Len(todo) - 1
      /\ \A j \in DOMAIN todo' : j + 1 \in DOMAIN todo /\ todo'[j] = todo[j + 1]
    BY <1>1, Rest
<1>3. /\ todo' \in Seq(Step) /\ DOMAIN todo = 1..Len(todo) /\ DOMAIN todo' = 1..Len(todo')
    BY <1>1, <1>2 DEF Program
<1>4. op = "gc" => ~ Saving
    BY <1>1, <1>2, <1>3 DEF Follows, Saving
<1>5. 1 < Len(todo) => todo' # <<>> /\ 1 \in DOMAIN todo' /\ todo'[1] = todo[1 + 1]
    BY <1>2, <1>3
<1>6. op = "copy" => Saving'
    BY <1>1, <1>2, <1>5 DEF Follows, Saving
<1>7. op = "trash" => AtHead("adopt")' /\ todo' \in Program(listed \ {sess}, sess)
    <2>1. ASSUME op = "trash"
          PROVE  todo' # <<>> /\ todo'[1].op = "adopt" /\ todo'[1].on # sess
        BY <1>1, <1>2, <1>5, <2>1 DEF Follows
    <2>2. ASSUME op = "trash"
          PROVE  todo'[1].on \in listed
        BY <1>2, <2>1, <2>2, AdoptingIs
    <2> QED
        BY <1>2, <2>1, <2>2, AdoptingAnyway DEF AtHead
<1>8. op = "load" => todo' = <<>> /\ Loading
    BY <1>1, <1>2, <1>3 DEF Follows, Loading
<1> QED
    BY <1>4, <1>6, <1>7, <1>8

\* The invariant holds at first.
LEMMA InitInv == Init => IInv
<1> SUFFICES ASSUME Init PROVE IInv
    OBVIOUS
<1>1. todo = <<>> /\ todo \in Program(listed, sess) /\ todo \in Seq(Step)
    BY Done DEF Init
<1>2. TypeOK
    <2>1. todo \in Seq(Step)
        BY <1>1
    <2>8. None \in (SUBSET Node) \cup {None}
        OBVIOUS
    <2>5. graphs \in [Session -> (SUBSET Node) \cup {None}]
        BY <2>8, Zenon DEF Init
    <2>6. {} \in SUBSET Ref
        OBVIOUS
    <2>7. blobs \in [Session -> SUBSET Ref]
        BY <2>6, Zenon DEF Init
    <2>2. flat \in {{}, None} /\ graph \subseteq Node /\ opened \subseteq Node
        BY DEF Init
    <2>3. manifests \subseteq Session \ trash /\ trash \subseteq Session /\ listed \subseteq Session
        BY DEF Init
    <2>4. /\ mark = None /\ sess = None /\ moved \subseteq Session
          /\ spoilt \subseteq (Faults \cup {"gc"}) \X (Session \cup Ref \cup {None})
        BY DEF Init
    <2> QED
        BY <2>1, <2>2, <2>3, <2>4, <2>5, <2>7 DEF TypeOK
<1>3. ~ Loading /\ \A op : ~ AtHead(op)
    BY <1>1 DEF Loading, AtHead
<1>4. Shown /\ Listed /\ Flat
    BY <1>1, <1>3 DEF Init, Shown, Listed, Flat
<1>5. OwnImages /\ Saved /\ Own /\ Stored /\ ImagesKept
    BY <1>1 DEF Init, OwnImages, Saved, Own, Stored, ImagesKept
<1>6. NoGraphForgotten
    BY DEF Init, NoGraphForgotten
<1> QED
    BY <1>2, <1>4, <1>5, <1>6 DEF IInv

\* The graph on disk is the one in memory, or its write failed.
LEMMA SaveGraphKeeps ==
    ASSUME IInv, SaveGraph
    PROVE  IInv'
<1> USE DEF IInv
<1>1. /\ todo[1] \in Step /\ todo[1].op = "graph" /\ Head(todo) = todo[1] /\ todo # <<>>
      /\ Follows(todo, 1, listed, sess)
      /\ todo' \in Program(listed, sess) /\ todo' \in Seq(Step)
      /\ ~ Loading /\ ~ Loading'
      /\ ~ AtHead("blob")' /\ ~ AtHead("move")'
    <2>1. todo \in Program(listed, sess) /\ Take("graph")
        BY DEF SaveGraph, Shown
    <2> QED
        BY <2>1, Taking, TakingOne DEF Program
<1>2. UNCHANGED <<flat, blobs, manifests, trash, mark, sess, graph, listed, moved>>
    BY DEF SaveGraph, memory
<1>3. \/ /\ graphs' = [graphs EXCEPT ![sess] = graph] /\ opened' = {}
         /\ \A c, x : Ok(c, x)' <=> Ok(c, x) \/ (c = "graph" /\ x = sess)
      \/ /\ graphs' = graphs /\ opened' = opened
         /\ \A c, x : Ok(c, x)' <=> Ok(c, x) /\ ~ (c = "graph" /\ x = sess)
    BY FailedFacts, SucceededFacts DEF SaveGraph, TypeOK
<1>4. spoilt' \subseteq (Faults \cup {"gc"}) \X (Session \cup Ref \cup {None})
    BY FailedFacts, SucceededFacts DEF SaveGraph, TypeOK
<1>10. TypeOK'
    BY <1>1, <1>2, <1>3, <1>4 DEF TypeOK
<1>11. OwnImages'
    BY <1>1, <1>2, <1>3, <1>4 DEF OwnImages, Own, TypeOK
<1>12. Shown'
    BY <1>1, <1>2, <1>3, <1>4 DEF Shown, AtHead
<1>13. Listed'
    BY <1>1, <1>2, <1>3, <1>4 DEF Listed, AtHead
<1>14. Flat'
    BY <1>1, <1>2, <1>3, <1>4 DEF Flat, AtHead
<1>15. Saved'
    <2>1. graph # None
        BY DEF TypeOK, Node
    <2> QED
        BY <1>1, <1>2, <1>3, <1>4, <2>1 DEF Saved, Loaded, TypeOK
<1>16. Own'
    BY <1>1, <1>2, <1>3, <1>4 DEF Own, TypeOK
<1>17. Stored'
    BY <1>1, <1>2, <1>3, <1>4 DEF Stored, AtHead
<1>18. ImagesKept'
    BY <1>1, <1>2, <1>3, <1>4 DEF ImagesKept, TypeOK, Stored, AtHead
<1>19. NoGraphForgotten'
    BY <1>1, <1>2, <1>3, <1>4 DEF NoGraphForgotten, TypeOK, Shown, Listed, AtHead
<1> QED
    BY <1>10, <1>11, <1>12, <1>13, <1>14, <1>15, <1>16, <1>17, <1>18, <1>19

\* A sweep by a graph saved takes no image that the one on disk has.
LEMMA SweepImagesKeeps ==
    ASSUME IInv, SweepImages
    PROVE  IInv'
<1> USE DEF IInv
<1>1. /\ todo[1] \in Step /\ todo[1].op = "gc" /\ Head(todo) = todo[1] /\ todo # <<>>
      /\ Follows(todo, 1, listed, sess)
      /\ todo' \in Program(listed, sess) /\ todo' \in Seq(Step)
      /\ ~ Loading /\ ~ Loading'
      /\ ~ Saving
      /\ ~ AtHead("blob")' /\ ~ AtHead("move")'
    <2>1. todo \in Program(listed, sess) /\ Take("gc")
        BY DEF SweepImages, Shown
    <2> QED
        BY <2>1, Taking, TakingOne DEF Program
<1>2. UNCHANGED <<flat, graphs, manifests, trash, mark, sess, graph, listed, moved, opened>>
    BY DEF SweepImages, memory
<1>3. /\ blobs' = [blobs EXCEPT ![sess] = @ \cap graph]
      /\ \A c, x : Ok(c, x)' <=> Ok(c, x) /\ ~ (c = "gc" /\ x = sess /\ ~ Ok("graph", sess))
    BY DEF SweepImages, Ok
<1>4. spoilt' \subseteq (Faults \cup {"gc"}) \X (Session \cup Ref \cup {None})
    BY DEF SweepImages, TypeOK
<1>10. TypeOK'
    BY <1>1, <1>2, <1>3, <1>4 DEF TypeOK
<1>11. OwnImages'
    BY <1>1, <1>2, <1>3, <1>4 DEF OwnImages, Own, TypeOK
<1>12. Shown'
    BY <1>1, <1>2, <1>3, <1>4 DEF Shown, AtHead
<1>13. Listed'
    BY <1>1, <1>2, <1>3, <1>4 DEF Listed, AtHead
<1>14. Flat'
    BY <1>1, <1>2, <1>3, <1>4 DEF Flat, AtHead
<1>15. Saved'
    BY <1>1, <1>2, <1>3, <1>4 DEF Saved, Loaded, TypeOK
<1>16. Own'
    BY <1>1, <1>2, <1>3, <1>4 DEF Own, TypeOK
<1>17. Stored'
    BY <1>1, <1>2, <1>3, <1>4 DEF Stored, AtHead
<1>18. ImagesKept'
    BY <1>1, <1>2, <1>3, <1>4 DEF ImagesKept, TypeOK, Saved, Loaded, Stored, AtHead
<1>19. NoGraphForgotten'
    BY <1>1, <1>2, <1>3, <1>4 DEF NoGraphForgotten, TypeOK, Shown, Listed, AtHead
<1> QED
    BY <1>10, <1>11, <1>12, <1>13, <1>14, <1>15, <1>16, <1>17, <1>18, <1>19

\* Every session listed has its manifest, or the write failed.
LEMMA FlushManifestsKeeps ==
    ASSUME IInv, FlushManifests
    PROVE  IInv'
<1> USE DEF IInv
<1>1. /\ todo[1] \in Step /\ todo[1].op = "manifest" /\ Head(todo) = todo[1] /\ todo # <<>>
      /\ Follows(todo, 1, listed, sess)
      /\ todo' \in Program(listed, sess) /\ todo' \in Seq(Step)
      /\ Loading <=> Loading'
      /\ Saving <=> Saving'
      /\ ~ AtHead("blob")' /\ ~ AtHead("move")'
    <2>1. todo \in Program(listed, sess) /\ Take("manifest")
        BY DEF FlushManifests, Shown
    <2> QED
        BY <2>1, Taking, TakingOne DEF Program
<1>2. UNCHANGED <<flat, graphs, blobs, trash, mark, sess, graph, listed, opened>>
    BY DEF FlushManifests, memory
<1>3. \/ /\ manifests' = manifests \cup listed /\ moved' = moved \ listed
         /\ \A c, x : Ok(c, x)' <=> Ok(c, x) \/ (c = "manifest" /\ x \in listed)
      \/ /\ manifests' = manifests /\ moved' = moved
         /\ \A c, x : Ok(c, x)' <=> Ok(c, x) /\ ~ (c = "manifest" /\ x \in listed \ manifests)
    BY FailedFacts, SucceededFacts DEF FlushManifests, TypeOK
<1>4. spoilt' \subseteq (Faults \cup {"gc"}) \X (Session \cup Ref \cup {None})
    BY FailedFacts, SucceededFacts DEF FlushManifests, TypeOK
<1>10. TypeOK'
    BY <1>1, <1>2, <1>3, <1>4 DEF TypeOK, Shown
<1>11. OwnImages'
    BY <1>1, <1>2, <1>3, <1>4 DEF OwnImages, Own, TypeOK
<1>12. Shown'
    BY <1>1, <1>2, <1>3, <1>4 DEF Shown, AtHead
<1>13. Listed'
    BY <1>1, <1>2, <1>3, <1>4 DEF Listed, AtHead
<1>14. Flat'
    BY <1>1, <1>2, <1>3, <1>4 DEF Flat, AtHead
<1>15. Saved'
    BY <1>1, <1>2, <1>3, <1>4 DEF Saved, Loaded, TypeOK
<1>16. Own'
    BY <1>1, <1>2, <1>3, <1>4 DEF Own, TypeOK
<1>17. Stored'
    BY <1>1, <1>2, <1>3, <1>4 DEF Stored, AtHead
<1>18. ImagesKept'
    BY <1>1, <1>2, <1>3, <1>4 DEF ImagesKept, TypeOK, Stored, AtHead
<1>19. NoGraphForgotten'
    BY <1>1, <1>2, <1>3, <1>4 DEF NoGraphForgotten, Flat, TypeOK, Shown, Listed, AtHead
<1> QED
    BY <1>10, <1>11, <1>12, <1>13, <1>14, <1>15, <1>16, <1>17, <1>18, <1>19

\* The image is there before the graph that has it is saved.
LEMMA StoreImageKeeps ==
    ASSUME IInv, StoreImage
    PROVE  IInv'
<1> USE DEF IInv
<1>1. /\ todo[1] \in Step /\ todo[1].op = "blob" /\ Head(todo) = todo[1] /\ todo # <<>>
      /\ Follows(todo, 1, listed, sess)
      /\ todo' \in Program(listed, sess) /\ todo' \in Seq(Step)
      /\ ~ Loading /\ ~ Loading'
      /\ Saving <=> Saving'
      /\ ~ AtHead("blob")' /\ ~ AtHead("move")'
    <2>1. todo \in Program(listed, sess) /\ Take("blob")
        BY DEF StoreImage, Shown
    <2> QED
        BY <2>1, Taking, TakingOne DEF Program
<1> DEFINE r == todo[1].on
<1>2. UNCHANGED <<flat, graphs, manifests, trash, mark, sess, graph, listed, moved, opened>>
    BY DEF StoreImage, memory
<1>3. r \in Ref /\ r[1] = sess
    BY <1>1 DEF Follows
<1>5. \/ Succeeded("blob", {r}) /\ blobs' = [blobs EXCEPT ![sess] = @ \cup {r}]
      \/ Failed("blob", {r}) /\ blobs' = blobs
    BY <1>1 DEF StoreImage
<1> HIDE DEF r
<1>6. {r} \in SUBSET (Session \cup Ref \cup {None})
    BY <1>3
<1>7. \/ /\ blobs' = [blobs EXCEPT ![sess] = @ \cup {r}]
         /\ \A c, x : Ok(c, x)' <=> Ok(c, x) \/ (c = "blob" /\ x = r)
      \/ /\ blobs' = blobs
         /\ \A c, x : Ok(c, x)' <=> Ok(c, x) /\ ~ (c = "blob" /\ x = r)
    BY <1>5, <1>6, FailedFacts, SucceededFacts
<1>4. spoilt' \subseteq (Faults \cup {"gc"}) \X (Session \cup Ref \cup {None})
    BY <1>5, <1>6, FailedFacts, SucceededFacts
<1>8. todo[1].on = r
    BY DEF r
<1>10. TypeOK'
    BY <1>1, <1>2, <1>3, <1>4, <1>7, <1>8 DEF TypeOK
<1>11. OwnImages'
    BY <1>1, <1>2, <1>3, <1>4, <1>7, <1>8 DEF OwnImages, Own, TypeOK
<1>12. Shown'
    BY <1>1, <1>2, <1>3, <1>4, <1>7, <1>8 DEF Shown, AtHead
<1>13. Listed'
    BY <1>1, <1>2, <1>3, <1>4, <1>7, <1>8 DEF Listed, AtHead
<1>14. Flat'
    BY <1>1, <1>2, <1>3, <1>4, <1>7, <1>8 DEF Flat, AtHead
<1>15. Saved'
    BY <1>1, <1>2, <1>3, <1>4, <1>7, <1>8 DEF Saved, Loaded, TypeOK
<1>16. Own'
    BY <1>1, <1>2, <1>3, <1>4, <1>7, <1>8 DEF Own, TypeOK
<1>17. Stored'
    BY <1>1, <1>2, <1>3, <1>4, <1>7, <1>8 DEF Stored, TypeOK, AtHead
<1>18. ImagesKept'
    BY <1>1, <1>2, <1>3, <1>4, <1>7, <1>8 DEF ImagesKept, OwnImages, TypeOK, Stored, AtHead
<1>19. NoGraphForgotten'
    BY <1>1, <1>2, <1>3, <1>4, <1>7, <1>8 DEF NoGraphForgotten, TypeOK, Shown, Listed, AtHead
<1> QED
    BY <1>10, <1>11, <1>12, <1>13, <1>14, <1>15, <1>16, <1>17, <1>18, <1>19

\* A session goes to the trash when another is about to be adopted.
LEMMA ApplyTrashKeeps ==
    ASSUME IInv, ApplyTrash
    PROVE  IInv'
<1> USE DEF IInv
<1>1. /\ todo[1] \in Step /\ todo[1].op = "trash" /\ Head(todo) = todo[1] /\ todo # <<>>
      /\ Follows(todo, 1, listed, sess)
      /\ todo' \in Program(listed, sess) /\ todo' \in Seq(Step)
      /\ ~ Loading /\ ~ Loading'
      /\ Saving <=> Saving'
      /\ ~ AtHead("blob")' /\ ~ AtHead("move")'
    <2>1. todo \in Program(listed, sess) /\ Take("trash")
        BY DEF ApplyTrash, Shown
    <2> QED
        BY <2>1, Taking, TakingOne DEF Program
<1>2. UNCHANGED <<flat, graphs, blobs, mark, sess, graph, moved, spoilt, opened>>
    BY DEF ApplyTrash, history
<1>3. \/ /\ sess \in manifests /\ trash' = trash \cup {sess}
         /\ manifests' = manifests \ {sess} /\ listed' = listed \ {sess}
      \/ UNCHANGED <<trash, manifests, listed>>
    BY DEF ApplyTrash
<1>4. \A c, x : Ok(c, x)' <=> Ok(c, x)
    BY <1>2 DEF Ok
<1>5. AtHead("adopt")' /\ todo' \in Program(listed', sess)
    <2>1. AtHead("adopt")' /\ todo' \in Program(listed \ {sess}, sess)
        BY TakingOne DEF ApplyTrash, Shown
    <2> QED
        BY <1>1, <1>3, <2>1
<1>10. TypeOK'
    BY <1>1, <1>2, <1>3, <1>4, <1>5 DEF TypeOK
<1>11. OwnImages'
    BY <1>1, <1>2, <1>3, <1>4, <1>5 DEF OwnImages, Own, TypeOK
<1>12. Shown'
    BY <1>1, <1>2, <1>3, <1>4, <1>5 DEF Shown, AtHead
<1>13. Listed'
    BY <1>1, <1>2, <1>3, <1>4, <1>5 DEF Listed, AtHead
<1>14. Flat'
    BY <1>1, <1>2, <1>3, <1>4, <1>5 DEF Flat, AtHead
<1>15. Saved'
    BY <1>1, <1>2, <1>3, <1>4, <1>5 DEF Saved, Loaded, TypeOK
<1>16. Own'
    BY <1>1, <1>2, <1>3, <1>4, <1>5 DEF Own, TypeOK
<1>17. Stored'
    BY <1>1, <1>2, <1>3, <1>4, <1>5 DEF Stored, AtHead
<1>18. ImagesKept'
    BY <1>1, <1>2, <1>3, <1>4, <1>5 DEF ImagesKept, TypeOK, Stored, AtHead
<1>19. NoGraphForgotten'
    BY <1>1, <1>2, <1>3, <1>4, <1>5 DEF NoGraphForgotten, TypeOK, Shown, Listed, AtHead
<1> QED
    BY <1>10, <1>11, <1>12, <1>13, <1>14, <1>15, <1>16, <1>17, <1>18, <1>19

\* The session adopted is marked; its graph is not yet the one in memory ...
LEMMA AdoptKeeps ==
    ASSUME IInv, Adopt
    PROVE  IInv'
<1> USE DEF IInv
<1>1. /\ todo[1] \in Step /\ todo[1].op = "adopt" /\ Head(todo) = todo[1] /\ todo # <<>>
      /\ Follows(todo, 1, listed, sess)
      /\ todo' \in Program(listed, sess) /\ todo' \in Seq(Step)
      /\ ~ Loading
      /\ ~ AtHead("blob")' /\ ~ AtHead("move")'
    <2>1. todo \in Program(listed, sess) /\ Take("adopt")
        BY DEF Adopt, Shown
    <2> QED
        BY <2>1, Taking, TakingOne DEF Program
<1>2. /\ UNCHANGED <<flat, graphs, blobs, manifests, trash, graph, listed, moved, opened>>
      /\ sess' = todo[1].on
    BY <1>1 DEF Adopt
<1>3. sess' \in listed /\ sess' \in Session
    BY <1>1, <1>2 DEF Follows, TypeOK
<1>4. \/ /\ mark' = sess'
         /\ \A c, x : Ok(c, x)' <=> Ok(c, x) \/ (c = "mark" /\ x \in Session)
      \/ /\ mark' = mark
         /\ \A c, x : Ok(c, x)' <=> Ok(c, x) /\ ~ (c = "mark" /\ x = sess')
    BY <1>3, FailedFacts, SucceededFacts DEF Adopt, TypeOK
<1>5. spoilt' \subseteq (Faults \cup {"gc"}) \X (Session \cup Ref \cup {None})
    BY <1>3, FailedFacts, SucceededFacts DEF Adopt, TypeOK
<1>6. Loading' /\ todo' \in Program(listed', sess')
    <2>1. /\ Len(todo) = 3 /\ todo \in Seq(Step)
          /\ todo[2].op = "manifest" /\ todo[3].op = "load" /\ todo' = Tail(todo)
        BY <1>1, AdoptingIs DEF Adopt, Take, Shown
    <2>4. /\ Len(todo') = Len(todo) - 1
          /\ \A j \in DOMAIN todo' : todo'[j] = todo[j + 1]
        BY <1>1, <2>1, Rest DEF Shown
    <2>8. Len(todo') = 2
        BY <2>1, <2>4
    <2>5. Len(todo') = 2 /\ DOMAIN todo' = 1..2 /\ todo' # <<>>
        BY <1>1, <2>8
    <2>6. todo'[1] = todo[1 + 1] /\ todo'[2] = todo[2 + 1]
        BY <2>4, <2>5
    <2>2. Len(todo') = 2 /\ todo'[2].op = "load" /\ todo'[1].op = "manifest" /\ todo' # <<>>
        BY <2>1, <2>5, <2>6
    <2>3. DOMAIN todo' = {1, 2}
        BY <2>5
    <2>7. Follows(todo', 1, listed', sess') /\ Follows(todo', 2, listed', sess')
        BY <2>2 DEF Follows
    <2> QED
        BY <1>1, <2>2, <2>3, <2>7 DEF Loading, Program
<1>10. TypeOK'
    BY <1>1, <1>2, <1>3, <1>4, <1>5, <1>6 DEF TypeOK
<1>11. OwnImages'
    BY <1>1, <1>2, <1>3, <1>4, <1>5, <1>6 DEF OwnImages, Own, TypeOK
<1>12. Shown'
    BY <1>1, <1>2, <1>3, <1>4, <1>5, <1>6 DEF Shown, AtHead
<1>13. Listed'
    BY <1>1, <1>2, <1>3, <1>4, <1>5, <1>6 DEF Listed, AtHead
<1>14. Flat'
    BY <1>1, <1>2, <1>3, <1>4, <1>5, <1>6 DEF Flat, AtHead
<1>15. Saved'
    BY <1>1, <1>2, <1>3, <1>4, <1>5, <1>6 DEF Saved, Loaded, TypeOK
<1>16. Own'
    BY <1>1, <1>2, <1>3, <1>4, <1>5, <1>6 DEF Own, TypeOK
<1>17. Stored'
    BY <1>1, <1>2, <1>3, <1>4, <1>5, <1>6 DEF Stored, AtHead
<1>18. ImagesKept'
    BY <1>1, <1>2, <1>3, <1>4, <1>5, <1>6 DEF ImagesKept, TypeOK, Stored, AtHead
<1>19. NoGraphForgotten'
    BY <1>1, <1>2, <1>3, <1>4, <1>5, <1>6 DEF NoGraphForgotten, TypeOK, Shown, Listed, AtHead
<1> QED
    BY <1>10, <1>11, <1>12, <1>13, <1>14, <1>15, <1>16, <1>17, <1>18, <1>19

\* ... until it is loaded.
LEMMA LoadGraphKeeps ==
    ASSUME IInv, LoadGraph
    PROVE  IInv'
<1> USE DEF IInv
<1>1. /\ todo[1] \in Step /\ todo[1].op = "load" /\ Head(todo) = todo[1] /\ todo # <<>>
      /\ Follows(todo, 1, listed, sess)
      /\ todo' \in Program(listed, sess) /\ todo' \in Seq(Step)
      /\ Saving <=> Saving'
      /\ ~ AtHead("blob")' /\ ~ AtHead("move")'
    <2>1. todo \in Program(listed, sess) /\ Take("load")
        BY DEF LoadGraph, Shown
    <2> QED
        BY <2>1, Taking, TakingOne DEF Program
<1>2. /\ UNCHANGED <<flat, graphs, blobs, manifests, trash, mark, sess, listed, moved, spoilt>>
      /\ graph' = (IF graphs[sess] = None THEN {} ELSE graphs[sess]) /\ opened' = {}
    BY DEF LoadGraph, Loaded, disk, history
<1>3. \A c, x : Ok(c, x)' <=> Ok(c, x)
    BY <1>2 DEF Ok
<1>4. todo' = <<>> /\ Loading /\ ~ Loading'
    BY TakingOne DEF LoadGraph, Shown, Loading
<1>5. sess \in Session
    BY <1>4 DEF Shown, TypeOK
<1>10. TypeOK'
    <2>1. graph' \subseteq Node
        <3>1. CASE graphs[sess] = None
            BY <1>2, <3>1
        <3>2. CASE graphs[sess] # None
            <4>2. graphs[sess] \in (SUBSET Node) \cup {None}
                BY <1>5, Zenon DEF TypeOK
            <4>1. graphs[sess] \in SUBSET Node
                BY <3>2, <4>2
            <4> QED
                BY <1>2, <3>2, <4>1
        <3> QED
            BY <3>1, <3>2
    <2> QED
        BY <1>1, <1>2, <2>1 DEF TypeOK
<1>11. OwnImages'
    BY <1>1, <1>2, <1>3, <1>4, <1>5 DEF OwnImages, Own, TypeOK
<1>12. Shown'
    BY <1>1, <1>2, <1>3, <1>4, <1>5 DEF Shown, AtHead
<1>13. Listed'
    BY <1>1, <1>2, <1>3, <1>4, <1>5 DEF Listed, AtHead
<1>14. Flat'
    BY <1>1, <1>2, <1>3, <1>4, <1>5 DEF Flat, AtHead
<1>15. Saved'
    BY <1>1, <1>2, <1>3, <1>4, <1>5 DEF Saved, Loaded, TypeOK
<1>16. Own'
    BY <1>1, <1>2, <1>3, <1>4, <1>5 DEF Own, OwnImages
<1>17. Stored'
    BY <1>1, <1>2, <1>3, <1>4, <1>5 DEF Stored, ImagesKept, AtHead
<1>18. ImagesKept'
    BY <1>1, <1>2, <1>3, <1>4, <1>5 DEF ImagesKept, TypeOK, Stored, AtHead
<1>19. NoGraphForgotten'
    BY <1>1, <1>2, <1>3, <1>4, <1>5 DEF NoGraphForgotten, TypeOK, Shown, Listed, AtHead
<1> QED
    BY <1>10, <1>11, <1>12, <1>13, <1>14, <1>15, <1>16, <1>17, <1>18, <1>19

\* A fork's graph is written while the graph shown is still to be saved.
LEMMA SaveForkKeeps ==
    ASSUME IInv, SaveFork
    PROVE  IInv'
<1> USE DEF IInv
<1>1. /\ todo[1] \in Step /\ todo[1].op = "copy" /\ Head(todo) = todo[1] /\ todo # <<>>
      /\ Follows(todo, 1, listed, sess)
      /\ todo' \in Program(listed, sess) /\ todo' \in Seq(Step)
      /\ ~ Loading /\ ~ Loading'
      /\ Saving'
      /\ ~ AtHead("blob")' /\ ~ AtHead("move")'
    <2>1. todo \in Program(listed, sess) /\ Take("copy")
        BY DEF SaveFork, Shown
    <2> QED
        BY <2>1, Taking, TakingOne DEF Program
<1> DEFINE s == todo[1].on
           copied == {<<s, NoImage>>}
<1>2. UNCHANGED <<flat, blobs, manifests, trash, mark, sess, graph, listed, moved, opened>>
    BY DEF SaveFork, memory
<1>3. s \in listed /\ s \in Session
    BY <1>1 DEF Follows, TypeOK
<1>5. \/ Succeeded("graph", {s}) /\ graphs' = [graphs EXCEPT ![s] = copied]
      \/ Failed("graph", {s}) /\ graphs' = graphs
    BY <1>1 DEF SaveFork
<1>8. copied \subseteq Node /\ copied \cap Ref = {} /\ \A x \in copied : x[1] = s
    BY <1>3 DEF Node, Ref
<1> HIDE DEF copied, s
<1>6. {s} \in SUBSET (Session \cup Ref \cup {None})
    BY <1>3
<1>7. \/ /\ graphs' = [graphs EXCEPT ![s] = copied]
         /\ \A c, x : Ok(c, x)' <=> Ok(c, x) \/ (c = "graph" /\ x = s)
      \/ /\ graphs' = graphs
         /\ \A c, x : Ok(c, x)' <=> Ok(c, x) /\ ~ (c = "graph" /\ x = s)
    BY <1>5, <1>6, FailedFacts, SucceededFacts
<1>4. spoilt' \subseteq (Faults \cup {"gc"}) \X (Session \cup Ref \cup {None})
    BY <1>5, <1>6, FailedFacts, SucceededFacts
<1>10. TypeOK'
    BY <1>1, <1>2, <1>3, <1>4, <1>7, <1>8 DEF TypeOK
<1>11. OwnImages'
    BY <1>1, <1>2, <1>3, <1>4, <1>7, <1>8 DEF OwnImages, Own, TypeOK
<1>12. Shown'
    BY <1>1, <1>2, <1>3, <1>4, <1>7, <1>8 DEF Shown, AtHead
<1>13. Listed'
    BY <1>1, <1>2, <1>3, <1>4, <1>7, <1>8 DEF Listed, AtHead
<1>14. Flat'
    BY <1>1, <1>2, <1>3, <1>4, <1>7, <1>8 DEF Flat, AtHead
<1>15. Saved'
    BY <1>1, <1>2, <1>3, <1>4, <1>7, <1>8 DEF Saved, TypeOK
<1>16. Own'
    BY <1>1, <1>2, <1>3, <1>4, <1>7, <1>8 DEF Own, TypeOK
<1>17. Stored'
    BY <1>1, <1>2, <1>3, <1>4, <1>7, <1>8 DEF Stored, AtHead
<1>18. ImagesKept'
    BY <1>1, <1>2, <1>3, <1>4, <1>7, <1>8 DEF ImagesKept, TypeOK, Stored, AtHead
<1>19. NoGraphForgotten'
    BY <1>1, <1>2, <1>3, <1>4, <1>7, <1>8 DEF NoGraphForgotten, TypeOK, Shown, Listed, AtHead
<1> QED
    BY <1>10, <1>11, <1>12, <1>13, <1>14, <1>15, <1>16, <1>17, <1>18, <1>19

\* The flat graph goes to a session that has no manifest yet.
LEMMA MoveFlatKeeps ==
    ASSUME IInv, MoveFlat
    PROVE  IInv'
<1> USE DEF IInv
<1> DEFINE s == todo[1].on
<1>1. /\ s \in Session /\ s \notin trash /\ sess = None /\ Head(todo) = todo[1] /\ todo # <<>>
    <2>1. /\ todo \in Program(listed, sess) /\ todo # <<>> /\ Head(todo).op = "move"
        BY DEF MoveFlat, Shown
    <2>2. Head(todo) = todo[1] /\ Follows(todo, 1, listed, sess)
        BY <2>1, Rest
    <2> QED
        BY <2>1, <2>2 DEF Follows, Shown, AtHead
<1>2. /\ UNCHANGED <<blobs, manifests, trash, mark, sess, graph, opened>>
      /\ listed' = {s} /\ todo' = AdoptMinted(s)
    BY <1>1 DEF MoveFlat, Mint, AdoptMinted
<1>3. \/ /\ graphs' = [graphs EXCEPT ![s] = flat] /\ flat' = None
         /\ moved' = moved \cup {s} /\ spoilt' = spoilt
         /\ \A c, x : Ok(c, x)' <=> Ok(c, x)
      \/ /\ UNCHANGED <<graphs, flat, moved>>
         /\ \A c, x : Ok(c, x)' <=> Ok(c, x) /\ ~ (c = "move" /\ x = None)
    BY <1>1, FailedFacts DEF MoveFlat, Ok
<1>4. spoilt' \subseteq (Faults \cup {"gc"}) \X (Session \cup Ref \cup {None})
    BY <1>1, FailedFacts DEF MoveFlat, TypeOK
<1>5. /\ todo' \in Program(listed', sess') /\ todo' \in Seq(Step) /\ todo' # <<>>
      /\ ~ Loading' /\ \A op : AtHead(op)' <=> op = todo'[1].op
      /\ todo'[1].op = "manifest"
    <2>1. /\ todo' \in Program(listed', sess') /\ Len(todo') = 4 /\ todo'[1].op = "manifest"
        BY <1>1, <1>2, Minting
    <2>2. todo' \in Seq(Step) /\ todo' # <<>> /\ ~ Loading'
        <3>1. todo' \in Seq(Step)
            BY <2>1 DEF Program
        <3>2. ~ (Len(todo') <= 2)
            BY <2>1
        <3>3. todo' # <<>>
            BY <2>1, <3>1, NotEmpty
        <3> QED
            BY <3>1, <3>2, <3>3 DEF Loading
    <2> QED
        BY <2>1, <2>2 DEF AtHead
<1> HIDE DEF s
<1>10. TypeOK'
    <2>1. flat \in (SUBSET Node) \cup {None}
        BY DEF TypeOK
    <2>2. graphs' \in [Session -> (SUBSET Node) \cup {None}]
        BY <1>1, <1>3, <2>1 DEF TypeOK
    <2> QED
        BY <1>1, <1>2, <1>3, <1>4, <1>5, <2>2 DEF TypeOK
<1>11. OwnImages'
    BY <1>1, <1>2, <1>3, <1>4, <1>5 DEF OwnImages, TypeOK
<1>12. Shown'
    BY <1>1, <1>2, <1>3, <1>4, <1>5 DEF Shown
<1>13. Listed'
    BY <1>1, <1>2, <1>3, <1>4, <1>5 DEF Listed
<1>14. Flat'
    BY <1>1, <1>2, <1>3, <1>4, <1>5 DEF Flat
<1>15. Saved'
    BY <1>1, <1>2, <1>3, <1>4, <1>5 DEF Saved, Loaded
<1>16. Own'
    BY <1>1, <1>2, <1>3, <1>4, <1>5 DEF Own
<1>17. Stored'
    BY <1>1, <1>2, <1>3, <1>4, <1>5 DEF Stored
<1>18. ImagesKept'
    BY <1>1, <1>2, <1>3, <1>4, <1>5 DEF ImagesKept, TypeOK
<1>19. NoGraphForgotten'
    BY <1>1, <1>2, <1>3, <1>4, <1>5 DEF NoGraphForgotten, TypeOK
<1> QED
    BY <1>10, <1>11, <1>12, <1>13, <1>14, <1>15, <1>16, <1>17, <1>18, <1>19

\* What is opened is not on disk, and known not to be.
LEMMA VisitKeeps ==
    ASSUME IInv, Visit
    PROVE  IInv'
<1> USE DEF IInv
<1>1. /\ sess \in Session /\ sess \in listed /\ todo = <<>>
      /\ ~ Loading /\ ~ Saving /\ \A op : ~ AtHead(op)
    BY DEF Visit, Running, Shown, TypeOK, Loading, Saving, AtHead
<1>2. /\ UNCHANGED <<flat, graphs, blobs, manifests, trash, mark, sess, listed, moved, spoilt>>
      /\ graph' = graph \cup {<<sess, NoImage>>} /\ <<sess, NoImage>> \in Node
      /\ <<sess, NoImage>> \notin Ref /\ <<sess, NoImage>>[1] = sess
      /\ opened' = opened \cup {<<sess, NoImage>>} /\ todo' = todo
    BY <1>1 DEF Visit, disk, Node, Ref
<1>3. /\ todo' \in Program(listed', sess') /\ todo' \in Seq(Step) /\ todo' = <<>>
      /\ ~ Loading' /\ ~ Saving' /\ \A op : ~ AtHead(op)'
    BY <1>1, <1>2, Done DEF Program, Loading, Saving, AtHead
<1>4. \A c, x : Ok(c, x)' <=> Ok(c, x)
    BY <1>2 DEF Ok
<1>10. TypeOK'
    BY <1>1, <1>2, <1>3, <1>4 DEF TypeOK
<1>11. OwnImages'
    BY <1>1, <1>2, <1>3, <1>4 DEF OwnImages
<1>12. Shown'
    BY <1>1, <1>2, <1>3, <1>4 DEF Shown
<1>13. Listed'
    BY <1>1, <1>2, <1>3, <1>4 DEF Listed
<1>14. Flat'
    BY <1>1, <1>2, <1>3, <1>4 DEF Flat, TypeOK
<1>15. Saved'
    BY <1>1, <1>2, <1>3, <1>4 DEF Saved, Loaded
<1>16. Own'
    BY <1>1, <1>2, <1>3, <1>4 DEF Own
<1>17. Stored'
    BY <1>1, <1>2, <1>3, <1>4 DEF Stored
<1>18. ImagesKept'
    BY <1>1, <1>2, <1>3, <1>4 DEF ImagesKept
<1>19. NoGraphForgotten'
    BY <1>1, <1>2, <1>3, <1>4 DEF NoGraphForgotten
<1> QED
    BY <1>10, <1>11, <1>12, <1>13, <1>14, <1>15, <1>16, <1>17, <1>18, <1>19


\* A save alone.
LEMMA SaveKeeps ==
    ASSUME IInv, Save
    PROVE  IInv'
<1> USE DEF IInv
<1>1. /\ sess \in Session /\ sess \in listed /\ todo = <<>>
      /\ ~ Loading /\ ~ Saving /\ \A op : ~ AtHead(op)
    BY DEF Save, Running, Shown, TypeOK, Loading, Saving, AtHead
<1>2. /\ UNCHANGED <<flat, graphs, blobs, manifests, trash, mark, sess, graph, listed, moved, spoilt, opened>>
      /\ todo' = SaveSession
    BY <1>1 DEF Save, disk, memory, history
<1>3. /\ todo' \in Program(listed', sess') /\ todo' \in Seq(Step) /\ todo' # <<>>
      /\ ~ Loading' /\ \A op : AtHead(op)' <=> op = todo'[1].op
      /\ todo'[1].op = "graph" /\ Saving'
    <2>1. todo' \in Program(listed', sess') /\ Len(todo') >= 3 /\ todo'[1].op = "graph"
        BY <1>2, SavingAlone
    <2> QED
        BY <2>1 DEF Program, Loading, AtHead, Saving
<1>4. \A c, x : Ok(c, x)' <=> Ok(c, x)
    BY <1>2 DEF Ok
<1>10. TypeOK'
    BY <1>1, <1>2, <1>3, <1>4 DEF TypeOK
<1>11. OwnImages'
    BY <1>1, <1>2, <1>3, <1>4 DEF OwnImages
<1>12. Shown'
    BY <1>1, <1>2, <1>3, <1>4 DEF Shown
<1>13. Listed'
    BY <1>1, <1>2, <1>3, <1>4 DEF Listed
<1>14. Flat'
    BY <1>1, <1>2, <1>3, <1>4 DEF Flat, TypeOK
<1>15. Saved'
    BY <1>1, <1>2, <1>3, <1>4 DEF Saved, Loaded
<1>16. Own'
    BY <1>1, <1>2, <1>3, <1>4 DEF Own
<1>17. Stored'
    BY <1>1, <1>2, <1>3, <1>4 DEF Stored
<1>18. ImagesKept'
    BY <1>1, <1>2, <1>3, <1>4 DEF ImagesKept
<1>19. NoGraphForgotten'
    BY <1>1, <1>2, <1>3, <1>4 DEF NoGraphForgotten
<1> QED
    BY <1>10, <1>11, <1>12, <1>13, <1>14, <1>15, <1>16, <1>17, <1>18, <1>19


\* What adds a node is followed by its save ...
LEMMA AddNodeKeeps ==
    ASSUME IInv, AddNode
    PROVE  IInv'
<1> USE DEF IInv
<1>1. /\ sess \in Session /\ sess \in listed /\ todo = <<>>
      /\ ~ Loading /\ ~ Saving /\ \A op : ~ AtHead(op)
    BY DEF AddNode, Running, Shown, TypeOK, Loading, Saving, AtHead
<1>2. /\ UNCHANGED <<flat, graphs, blobs, manifests, trash, mark, sess, listed, moved, spoilt, opened>>
      /\ graph' = graph \cup {<<sess, NoImage>>} /\ <<sess, NoImage>> \in Node
      /\ <<sess, NoImage>> \notin Ref /\ <<sess, NoImage>>[1] = sess
      /\ todo' = SaveSession
    BY <1>1 DEF AddNode, disk, history, Node, Ref
<1>3. /\ todo' \in Program(listed', sess') /\ todo' \in Seq(Step) /\ todo' # <<>>
      /\ ~ Loading' /\ \A op : AtHead(op)' <=> op = todo'[1].op
      /\ todo'[1].op = "graph" /\ Saving'
    <2>1. todo' \in Program(listed', sess') /\ Len(todo') >= 3 /\ todo'[1].op = "graph"
        BY <1>2, SavingAlone
    <2> QED
        BY <2>1 DEF Program, Loading, AtHead, Saving
<1>4. \A c, x : Ok(c, x)' <=> Ok(c, x)
    BY <1>2 DEF Ok
<1>10. TypeOK'
    BY <1>1, <1>2, <1>3, <1>4 DEF TypeOK
<1>11. OwnImages'
    BY <1>1, <1>2, <1>3, <1>4 DEF OwnImages
<1>12. Shown'
    BY <1>1, <1>2, <1>3, <1>4 DEF Shown
<1>13. Listed'
    BY <1>1, <1>2, <1>3, <1>4 DEF Listed
<1>14. Flat'
    BY <1>1, <1>2, <1>3, <1>4 DEF Flat, TypeOK
<1>15. Saved'
    BY <1>1, <1>2, <1>3, <1>4 DEF Saved, Loaded
<1>16. Own'
    BY <1>1, <1>2, <1>3, <1>4 DEF Own
<1>17. Stored'
    BY <1>1, <1>2, <1>3, <1>4 DEF Stored
<1>18. ImagesKept'
    BY <1>1, <1>2, <1>3, <1>4 DEF ImagesKept
<1>19. NoGraphForgotten'
    BY <1>1, <1>2, <1>3, <1>4 DEF NoGraphForgotten
<1> QED
    BY <1>10, <1>11, <1>12, <1>13, <1>14, <1>15, <1>16, <1>17, <1>18, <1>19


\* ... as is what changes an image ...
LEMMA ApplyFaviconKeeps ==
    ASSUME IInv, NEW i \in Image, NEW old \in SUBSET graph, ApplyFavicon(i, old)
    PROVE  IInv'
<1> USE DEF IInv
<1>1. /\ sess \in Session /\ sess \in listed /\ todo = <<>>
      /\ ~ Loading /\ ~ Saving /\ \A op : ~ AtHead(op)
    BY DEF ApplyFavicon, Running, Shown, TypeOK, Loading, Saving, AtHead
<1> DEFINE r == <<sess, i>>
<1>2. /\ UNCHANGED <<flat, graphs, blobs, manifests, trash, mark, sess, listed, moved, spoilt, opened>>
      /\ graph' = (graph \ old) \cup {r} /\ r \in Ref /\ r \in Node /\ r[1] = sess
    BY <1>1 DEF ApplyFavicon, disk, history, Ref, Node
<1>3. /\ todo' \in Program(listed', sess') /\ todo' \in Seq(Step) /\ todo' # <<>>
      /\ ~ Loading' /\ \A op : AtHead(op)' <=> op = todo'[1].op
      /\ todo'[1].op = "blob" /\ todo'[1].on = r
      /\ graph' # graph => Saving'
    <2>1. todo' = Do("blob", r) \o IF graph' = graph THEN <<>> ELSE SaveSession
        BY DEF ApplyFavicon
    <2> HIDE DEF r
    <2> DEFINE those == listed'
               shown == sess'
    <2>2. r \in Ref /\ r[1] = shown
        BY <1>2
    <2>3. those = listed' /\ shown = sess'
        OBVIOUS
    <2> HIDE DEF those, shown
    <2>4. CASE graph' = graph
        <3> DEFINE q == Do("blob", r)
        <3>1. /\ q \in Program(those, shown) /\ q \in Seq(Step) /\ Len(q) = 1
              /\ q[1].op = "blob" /\ q[1].on = r
            BY <2>2, Storing
        <3>2. todo' = q
            BY <2>1, <2>4, <3>1, ConcatEmptySeq
        <3> HIDE DEF q
        <3>3. q # <<>>
            BY <3>1, NotEmpty
        <3>4. ~ (q[Len(q)].op = "load")
            <4>1. q[Len(q)] = q[1]
                BY <3>1
            <4>2. q[1].op = "blob"
                BY <3>1
            <4> QED
                BY <4>1, <4>2
        <3>5. todo'[1] = q[1] /\ todo' # <<>> /\ ~ Loading' /\ \A op : AtHead(op)' <=> op = q[1].op
            BY <3>2, <3>3, <3>4 DEF Loading, AtHead
        <3> QED
            BY <2>3, <2>4, <3>1, <3>2, <3>5
    <2>5. CASE graph' # graph
        <3> DEFINE q == Do("blob", r) \o SaveSession
        <3>1. /\ q \in Program(those, shown) /\ Len(q) >= 4
              /\ q[1].op = "blob" /\ q[1].on = r /\ q[2].op = "graph"
            BY <2>2, StoringSaved
        <3>2. todo' = q
            BY <2>1, <2>5
        <3> HIDE DEF q
        <3>3. q \in Seq(Step) /\ q # <<>> /\ 2 \in DOMAIN q
            BY <3>1 DEF Program
        <3> QED
            BY <2>3, <3>1, <3>2, <3>3 DEF Loading, AtHead, Saving
    <2> QED
        BY <2>4, <2>5
<1>4. \A c, x : Ok(c, x)' <=> Ok(c, x)
    BY <1>2 DEF Ok
<1> HIDE DEF r
<1>10. TypeOK'
    BY <1>1, <1>2, <1>3, <1>4 DEF TypeOK
<1>11. OwnImages'
    BY <1>1, <1>2, <1>3, <1>4 DEF OwnImages
<1>12. Shown'
    BY <1>1, <1>2, <1>3, <1>4 DEF Shown
<1>13. Listed'
    BY <1>1, <1>2, <1>3, <1>4 DEF Listed
<1>14. Flat'
    BY <1>1, <1>2, <1>3, <1>4 DEF Flat, TypeOK
<1>15. Saved'
    BY <1>1, <1>2, <1>3, <1>4 DEF Saved, Loaded
<1>16. Own'
    BY <1>1, <1>2, <1>3, <1>4 DEF Own
<1>17. Stored'
    BY <1>1, <1>2, <1>3, <1>4 DEF Stored
<1>18. ImagesKept'
    BY <1>1, <1>2, <1>3, <1>4 DEF ImagesKept
<1>19. NoGraphForgotten'
    BY <1>1, <1>2, <1>3, <1>4 DEF NoGraphForgotten
<1> QED
    BY <1>10, <1>11, <1>12, <1>13, <1>14, <1>15, <1>16, <1>17, <1>18, <1>19

\* ... and what removes a node.
LEMMA RemoveNodeKeeps ==
    ASSUME IInv, NEW r \in graph, RemoveNode(r)
    PROVE  IInv'
<1> USE DEF IInv
<1>1. /\ sess \in Session /\ sess \in listed /\ todo = <<>>
      /\ ~ Loading /\ ~ Saving /\ \A op : ~ AtHead(op)
    BY DEF RemoveNode, Running, Shown, TypeOK, Loading, Saving, AtHead
<1>2. /\ UNCHANGED <<flat, graphs, blobs, manifests, trash, mark, sess, listed, moved, spoilt, opened>>
      /\ graph' = graph \ {r} /\ todo' = SaveSession
    BY DEF RemoveNode, disk, history
<1>3. /\ todo' \in Program(listed', sess') /\ todo' \in Seq(Step) /\ todo' # <<>>
      /\ ~ Loading' /\ \A op : AtHead(op)' <=> op = todo'[1].op
      /\ todo'[1].op = "graph" /\ Saving'
    <2>1. todo' \in Program(listed', sess') /\ Len(todo') >= 3 /\ todo'[1].op = "graph"
        BY <1>2, SavingAlone
    <2> QED
        BY <2>1 DEF Program, Loading, AtHead, Saving
<1>4. \A c, x : Ok(c, x)' <=> Ok(c, x)
    BY <1>2 DEF Ok
<1>10. TypeOK'
    BY <1>1, <1>2, <1>3, <1>4 DEF TypeOK
<1>11. OwnImages'
    BY <1>1, <1>2, <1>3, <1>4 DEF OwnImages
<1>12. Shown'
    BY <1>1, <1>2, <1>3, <1>4 DEF Shown
<1>13. Listed'
    BY <1>1, <1>2, <1>3, <1>4 DEF Listed
<1>14. Flat'
    BY <1>1, <1>2, <1>3, <1>4 DEF Flat, TypeOK
<1>15. Saved'
    BY <1>1, <1>2, <1>3, <1>4 DEF Saved, Loaded
<1>16. Own'
    BY <1>1, <1>2, <1>3, <1>4 DEF Own
<1>17. Stored'
    BY <1>1, <1>2, <1>3, <1>4 DEF Stored
<1>18. ImagesKept'
    BY <1>1, <1>2, <1>3, <1>4 DEF ImagesKept
<1>19. NoGraphForgotten'
    BY <1>1, <1>2, <1>3, <1>4 DEF NoGraphForgotten
<1> QED
    BY <1>10, <1>11, <1>12, <1>13, <1>14, <1>15, <1>16, <1>17, <1>18, <1>19

\* A switch begins with a save.
LEMMA SwitchKeeps ==
    ASSUME IInv, NEW s \in Session, Switch(s)
    PROVE  IInv'
<1> USE DEF IInv
<1>1. /\ sess \in Session /\ sess \in listed /\ todo = <<>>
      /\ ~ Loading /\ ~ Saving /\ \A op : ~ AtHead(op)
    BY DEF Switch, Running, Shown, TypeOK, Loading, Saving, AtHead
<1>2. /\ UNCHANGED <<flat, graphs, blobs, manifests, trash, mark, sess, graph, listed, moved, spoilt, opened>>
      /\ todo' = SwitchSession(s) /\ s \in listed
    BY DEF Switch, disk, memory, history
<1>3. /\ todo' \in Program(listed', sess') /\ todo' \in Seq(Step) /\ todo' # <<>>
      /\ ~ Loading' /\ \A op : AtHead(op)' <=> op = todo'[1].op
      /\ todo'[1].op = "graph"
    <2>1. todo' \in Program(listed', sess') /\ Len(todo') >= 3 /\ todo'[1].op = "graph"
        BY <1>2, Switching
    <2> QED
        BY <2>1 DEF Program, Loading, AtHead
<1>4. \A c, x : Ok(c, x)' <=> Ok(c, x)
    BY <1>2 DEF Ok
<1>10. TypeOK'
    BY <1>1, <1>2, <1>3, <1>4 DEF TypeOK
<1>11. OwnImages'
    BY <1>1, <1>2, <1>3, <1>4 DEF OwnImages
<1>12. Shown'
    BY <1>1, <1>2, <1>3, <1>4 DEF Shown
<1>13. Listed'
    BY <1>1, <1>2, <1>3, <1>4 DEF Listed
<1>14. Flat'
    BY <1>1, <1>2, <1>3, <1>4 DEF Flat, TypeOK
<1>15. Saved'
    BY <1>1, <1>2, <1>3, <1>4 DEF Saved, Loaded
<1>16. Own'
    BY <1>1, <1>2, <1>3, <1>4 DEF Own
<1>17. Stored'
    BY <1>1, <1>2, <1>3, <1>4 DEF Stored
<1>18. ImagesKept'
    BY <1>1, <1>2, <1>3, <1>4 DEF ImagesKept
<1>19. NoGraphForgotten'
    BY <1>1, <1>2, <1>3, <1>4 DEF NoGraphForgotten
<1> QED
    BY <1>10, <1>11, <1>12, <1>13, <1>14, <1>15, <1>16, <1>17, <1>18, <1>19

\* A session minted gets its manifest first.
LEMMA NewSessionKeeps ==
    ASSUME IInv, NEW s \in Session, NewSession(s)
    PROVE  IInv'
<1> USE DEF IInv
<1>1. /\ sess \in Session /\ sess \in listed /\ todo = <<>>
      /\ ~ Loading /\ ~ Saving /\ \A op : ~ AtHead(op)
    BY DEF NewSession, Running, Shown, TypeOK, Loading, Saving, AtHead
<1>2. /\ UNCHANGED <<flat, graphs, blobs, manifests, trash, mark, sess, graph, moved, spoilt, opened>>
      /\ listed' = listed \cup {s} /\ s \notin trash
    BY DEF NewSession, disk, history, Fresh
<1>3. /\ todo' \in Program(listed', sess') /\ todo' \in Seq(Step) /\ todo' # <<>>
      /\ ~ Loading' /\ \A op : AtHead(op)' <=> op = todo'[1].op
      /\ todo'[1].op = "manifest"
    <2>1. todo' = Do("manifest", None) \o SwitchSession(s)
        BY DEF NewSession
    <2>2. s \in Session \cap listed'
        BY <1>2
    <2>3. todo' \in Program(listed', sess') /\ Len(todo') >= 4 /\ todo'[1].op = "manifest"
        BY <2>1, <2>2, MintSwitching
    <2> QED
        BY <2>3 DEF Program, Loading, AtHead
<1>4. \A c, x : Ok(c, x)' <=> Ok(c, x)
    BY <1>2 DEF Ok
<1>10. TypeOK'
    BY <1>1, <1>2, <1>3, <1>4 DEF TypeOK
<1>11. OwnImages'
    BY <1>1, <1>2, <1>3, <1>4 DEF OwnImages
<1>12. Shown'
    BY <1>1, <1>2, <1>3, <1>4 DEF Shown
<1>13. Listed'
    BY <1>1, <1>2, <1>3, <1>4 DEF Listed
<1>14. Flat'
    BY <1>1, <1>2, <1>3, <1>4 DEF Flat, TypeOK
<1>15. Saved'
    BY <1>1, <1>2, <1>3, <1>4 DEF Saved, Loaded
<1>16. Own'
    BY <1>1, <1>2, <1>3, <1>4 DEF Own
<1>17. Stored'
    BY <1>1, <1>2, <1>3, <1>4 DEF Stored
<1>18. ImagesKept'
    BY <1>1, <1>2, <1>3, <1>4 DEF ImagesKept
<1>19. NoGraphForgotten'
    BY <1>1, <1>2, <1>3, <1>4 DEF NoGraphForgotten
<1> QED
    BY <1>10, <1>11, <1>12, <1>13, <1>14, <1>15, <1>16, <1>17, <1>18, <1>19

\* So does a fork.
LEMMA ForkKeeps ==
    ASSUME IInv, NEW s \in Session, Fork(s)
    PROVE  IInv'
<1> USE DEF IInv
<1>1. /\ sess \in Session /\ sess \in listed /\ todo = <<>>
      /\ ~ Loading /\ ~ Saving /\ \A op : ~ AtHead(op)
    BY DEF Fork, Running, Shown, TypeOK, Loading, Saving, AtHead
<1>2. /\ UNCHANGED <<flat, graphs, blobs, manifests, trash, mark, sess, graph, moved, spoilt, opened>>
      /\ listed' = listed \cup {s} /\ s \notin trash
    BY DEF Fork, disk, history, Fresh
<1>3. /\ todo' \in Program(listed', sess') /\ todo' \in Seq(Step) /\ todo' # <<>>
      /\ ~ Loading' /\ \A op : AtHead(op)' <=> op = todo'[1].op
      /\ todo'[1].op = "manifest"
    <2>1. todo' = Do("manifest", None) \o Do("copy", s) \o SwitchSession(s)
        BY DEF Fork
    <2>2. s \in Session \cap listed'
        BY <1>2
    <2>3. todo' \in Program(listed', sess') /\ Len(todo') >= 4 /\ todo'[1].op = "manifest"
        BY <2>1, <2>2, Forking
    <2> QED
        BY <2>3 DEF Program, Loading, AtHead
<1>4. \A c, x : Ok(c, x)' <=> Ok(c, x)
    BY <1>2 DEF Ok
<1>10. TypeOK'
    BY <1>1, <1>2, <1>3, <1>4 DEF TypeOK
<1>11. OwnImages'
    BY <1>1, <1>2, <1>3, <1>4 DEF OwnImages
<1>12. Shown'
    BY <1>1, <1>2, <1>3, <1>4 DEF Shown
<1>13. Listed'
    BY <1>1, <1>2, <1>3, <1>4 DEF Listed
<1>14. Flat'
    BY <1>1, <1>2, <1>3, <1>4 DEF Flat, TypeOK
<1>15. Saved'
    BY <1>1, <1>2, <1>3, <1>4 DEF Saved, Loaded
<1>16. Own'
    BY <1>1, <1>2, <1>3, <1>4 DEF Own
<1>17. Stored'
    BY <1>1, <1>2, <1>3, <1>4 DEF Stored
<1>18. ImagesKept'
    BY <1>1, <1>2, <1>3, <1>4 DEF ImagesKept
<1>19. NoGraphForgotten'
    BY <1>1, <1>2, <1>3, <1>4 DEF NoGraphForgotten
<1> QED
    BY <1>10, <1>11, <1>12, <1>13, <1>14, <1>15, <1>16, <1>17, <1>18, <1>19

\* The session that follows the one closed is not in the trash.
LEMMA CloseKeeps ==
    ASSUME IInv, NEW next \in Session, Close(next)
    PROVE  IInv'
<1> USE DEF IInv
<1>1. /\ sess \in Session /\ sess \in listed /\ todo = <<>>
      /\ ~ Loading /\ ~ Saving /\ \A op : ~ AtHead(op)
    BY DEF Close, Running, Shown, TypeOK, Loading, Saving, AtHead
<1>2. /\ UNCHANGED <<flat, graphs, blobs, manifests, trash, mark, sess, graph, moved, spoilt, opened>>
      /\ listed' = listed \cup {next} /\ next \notin trash /\ next # sess
    BY <1>1 DEF Close, disk, history, Fresh, Shown
<1>3. /\ todo' \in Program(listed', sess') /\ todo' \in Seq(Step) /\ todo' # <<>>
      /\ ~ Loading' /\ \A op : AtHead(op)' <=> op = todo'[1].op
      /\ todo'[1].op = IF next \in listed THEN "trash" ELSE "manifest"
    <2> DEFINE known == next \in listed
               q == (IF known THEN <<>> ELSE Do("manifest", None))
                      \o Do("trash", sess) \o AdoptSession(next)
    <2>1. todo' = q
        BY DEF Close
    <2>2. next \in Session \cap listed' /\ known \in BOOLEAN
        BY <1>2
    <2>5. known <=> next \in listed
        OBVIOUS
    <2> HIDE DEF known
    <2>6. /\ q \in Program(listed', sess) /\ Len(q) >= 4
          /\ q[1].op = IF known THEN "trash" ELSE "manifest"
        <3>1. sess \in Session /\ next # sess
            BY <1>1, <1>2
        <3> DEFINE those == listed'
        <3>2. next \in Session \cap those
            BY <2>2
        <3> HIDE DEF those
        <3>3. /\ q \in Program(those, sess) /\ Len(q) >= 4
              /\ q[1].op = IF known THEN "trash" ELSE "manifest"
            BY <2>2, <3>1, <3>2, Closing
        <3> QED
            BY <3>3 DEF those
    <2> HIDE DEF q
    <2>3. /\ todo' \in Program(listed', sess') /\ Len(todo') >= 4
          /\ todo'[1].op = IF next \in listed THEN "trash" ELSE "manifest"
        BY <1>2, <2>1, <2>5, <2>6
    <2>4. todo' \in Seq(Step) /\ todo' # <<>> /\ ~ Loading'
        <3>1. todo' \in Seq(Step)
            BY <2>3 DEF Program
        <3>2. ~ (Len(todo') <= 2)
            BY <2>3
        <3>3. todo' # <<>>
            BY <2>3, <3>1
        <3> QED
            BY <3>1, <3>2, <3>3 DEF Loading
    <2> QED
        BY <2>3, <2>4 DEF AtHead
<1>4. \A c, x : Ok(c, x)' <=> Ok(c, x)
    BY <1>2 DEF Ok
<1>10. TypeOK'
    BY <1>1, <1>2, <1>3, <1>4 DEF TypeOK
<1>11. OwnImages'
    BY <1>1, <1>2, <1>3, <1>4 DEF OwnImages
<1>12. Shown'
    BY <1>1, <1>2, <1>3, <1>4 DEF Shown
<1>13. Listed'
    BY <1>1, <1>2, <1>3, <1>4 DEF Listed
<1>14. Flat'
    BY <1>1, <1>2, <1>3, <1>4 DEF Flat, TypeOK
<1>15. Saved'
    BY <1>1, <1>2, <1>3, <1>4 DEF Saved, Loaded
<1>16. Own'
    BY <1>1, <1>2, <1>3, <1>4 DEF Own
<1>17. Stored'
    BY <1>1, <1>2, <1>3, <1>4 DEF Stored
<1>18. ImagesKept'
    BY <1>1, <1>2, <1>3, <1>4 DEF ImagesKept
<1>19. NoGraphForgotten'
    BY <1>1, <1>2, <1>3, <1>4 DEF NoGraphForgotten
<1> QED
    BY <1>10, <1>11, <1>12, <1>13, <1>14, <1>15, <1>16, <1>17, <1>18, <1>19

\* A session recovered has its manifest.
LEMMA RecoverKeeps ==
    ASSUME IInv, NEW s \in Session, Recover(s)
    PROVE  IInv'
<1> USE DEF IInv
<1>1. /\ sess \in Session /\ sess \in listed /\ todo = <<>>
      /\ ~ Loading /\ ~ Saving /\ \A op : ~ AtHead(op)
    BY DEF Recover, Running, Shown, TypeOK, Loading, Saving, AtHead
<1>2. /\ UNCHANGED <<flat, graphs, blobs, mark, sess, graph, moved, spoilt, opened>>
      /\ \/ /\ s \in trash /\ trash' = trash \ {s} /\ manifests' = manifests \cup {s}
            /\ listed' = listed \cup {s} /\ todo' = SwitchSession(s)
         \/ UNCHANGED <<trash, manifests, listed, todo>>
    BY DEF Recover, history
<1>3. /\ todo' \in Program(listed', sess') /\ todo' \in Seq(Step)
      /\ ~ Loading' /\ ~ AtHead("manifest")' /\ ~ AtHead("move")' /\ ~ AtHead("blob")'
    <2>1. CASE UNCHANGED <<trash, manifests, listed, todo>>
        BY <1>1, <1>2, <2>1 DEF Shown, TypeOK, Loading, AtHead
    <2>2. CASE listed' = listed \cup {s} /\ todo' = SwitchSession(s)
        <3>1. todo' \in Program(listed', sess') /\ Len(todo') >= 3 /\ todo'[1].op = "graph"
            BY <2>2, Switching
        <3> QED
            BY <3>1 DEF Program, Loading, AtHead
    <2> QED
        BY <1>2, <2>1, <2>2
<1>4. \A c, x : Ok(c, x)' <=> Ok(c, x)
    BY <1>2 DEF Ok
<1>9. ~ (flat # None /\ Ok("move", None))
    BY <1>1 DEF Flat, TypeOK
<1>10. TypeOK'
    BY <1>1, <1>2, <1>3, <1>4, <1>9 DEF TypeOK
<1>11. OwnImages'
    BY <1>1, <1>2, <1>3, <1>4, <1>9 DEF OwnImages
<1>12. Shown'
    BY <1>1, <1>2, <1>3, <1>4, <1>9 DEF Shown
<1>13. Listed'
    BY <1>1, <1>2, <1>3, <1>4, <1>9 DEF Listed
<1>14. Flat'
    BY <1>1, <1>2, <1>3, <1>4, <1>9 DEF Flat
<1>15. Saved'
    BY <1>1, <1>2, <1>3, <1>4, <1>9 DEF Saved, Loaded
<1>16. Own'
    BY <1>1, <1>2, <1>3, <1>4, <1>9 DEF Own
<1>17. Stored'
    BY <1>1, <1>2, <1>3, <1>4, <1>9 DEF Stored
<1>18. ImagesKept'
    BY <1>1, <1>2, <1>3, <1>4, <1>9 DEF ImagesKept
<1>19. NoGraphForgotten'
    BY <1>1, <1>2, <1>3, <1>4, <1>9 DEF NoGraphForgotten, TypeOK
<1> QED
    BY <1>10, <1>11, <1>12, <1>13, <1>14, <1>15, <1>16, <1>17, <1>18, <1>19

\* A start adopts a session with a manifest, or one that gets it.
LEMMA BootKeeps ==
    ASSUME IInv, Boot
    PROVE  IInv'
<1> USE DEF IInv
<1>1. sess = None /\ todo = <<>> /\ \A op : ~ AtHead(op)
    BY DEF Boot, AtHead
<1>2. UNCHANGED <<flat, graphs, blobs, manifests, trash, mark, sess, graph, moved, spoilt, opened>>
    BY DEF Boot, disk, history
<1>3. PICK s \in Session :
        \/ s \in manifests /\ listed' = manifests /\ todo' = AdoptSession(s)
        \/ s \notin trash /\ flat = None /\ listed' = {s} /\ todo' = AdoptMinted(s)
        \/ /\ manifests = {} /\ s \notin trash /\ flat # None
           /\ todo' = Do("move", s) /\ listed' = listed
    BY DEF Boot, PickSession, Fresh, Mint, AdoptMinted
<1>5. /\ todo' \in Program(listed', sess') /\ todo' \in Seq(Step) /\ todo' # <<>>
      /\ ~ Loading' /\ \A op : AtHead(op)' <=> op = todo'[1].op
      /\ \/ s \in manifests /\ listed' = manifests /\ todo'[1].op = "adopt"
         \/ s \notin trash /\ flat = None /\ listed' = {s} /\ todo'[1].op = "manifest"
         \/ /\ manifests = {} /\ s \notin trash /\ flat # None
            /\ todo'[1].op = "move" /\ todo'[1].on = s /\ listed' = listed
    <2>1. CASE s \in manifests /\ listed' = manifests /\ todo' = AdoptSession(s)
        <3>1. todo' \in Program(listed', sess') /\ Len(todo') = 3 /\ todo'[1].op = "adopt"
            BY <2>1, Adopting
        <3>2. todo' \in Seq(Step) /\ todo' # <<>> /\ ~ Loading'
            <4>1. todo' \in Seq(Step)
                BY <3>1 DEF Program
            <4>2. ~ (Len(todo') <= 2)
                BY <3>1
            <4>3. todo' # <<>>
                BY <3>1, <4>1, NotEmpty
            <4> QED
                BY <4>1, <4>2, <4>3 DEF Loading
        <3> QED
            BY <2>1, <3>1, <3>2 DEF AtHead
    <2>2. CASE s \notin trash /\ flat = None /\ listed' = {s} /\ todo' = AdoptMinted(s)
        <3>1. todo' \in Program(listed', sess') /\ Len(todo') = 4 /\ todo'[1].op = "manifest"
            BY <2>2, Minting
        <3>2. todo' \in Seq(Step) /\ todo' # <<>> /\ ~ Loading'
            <4>1. todo' \in Seq(Step)
                BY <3>1 DEF Program
            <4>2. ~ (Len(todo') <= 2)
                BY <3>1
            <4>3. todo' # <<>>
                BY <3>1, <4>1, NotEmpty
            <4> QED
                BY <4>1, <4>2, <4>3 DEF Loading
        <3> QED
            BY <2>2, <3>1, <3>2 DEF AtHead
    <2>3. CASE /\ manifests = {} /\ s \notin trash /\ flat # None
               /\ todo' = Do("move", s) /\ listed' = listed
        <3>1. /\ todo' \in Program(listed', sess') /\ Len(todo') = 1
              /\ todo'[1] = [op |-> "move", on |-> s]
            BY <2>3, Moving
        <3>2. todo'[1].op = "move" /\ todo'[1].on = s
            BY <3>1
        <3> QED
            BY <2>3, <3>1, <3>2 DEF Program, Loading, AtHead
    <2> QED
        BY <1>3, <2>1, <2>2, <2>3
<1>4. \A c, x : Ok(c, x)' <=> Ok(c, x)
    BY <1>2 DEF Ok
<1>10. TypeOK'
    BY <1>1, <1>2, <1>4, <1>5 DEF TypeOK
<1>11. OwnImages'
    BY <1>1, <1>2, <1>4, <1>5 DEF OwnImages
<1>12. Shown'
    BY <1>1, <1>2, <1>4, <1>5 DEF Shown, TypeOK
<1>13. Listed'
    BY <1>1, <1>2, <1>4, <1>5 DEF Listed
<1>14. Flat'
    BY <1>1, <1>2, <1>4, <1>5 DEF Flat, TypeOK
<1>15. Saved'
    BY <1>1, <1>2, <1>4, <1>5 DEF Saved, Loaded
<1>16. Own'
    BY <1>1, <1>2, <1>4, <1>5 DEF Own
<1>17. Stored'
    BY <1>1, <1>2, <1>4, <1>5 DEF Stored
<1>18. ImagesKept'
    BY <1>1, <1>2, <1>4, <1>5 DEF ImagesKept
<1>19. NoGraphForgotten'
    BY <1>1, <1>2, <1>4, <1>5 DEF NoGraphForgotten
<1> QED
    BY <1>10, <1>11, <1>12, <1>13, <1>14, <1>15, <1>16, <1>17, <1>18, <1>19

\* A crash loses only what is in memory.
LEMMA CrashKeeps ==
    ASSUME IInv, Crash
    PROVE  IInv'
<1> USE DEF IInv
<1>2. /\ UNCHANGED <<flat, graphs, blobs, manifests, trash, mark, moved, spoilt>>
      /\ sess' = None /\ graph' = {} /\ listed' = {} /\ todo' = <<>> /\ opened' = {}
    BY DEF Crash, disk, history
<1>3. todo' \in Program(listed', sess') /\ todo' \in Seq(Step)
    BY <1>2, Done DEF Program
<1>1. ~ Loading' /\ \A op : ~ AtHead(op)'
    BY <1>2 DEF Loading, AtHead
<1>4. \A c, x : Ok(c, x)' <=> Ok(c, x)
    BY <1>2 DEF Ok
<1>10. TypeOK'
    BY <1>1, <1>2, <1>3, <1>4 DEF TypeOK
<1>11. OwnImages'
    BY <1>1, <1>2, <1>3, <1>4 DEF OwnImages
<1>12. Shown'
    BY <1>1, <1>2, <1>3, <1>4 DEF Shown
<1>13. Listed'
    BY <1>1, <1>2, <1>3, <1>4 DEF Listed
<1>14. Flat'
    BY <1>1, <1>2, <1>3, <1>4 DEF Flat
<1>15. Saved'
    BY <1>1, <1>2, <1>3, <1>4 DEF Saved, Loaded
<1>16. Own'
    BY <1>1, <1>2, <1>3, <1>4 DEF Own
<1>17. Stored'
    BY <1>1, <1>2, <1>3, <1>4 DEF Stored
<1>18. ImagesKept'
    BY <1>1, <1>2, <1>3, <1>4 DEF ImagesKept
<1>19. NoGraphForgotten'
    BY <1>1, <1>2, <1>3, <1>4 DEF NoGraphForgotten
<1> QED
    BY <1>10, <1>11, <1>12, <1>13, <1>14, <1>15, <1>16, <1>17, <1>18, <1>19

\* Every step keeps the invariant.
LEMMA IInvKept == IInv /\ [Next]_vars => IInv'
<1> SUFFICES ASSUME IInv, [Next]_vars
             PROVE  IInv'
    OBVIOUS
<1>1. CASE Steps
    BY <1>1, SaveGraphKeeps, SweepImagesKeeps, FlushManifestsKeeps, StoreImageKeeps,
       ApplyTrashKeeps, AdoptKeeps, LoadGraphKeeps, SaveForkKeeps, MoveFlatKeeps DEF Steps
<1>2. CASE User
    <2>1. ASSUME NEW i \in Image, NEW old \in {{}} \cup {{r} : r \in graph}, ApplyFavicon(i, old)
          PROVE  IInv'
        <3>1. old \in SUBSET graph
            OBVIOUS
        <3> QED
            BY <2>1, <3>1, ApplyFaviconKeeps
    <2>2. ASSUME NEW r \in graph, RemoveNode(r)
          PROVE  IInv'
        BY <2>2, RemoveNodeKeeps
    <2>3. ASSUME NEW s \in Session,
                 Switch(s) \/ NewSession(s) \/ Fork(s) \/ Close(s) \/ Recover(s)
          PROVE  IInv'
        BY <2>3, SwitchKeeps, NewSessionKeeps, ForkKeeps, CloseKeeps, RecoverKeeps
    <2> QED
        BY <1>2, <2>1, <2>2, <2>3, VisitKeeps, SaveKeeps, AddNodeKeeps DEF User
<1>3. CASE Boot
    BY <1>3, BootKeeps
<1>4. CASE Crash
    BY <1>4, CrashKeeps
<1>5. CASE UNCHANGED vars
    <2>1. /\ UNCHANGED <<flat, graphs, blobs, manifests, trash, mark, sess, graph, listed>>
          /\ UNCHANGED <<todo, moved, spoilt, opened>>
        BY <1>5 DEF vars, disk, memory, history
    <2>2. TypeOK' /\ OwnImages'
        BY <2>1 DEF IInv, TypeOK, OwnImages
    <2>3. Shown' /\ Listed' /\ Flat'
        BY <2>1 DEF IInv, Shown, Listed, Flat, Loading, AtHead, Ok
    <2>4. Saved' /\ Own' /\ Stored'
        BY <2>1 DEF IInv, Saved, Loaded, Own, Stored, Loading, Saving, AtHead, Ok
    <2>5. ImagesKept' /\ NoGraphForgotten'
        BY <2>1 DEF IInv, ImagesKept, NoGraphForgotten, Ok
    <2> QED
        BY <2>2, <2>3, <2>4, <2>5 DEF IInv
<1> QED
    BY <1>1, <1>2, <1>3, <1>4, <1>5 DEF Next

\* The invariant holds of every state.
LEMMA Inductive == Spec => []IInv
<1>1. Init => IInv
    BY InitInv
<1>2. IInv /\ [Next]_vars => IInv'
    BY IInvKept
<1> QED
    BY <1>1, <1>2, PTL DEF Spec

-----------------------------------------------------------------------------
(***************************************************************************)
(* What a start of the app finds.                                          *)
(***************************************************************************)
\* No session is saved over another, whatever the order of saves and switches
\* (Effect::SwitchSession saves the departing session while it is live).
THEOREM GraphsStayApart == Spec => []OwnGraph
<1>1. IInv => OwnGraph
    BY DEF IInv, OwnImages, OwnGraph
<1> QED
    BY <1>1, Inductive, PTL

\* At any moment a crash may come, every image that a graph on disk refers to is
\* on disk, unless its own write failed (save_image_blob logs that and goes on) or
\* a sweep went by a graph whose save had failed.
THEOREM ImagesOutliveCrashes == Spec => []ImagesKept
<1>1. IInv => ImagesKept
    BY DEF IInv
<1> QED
    BY <1>1, Inductive, PTL

\* No graph is on disk where no start of the app will find it, except the one a
\* migration was moving when the process died.
THEOREM GraphsAreFound == Spec => []NoGraphForgotten
<1>1. IInv => NoGraphForgotten
    BY DEF IInv
<1> QED
    BY <1>1, Inductive, PTL

\* Between the user's actions, and unless the last save of its graph failed, a
\* crash brings back nothing that was removed from the graph shown and loses only
\* nodes opened since the last save (open_address, nav_back, reconcile_shared_graph).
THEOREM NothingIsLost == Spec => []CrashLosesNothing
<1>1. IInv => CrashLosesNothing
    <2> SUFFICES ASSUME IInv, Running, Ok("graph", sess)
                 PROVE  Loaded(sess) \subseteq graph /\ graph \ Loaded(sess) \subseteq opened
        BY DEF CrashLosesNothing
    <2>1. sess # None /\ ~ Loading /\ ~ Saving
        BY DEF Running, Loading, Saving
    <2> QED
        BY <2>1 DEF IInv, Saved
<1> QED
    BY <1>1, Inductive, PTL

\* Between the user's actions, a start of the app opens the session that is shown.
THEOREM RestartsReturn == Spec => []RestartReturns
<1>1. IInv => RestartReturns
    <2> SUFFICES ASSUME IInv, Running, Ok("mark", sess), Ok("manifest", sess), NEW s \in Session
                 PROVE  PickSession(s) <=> s = sess
        BY DEF RestartReturns
    <2>1. ~ AtHead("adopt") /\ ~ AtHead("manifest")
        BY DEF Running, AtHead
    <2>2. sess \in listed /\ mark = sess
        BY <2>1 DEF IInv, Shown, Running
    <2>3. sess \in manifests
        BY <2>1, <2>2 DEF IInv, Listed
    <2> QED
        BY <2>2, <2>3 DEF PickSession
<1> QED
    BY <1>1, Inductive, PTL

=============================================================================
