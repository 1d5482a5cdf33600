----------------------------- MODULE BinProofs -----------------------------
(***************************************************************************)
(* RecycleBin, for any nodes, sessions, environments and queues.           *)
(*                                                                         *)
(* What keeps the bins apart is the order of the channel: a command that   *)
(* needs the store comes right after one of the same session (Channel),    *)
(* and the last one is of the session shown (Ends).  What the app sees is  *)
(* the last word of the actor (LastWord).  A user who waits has one thing  *)
(* under way (OneAtATime), so what the app shows is what the bin holds     *)
(* (Mirrors), and the worlds follow (WorldsKept).                          *)
(***************************************************************************)
EXTENDS RecycleBin, SequenceTheorems, TLAPS

\* The app waits for the store to be released.
Waiting == ui.at \in {"closing", "acked"}

\* The store is the one of session s, or could not be opened.
Serves(s) == store = s \/ (store = None /\ "open" \in env.faults)

\* A command that needs the store comes after one of the same session.
Channel ==
    \A i \in DOMAIN cmds :
        /\ cmds[i].op # "Release" => cmds[i].at \in Session
        /\ cmds[i].op = "Record" => cmds[i].node \in Node
        /\ cmds[i].op \in {"Record", "Empty"} =>
              IF i = 1 THEN Serves(cmds[1].at)
              ELSE cmds[i - 1].op # "Release" /\ cmds[i - 1].at = cmds[i].at
        /\ cmds[i].op = "Release" /\ cmds[i].at # None => i = Len(cmds) /\ ui.at = "closing"

\* The channel ends with the session shown.
Ends ==
    /\ ~ Waiting => IF cmds = <<>> THEN Serves(sess)
                    ELSE cmds[Len(cmds)].op # "Release" /\ cmds[Len(cmds)].at = sess
    /\ ui.at = "closing" => /\ cmds # <<>>
                            /\ cmds[Len(cmds)].op = "Release" /\ cmds[Len(cmds)].at = sess
    /\ ui.at = "acked" => cmds = <<>>
    /\ Waiting => ui.next \in Session \ (trash \cup {sess})

\* What is being forgotten is of a store that is open.
OvenOpen == oven # Cold => store # None

\* What the app will be told last.
LastWord ==
    store # None /\ oven = Cold /\ (\A i \in DOMAIN cmds : cmds[i].op # "Reopen") =>
        IF answers = <<>> THEN told = "failed" \/ removed = Of(store, bin[store])
        ELSE ~ answers[Len(answers)].ok
             \/ answers[Len(answers)].records = Of(store, bin[store])

\* A deletion on its way to the bin.
Pending(q, s, n) ==
    \E i \in DOMAIN q : q[i].op = "Record" /\ q[i].at = s /\ q[i].node = n

\* While nothing fails, an archived world has its tombstone, or will.
Archived ==
    env.faults = {} =>
        \A r \in archive : r[1] \in trash \/ r[2] \in bin[r[1]] \/ Pending(cmds, r[1], r[2])

\* A world archived while its older tombstone is being forgotten has a new one.
Forgetting ==
    env.faults = {} /\ oven # Cold =>
        \A n \in oven.nodes : <<store, n>> \in archive => store \in trash \/ Pending(cmds, store, n)

\* No store of a session in the trash will be opened.
NoZombieAhead ==
    env.patient =>
        /\ zombies = {}
        /\ \A i \in DOMAIN cmds : cmds[i].op = "Reopen" => cmds[i].at \notin trash

\* With a user who waits, one thing at a time is under way, for the session shown.
OneAtATime ==
    env.prompt =>
        /\ cmds = <<>> \/ (oven = Cold /\ answers = <<>>)
        /\ oven = Cold \/ answers = <<>>
        /\ answers # <<>> => Len(answers) = 1
        /\ \A i \in DOMAIN cmds :
             cmds[i].op # "Release" => cmds[i].at = sess /\ i = Len(cmds)
        /\ \A i \in DOMAIN cmds : cmds[i].op \in {"Record", "Empty"} => i = 1
        /\ oven # Cold => store = sess
        /\ answers # <<>> => answers[1].records \subseteq Of(sess, Node)
        /\ Waiting => answers = <<>> /\ oven = Cold
        /\ removed \subseteq Of(sess, Node)

\* Between a change and its save the graph is not the one on disk.
GraphSaved == ui.at # "saving" => saved[sess] = graph

\* The user waits, and only opening and recording may fail.
Careful == env.prompt /\ env.faults \subseteq {"open", "record"}

\* What a user who waits is shown is in the bin.
Mirrors ==
    Careful =>
        IF answers # <<>> /\ answers[1].ok THEN answers[1].records = Of(sess, bin[sess])
        ELSE removed \subseteq Of(sess, bin[sess])

\* A node in a graph has its world in the live slot, one deleted in the archive.
WorldsKept ==
    Careful =>
        /\ \A s \in Session \ trash : \A n \in Graph(s) : <<s, n>> \in live
        /\ TombstoneKeepsWorld
        /\ \A i \in DOMAIN cmds :
             cmds[i].op = "Record" => <<cmds[i].at, cmds[i].node>> \in archive

\* The inductive invariant.
IInv ==
    /\ TypeOK /\ Channel /\ Ends /\ OvenOpen /\ LastWord
    /\ Archived /\ Forgetting
    /\ NoZombieAhead /\ OneAtATime
    /\ GraphSaved /\ Mirrors /\ WorldsKept

-----------------------------------------------------------------------------
(***************************************************************************)
(* Queues.                                                                 *)
(***************************************************************************)
USE RecycleBinAssumption

\* q is r with c at its end.
Longer(q, r, c) ==
    /\ Len(r) \in Nat /\ Len(q) = Len(r) + 1 /\ q # <<>>
    /\ DOMAIN q = 1..(Len(r) + 1) /\ DOMAIN r = 1..Len(r)
    /\ \A i \in DOMAIN r : i \in DOMAIN q /\ q[i] = r[i]
    /\ \A i \in DOMAIN q : i \in DOMAIN r \/ i = Len(q)
    /\ q[Len(q)] = c
    /\ r = <<>> => Len(r) = 0
    /\ r # <<>> => Len(r) \in DOMAIN r

\* What a send leaves.
LEMMA Appended ==
    ASSUME NEW S, NEW r \in Seq(S), NEW c \in S
    PROVE  Append(r, c) \in Seq(S) /\ Longer(Append(r, c), r, c)
BY DEF Longer

\* q is what is left of r.
Shorter(q, r) ==
    /\ Len(r) \in Nat /\ Len(r) >= 1 /\ Len(q) = Len(r) - 1 /\ r # <<>>
    /\ DOMAIN r = 1..Len(r) /\ DOMAIN q = 1..(Len(r) - 1)
    /\ 1 \in DOMAIN r /\ Head(r) = r[1]
    /\ \A i \in DOMAIN q : i + 1 \in DOMAIN r /\ q[i] = r[i + 1]
    /\ \A i \in DOMAIN r : i # 1 => i - 1 \in DOMAIN q /\ q[i - 1] = r[i]
    /\ q = <<>> <=> Len(r) = 1
    /\ q # <<>> => q[Len(q)] = r[Len(r)] /\ q[1] = r[2] /\ 2 \in DOMAIN r

\* What taking the first leaves.
LEMMA Taken ==
    ASSUME NEW S, NEW r \in Seq(S), r # <<>>
    PROVE  Tail(r) \in Seq(S) /\ r[1] \in S /\ Shorter(Tail(r), r)
<1>1. /\ Tail(r) \in Seq(S) /\ Len(r) \in Nat /\ Len(r) >= 1 /\ Len(Tail(r)) = Len(r) - 1
      /\ DOMAIN r = 1..Len(r) /\ Head(r) = r[1] /\ r[1] \in S
      /\ \A i \in 1..(Len(r) - 1) : Tail(r)[i] = r[i + 1]
    OBVIOUS
<1>2. DOMAIN Tail(r) = 1..(Len(r) - 1)
    BY <1>1
<1>3. \A i \in DOMAIN r : i # 1 => i - 1 \in DOMAIN Tail(r) /\ Tail(r)[i - 1] = r[i]
    <2> SUFFICES ASSUME NEW i \in DOMAIN r, i # 1
                 PROVE  i - 1 \in DOMAIN Tail(r) /\ Tail(r)[i - 1] = r[i]
        OBVIOUS
    <2>1. i - 1 \in 1..(Len(r) - 1) /\ (i - 1) + 1 = i
        BY <1>1
    <2> QED
        BY <1>1, <1>2, <2>1
<1>4. Tail(r) = <<>> <=> Len(r) = 1
    <2>1. Tail(r) = <<>> <=> Len(Tail(r)) = 0
        BY <1>1, EmptySeq
    <2> QED
        BY <1>1, <2>1
<1>5. ASSUME Tail(r) # <<>>
      PROVE  Tail(r)[Len(Tail(r))] = r[Len(r)] /\ Tail(r)[1] = r[2] /\ 2 \in DOMAIN r
    <2>1. Len(r) >= 2
        BY <1>1, <1>4, <1>5
    <2>2. Len(r) \in DOMAIN r /\ Len(r) # 1 /\ 2 \in DOMAIN r /\ 2 # 1 /\ 2 - 1 = 1
        BY <1>1, <2>1
    <2> QED
        BY <1>1, <1>3, <2>2
<1> QED
    BY <1>1, <1>2, <1>3, <1>4, <1>5 DEF Shorter

\* The commands the app sends.
LEMMA CommandFacts ==
    /\ \A op \in {"Empty", "Reopen", "Release"}, s \in Session :
         /\ Cmd(op, s) \in Command
         /\ Cmd(op, s).op = op /\ Cmd(op, s).at = s
    /\ \A n \in Node : sess \in Session =>
         /\ Stage(n) \in Command
         /\ Stage(n).op = "Record" /\ Stage(n).at = sess /\ Stage(n).node = n
BY DEF Cmd, Stage, Command

\* What is idle and what is cold.
LEMMA Resting ==
    /\ Idle.at = "idle" /\ Idle.next = None /\ Cold.op = "none" /\ Cold.nodes = {}
    /\ Idle \in [at : {"idle", "saving", "closing", "acked"}, next : Session \cup {None}]
    /\ Cold \in [op : {"none", "retire", "Empty"}, nodes : SUBSET Node]
    /\ [Idle EXCEPT !.at = "saving"] \in [at : {"idle", "saving", "closing", "acked"}, next : Session \cup {None}]
    /\ [Idle EXCEPT !.at = "saving"].at = "saving"
BY DEF Idle, Cold

\* The user acts with nobody waiting.
LEMMA ActsFree == UserActs => ~ Waiting /\ ui.at # "saving" /\ (env.prompt => Quiet)
BY Resting DEF UserActs, Waiting

\* The channel after a command of the user's.
LEMMA SentKeeps ==
    ASSUME TypeOK, Channel, Ends, UserActs, NEW c \in Command, Send(c),
           UNCHANGED <<env, store>>,
           c.op # "Release" => c.at \in Session,
           c.op = "Record" => c.node \in Node,
           c.op # "Reopen" => c.at = sess,
           c.op = "Release" => ui'.at = "closing"
    PROVE  /\ Channel' /\ cmds' \in Seq(Command) /\ Longer(cmds', cmds, c)
<1>1. /\ cmds' \in Seq(Command) /\ Longer(cmds', cmds, c) /\ ~ Waiting
    BY Appended, ActsFree DEF Send, TypeOK
<1>2. ASSUME NEW i \in DOMAIN cmds
      PROVE  /\ cmds'[i].op # "Release" => cmds'[i].at \in Session
             /\ cmds'[i].op = "Record" => cmds'[i].node \in Node
             /\ cmds'[i].op \in {"Record", "Empty"} =>
                   IF i = 1 THEN Serves(cmds'[1].at)
                   ELSE cmds'[i - 1].op # "Release" /\ cmds'[i - 1].at = cmds'[i].at
             /\ cmds'[i].op = "Release" => cmds'[i].at = None
    <2>1. i # 1 => i - 1 \in DOMAIN cmds
        BY <1>1 DEF Longer
    <2>2. cmds[i].op = "Release" => cmds[i].at = None
        BY <1>1 DEF Channel, Waiting
    <2> QED
        BY <1>1, <2>1, <2>2 DEF Longer, Channel
<1>3. /\ c.op \in {"Record", "Empty"} =>
            IF Len(cmds') = 1 THEN Serves(cmds'[1].at)
            ELSE /\ cmds'[Len(cmds') - 1].op # "Release"
                 /\ cmds'[Len(cmds') - 1].at = cmds'[Len(cmds')].at
    <2>1. cmds = <<>> => Len(cmds') = 1 /\ cmds'[1] = c
        BY <1>1 DEF Longer
    <2>2. cmds # <<>> => /\ Len(cmds') # 1 /\ Len(cmds') - 1 = Len(cmds)
                         /\ cmds'[Len(cmds)] = cmds[Len(cmds)]
        BY <1>1 DEF Longer
    <2>3. cmds'[Len(cmds')] = c
        BY <1>1 DEF Longer
    <2> QED
        BY <1>1, <2>1, <2>2, <2>3 DEF Ends
<1>4. \A s : Serves(s)' <=> Serves(s)
    BY DEF Serves
<1>5. Channel'
    <2> SUFFICES ASSUME NEW i \in DOMAIN cmds'
                 PROVE  /\ cmds'[i].op # "Release" => cmds'[i].at \in Session
                        /\ cmds'[i].op = "Record" => cmds'[i].node \in Node
                        /\ cmds'[i].op \in {"Record", "Empty"} =>
                              IF i = 1 THEN Serves(cmds'[1].at)
                              ELSE cmds'[i - 1].op # "Release" /\ cmds'[i - 1].at = cmds'[i].at
                        /\ cmds'[i].op = "Release" /\ cmds'[i].at # None =>
                              i = Len(cmds') /\ ui'.at = "closing"
        BY <1>4 DEF Channel
    <2>1. CASE i \in DOMAIN cmds
        BY <1>2, <2>1
    <2>2. CASE i = Len(cmds')
        <3>1. cmds'[i] = c
            BY <1>1, <2>2 DEF Longer
        <3> QED
            BY <1>3, <2>2, <3>1
    <2> QED
        BY <1>1, <2>1, <2>2 DEF Longer
<1> QED
    BY <1>1, <1>5

\* The channel after the actor took a command.
LEMMA ServedKeeps ==
    ASSUME TypeOK, Channel, Ends, NEW op, Serve(op), UNCHANGED <<env, sess, trash>>,
           op = "Release" => ui' = IF Head(cmds).at = None THEN ui ELSE [ui EXCEPT !.at = "acked"],
           op # "Release" => ui' = ui,
           op \in {"Record", "Empty"} => store' = store,
           op = "Reopen" => (store' = cmds[1].at \/ (store' = None /\ "open" \in env.faults))
    PROVE  /\ Channel' /\ Ends' /\ cmds' \in Seq(Command) /\ Shorter(cmds', cmds)
           /\ cmds[1] \in Command /\ cmds[1].op = op
           /\ op = "Record" => cmds[1].node \in Node
           /\ op # "Release" => cmds[1].at \in Session
           /\ op \in {"Record", "Empty"} => Serves(cmds[1].at)
           /\ Waiting' <=> Waiting
<1>1. /\ cmds' \in Seq(Command) /\ Shorter(cmds', cmds) /\ cmds[1] \in Command
    BY Taken DEF Serve, TypeOK
<1>2. /\ cmds[1].op = op
      /\ op = "Record" => cmds[1].node \in Node
      /\ op # "Release" => cmds[1].at \in Session
      /\ op \in {"Record", "Empty"} => Serves(cmds[1].at)
      /\ op = "Release" /\ cmds[1].at # None => Len(cmds) = 1 /\ ui.at = "closing"
    BY <1>1 DEF Serve, Shorter, Channel
<1>3. op \in {"Record", "Empty", "Reopen"} =>
        (store' = cmds[1].at \/ (store' = None /\ "open" \in env.faults))
    BY <1>2 DEF Serves
<1>4. op \in {"Record", "Empty", "Reopen", "Release"}
    BY <1>1, <1>2 DEF Command
<1>5. /\ ui'.at = ui.at /\ ui'.next = ui.next /\ (op = "Release" => cmds[1].at = None)
      \/ /\ op = "Release" /\ cmds[1].at # None /\ ui.at = "closing" /\ ui'.at = "acked"
         /\ ui'.next = ui.next /\ cmds' = <<>> /\ Len(cmds) = 1
    <2>1. Head(cmds) = cmds[1] /\ (Len(cmds) = 1 => cmds' = <<>>)
        BY <1>1 DEF Shorter
    <2> QED
        BY <1>2, <2>1 DEF TypeOK
<1>6. Channel'
    <2> SUFFICES ASSUME NEW i \in DOMAIN cmds'
                 PROVE  /\ cmds'[i].op # "Release" => cmds'[i].at \in Session
                        /\ cmds'[i].op = "Record" => cmds'[i].node \in Node
                        /\ cmds'[i].op \in {"Record", "Empty"} =>
                              IF i = 1 THEN (store' = cmds'[1].at \/ (store' = None /\ "open" \in env.faults))
                              ELSE cmds'[i - 1].op # "Release" /\ cmds'[i - 1].at = cmds'[i].at
                        /\ cmds'[i].op = "Release" /\ cmds'[i].at # None =>
                              i = Len(cmds') /\ ui'.at = "closing"
        BY DEF Channel, Serves
    <2>1. /\ i + 1 \in DOMAIN cmds /\ cmds'[i] = cmds[i + 1] /\ cmds' # <<>> /\ i \in Nat /\ i >= 1
          /\ i + 1 # 1 /\ (i + 1) - 1 = i
        BY <1>1 DEF Shorter
    <2>2. /\ cmds'[i].op # "Release" => cmds'[i].at \in Session
          /\ cmds'[i].op = "Record" => cmds'[i].node \in Node
        BY <2>1 DEF Channel
    <2>3. cmds'[i].op \in {"Record", "Empty"} => cmds[i].op # "Release" /\ cmds[i].at = cmds'[i].at
        BY <2>1 DEF Channel
    <2>4. i # 1 => cmds'[i - 1] = cmds[i]
        <3>1. i \in DOMAIN cmds
            BY <1>1 DEF Shorter
        <3> QED
            BY <1>1, <3>1 DEF Shorter
    <2>5. cmds'[i].op = "Release" /\ cmds'[i].at # None => i = Len(cmds') /\ ui'.at = "closing"
        <3>1. cmds[i + 1].op = "Release" /\ cmds[i + 1].at # None => i + 1 = Len(cmds) /\ ui.at = "closing"
            BY <2>1 DEF Channel
        <3>2. i + 1 = Len(cmds) => i = Len(cmds')
            BY <1>1, <2>1 DEF Shorter
        <3> QED
            BY <1>5, <2>1, <3>1, <3>2
    <2> QED
        BY <1>2, <1>3, <1>4, <2>1, <2>2, <2>3, <2>4, <2>5
<1>7. Ends'
    <2>1. cmds' # <<>> => cmds'[Len(cmds')] = cmds[Len(cmds)] /\ cmds # <<>>
        BY <1>1 DEF Shorter
    <2>2. cmds' = <<>> => Len(cmds) = 1 /\ cmds # <<>>
        BY <1>1 DEF Shorter
    <2>3. cmds # <<>>
        BY <1>1 DEF Shorter
    <2>5. CASE ui'.at = ui.at /\ ui'.next = ui.next /\ (op = "Release" => cmds[1].at = None)
        <3>1. sess \in Session /\ sess # None
            BY DEF TypeOK
        <3>2. CASE cmds' = <<>>
            BY <1>2, <1>3, <1>4, <2>2, <2>3, <2>5, <3>1, <3>2 DEF Ends, Waiting, Serves
        <3>3. CASE cmds' # <<>>
            BY <2>1, <2>5, <3>3 DEF Ends, Waiting, Serves
        <3> QED
            BY <3>2, <3>3
    <2>6. CASE ui.at = "closing" /\ ui'.at = "acked" /\ ui'.next = ui.next /\ cmds' = <<>>
        BY <2>6 DEF Ends, Waiting
    <2> QED
        BY <1>5, <2>5, <2>6
<1> QED
    BY <1>1, <1>2, <1>5, <1>6, <1>7 DEF Waiting

-----------------------------------------------------------------------------
(***************************************************************************)
(* What the user does.                                                     *)
(***************************************************************************)
\* A command sent takes nothing back.
LEMMA PendingStays ==
    ASSUME NEW c, Longer(cmds', cmds, c)
    PROVE  /\ \A s, n : Pending(cmds, s, n) => Pending(cmds', s, n)
           /\ c.op = "Record" => Pending(cmds', c.at, c.node)
           /\ \A i \in DOMAIN cmds : i \in DOMAIN cmds' /\ cmds'[i] = cmds[i]
           /\ \A i \in DOMAIN cmds' : cmds'[i] = c \/ (i \in DOMAIN cmds /\ cmds'[i] = cmds[i])
           /\ Len(cmds') \in DOMAIN cmds' /\ cmds'[Len(cmds')] = c /\ cmds' # <<>>
           /\ cmds = <<>> => /\ Len(cmds') = 1 /\ DOMAIN cmds' = {1} /\ cmds'[1] = c
BY DEF Longer, Pending

\* A deletion archives the world and is on its way to the bin.
LEMMA DeleteKeeps ==
    ASSUME IInv, NEW n \in Node, Delete(n)
    PROVE  IInv'
<1> USE DEF IInv
<1> DEFINE c == Stage(n)
           r == <<sess, n>>
<1>2. /\ ~ Waiting /\ ui.at # "saving" /\ sess \in Session
      /\ env.prompt => cmds = <<>> /\ answers = <<>> /\ oven = Cold
    BY ActsFree DEF Delete, Quiet, TypeOK
<1>1. /\ UNCHANGED <<env, sess, saved, removed, told, answers, store, bin, oven, trash, zombies>>
      /\ graph' = graph \ {n} /\ n \in graph
      /\ live' = live \ {r} /\ archive' = archive \cup (live \cap {r}) /\ r \in Record
      /\ ui'.at = "saving"
      /\ ui' \in [at : {"idle", "saving", "closing", "acked"}, next : Session \cup {None}]
      /\ c \in Command /\ c.op = "Record" /\ c.at = sess /\ c.node = n
    BY <1>2, Resting, CommandFacts DEF Delete, app, worlds, actor, dirs, Record
<1>3. /\ Channel' /\ cmds' \in Seq(Command) /\ Longer(cmds', cmds, c)
    BY <1>1, <1>2, SentKeeps DEF Delete
<1> HIDE DEF c
<1>4. /\ \A s, m : Pending(cmds, s, m) => Pending(cmds', s, m)
      /\ c.op = "Record" => Pending(cmds', c.at, c.node)
      /\ \A i \in DOMAIN cmds : i \in DOMAIN cmds' /\ cmds'[i] = cmds[i]
      /\ \A i \in DOMAIN cmds' : cmds'[i] = c \/ (i \in DOMAIN cmds /\ cmds'[i] = cmds[i])
      /\ Len(cmds') \in DOMAIN cmds' /\ cmds'[Len(cmds')] = c /\ cmds' # <<>>
      /\ cmds = <<>> => Len(cmds') = 1 /\ DOMAIN cmds' = {1} /\ cmds'[1] = c
    BY <1>3, PendingStays
<1>20. TypeOK'
    BY <1>1, <1>2, <1>3, <1>4 DEF TypeOK
<1>21. Ends'
    BY <1>1, <1>2, <1>3, <1>4 DEF Ends, Waiting, Serves, TypeOK
<1>22. OvenOpen'
    BY <1>1, <1>2, <1>3, <1>4 DEF OvenOpen
<1>23. LastWord'
    BY <1>1, <1>2, <1>3, <1>4 DEF LastWord
<1>24. Archived'
    BY <1>1, <1>2, <1>3, <1>4 DEF Archived
<1>25. Forgetting'
    BY <1>1, <1>2, <1>3, <1>4 DEF Forgetting
<1>26. NoZombieAhead'
    BY <1>1, <1>2, <1>3, <1>4 DEF NoZombieAhead
<1>27. OneAtATime'
    BY <1>1, <1>2, <1>3, <1>4 DEF OneAtATime, Waiting, TypeOK, Quiet
<1>28. GraphSaved'
    BY <1>1, <1>2, <1>3, <1>4 DEF GraphSaved, TypeOK
<1>29. Mirrors'
    BY <1>1, <1>2, <1>3, <1>4 DEF Mirrors, Careful, OneAtATime, Quiet
<1>30. WorldsKept'
    BY <1>1, <1>2, <1>3, <1>4 DEF WorldsKept, Careful, TombstoneKeepsWorld, Graph, TypeOK
<1> QED
    BY <1>20, <1>21, <1>22, <1>23, <1>24, <1>25, <1>26, <1>27, <1>28, <1>29, <1>30, <1>3

\* A recovery brings node and world back.
LEMMA RecoverKeeps ==
    ASSUME IInv, NEW n \in Node, Recover(n)
    PROVE  IInv'
<1> USE DEF IInv
<1> DEFINE r == <<sess, n>>
<1>2. /\ ~ Waiting /\ ui.at # "saving" /\ sess \in Session
      /\ env.prompt => cmds = <<>> /\ answers = <<>> /\ oven = Cold
    BY ActsFree DEF Recover, Quiet, TypeOK
<1>1. /\ UNCHANGED <<env, sess, saved, removed, told, cmds, answers, store, bin, oven, trash, zombies>>
      /\ graph' = graph \cup {n} /\ \E t \in removed : t[2] = n
      /\ archive' = archive \ {r} /\ live' = live \cup (archive \cap {r}) /\ r \in Record
      /\ ui'.at = "saving"
      /\ ui' \in [at : {"idle", "saving", "closing", "acked"}, next : Session \cup {None}]
    BY <1>2, Resting DEF Recover, actor, dirs, Record
<1>3. \A s, m : Pending(cmds', s, m) <=> Pending(cmds, s, m)
    BY <1>1 DEF Pending
<1>4. Careful => n \in bin[sess] /\ sess \notin trash
    BY <1>1, <1>2 DEF Mirrors, Careful, Of, TypeOK
<1>20. TypeOK'
    BY <1>1, <1>2, <1>3, <1>4 DEF TypeOK
<1>21. Channel'
    BY <1>1, <1>2, <1>3, <1>4 DEF Channel, Serves, Waiting
<1>22. Ends'
    BY <1>1, <1>2, <1>3, <1>4 DEF Ends, Waiting, Serves, TypeOK
<1>23. OvenOpen'
    BY <1>1, <1>2, <1>3, <1>4 DEF OvenOpen
<1>24. LastWord'
    BY <1>1, <1>2, <1>3, <1>4 DEF LastWord
<1>25. Archived'
    BY <1>1, <1>2, <1>3, <1>4 DEF Archived
<1>26. Forgetting'
    BY <1>1, <1>2, <1>3, <1>4 DEF Forgetting
<1>27. NoZombieAhead'
    BY <1>1, <1>2, <1>3, <1>4 DEF NoZombieAhead
<1>28. OneAtATime'
    BY <1>1, <1>2, <1>3, <1>4 DEF OneAtATime, Waiting, TypeOK, Quiet
<1>29. GraphSaved'
    BY <1>1, <1>2, <1>3, <1>4 DEF GraphSaved, TypeOK
<1>30. Mirrors'
    BY <1>1, <1>2, <1>3, <1>4 DEF Mirrors, Careful, OneAtATime, Quiet
<1>31. WorldsKept'
    <2> SUFFICES ASSUME Careful PROVE WorldsKept'
        BY <1>1 DEF WorldsKept, Careful
    <2>1. env.prompt /\ cmds = <<>> /\ oven = Cold /\ oven.nodes = {}
        BY <1>2, Resting DEF Careful
    <2>2. r \in live \cup archive
        BY <1>2, <1>4, <2>1 DEF WorldsKept, TombstoneKeepsWorld, Graph
    <2>3. ASSUME NEW s \in Session \ trash, NEW m \in Graph(s)'
          PROVE  <<s, m>> \in live'
        <3>1. m \in Graph(s) \/ <<s, m>> = r
            BY <1>1, <2>3 DEF Graph
        <3> QED
            BY <1>1, <2>2, <2>3, <3>1 DEF WorldsKept
    <2>4. ASSUME NEW s \in Session \ trash, NEW m \in bin[s], m \notin Graph(s)'
          PROVE  <<s, m>> \in archive'
        <3>1. m \notin Graph(s) /\ <<s, m>> # r
            BY <1>1, <2>4 DEF Graph
        <3> QED
            BY <1>1, <2>1, <2>4, <3>1 DEF WorldsKept, TombstoneKeepsWorld
    <2> QED
        BY <1>1, <2>1, <2>3, <2>4 DEF WorldsKept, TombstoneKeepsWorld
<1> QED
    BY <1>20, <1>21, <1>22, <1>23, <1>24, <1>25, <1>26, <1>27, <1>28, <1>29, <1>30, <1>31

\* The save after a change.
LEMMA SaveSessionKeeps ==
    ASSUME IInv, SaveSession
    PROVE  IInv'
<1> USE DEF IInv
<1>1. /\ UNCHANGED <<env, sess, graph, live, archive, removed, told, cmds, answers, store, bin, oven, trash, zombies>>
      /\ saved' = [saved EXCEPT ![sess] = graph] /\ ui.at = "saving" /\ ui'.at = "idle"
      /\ ui' \in [at : {"idle", "saving", "closing", "acked"}, next : Session \cup {None}]
    BY Resting DEF SaveSession, worlds, actor, dirs
<1>2. \A s, m : Pending(cmds', s, m) <=> Pending(cmds, s, m)
    BY <1>1 DEF Pending
<1>20. TypeOK'
    BY <1>1, <1>2 DEF TypeOK
<1>21. Channel'
    BY <1>1, <1>2 DEF Channel, Serves, Waiting
<1>22. Ends'
    BY <1>1, <1>2 DEF Ends, Waiting, Serves, TypeOK
<1>23. OvenOpen'
    BY <1>1, <1>2 DEF OvenOpen
<1>24. LastWord'
    BY <1>1, <1>2 DEF LastWord
<1>25. Archived'
    BY <1>1, <1>2 DEF Archived
<1>26. Forgetting'
    BY <1>1, <1>2 DEF Forgetting
<1>27. NoZombieAhead'
    BY <1>1, <1>2 DEF NoZombieAhead
<1>28. OneAtATime'
    BY <1>1, <1>2 DEF OneAtATime, Waiting, TypeOK, Quiet
<1>29. GraphSaved'
    BY <1>1, <1>2 DEF GraphSaved, TypeOK
<1>30. Mirrors'
    BY <1>1, <1>2 DEF Mirrors, Careful, OneAtATime, Quiet
<1>31. WorldsKept'
    BY <1>1, <1>2 DEF WorldsKept, Careful, TombstoneKeepsWorld, Graph, TypeOK
<1> QED
    BY <1>20, <1>21, <1>22, <1>23, <1>24, <1>25, <1>26, <1>27, <1>28, <1>29, <1>30, <1>31

\* An emptying is on its way.
LEMMA EmptyRecycleBinKeeps ==
    ASSUME IInv, EmptyRecycleBin
    PROVE  IInv'
<1> USE DEF IInv
<1> DEFINE c == Cmd("Empty", sess)
<1>2. /\ ~ Waiting /\ ui.at # "saving" /\ sess \in Session
      /\ env.prompt => cmds = <<>> /\ answers = <<>> /\ oven = Cold
    BY ActsFree DEF EmptyRecycleBin, Quiet, TypeOK
<1>1. /\ UNCHANGED <<env, sess, graph, ui, saved, live, archive, removed, told, answers, store, bin, oven, trash, zombies>>
      /\ c \in Command /\ c.op = "Empty" /\ c.at = sess
    BY <1>2, CommandFacts DEF EmptyRecycleBin, app, worlds, actor, dirs
<1>3. /\ Channel' /\ cmds' \in Seq(Command) /\ Longer(cmds', cmds, c)
    BY <1>1, <1>2, SentKeeps DEF EmptyRecycleBin
<1> HIDE DEF c
<1>4. /\ \A s, m : Pending(cmds, s, m) => Pending(cmds', s, m)
      /\ c.op = "Record" => Pending(cmds', c.at, c.node)
      /\ \A i \in DOMAIN cmds : i \in DOMAIN cmds' /\ cmds'[i] = cmds[i]
      /\ \A i \in DOMAIN cmds' : cmds'[i] = c \/ (i \in DOMAIN cmds /\ cmds'[i] = cmds[i])
      /\ Len(cmds') \in DOMAIN cmds' /\ cmds'[Len(cmds')] = c /\ cmds' # <<>>
      /\ cmds = <<>> => Len(cmds') = 1 /\ DOMAIN cmds' = {1} /\ cmds'[1] = c
    BY <1>3, PendingStays
<1>20. TypeOK'
    BY <1>1, <1>2, <1>3, <1>4 DEF TypeOK
<1>21. Ends'
    BY <1>1, <1>2, <1>3, <1>4 DEF Ends, Waiting, Serves, TypeOK
<1>22. OvenOpen'
    BY <1>1, <1>2, <1>3, <1>4 DEF OvenOpen
<1>23. LastWord'
    BY <1>1, <1>2, <1>3, <1>4 DEF LastWord
<1>24. Archived'
    BY <1>1, <1>2, <1>3, <1>4 DEF Archived
<1>25. Forgetting'
    BY <1>1, <1>2, <1>3, <1>4 DEF Forgetting
<1>26. NoZombieAhead'
    BY <1>1, <1>2, <1>3, <1>4 DEF NoZombieAhead
<1>27. OneAtATime'
    BY <1>1, <1>2, <1>3, <1>4 DEF OneAtATime, Waiting, TypeOK, Quiet
<1>28. GraphSaved'
    BY <1>1, <1>2, <1>3, <1>4 DEF GraphSaved, TypeOK
<1>29. Mirrors'
    BY <1>1, <1>2, <1>3, <1>4 DEF Mirrors, Careful, OneAtATime, Quiet
<1>30. WorldsKept'
    BY <1>1, <1>2, <1>3, <1>4 DEF WorldsKept, Careful, TombstoneKeepsWorld, Graph, TypeOK
<1> QED
    BY <1>20, <1>21, <1>22, <1>23, <1>24, <1>25, <1>26, <1>27, <1>28, <1>29, <1>30, <1>3

\* A switch sends the bin after the session.
LEMMA SwitchSessionKeeps ==
    ASSUME IInv, NEW t \in Session, SwitchSession(t)
    PROVE  IInv'
<1> USE DEF IInv
<1> DEFINE c == Cmd("Reopen", t)
<1>2. /\ ~ Waiting /\ ui.at # "saving" /\ sess \in Session
      /\ env.prompt => cmds = <<>> /\ answers = <<>> /\ oven = Cold
    BY ActsFree DEF SwitchSession, Quiet, TypeOK
<1>1. /\ UNCHANGED <<env, saved, live, archive, answers, store, bin, oven, trash, zombies>>
      /\ t \notin trash /\ t # sess
      /\ sess' = t /\ graph' = saved[t] /\ removed' = {} /\ told' = "listed" /\ ui'.at = "idle"
      /\ ui' \in [at : {"idle", "saving", "closing", "acked"}, next : Session \cup {None}]
      /\ c \in Command /\ c.op = "Reopen" /\ c.at = t
    BY <1>2, Resting, CommandFacts DEF SwitchSession, Adopt, worlds, actor, dirs
<1>3. /\ Channel' /\ cmds' \in Seq(Command) /\ Longer(cmds', cmds, c)
    BY <1>1, <1>2, SentKeeps DEF SwitchSession
<1> HIDE DEF c
<1>4. /\ \A s, m : Pending(cmds, s, m) => Pending(cmds', s, m)
      /\ c.op = "Record" => Pending(cmds', c.at, c.node)
      /\ \A i \in DOMAIN cmds : i \in DOMAIN cmds' /\ cmds'[i] = cmds[i]
      /\ \A i \in DOMAIN cmds' : cmds'[i] = c \/ (i \in DOMAIN cmds /\ cmds'[i] = cmds[i])
      /\ Len(cmds') \in DOMAIN cmds' /\ cmds'[Len(cmds')] = c /\ cmds' # <<>>
      /\ cmds = <<>> => Len(cmds') = 1 /\ DOMAIN cmds' = {1} /\ cmds'[1] = c
    BY <1>3, PendingStays
<1>5. \A s \in Session : Graph(s)' = Graph(s)
    BY <1>1, <1>2 DEF Graph, GraphSaved
<1>20. TypeOK'
    BY <1>1, <1>2, <1>3, <1>4 DEF TypeOK
<1>21. Ends'
    BY <1>1, <1>2, <1>3, <1>4 DEF Ends, Waiting, Serves, TypeOK
<1>22. OvenOpen'
    BY <1>1, <1>2, <1>3, <1>4 DEF OvenOpen
<1>23. LastWord'
    BY <1>1, <1>2, <1>3, <1>4 DEF LastWord
<1>24. Archived'
    BY <1>1, <1>2, <1>3, <1>4 DEF Archived
<1>25. Forgetting'
    BY <1>1, <1>2, <1>3, <1>4 DEF Forgetting
<1>26. NoZombieAhead'
    BY <1>1, <1>2, <1>3, <1>4 DEF NoZombieAhead
<1>27. OneAtATime'
    BY <1>1, <1>2, <1>3, <1>4 DEF OneAtATime, Waiting, TypeOK, Quiet
<1>28. GraphSaved'
    BY <1>1, <1>2, <1>3, <1>4 DEF GraphSaved, TypeOK
<1>29. Mirrors'
    BY <1>1, <1>2, <1>3, <1>4 DEF Mirrors, Careful, OneAtATime, Quiet
<1>30. WorldsKept'
    BY <1>1, <1>2, <1>4, <1>5 DEF WorldsKept, Careful, TombstoneKeepsWorld
<1> QED
    BY <1>20, <1>21, <1>22, <1>23, <1>24, <1>25, <1>26, <1>27, <1>28, <1>29, <1>30, <1>3

\* A close asks for the store to be released.
LEMMA CloseSessionKeeps ==
    ASSUME IInv, NEW t \in Session, CloseSession(t)
    PROVE  IInv'
<1> USE DEF IInv
<1> DEFINE c == Cmd("Release", sess)
<1>2. /\ ~ Waiting /\ ui.at # "saving" /\ sess \in Session
      /\ env.prompt => cmds = <<>> /\ answers = <<>> /\ oven = Cold
    BY ActsFree DEF CloseSession, Quiet, TypeOK
<1>1. /\ UNCHANGED <<env, sess, graph, saved, live, archive, removed, told, answers, store, bin, oven, trash, zombies>>
      /\ t \notin trash /\ t # sess
      /\ ui'.at = "closing" /\ ui'.next = t
      /\ ui' \in [at : {"idle", "saving", "closing", "acked"}, next : Session \cup {None}]
      /\ c \in Command /\ c.op = "Release" /\ c.at = sess
    BY <1>2, CommandFacts DEF CloseSession, worlds, actor, dirs
<1>3. /\ Channel' /\ cmds' \in Seq(Command) /\ Longer(cmds', cmds, c)
    BY <1>1, <1>2, SentKeeps DEF CloseSession
<1> HIDE DEF c
<1>4. /\ \A s, m : Pending(cmds, s, m) => Pending(cmds', s, m)
      /\ c.op = "Record" => Pending(cmds', c.at, c.node)
      /\ \A i \in DOMAIN cmds : i \in DOMAIN cmds' /\ cmds'[i] = cmds[i]
      /\ \A i \in DOMAIN cmds' : cmds'[i] = c \/ (i \in DOMAIN cmds /\ cmds'[i] = cmds[i])
      /\ Len(cmds') \in DOMAIN cmds' /\ cmds'[Len(cmds')] = c /\ cmds' # <<>>
      /\ cmds = <<>> => Len(cmds') = 1 /\ DOMAIN cmds' = {1} /\ cmds'[1] = c
    BY <1>3, PendingStays
<1>20. TypeOK'
    BY <1>1, <1>2, <1>3, <1>4 DEF TypeOK
<1>21. Ends'
    BY <1>1, <1>2, <1>3, <1>4 DEF Ends, Waiting, Serves, TypeOK
<1>22. OvenOpen'
    BY <1>1, <1>2, <1>3, <1>4 DEF OvenOpen
<1>23. LastWord'
    BY <1>1, <1>2, <1>3, <1>4 DEF LastWord
<1>24. Archived'
    BY <1>1, <1>2, <1>3, <1>4 DEF Archived
<1>25. Forgetting'
    BY <1>1, <1>2, <1>3, <1>4 DEF Forgetting
<1>26. NoZombieAhead'
    BY <1>1, <1>2, <1>3, <1>4 DEF NoZombieAhead
<1>27. OneAtATime'
    BY <1>1, <1>2, <1>3, <1>4 DEF OneAtATime, Waiting, TypeOK, Quiet
<1>28. GraphSaved'
    BY <1>1, <1>2, <1>3, <1>4 DEF GraphSaved, TypeOK
<1>29. Mirrors'
    BY <1>1, <1>2, <1>3, <1>4 DEF Mirrors, Careful, OneAtATime, Quiet
<1>30. WorldsKept'
    BY <1>1, <1>2, <1>3, <1>4 DEF WorldsKept, Careful, TombstoneKeepsWorld, Graph, TypeOK
<1> QED
    BY <1>20, <1>21, <1>22, <1>23, <1>24, <1>25, <1>26, <1>27, <1>28, <1>29, <1>30, <1>3

\* An ack nobody waits for is all that an abandoned channel forgets.
LEMMA AbandonedFacts ==
    ASSUME NEW q \in Seq(Command)
    PROVE  /\ Abandoned(q) \in Seq(Command)
           /\ Len(Abandoned(q)) = Len(q) /\ DOMAIN Abandoned(q) = DOMAIN q
           /\ \A i \in DOMAIN q :
                /\ Abandoned(q)[i].op = q[i].op /\ Abandoned(q)[i].node = q[i].node
                /\ Abandoned(q)[i].at = IF q[i].op = "Release" THEN None ELSE q[i].at
<1>1. Len(q) \in Nat /\ DOMAIN q = 1..Len(q) /\ \A i \in DOMAIN q : q[i] \in Command
    OBVIOUS
<1>2. ASSUME NEW c \in Command
      PROVE  /\ [c EXCEPT !.at = None] \in Command
             /\ [c EXCEPT !.at = None].op = c.op /\ [c EXCEPT !.at = None].node = c.node
             /\ [c EXCEPT !.at = None].at = None
    BY DEF Command
<1>3. Abandoned(q) = [i \in 1..Len(q) |-> IF q[i].op = "Release" THEN [q[i] EXCEPT !.at = None]
                                          ELSE q[i]]
    BY <1>1 DEF Abandoned
<1>4. \A i \in 1..Len(q) : /\ Abandoned(q)[i] \in Command
                           /\ Abandoned(q)[i].op = q[i].op /\ Abandoned(q)[i].node = q[i].node
                           /\ Abandoned(q)[i].at = IF q[i].op = "Release" THEN None ELSE q[i].at
    BY <1>1, <1>2, <1>3
<1>5. DOMAIN Abandoned(q) = 1..Len(q)
    BY <1>3
<1>6. Abandoned(q) \in [1..Len(q) -> Command]
    BY <1>3, <1>4
<1>7. Abandoned(q) \in Seq(Command) /\ Len(Abandoned(q)) = Len(q)
    BY <1>1, <1>5, <1>6, LenProperties, SeqDef
<1> QED
    BY <1>1, <1>4, <1>5, <1>7

\* A close moves the directory and sends the bin after the next session.
LEMMA TrashSessionKeeps ==
    ASSUME IInv, TrashSession
    PROVE  IInv'
<1> USE DEF IInv
<1> DEFINE c == Cmd("Reopen", ui.next)
           q == Abandoned(cmds)
<1>1. /\ UNCHANGED <<env, saved, live, archive, answers, store, bin, oven, zombies>>
      /\ ui.at \in {"closing", "acked"} /\ (env.patient => ui.at = "acked") /\ Waiting
      /\ trash \subseteq trash' /\ trash' \subseteq trash \cup {sess}
      /\ sess' = ui.next /\ graph' = saved[ui.next] /\ removed' = {} /\ told' = "listed" /\ ui'.at = "idle"
      /\ ui' \in [at : {"idle", "saving", "closing", "acked"}, next : Session \cup {None}]
      /\ ~ Waiting'
    BY Resting DEF TrashSession, MayMove, Adopt, worlds, actor, dirs, Waiting
<1>2. /\ ui.next \in Session \ (trash \cup {sess}) /\ sess \in Session
      /\ c \in Command /\ c.op = "Reopen" /\ c.at = sess' /\ sess' \in Session
      /\ ui.at = "acked" => cmds = <<>>
      /\ ui.at = "closing" => cmds # <<>> /\ cmds[Len(cmds)].op = "Release"
    BY <1>1, CommandFacts DEF Ends, TypeOK
<1>3. /\ q \in Seq(Command) /\ Len(q) = Len(cmds) /\ DOMAIN q = DOMAIN cmds
      /\ \A i \in DOMAIN cmds :
           /\ q[i].op = cmds[i].op /\ q[i].node = cmds[i].node
           /\ q[i].at = IF cmds[i].op = "Release" THEN None ELSE cmds[i].at
    BY AbandonedFacts DEF TypeOK
<1>4. cmds' \in Seq(Command) /\ Longer(cmds', q, c)
    BY <1>2, <1>3, Appended DEF TrashSession
<1> HIDE DEF c, q
<1>5. /\ \A i \in DOMAIN cmds : i \in DOMAIN cmds' /\ cmds'[i] = q[i]
      /\ \A i \in DOMAIN cmds' : i \in DOMAIN cmds \/ i = Len(cmds')
      /\ Len(cmds') \in DOMAIN cmds' /\ cmds'[Len(cmds')] = c /\ cmds' # <<>>
      /\ DOMAIN cmds = 1..Len(cmds) /\ Len(cmds') = Len(cmds) + 1 /\ Len(cmds) \in Nat
      /\ cmds = <<>> => DOMAIN cmds = {}
    BY <1>3, <1>4 DEF Longer
<1>6. \A i \in DOMAIN cmds :
         /\ cmds'[i].op = cmds[i].op /\ cmds'[i].node = cmds[i].node
         /\ cmds[i].op = "Release" => cmds'[i].at = None
         /\ cmds[i].op # "Release" => cmds'[i].at = cmds[i].at
    BY <1>3, <1>5
<1>7. \A s, m : Pending(cmds, s, m) => Pending(cmds', s, m)
    BY <1>5, <1>6 DEF Pending
<1>8. env.prompt => \A i \in DOMAIN cmds : cmds[i].op = "Release"
    <2>1. CASE ui.at = "acked"
        BY <1>2, <1>5, <2>1
    <2>2. CASE ui.at = "closing"
        BY <1>2, <2>2 DEF OneAtATime
    <2> QED
        BY <1>1, <2>1, <2>2
<1>9. Channel'
    <2> SUFFICES ASSUME NEW i \in DOMAIN cmds'
                 PROVE  /\ cmds'[i].op # "Release" => cmds'[i].at \in Session
                        /\ cmds'[i].op = "Record" => cmds'[i].node \in Node
                        /\ cmds'[i].op \in {"Record", "Empty"} =>
                              IF i = 1 THEN (store' = cmds'[1].at \/ (store' = None /\ "open" \in env'.faults))
                              ELSE cmds'[i - 1].op # "Release" /\ cmds'[i - 1].at = cmds'[i].at
                        /\ cmds'[i].op = "Release" => cmds'[i].at = None
        BY DEF Channel, Serves
    <2>1. CASE i \in DOMAIN cmds
        <3>1. i # 1 => i - 1 \in DOMAIN cmds
            BY <1>5, <2>1
        <3>2. /\ cmds[i].op # "Release" => cmds[i].at \in Session
              /\ cmds[i].op = "Record" => cmds[i].node \in Node
              /\ cmds[i].op \in {"Record", "Empty"} =>
                   IF i = 1 THEN (store = cmds[1].at \/ (store = None /\ "open" \in env.faults))
                   ELSE cmds[i - 1].op # "Release" /\ cmds[i - 1].at = cmds[i].at
            BY <2>1 DEF Channel, Serves
        <3> QED
            BY <1>1, <1>6, <2>1, <3>1, <3>2
    <2>2. CASE i = Len(cmds')
        BY <1>2, <1>5, <2>2
    <2> QED
        BY <1>5, <2>1, <2>2
<1>10. \A s \in Session : Graph(s)' = Graph(s)
    BY <1>1, <1>2 DEF Graph, GraphSaved
<1>20. TypeOK'
    BY <1>1, <1>2, <1>4, <1>5, <1>6, <1>7, <1>8 DEF TypeOK
<1>21. Ends'
    BY <1>1, <1>2, <1>4, <1>5, <1>6, <1>7, <1>8 DEF Ends, Waiting, Serves, TypeOK
<1>22. OvenOpen'
    BY <1>1, <1>2, <1>4, <1>5, <1>6, <1>7, <1>8 DEF OvenOpen
<1>23. LastWord'
    BY <1>1, <1>2, <1>4, <1>5, <1>6, <1>7, <1>8 DEF LastWord
<1>24. Archived'
    BY <1>1, <1>2, <1>4, <1>5, <1>6, <1>7, <1>8 DEF Archived
<1>25. Forgetting'
    BY <1>1, <1>2, <1>4, <1>5, <1>6, <1>7, <1>8 DEF Forgetting
<1>26. NoZombieAhead'
    <2> SUFFICES ASSUME env.patient
                 PROVE  zombies' = {} /\ \A i \in DOMAIN cmds' : cmds'[i].op = "Reopen" => cmds'[i].at \notin trash'
        BY <1>1 DEF NoZombieAhead
    <2>1. zombies = {} /\ cmds = <<>> /\ DOMAIN cmds = {}
        BY <1>1, <1>2, <1>5 DEF NoZombieAhead
    <2> QED
        BY <1>1, <1>2, <1>5, <2>1
<1>27. OneAtATime'
    <2> SUFFICES ASSUME env.prompt
                 PROVE  /\ oven = Cold /\ answers = <<>>
                        /\ \A i \in DOMAIN cmds' :
                             /\ cmds'[i].op # "Release" => cmds'[i].at = sess' /\ i = Len(cmds')
                             /\ cmds'[i].op \notin {"Record", "Empty"}
        BY <1>1 DEF OneAtATime
    <2>1. oven = Cold /\ answers = <<>>
        BY <1>1 DEF OneAtATime
    <2>2. \A i \in DOMAIN cmds : cmds'[i].op = "Release"
        BY <1>6, <1>8
    <2> QED
        BY <1>2, <1>5, <2>1, <2>2
<1>28. GraphSaved'
    BY <1>1, <1>2, <1>4, <1>5, <1>6, <1>7, <1>8 DEF GraphSaved, TypeOK
<1>29. Mirrors'
    BY <1>1, <1>2, <1>4, <1>5, <1>6, <1>7, <1>8 DEF Mirrors, Careful, OneAtATime, Quiet
<1>30. WorldsKept'
    BY <1>1, <1>2, <1>5, <1>6, <1>8, <1>10 DEF WorldsKept, Careful, TombstoneKeepsWorld
<1> QED
    BY <1>20, <1>21, <1>22, <1>23, <1>24, <1>25, <1>26, <1>27, <1>28, <1>29, <1>30, <1>9

\* The app folds the first answer.
LEMMA FoldKeeps ==
    ASSUME IInv, Fold
    PROVE  IInv'
<1> USE DEF IInv
<1> DEFINE a == answers[1]
<1>1. /\ UNCHANGED <<env, sess, graph, ui, saved, live, archive, cmds, store, bin, oven, trash, zombies>>
      /\ ui.at = "idle" /\ answers # <<>> /\ answers' = Tail(answers)
      /\ \/ Head(answers).ok /\ removed' = Head(answers).records /\ told' = "listed"
         \/ ~ Head(answers).ok /\ removed' = removed /\ told' = "failed"
    BY Resting DEF Fold, worlds, actor, dirs
<1>2. /\ answers' \in Seq([ok : BOOLEAN, records : SUBSET Record]) /\ Shorter(answers', answers)
      /\ a \in [ok : BOOLEAN, records : SUBSET Record]
    BY <1>1, Taken DEF TypeOK
<1> HIDE DEF a
<1>3. /\ Head(answers) = a /\ (answers' = <<>> <=> Len(answers) = 1)
      /\ answers' = <<>> => answers[Len(answers)] = a
      /\ answers' # <<>> => answers'[Len(answers')] = answers[Len(answers)]
    BY <1>2 DEF Shorter, a
<1>4. \/ a.ok /\ removed' = a.records /\ told' = "listed"
      \/ ~ a.ok /\ removed' = removed /\ told' = "failed"
    BY <1>1, <1>3
<1>5. a.records \subseteq Record /\ a.ok \in BOOLEAN
    BY <1>2
<1>6. env.prompt => /\ cmds = <<>> /\ oven = Cold /\ answers' = <<>>
                    /\ a.records \subseteq Of(sess, Node)
    BY <1>1, <1>3 DEF OneAtATime, a
<1>7. \A s, m : Pending(cmds', s, m) <=> Pending(cmds, s, m)
    BY <1>1 DEF Pending
<1>20. TypeOK'
    BY <1>1, <1>2, <1>3, <1>4, <1>5, <1>7 DEF TypeOK
<1>21. Channel'
    BY <1>1, <1>2, <1>3, <1>4, <1>5, <1>7 DEF Channel, Serves, Waiting
<1>22. Ends'
    BY <1>1, <1>2, <1>3, <1>4, <1>5, <1>7 DEF Ends, Waiting, Serves, TypeOK
<1>23. OvenOpen'
    BY <1>1, <1>2, <1>3, <1>4, <1>5, <1>7 DEF OvenOpen
<1>24. LastWord'
    BY <1>1, <1>2, <1>3, <1>4, <1>5, <1>7 DEF LastWord
<1>25. Archived'
    BY <1>1, <1>2, <1>3, <1>4, <1>5, <1>7 DEF Archived
<1>26. Forgetting'
    BY <1>1, <1>2, <1>3, <1>4, <1>5, <1>7 DEF Forgetting
<1>27. NoZombieAhead'
    BY <1>1, <1>2, <1>3, <1>4, <1>5, <1>7 DEF NoZombieAhead
<1>28. OneAtATime'
    BY <1>1, <1>4, <1>6 DEF OneAtATime, Waiting, TypeOK, Quiet
<1>29. GraphSaved'
    BY <1>1, <1>2, <1>3, <1>4, <1>5, <1>7 DEF GraphSaved, TypeOK
<1>30. Mirrors'
    BY <1>1, <1>4, <1>6 DEF Mirrors, Careful, a
<1>31. WorldsKept'
    BY <1>1, <1>2, <1>3, <1>4, <1>5, <1>7 DEF WorldsKept, Careful, TombstoneKeepsWorld, Graph, TypeOK
<1> QED
    BY <1>20, <1>21, <1>22, <1>23, <1>24, <1>25, <1>26, <1>27, <1>28, <1>29, <1>30, <1>31

-----------------------------------------------------------------------------
(***************************************************************************)
(* What the actor does.                                                    *)
(***************************************************************************)
\* What the commands left say, and what an emission adds.
LEMMA ServedStays ==
    ASSUME Shorter(cmds', cmds)
    PROVE  /\ \A s, m : Pending(cmds, s, m) =>
                  \/ Pending(cmds', s, m)
                  \/ (cmds[1].op = "Record" /\ cmds[1].at = s /\ cmds[1].node = m)
           /\ \A i \in DOMAIN cmds' :
                  i + 1 \in DOMAIN cmds /\ cmds'[i] = cmds[i + 1] /\ i \in Nat /\ i + 1 # 1
           /\ 1 \in DOMAIN cmds /\ Head(cmds) = cmds[1]
           /\ cmds' = <<>> => DOMAIN cmds' = {}
           /\ Len(cmds) = 1 => cmds' = <<>>
           /\ \A i \in DOMAIN cmds' : i + 1 = Len(cmds) => i = Len(cmds')
<1>1. \A i \in DOMAIN cmds' :
          i + 1 \in DOMAIN cmds /\ cmds'[i] = cmds[i + 1] /\ i \in Nat /\ i + 1 # 1
    BY DEF Shorter
<1>2. ASSUME NEW s, NEW m, NEW i \in DOMAIN cmds,
             cmds[i].op = "Record" /\ cmds[i].at = s /\ cmds[i].node = m, i # 1
      PROVE  Pending(cmds', s, m)
    BY <1>2 DEF Pending, Shorter
<1>3. /\ 1 \in DOMAIN cmds /\ Head(cmds) = cmds[1] /\ (Len(cmds) = 1 => cmds' = <<>>)
      /\ cmds' = <<>> => DOMAIN cmds' = {}
      /\ \A i \in DOMAIN cmds' : i + 1 = Len(cmds) => i = Len(cmds')
    BY DEF Shorter
<1>4. \A s, m : Pending(cmds, s, m) =>
          Pending(cmds', s, m) \/ (cmds[1].op = "Record" /\ cmds[1].at = s /\ cmds[1].node = m)
    BY <1>2 DEF Pending
<1> QED
    BY <1>1, <1>3, <1>4

\* With a user who waits, nothing else is under way.
LEMMA ServedAlone ==
    ASSUME IInv, Shorter(cmds', cmds), cmds[1].op # "Release", env.prompt
    PROVE  cmds' = <<>> /\ answers = <<>> /\ cmds[1].at = sess /\ ~ Waiting
<1>1. 1 \in DOMAIN cmds /\ cmds # <<>> /\ (Len(cmds) = 1 => cmds' = <<>>)
    BY DEF Shorter
<1>2. cmds[1].at = sess /\ Len(cmds) = 1 /\ answers = <<>>
    BY <1>1 DEF IInv, OneAtATime
<1> QED
    BY <1>1, <1>2 DEF IInv, Ends, Waiting

\* What an answer leaves.
LEMMA Emitted ==
    ASSUME TypeOK, NEW u \in [ok : BOOLEAN, records : SUBSET Record], Emit(u)
    PROVE  /\ answers' \in Seq([ok : BOOLEAN, records : SUBSET Record])
           /\ answers' # <<>> /\ answers'[Len(answers')] = u
           /\ answers = <<>> => Len(answers') = 1 /\ answers'[1] = u
<1>1. answers' \in Seq([ok : BOOLEAN, records : SUBSET Record]) /\ Longer(answers', answers, u)
    BY Appended DEF Emit, TypeOK
<1> QED
    BY <1>1 DEF Longer

\* What the answers say.
LEMMA AnswerFacts ==
    /\ BinFailed \in [ok : BOOLEAN, records : SUBSET Record] /\ BinFailed.ok = FALSE
    /\ BinFailed.records = {}
    /\ \A s \in Session : bin' \in [Session -> SUBSET Node] =>
         /\ BinListed(s) \in [ok : BOOLEAN, records : SUBSET Record] /\ BinListed(s).ok = TRUE
         /\ BinListed(s).records = Of(s, bin'[s]) /\ BinListed(s).records \subseteq Of(s, Node)
BY DEF BinFailed, BinListed, Of, Record

\* A closed store answers a failure.
LEMMA ServeClosedKeeps ==
    ASSUME IInv, NEW op \in {"Record", "Empty"}, ServeClosed(op)
    PROVE  IInv'
<1> USE DEF IInv
<1>1. /\ UNCHANGED <<env, sess, graph, removed, told, ui, saved, live, archive, store, bin, oven, trash, zombies>>
      /\ Serve(op) /\ oven = Cold /\ store = None /\ Emit(BinFailed)
    BY DEF ServeClosed, Serve, app, worlds, actor, dirs
<1> DEFINE c == cmds[1]
<1>2. /\ Channel' /\ Ends' /\ cmds' \in Seq(Command) /\ Shorter(cmds', cmds)
      /\ c \in Command /\ c.op = op
      /\ op = "Record" => c.node \in Node
      /\ op # "Release" => c.at \in Session
      /\ op \in {"Record", "Empty"} => Serves(c.at)
      /\ Waiting' <=> Waiting
    BY <1>1, ServedKeeps
<1> HIDE DEF c
<1>3. /\ \A s, m : Pending(cmds, s, m) =>
             Pending(cmds', s, m) \/ (c.op = "Record" /\ c.at = s /\ c.node = m)
      /\ \A i \in DOMAIN cmds' :
             i + 1 \in DOMAIN cmds /\ cmds'[i] = cmds[i + 1] /\ i \in Nat /\ i + 1 # 1
      /\ 1 \in DOMAIN cmds /\ Head(cmds) = c
      /\ cmds' = <<>> => DOMAIN cmds' = {}
    BY <1>2, ServedStays DEF c
<1>4. env.prompt => cmds' = <<>> /\ answers = <<>> /\ c.at = sess /\ ~ Waiting
    BY <1>2, ServedAlone DEF c
<1>5. /\ answers' \in Seq([ok : BOOLEAN, records : SUBSET Record])
      /\ answers' # <<>> /\ ~ answers'[Len(answers')].ok
      /\ answers = <<>> => Len(answers') = 1 /\ ~ answers'[1].ok /\ answers'[1].records = {}
    BY <1>1, Emitted, AnswerFacts
<1>6. "open" \in env.faults
    BY <1>1, <1>2 DEF Serves
<1>20. TypeOK'
    BY <1>1, <1>2, <1>3, <1>4, <1>5, <1>6 DEF TypeOK
<1>21. Ends'
    BY <1>2
<1>22. OvenOpen'
    BY <1>1, <1>2, <1>3, <1>4, <1>5, <1>6 DEF OvenOpen
<1>23. LastWord'
    BY <1>1, <1>2, <1>3, <1>4, <1>5, <1>6 DEF LastWord
<1>24. Archived'
    BY <1>1, <1>2, <1>3, <1>4, <1>5, <1>6 DEF Archived
<1>25. Forgetting'
    BY <1>1, <1>2, <1>3, <1>4, <1>5, <1>6 DEF Forgetting
<1>26. NoZombieAhead'
    BY <1>1, <1>2, <1>3, <1>4, <1>5, <1>6 DEF NoZombieAhead
<1>27. OneAtATime'
    BY <1>1, <1>2, <1>3, <1>4, <1>5 DEF OneAtATime, Waiting, TypeOK, Of
<1>28. GraphSaved'
    BY <1>1, <1>2, <1>3, <1>4, <1>5, <1>6 DEF GraphSaved, TypeOK
<1>29. Mirrors'
    BY <1>1, <1>2, <1>3, <1>4, <1>5, <1>6 DEF Mirrors, Careful, OneAtATime, Quiet
<1>30. WorldsKept'
    BY <1>1, <1>2, <1>3, <1>4 DEF WorldsKept, Careful, TombstoneKeepsWorld, Graph, TypeOK, c
<1> QED
    BY <1>20, <1>21, <1>22, <1>23, <1>24, <1>25, <1>26, <1>27, <1>28, <1>29, <1>30, <1>2

\* A store that does not open is closed.
LEMMA ReopenFailsKeeps ==
    ASSUME IInv, ReopenFails
    PROVE  IInv'
<1> USE DEF IInv
<1>1. /\ UNCHANGED <<env, sess, graph, removed, told, ui, saved, live, archive, bin, oven, trash, zombies>>
      /\ Serve("Reopen") /\ oven = Cold /\ oven.nodes = {} /\ store' = None /\ Emit(BinFailed) /\ "open" \in env.faults
    BY Resting DEF ReopenFails, Serve, app, worlds, dirs
<1> DEFINE c == cmds[1]
<1>2. /\ Channel' /\ Ends' /\ cmds' \in Seq(Command) /\ Shorter(cmds', cmds)
      /\ c \in Command /\ c.op = "Reopen"
      /\ "Reopen" = "Record" => c.node \in Node
      /\ "Reopen" # "Release" => c.at \in Session
      /\ "Reopen" \in {"Record", "Empty"} => Serves(c.at)
      /\ Waiting' <=> Waiting
    BY <1>1, ServedKeeps
<1> HIDE DEF c
<1>3. /\ \A s, m : Pending(cmds, s, m) =>
             Pending(cmds', s, m) \/ (c.op = "Record" /\ c.at = s /\ c.node = m)
      /\ \A i \in DOMAIN cmds' :
             i + 1 \in DOMAIN cmds /\ cmds'[i] = cmds[i + 1] /\ i \in Nat /\ i + 1 # 1
      /\ 1 \in DOMAIN cmds /\ Head(cmds) = c
      /\ cmds' = <<>> => DOMAIN cmds' = {}
    BY <1>2, ServedStays DEF c
<1>4. env.prompt => cmds' = <<>> /\ answers = <<>> /\ c.at = sess /\ ~ Waiting
    BY <1>2, ServedAlone DEF c
<1>5. /\ answers' \in Seq([ok : BOOLEAN, records : SUBSET Record])
      /\ answers' # <<>> /\ ~ answers'[Len(answers')].ok
      /\ answers = <<>> => Len(answers') = 1 /\ ~ answers'[1].ok /\ answers'[1].records = {}
    BY <1>1, Emitted, AnswerFacts
<1>20. TypeOK'
    BY <1>1, <1>2, <1>3, <1>4, <1>5 DEF TypeOK
<1>21. Ends'
    BY <1>2
<1>22. OvenOpen'
    BY <1>1, <1>2, <1>3, <1>4, <1>5 DEF OvenOpen
<1>23. LastWord'
    BY <1>1, <1>2, <1>3, <1>4, <1>5 DEF LastWord
<1>24. Archived'
    BY <1>1, <1>2, <1>3, <1>4, <1>5 DEF Archived
<1>25. Forgetting'
    BY <1>1, <1>2, <1>3, <1>4, <1>5 DEF Forgetting
<1>26. NoZombieAhead'
    BY <1>1, <1>2, <1>3, <1>4, <1>5 DEF NoZombieAhead
<1>27. OneAtATime'
    BY <1>1, <1>2, <1>3, <1>4, <1>5 DEF OneAtATime, Waiting, TypeOK, Of
<1>28. GraphSaved'
    BY <1>1, <1>2, <1>3, <1>4, <1>5 DEF GraphSaved, TypeOK
<1>29. Mirrors'
    BY <1>1, <1>2, <1>3, <1>4, <1>5 DEF Mirrors, Careful, OneAtATime, Quiet
<1>30. WorldsKept'
    BY <1>1, <1>2, <1>3, <1>4 DEF WorldsKept, Careful, TombstoneKeepsWorld, Graph, TypeOK, c
<1> QED
    BY <1>20, <1>21, <1>22, <1>23, <1>24, <1>25, <1>26, <1>27, <1>28, <1>29, <1>30, <1>2

\* A tombstone lands in the bin of its session.
LEMMA ServeRecordKeeps ==
    ASSUME IInv, ServeRecord
    PROVE  IInv'
<1> USE DEF IInv
<1>1. /\ UNCHANGED <<env, sess, graph, removed, told, ui, saved, live, archive, store, oven, trash, zombies>>
      /\ Serve("Record") /\ oven = Cold /\ oven.nodes = {} /\ store # None
      /\ Head(cmds) = cmds[1] /\ cmds[1].op = "Record"
      /\ \/ /\ bin' = [bin EXCEPT ![store] = @ \cup {cmds[1].node}]
            /\ Emit(BinListed(store)) \/ ("list" \in env.faults /\ Emit(BinFailed))
         \/ "record" \in env.faults /\ bin' = bin /\ Emit(BinFailed)
    <2>1. Head(cmds) = cmds[1]
        BY Taken DEF ServeRecord, Serve, TypeOK, Shorter
    <2> QED
        BY <2>1, Resting DEF ServeRecord, Serve, EmitList, app, worlds, dirs
<1> DEFINE c == cmds[1]
<1>2. /\ Channel' /\ Ends' /\ cmds' \in Seq(Command) /\ Shorter(cmds', cmds)
      /\ c \in Command /\ c.op = "Record"
      /\ "Record" = "Record" => c.node \in Node
      /\ "Record" # "Release" => c.at \in Session
      /\ "Record" \in {"Record", "Empty"} => Serves(c.at)
      /\ Waiting' <=> Waiting
    BY <1>1, ServedKeeps
<1> HIDE DEF c
<1>3. /\ \A s, m : Pending(cmds, s, m) =>
             Pending(cmds', s, m) \/ (c.op = "Record" /\ c.at = s /\ c.node = m)
      /\ \A i \in DOMAIN cmds' :
             i + 1 \in DOMAIN cmds /\ cmds'[i] = cmds[i + 1] /\ i \in Nat /\ i + 1 # 1
      /\ 1 \in DOMAIN cmds /\ Head(cmds) = c
      /\ cmds' = <<>> => DOMAIN cmds' = {}
    BY <1>2, ServedStays DEF c
<1>4. env.prompt => cmds' = <<>> /\ answers = <<>> /\ c.at = sess /\ ~ Waiting
    BY <1>2, ServedAlone DEF c
<1>5. store = c.at /\ store \in Session
    BY <1>1, <1>2 DEF Serves, TypeOK
<1>6. \/ bin' = [bin EXCEPT ![store] = @ \cup {c.node}]
      \/ "record" \in env.faults /\ bin' = bin
    BY <1>1 DEF c
<1>7. bin' \in [Session -> SUBSET Node]
    BY <1>2, <1>5, <1>6 DEF TypeOK
<1>8. \E u \in [ok : BOOLEAN, records : SUBSET Record] :
         /\ Emit(u) /\ u.records \subseteq Of(store, Node)
         /\ \/ /\ bin' = [bin EXCEPT ![store] = @ \cup {c.node}]
               /\ u.ok /\ u.records = Of(store, bin'[store])
            \/ ~ u.ok /\ ("list" \in env.faults \/ (bin' = bin /\ "record" \in env.faults))
    <2>1. BinListed(store) \in [ok : BOOLEAN, records : SUBSET Record] /\ BinListed(store).ok = TRUE
          /\ BinListed(store).records = Of(store, bin'[store]) /\ BinListed(store).records \subseteq Of(store, Node)
        BY <1>5, <1>7, AnswerFacts
    <2>2. BinFailed \in [ok : BOOLEAN, records : SUBSET Record] /\ BinFailed.ok = FALSE /\ BinFailed.records = {}
        BY AnswerFacts
    <2> QED
        BY <1>1, <2>1, <2>2 DEF c
<1>9. PICK u \in [ok : BOOLEAN, records : SUBSET Record] :
         /\ Emit(u) /\ u.records \subseteq Of(store, Node)
         /\ \/ /\ bin' = [bin EXCEPT ![store] = @ \cup {c.node}]
               /\ u.ok /\ u.records = Of(store, bin'[store])
            \/ ~ u.ok /\ ("list" \in env.faults \/ (bin' = bin /\ "record" \in env.faults))
    BY <1>8
<1>10. /\ answers' \in Seq([ok : BOOLEAN, records : SUBSET Record])
       /\ answers' # <<>> /\ answers'[Len(answers')] = u
       /\ answers = <<>> => Len(answers') = 1 /\ answers'[1] = u
    BY <1>9, Emitted
<1>11. env.faults = {} => bin' = [bin EXCEPT ![store] = @ \cup {c.node}]
    BY <1>6
<1>20. TypeOK'
    BY <1>1, <1>2, <1>3, <1>4, <1>5, <1>7, <1>9, <1>10 DEF TypeOK
<1>21. Ends'
    BY <1>2
<1>22. OvenOpen'
    BY <1>1, <1>2, <1>3, <1>4, <1>5, <1>7, <1>9, <1>10 DEF OvenOpen
<1>23. LastWord'
    BY <1>1, <1>2, <1>3, <1>4, <1>5, <1>7, <1>9, <1>10 DEF LastWord
<1>24. Archived'
    <2> SUFFICES ASSUME env.faults = {}, NEW r \in archive
                 PROVE  r[1] \in trash \/ r[2] \in bin'[r[1]] \/ Pending(cmds', r[1], r[2])
        BY <1>1 DEF Archived
    <2>1. r[1] \in Session /\ r[2] \in Node
        BY DEF TypeOK, Record
    <2>2. r[1] \in trash \/ r[2] \in bin[r[1]] \/ Pending(cmds, r[1], r[2])
        BY DEF Archived
    <2>3. bin[r[1]] \subseteq bin'[r[1]] /\ c.node \in bin'[store]
        BY <1>5, <1>11, <2>1 DEF TypeOK
    <2> QED
        BY <1>3, <1>5, <2>2, <2>3
<1>25. Forgetting'
    BY <1>1, <1>2, <1>3, <1>4, <1>5, <1>7, <1>9, <1>10 DEF Forgetting
<1>26. NoZombieAhead'
    BY <1>1, <1>2, <1>3, <1>4, <1>5, <1>7, <1>9, <1>10 DEF NoZombieAhead
<1>27. OneAtATime'
    BY <1>1, <1>2, <1>3, <1>4, <1>5, <1>9, <1>10 DEF OneAtATime, Waiting, TypeOK
<1>28. GraphSaved'
    BY <1>1, <1>2, <1>3, <1>4, <1>5, <1>7, <1>9, <1>10 DEF GraphSaved, TypeOK
<1>29. Mirrors'
    <2> SUFFICES ASSUME Careful
                 PROVE  IF answers'[1].ok THEN answers'[1].records = Of(sess, bin'[sess])
                        ELSE removed \subseteq Of(sess, bin'[sess])
        BY <1>1, <1>10 DEF Mirrors, Careful
    <2>1. env.prompt /\ "list" \notin env.faults /\ answers = <<>> /\ store = sess
        BY <1>4, <1>5 DEF Careful
    <2> QED
        BY <1>9, <1>10, <2>1 DEF Mirrors
<1>30. WorldsKept'
    <2> SUFFICES ASSUME Careful PROVE WorldsKept'
        BY <1>1 DEF WorldsKept, Careful
    <2>1. <<c.at, c.node>> \in archive /\ env.prompt
        BY <1>2, <1>3 DEF WorldsKept, Careful, c
    <2>2. ASSUME NEW t \in Session \ trash, NEW n \in bin'[t], n \notin Graph(t)
          PROVE  <<t, n>> \in archive
        <3>1. n \in bin[t] \/ (t = store /\ n = c.node)
            BY <1>5, <1>6, <2>2 DEF TypeOK
        <3> QED
            BY <1>1, <1>5, <2>1, <2>2, <3>1 DEF WorldsKept, TombstoneKeepsWorld
    <2> QED
        BY <1>1, <1>3, <1>4, <2>1, <2>2 DEF WorldsKept, TombstoneKeepsWorld, Graph
<1> QED
    BY <1>20, <1>21, <1>22, <1>23, <1>24, <1>25, <1>26, <1>27, <1>28, <1>29, <1>30, <1>2

\* What an emptying or a retirement purges.
LEMMA Purged ==
    ASSUME NEW t, NEW nodes, Purge(t, nodes)
    PROVE  /\ archive' \subseteq archive
           /\ t \notin trash => \A n \in nodes : <<t, n>> \notin archive'
           /\ \A r \in archive : r \notin archive' => r[1] = t /\ r[2] \in nodes
BY DEF Purge, Of

\* An emptying purges the worlds first.
LEMMA ServeEmptyKeeps ==
    ASSUME IInv, ServeEmpty
    PROVE  IInv'
<1> USE DEF IInv
<1>1. /\ UNCHANGED <<env, sess, graph, removed, told, ui, saved, live, answers, store, bin, trash, zombies>>
      /\ Serve("Empty") /\ oven = Cold /\ oven.nodes = {} /\ store # None
      /\ Purge(store, bin[store]) \/ ("list" \in env.faults /\ archive' = archive)
      /\ oven' # Cold /\ oven'.op = "Empty" /\ oven'.nodes = bin[store]
      /\ store \in Session /\ oven' = [op |-> "Empty", nodes |-> bin[store]]
    BY Resting DEF ServeEmpty, Serve, app, worlds, dirs, TypeOK
<1> DEFINE c == cmds[1]
<1>2. /\ Channel' /\ Ends' /\ cmds' \in Seq(Command) /\ Shorter(cmds', cmds)
      /\ c \in Command /\ c.op = "Empty"
      /\ "Empty" = "Record" => c.node \in Node
      /\ "Empty" # "Release" => c.at \in Session
      /\ "Empty" \in {"Record", "Empty"} => Serves(c.at)
      /\ Waiting' <=> Waiting
    BY <1>1, ServedKeeps
<1> HIDE DEF c
<1>3. /\ \A s, m : Pending(cmds, s, m) =>
             Pending(cmds', s, m) \/ (c.op = "Record" /\ c.at = s /\ c.node = m)
      /\ \A i \in DOMAIN cmds' :
             i + 1 \in DOMAIN cmds /\ cmds'[i] = cmds[i + 1] /\ i \in Nat /\ i + 1 # 1
      /\ 1 \in DOMAIN cmds /\ Head(cmds) = c
      /\ cmds' = <<>> => DOMAIN cmds' = {}
    BY <1>2, ServedStays DEF c
<1>4. env.prompt => cmds' = <<>> /\ answers = <<>> /\ c.at = sess /\ ~ Waiting
    BY <1>2, ServedAlone DEF c
<1>5. store = c.at
    BY <1>1, <1>2 DEF Serves, TypeOK
<1>6. archive' \subseteq archive
    BY <1>1, Purged
<1>7. "list" \notin env.faults =>
         /\ store \notin trash => \A n \in bin[store] : <<store, n>> \notin archive'
         /\ \A r \in archive : r \notin archive' => r[1] = store /\ r[2] \in bin[store]
    BY <1>1, Purged
<1>20. TypeOK'
    BY <1>1, <1>2, <1>3, <1>4, <1>5, <1>6, <1>7 DEF TypeOK
<1>21. Ends'
    BY <1>2
<1>22. OvenOpen'
    BY <1>1, <1>2, <1>3, <1>4, <1>5, <1>6, <1>7 DEF OvenOpen
<1>23. LastWord'
    BY <1>1, <1>2, <1>3, <1>4, <1>5, <1>6, <1>7 DEF LastWord
<1>24. Archived'
    BY <1>1, <1>2, <1>3, <1>4, <1>5, <1>6, <1>7 DEF Archived
<1>25. Forgetting'
    BY <1>1, <1>2, <1>3, <1>4, <1>5, <1>6, <1>7 DEF Forgetting
<1>26. NoZombieAhead'
    BY <1>1, <1>2, <1>3, <1>4, <1>5, <1>6, <1>7 DEF NoZombieAhead
<1>27. OneAtATime'
    BY <1>1, <1>2, <1>3, <1>4, <1>5 DEF OneAtATime, Waiting, TypeOK
<1>28. GraphSaved'
    BY <1>1, <1>2, <1>3, <1>4, <1>5, <1>6, <1>7 DEF GraphSaved, TypeOK
<1>29. Mirrors'
    BY <1>1, <1>2, <1>3, <1>4, <1>5, <1>6, <1>7 DEF Mirrors, Careful, OneAtATime, Quiet
<1>30. WorldsKept'
    <2> SUFFICES ASSUME Careful PROVE WorldsKept'
        BY <1>1 DEF WorldsKept, Careful
    <2>1. env.prompt /\ "list" \notin env.faults
        BY DEF Careful
    <2>2. ASSUME NEW t \in Session \ trash, NEW n \in bin[t], n \notin Graph(t)
          PROVE  <<t, n>> \in archive' \/ (store = t /\ n \in oven'.nodes)
        <3>1. <<t, n>> \in archive
            BY <1>1, <2>2 DEF WorldsKept, TombstoneKeepsWorld
        <3> QED
            BY <1>1, <1>7, <2>1, <2>2, <3>1
    <2> QED
        BY <1>1, <1>3, <1>4, <2>1, <2>2 DEF WorldsKept, TombstoneKeepsWorld, Graph
<1> QED
    BY <1>20, <1>21, <1>22, <1>23, <1>24, <1>25, <1>26, <1>27, <1>28, <1>29, <1>30, <1>2

\* A store is opened and what is too old goes.
LEMMA ServeReopenKeeps ==
    ASSUME IInv, ServeReopen
    PROVE  IInv'
<1> USE DEF IInv
<1>1. /\ UNCHANGED <<env, sess, graph, removed, told, ui, saved, live, answers, trash>>
      /\ Serve("Reopen") /\ oven = Cold /\ oven.nodes = {} /\ store' = cmds[1].at
      /\ zombies' = zombies \cup ({store'} \cap trash)
      /\ bin' = IF store' \in trash \ zombies THEN [bin EXCEPT ![store'] = {}] ELSE bin
      /\ \E aged \in SUBSET bin'[store'] :
           oven' = [op |-> "retire", nodes |-> aged] /\ Purge(store', aged)
    <2>1. Head(cmds) = cmds[1]
        BY Taken DEF ServeReopen, Serve, TypeOK, Shorter
    <2> QED
        BY <2>1, Resting DEF ServeReopen, Serve, app, worlds
<1> DEFINE c == cmds[1]
<1>2. /\ Channel' /\ Ends' /\ cmds' \in Seq(Command) /\ Shorter(cmds', cmds)
      /\ c \in Command /\ c.op = "Reopen"
      /\ "Reopen" = "Record" => c.node \in Node
      /\ "Reopen" # "Release" => c.at \in Session
      /\ "Reopen" \in {"Record", "Empty"} => Serves(c.at)
      /\ Waiting' <=> Waiting
    BY <1>1, ServedKeeps
<1> HIDE DEF c
<1>3. /\ \A s, m : Pending(cmds, s, m) =>
             Pending(cmds', s, m) \/ (c.op = "Record" /\ c.at = s /\ c.node = m)
      /\ \A i \in DOMAIN cmds' :
             i + 1 \in DOMAIN cmds /\ cmds'[i] = cmds[i + 1] /\ i \in Nat /\ i + 1 # 1
      /\ 1 \in DOMAIN cmds /\ Head(cmds) = c
      /\ cmds' = <<>> => DOMAIN cmds' = {}
    BY <1>2, ServedStays DEF c
<1>4. env.prompt => cmds' = <<>> /\ answers = <<>> /\ c.at = sess /\ ~ Waiting
    BY <1>2, ServedAlone DEF c
<1>5. /\ store' = c.at /\ store' \in Session
      /\ bin' \in [Session -> SUBSET Node]
      /\ \A t \in Session : t \notin trash => bin'[t] = bin[t]
      /\ \A t \in Session : t # store' => bin'[t] = bin[t]
    BY <1>1, <1>2 DEF TypeOK, c
<1>6. PICK aged \in SUBSET bin'[store'] : oven' = [op |-> "retire", nodes |-> aged] /\ Purge(store', aged)
    BY <1>1
<1>7. /\ oven' # Cold /\ oven'.nodes = aged /\ oven' \in [op : {"none", "retire", "Empty"}, nodes : SUBSET Node]
      /\ aged \subseteq bin'[store']
    BY <1>5, <1>6, Resting
<1>8. /\ archive' \subseteq archive
      /\ store' \notin trash => \A n \in aged : <<store', n>> \notin archive'
      /\ \A r \in archive : r \notin archive' => r[1] = store' /\ r[2] \in aged
    <2> DEFINE z == store'
    <2> HIDE DEF z
    <2>1. Purge(z, aged)
        BY <1>6 DEF z
    <2>2. /\ archive' \subseteq archive
          /\ z \notin trash => \A n \in aged : <<z, n>> \notin archive'
          /\ \A r \in archive : r \notin archive' => r[1] = z /\ r[2] \in aged
        BY <2>1, Purged
    <2> QED
        BY <2>2 DEF z
<1>20. TypeOK'
    BY <1>1, <1>2, <1>3, <1>4, <1>5, <1>7, <1>8 DEF TypeOK
<1>21. Ends'
    BY <1>2
<1>22. OvenOpen'
    BY <1>1, <1>2, <1>3, <1>4, <1>5, <1>7, <1>8 DEF OvenOpen
<1>23. LastWord'
    BY <1>1, <1>2, <1>3, <1>4, <1>5, <1>7, <1>8 DEF LastWord
<1>24. Archived'
    <2> SUFFICES ASSUME env.faults = {}, NEW r \in archive'
                 PROVE  r[1] \in trash \/ r[2] \in bin'[r[1]] \/ Pending(cmds', r[1], r[2])
        BY <1>1 DEF Archived
    <2>1. r \in archive /\ r[1] \in Session
        BY <1>8 DEF TypeOK, Record
    <2>2. r[1] \in trash \/ r[2] \in bin[r[1]] \/ Pending(cmds, r[1], r[2])
        BY <2>1 DEF Archived
    <2> QED
        BY <1>2, <1>3, <1>5, <2>1, <2>2
<1>25. Forgetting'
    BY <1>1, <1>2, <1>3, <1>4, <1>5, <1>7, <1>8 DEF Forgetting
<1>26. NoZombieAhead'
    BY <1>1, <1>2, <1>3, <1>4, <1>5, <1>7, <1>8 DEF NoZombieAhead
<1>27. OneAtATime'
    BY <1>1, <1>2, <1>3, <1>4, <1>5 DEF OneAtATime, Waiting, TypeOK
<1>28. GraphSaved'
    BY <1>1, <1>2, <1>3, <1>4, <1>5, <1>7, <1>8 DEF GraphSaved, TypeOK
<1>29. Mirrors'
    BY <1>1, <1>4, <1>5 DEF Mirrors, Careful, TypeOK
<1>30. WorldsKept'
    <2> SUFFICES ASSUME Careful PROVE WorldsKept'
        BY <1>1 DEF WorldsKept, Careful
    <2>2. ASSUME NEW t \in Session \ trash, NEW n \in bin'[t], n \notin Graph(t)
          PROVE  <<t, n>> \in archive' \/ (store' = t /\ n \in oven'.nodes)
        <3>1. <<t, n>> \in archive
            BY <1>1, <1>5, <2>2 DEF WorldsKept, TombstoneKeepsWorld
        <3> QED
            BY <1>7, <1>8, <3>1
    <2> QED
        BY <1>1, <1>3, <1>4, <2>2 DEF WorldsKept, TombstoneKeepsWorld, Graph, Careful
<1> QED
    BY <1>20, <1>21, <1>22, <1>23, <1>24, <1>25, <1>26, <1>27, <1>28, <1>29, <1>30, <1>2

\* The store is released and who waits is told.
LEMMA ServeReleaseKeeps ==
    ASSUME IInv, ServeRelease
    PROVE  IInv'
<1> USE DEF IInv
<1>1. /\ UNCHANGED <<env, sess, graph, removed, told, saved, live, archive, answers, bin, oven, trash, zombies>>
      /\ Serve("Release") /\ oven = Cold /\ oven.nodes = {} /\ store' = None
      /\ ui' = IF Head(cmds).at = None THEN ui ELSE [ui EXCEPT !.at = "acked"]
    BY Resting DEF ServeRelease, Serve, worlds, dirs
<1> DEFINE c == cmds[1]
<1>2. /\ Channel' /\ Ends' /\ cmds' \in Seq(Command) /\ Shorter(cmds', cmds)
      /\ c \in Command /\ c.op = "Release"
      /\ "Release" = "Record" => c.node \in Node
      /\ "Release" # "Release" => c.at \in Session
      /\ "Release" \in {"Record", "Empty"} => Serves(c.at)
      /\ Waiting' <=> Waiting
    BY <1>1, ServedKeeps
<1> HIDE DEF c
<1>3. /\ \A s, m : Pending(cmds, s, m) =>
             Pending(cmds', s, m) \/ (c.op = "Record" /\ c.at = s /\ c.node = m)
      /\ \A i \in DOMAIN cmds' :
             i + 1 \in DOMAIN cmds /\ cmds'[i] = cmds[i + 1] /\ i \in Nat /\ i + 1 # 1
      /\ 1 \in DOMAIN cmds /\ Head(cmds) = c
      /\ cmds' = <<>> => DOMAIN cmds' = {}
    BY <1>2, ServedStays DEF c
<1>4. /\ ui' \in [at : {"idle", "saving", "closing", "acked"}, next : Session \cup {None}]
      /\ ui'.at # "saving" => ui.at # "saving"
    BY <1>1, <1>2 DEF TypeOK, Waiting
<1>5. \A i \in DOMAIN cmds' : i + 1 = Len(cmds) => i = Len(cmds')
    BY <1>2, ServedStays
<1>20. TypeOK'
    BY <1>1, <1>2, <1>3, <1>4, <1>5 DEF TypeOK
<1>21. Ends'
    BY <1>2
<1>22. OvenOpen'
    BY <1>1, <1>2, <1>3, <1>4, <1>5 DEF OvenOpen
<1>23. LastWord'
    BY <1>1, <1>2, <1>3, <1>4, <1>5 DEF LastWord
<1>24. Archived'
    BY <1>1, <1>2, <1>3, <1>4, <1>5 DEF Archived
<1>25. Forgetting'
    BY <1>1, <1>2, <1>3, <1>4, <1>5 DEF Forgetting
<1>26. NoZombieAhead'
    BY <1>1, <1>2, <1>3, <1>4, <1>5 DEF NoZombieAhead
<1>27. OneAtATime'
    <2>1. cmds = <<>> => cmds' = <<>>
        BY <1>2 DEF Shorter
    <2> QED
        BY <1>1, <1>2, <1>3, <1>5, <2>1 DEF OneAtATime
<1>28. GraphSaved'
    BY <1>1, <1>2, <1>3, <1>4, <1>5 DEF GraphSaved, TypeOK
<1>29. Mirrors'
    BY <1>1, <1>2, <1>3, <1>4, <1>5 DEF Mirrors, Careful, OneAtATime, Quiet
<1>30. WorldsKept'
    BY <1>1, <1>2, <1>3 DEF WorldsKept, Careful, TombstoneKeepsWorld, Graph
<1> QED
    BY <1>20, <1>21, <1>22, <1>23, <1>24, <1>25, <1>26, <1>27, <1>28, <1>29, <1>30, <1>2

\* What was being forgotten is gone, and the app is told.
LEMMA ForgetKeeps ==
    ASSUME IInv, Forget
    PROVE  IInv'
<1> USE DEF IInv
<1>1. /\ UNCHANGED <<env, sess, graph, removed, told, ui, saved, live, archive, cmds, store, trash, zombies>>
      /\ oven # Cold /\ oven' = Cold /\ Cold.nodes = {}
      /\ Cold \in [op : {"none", "retire", "Empty"}, nodes : SUBSET Node]
      /\ store # None /\ store \in Session
      /\ \/ /\ bin' = [bin EXCEPT ![store] = @ \ oven.nodes]
            /\ Emit(BinListed(store)) \/ ("list" \in env.faults /\ Emit(BinFailed))
         \/ /\ "clear" \in env.faults /\ bin' = bin
            /\ Emit(BinListed(store)) \/ Emit(BinFailed)
    BY Resting DEF Forget, EmitList, OvenOpen, app, worlds, dirs, TypeOK
<1>2. bin' \in [Session -> SUBSET Node]
    BY <1>1 DEF TypeOK
<1>3. \E u \in [ok : BOOLEAN, records : SUBSET Record] :
         /\ Emit(u) /\ u.records \subseteq Of(store, Node)
         /\ u.ok => u.records = Of(store, bin'[store])
         /\ "list" \notin env.faults /\ "clear" \notin env.faults => u.ok
    <2>1. BinListed(store) \in [ok : BOOLEAN, records : SUBSET Record] /\ BinListed(store).ok = TRUE
          /\ BinListed(store).records = Of(store, bin'[store]) /\ BinListed(store).records \subseteq Of(store, Node)
        BY <1>1, <1>2, AnswerFacts
    <2>2. BinFailed \in [ok : BOOLEAN, records : SUBSET Record] /\ BinFailed.ok = FALSE /\ BinFailed.records = {}
        BY AnswerFacts
    <2> QED
        BY <1>1, <2>1, <2>2
<1>4. PICK u \in [ok : BOOLEAN, records : SUBSET Record] :
         /\ Emit(u) /\ u.records \subseteq Of(store, Node)
         /\ u.ok => u.records = Of(store, bin'[store])
         /\ "list" \notin env.faults /\ "clear" \notin env.faults => u.ok
    BY <1>3
<1>5. /\ answers' \in Seq([ok : BOOLEAN, records : SUBSET Record])
      /\ answers' # <<>> /\ answers'[Len(answers')] = u
      /\ answers = <<>> => Len(answers') = 1 /\ answers'[1] = u
    BY <1>4, Emitted
<1>6. /\ \A t \in Session : t # store => bin'[t] = bin[t]
      /\ bin[store] \ oven.nodes \subseteq bin'[store] /\ bin'[store] \subseteq bin[store]
      /\ "clear" \notin env.faults => bin'[store] = bin[store] \ oven.nodes
    BY <1>1 DEF TypeOK
<1>7. \A s, m : Pending(cmds', s, m) <=> Pending(cmds, s, m)
    BY <1>1 DEF Pending
<1>8. env.prompt => cmds = <<>> /\ answers = <<>> /\ store = sess /\ ~ Waiting
    BY <1>1 DEF OneAtATime
<1>20. TypeOK'
    BY <1>1, <1>2, <1>4, <1>5, <1>6, <1>7 DEF TypeOK
<1>21. Channel'
    BY <1>1, <1>2, <1>4, <1>5, <1>6, <1>7 DEF Channel, Serves, Waiting
<1>22. Ends'
    BY <1>1, <1>2, <1>4, <1>5, <1>6, <1>7 DEF Ends, Waiting, Serves, TypeOK
<1>23. OvenOpen'
    BY <1>1, <1>2, <1>4, <1>5, <1>6, <1>7 DEF OvenOpen
<1>24. LastWord'
    BY <1>1, <1>2, <1>4, <1>5, <1>6, <1>7 DEF LastWord
<1>25. Archived'
    <2> SUFFICES ASSUME env.faults = {}, NEW r \in archive
                 PROVE  r[1] \in trash \/ r[2] \in bin'[r[1]] \/ Pending(cmds', r[1], r[2])
        BY <1>1 DEF Archived
    <2>1. r[1] \in Session /\ r = <<r[1], r[2]>>
        BY DEF TypeOK, Record
    <2>2. r[1] \in trash \/ r[2] \in bin[r[1]] \/ Pending(cmds, r[1], r[2])
        BY DEF Archived
    <2>3. r[1] = store /\ r[2] \in oven.nodes => store \in trash \/ Pending(cmds, store, r[2])
        BY <1>1, <2>1 DEF Forgetting
    <2> QED
        BY <1>6, <1>7, <2>1, <2>2, <2>3
<1>26. Forgetting'
    BY <1>1, <1>2, <1>4, <1>5, <1>6, <1>7 DEF Forgetting
<1>27. NoZombieAhead'
    BY <1>1, <1>2, <1>4, <1>5, <1>6, <1>7 DEF NoZombieAhead
<1>28. OneAtATime'
    BY <1>1, <1>4, <1>5, <1>8 DEF OneAtATime, Waiting, TypeOK
<1>29. GraphSaved'
    BY <1>1, <1>2, <1>4, <1>5, <1>6, <1>7 DEF GraphSaved, TypeOK
<1>30. Mirrors'
    BY <1>1, <1>4, <1>5, <1>8 DEF Mirrors, Careful
<1>31. WorldsKept'
    <2> SUFFICES ASSUME Careful PROVE WorldsKept'
        BY <1>1 DEF WorldsKept, Careful
    <2>1. "clear" \notin env.faults
        BY DEF Careful
    <2>2. ASSUME NEW t \in Session \ trash, NEW n \in bin'[t], n \notin Graph(t)
          PROVE  <<t, n>> \in archive
        <3>1. n \in bin[t] /\ ~ (t = store /\ n \in oven.nodes)
            BY <1>1, <1>6, <2>1, <2>2
        <3> QED
            BY <2>2, <3>1 DEF WorldsKept, TombstoneKeepsWorld
    <2> QED
        BY <1>1, <2>2 DEF WorldsKept, TombstoneKeepsWorld, Graph
<1> QED
    BY <1>20, <1>21, <1>22, <1>23, <1>24, <1>25, <1>26, <1>27, <1>28, <1>29, <1>30, <1>31

\* A channel of one command.
LEMMA Single ==
    ASSUME NEW c \in Command, NEW q, q = <<c>>
    PROVE  /\ q \in Seq(Command) /\ Len(q) = 1 /\ DOMAIN q = {1} /\ q[1] = c /\ q # <<>>
           /\ \A s, m : ~ (c.op = "Record") => ~ Pending(q, s, m)
<1>1. q \in Seq(Command) /\ Len(q) = 1 /\ q[1] = c /\ DOMAIN q = 1..Len(q) /\ q # <<>>
    OBVIOUS
<1> QED
    BY <1>1 DEF Pending

\* A restart opens the bin of the session it was in.
LEMMA CrashKeeps ==
    ASSUME IInv, Crash
    PROVE  IInv'
<1> USE DEF IInv
<1> DEFINE c == Cmd("Reopen", sess)
           q == cmds'
<1>1. /\ UNCHANGED <<env, sess, saved, live, archive, bin, trash, zombies>>
      /\ "crash" \in env.faults /\ graph' = saved[sess] /\ removed' = {} /\ told' = "listed"
      /\ ui'.at = "idle" /\ ui' \in [at : {"idle", "saving", "closing", "acked"}, next : Session \cup {None}]
      /\ answers' = <<>> /\ store' = None /\ oven' = Cold
      /\ Cold \in [op : {"none", "retire", "Empty"}, nodes : SUBSET Node]
      /\ c \in Command /\ c.op = "Reopen" /\ c.at = sess /\ sess \in Session \ trash /\ q = <<c>>
      /\ ~ Waiting'
    BY Resting, CommandFacts DEF Crash, worlds, dirs, TypeOK, Waiting
<1> HIDE DEF c, q
<1>2. /\ q \in Seq(Command) /\ Len(q) = 1 /\ DOMAIN q = {1} /\ q[1] = c /\ q # <<>>
    BY <1>1, Single
<1>3. /\ cmds' \in Seq(Command) /\ Len(cmds') = 1 /\ DOMAIN cmds' = {1} /\ cmds'[1] = c /\ cmds' # <<>>
    BY <1>2 DEF q
<1>4. answers' \in Seq([ok : BOOLEAN, records : SUBSET Record])
    BY <1>1
<1>20. TypeOK'
    BY <1>1, <1>3, <1>4 DEF TypeOK
<1>21. Channel'
    BY <1>1, <1>3 DEF Channel, Serves, Waiting
<1>22. Ends'
    BY <1>1, <1>3 DEF Ends, Waiting, Serves, TypeOK
<1>23. OvenOpen'
    BY <1>1, <1>3 DEF OvenOpen
<1>24. LastWord'
    BY <1>1, <1>3 DEF LastWord
<1>25. Archived'
    BY <1>1, <1>3 DEF Archived
<1>26. Forgetting'
    BY <1>1, <1>3 DEF Forgetting
<1>27. NoZombieAhead'
    BY <1>1, <1>3 DEF NoZombieAhead
<1>28. OneAtATime'
    BY <1>1, <1>3 DEF OneAtATime, Waiting, TypeOK, Quiet
<1>29. GraphSaved'
    BY <1>1, <1>3 DEF GraphSaved, TypeOK
<1>30. Mirrors'
    BY <1>1, <1>3 DEF Mirrors, Careful, OneAtATime, Quiet
<1>31. WorldsKept'
    BY <1>1, <1>3 DEF WorldsKept, Careful, TombstoneKeepsWorld, Graph, TypeOK
<1> QED
    BY <1>20, <1>21, <1>22, <1>23, <1>24, <1>25, <1>26, <1>27, <1>28, <1>29, <1>30, <1>31

-----------------------------------------------------------------------------
(***************************************************************************)
(* The invariant, and what follows from it.                                *)
(***************************************************************************)
\* The first bin is opened with every world in its live slot.
LEMMA InitInv ==
    ASSUME Init
    PROVE  IInv
<1> DEFINE c == Cmd("Reopen", sess)
<1>1. /\ env \in Environment /\ sess \in Session /\ archive = {} /\ removed = {} /\ told = "listed"
      /\ ui.at = "idle" /\ ui \in [at : {"idle", "saving", "closing", "acked"}, next : Session \cup {None}]
      /\ cmds = <<c>> /\ answers = <<>> /\ store = None /\ bin = [s \in Session |-> {}]
      /\ oven = Cold /\ oven.nodes = {} /\ oven \in [op : {"none", "retire", "Empty"}, nodes : SUBSET Node]
      /\ trash = {} /\ zombies = {}
      /\ c \in Command /\ c.op = "Reopen" /\ c.at = sess
    BY Resting, CommandFacts DEF Init
<1> HIDE DEF c
<1>2. /\ cmds \in Seq(Command) /\ Len(cmds) = 1 /\ DOMAIN cmds = {1} /\ cmds[1] = c /\ cmds # <<>>
    BY <1>1, Single
<1>3. PICK nodes \in kSubset(env.nodes, Node) : \E home \in [nodes -> Session] :
         /\ saved = [s \in Session |-> {n \in nodes : home[n] = s}]
         /\ graph = {n \in nodes : home[n] = sess}
         /\ live = {<<home[n], n>> : n \in nodes}
    BY DEF Init
<1>4. nodes \subseteq Node
    BY <1>3 DEF kSubset
<1>5. PICK home \in [nodes -> Session] :
         /\ saved = [s \in Session |-> {n \in nodes : home[n] = s}]
         /\ graph = {n \in nodes : home[n] = sess}
         /\ live = {<<home[n], n>> : n \in nodes}
    BY <1>3
<1>6. /\ saved \in [Session -> SUBSET Node] /\ graph \subseteq Node /\ live \subseteq Record
      /\ saved[sess] = graph
      /\ \A s \in Session : \A n \in saved[s] : <<s, n>> \in live
    BY <1>1, <1>4, <1>5 DEF Record
<1>7. answers \in Seq([ok : BOOLEAN, records : SUBSET Record])
    BY <1>1
<1>8. TypeOK
    BY <1>1, <1>2, <1>6, <1>7 DEF TypeOK
<1>9. Channel /\ Ends /\ OvenOpen /\ LastWord /\ Archived /\ Forgetting /\ NoZombieAhead /\ GraphSaved
    BY <1>1, <1>2, <1>6 DEF Channel, Ends, OvenOpen, LastWord, Archived, Forgetting, NoZombieAhead,
        GraphSaved, Waiting
<1>10. OneAtATime /\ Mirrors
    BY <1>1, <1>2 DEF OneAtATime, Mirrors, Waiting
<1>11. WorldsKept
    BY <1>1, <1>2, <1>6 DEF WorldsKept, TombstoneKeepsWorld, Graph
<1> QED
    BY <1>8, <1>9, <1>10, <1>11 DEF IInv

\* Nothing that matters changes in a step that changes nothing.
LEMMA StutterKeeps ==
    ASSUME IInv, UNCHANGED vars
    PROVE  IInv'
<1>1. \A s, n : Pending(cmds', s, n) <=> Pending(cmds, s, n)
    BY DEF vars, Pending
<1> QED
    BY <1>1 DEF IInv, vars, app, worlds, dirs, actor, TypeOK, Channel, Ends, OvenOpen, LastWord, Archived,
        Forgetting, NoZombieAhead, OneAtATime, GraphSaved, Mirrors, WorldsKept, Waiting, Serves,
        Careful, TombstoneKeepsWorld, Graph, Quiet

\* Every step keeps the invariant.
LEMMA StepKeeps ==
    ASSUME IInv, [Next]_vars
    PROVE  IInv'
<1>1. ASSUME App PROVE IInv'
    <2>1. ASSUME NEW n \in Node, Delete(n) \/ Recover(n) PROVE IInv'
        BY <2>1, DeleteKeeps, RecoverKeeps
    <2>2. ASSUME NEW s \in Session, SwitchSession(s) \/ CloseSession(s) PROVE IInv'
        BY <2>2, SwitchSessionKeeps, CloseSessionKeeps
    <2> QED
        BY <1>1, <2>1, <2>2, SaveSessionKeeps, EmptyRecycleBinKeeps, TrashSessionKeeps, FoldKeeps DEF App
<1>2. ASSUME BinActor PROVE IInv'
    BY <1>2, ServeRecordKeeps, ServeEmptyKeeps, ServeReopenKeeps, ReopenFailsKeeps, ServeReleaseKeeps,
       ForgetKeeps, ServeClosedKeeps DEF BinActor
<1> QED
    BY <1>1, <1>2, CrashKeeps, StutterKeeps DEF Next

\* The invariant holds in every state.
LEMMA Inductive == Spec => []IInv
BY InitInv, StepKeeps, PTL DEF Spec

\* RecycleBin!MirrorSettles: an app and an actor with nothing left to say agree
\* on the bin, whatever failed on the way and however many sessions were shown
\* meanwhile, unless the last word was a failure.
THEOREM MirrorsSettle == Spec => []MirrorSettles
<1>1. IInv => MirrorSettles
    <2> SUFFICES ASSUME IInv, Quiet, ui = Idle, store # None
                 PROVE  told = "failed" \/ removed = Of(sess, bin[sess])
        BY DEF MirrorSettles
    <2>1. cmds = <<>> /\ answers = <<>> /\ oven = Cold /\ DOMAIN cmds = {} /\ ~ Waiting
        <3>1. cmds = <<>> /\ Len(cmds) = 0 /\ DOMAIN cmds = 1..Len(cmds)
            BY DEF IInv, TypeOK, Quiet
        <3> QED
            BY <3>1, Resting DEF Quiet, Waiting
    <2>2. store = sess
        BY <2>1 DEF IInv, Ends, Serves
    <2> QED
        BY <2>1, <2>2 DEF IInv, LastWord
<1> QED
    BY <1>1, Inductive, PTL

\* RecycleBin!ArchivedHasTombstone: no world is left in an archive slot without
\* a tombstone that brings it back, through purges that overtake deletions.
THEOREM ArchivesAreReachable == Spec => []ArchivedHasTombstone
<1>1. IInv => ArchivedHasTombstone
    BY DEF IInv, Archived, ArchivedHasTombstone, Pending
<1> QED
    BY <1>1, Inductive, PTL

\* RecycleBin!PromptKeepsWorld: a user who waits for the bin loses no world.
THEOREM WaitingKeepsWorlds == Spec => []PromptKeepsWorld
<1>1. IInv => PromptKeepsWorld
    <2> SUFFICES ASSUME IInv, Careful
                 PROVE  TombstoneKeepsWorld /\ Of(sess, graph) \subseteq live
        BY DEF PromptKeepsWorld, Careful
    <2>1. sess \in Session \ trash /\ Graph(sess) = graph
        BY DEF IInv, TypeOK, Graph
    <2> QED
        BY <2>1 DEF IInv, WorldsKept, Of
<1> QED
    BY <1>1, Inductive, PTL

\* RecycleBin!MirrorIsOwn: what is offered for recovery is of the session shown.
THEOREM MirrorsAreOwn == Spec => []MirrorIsOwn
<1>1. IInv => MirrorIsOwn
    BY DEF IInv, OneAtATime, MirrorIsOwn
<1> QED
    BY <1>1, Inductive, PTL

\* RecycleBin!NoZombieBin: no directory comes back from the trash while the
\* release of its store is waited for.
THEOREM TrashStaysTrash == Spec => []NoZombieBin
<1>1. IInv => NoZombieBin
    BY DEF IInv, NoZombieAhead, NoZombieBin
<1> QED
    BY <1>1, Inductive, PTL

\* Only a record adds to a bin, and the channel brought it to the store of the
\* session it was sent in.
LEMMA StagingStep ==
    ASSUME IInv, [Next]_vars, NEW s \in Session, bin'[s] \ bin[s] # {}
    PROVE  Head(cmds).at = s
<1>1. CASE ServeRecord
    <2>1. /\ Serve("Record") /\ Head(cmds) = cmds[1] /\ 1 \in DOMAIN cmds /\ cmds[1].op = "Record"
          /\ store # None
        <3>1. Shorter(Tail(cmds), cmds)
            BY <1>1, Taken DEF ServeRecord, Serve, IInv, TypeOK
        <3> QED
            BY <1>1, <3>1 DEF ServeRecord, Serve, Shorter
    <2>2. store = cmds[1].at
        BY <2>1 DEF IInv, Channel, Serves
    <2>3. s = store
        BY <1>1 DEF ServeRecord, IInv, TypeOK
    <2> QED
        BY <2>1, <2>2, <2>3
<1>2. CASE ServeReopen
    BY <1>2 DEF ServeReopen, IInv, TypeOK
<1>3. CASE Forget
    BY <1>3 DEF Forget, IInv, TypeOK
<1>4. CASE UNCHANGED bin
    BY <1>4
<1>5. ServeRecord \/ ServeReopen \/ Forget \/ UNCHANGED bin
    BY DEF Next, App, BinActor, Delete, Recover, SwitchSession, CloseSession, SaveSession,
        EmptyRecycleBin, TrashSession, Fold, ServeEmpty, ReopenFails, ServeRelease, ServeClosed, Crash,
        actor, vars
<1> QED
    BY <1>1, <1>2, <1>3, <1>4, <1>5

\* RecycleBin!StagedInItsOwnBin: a tombstone lands in the bin of the session its
\* node was deleted in.
THEOREM TombstonesLandAtHome == Spec => StagedInItsOwnBin
<1>1. IInv /\ [Next]_vars => [\A s \in Session : bin'[s] \ bin[s] # {} => Head(cmds).at = s]_vars
    BY StagingStep
<1> QED
    BY <1>1, Inductive, PTL DEF Spec, StagedInItsOwnBin

=============================================================================
