---------------------------- MODULE EndpointProofs ----------------------------
(***************************************************************************)
(* A viewer of the disclosed projection curates and nothing else, whatever *)
(* the cards and however long it goes on.                                  *)
(***************************************************************************)
EXTENDS Endpoint, TLAPS

\* The scene mounted is the one handed out last, and its resources are that
\* scene's; truth is the user's, and the log holds what is delegated.
TruthKept == truth = [cards |-> Card, journal |-> <<>>] /\ author = User
LogCovered == audit \in Seq([by : {Subject}, scope : Delegated])
MountedIsShown == bodies = shown.cards /\ viewer.scene = shown

EInv == TruthKept /\ LogCovered /\ MountedIsShown

\* What is read in a log is one of its entries.
LEMMA EntryOfLog ==
    ASSUME NEW S, NEW log \in Seq(S), NEW k \in DOMAIN log
    PROVE  log[k] \in S
OBVIOUS

\* What is accepted is a curation: opening an address takes a scope that was
\* not delegated.
LEMMA AcceptedCurates ==
    ASSUME NEW i \in Intents, Answer(i) = "accepted"
    PROVE  i.intent = "fit-view" /\ ScopeOf(i.intent) = "layout"
<1>1. Advertised(i) /\ Covered(ScopeOf(i.intent))
    BY DEF Answer
<1>2. ScopeOf(i.intent) = "layout"
    BY <1>1 DEF Covered, Delegated
<1> QED
    BY <1>2 DEF ScopeOf

\* A petition adds an entry of the subject's, of the scope the gate covered.
LEMMA PetitionCovered ==
    ASSUME NEW i \in Intents, Answer(i) = "accepted", LogCovered
    PROVE  Petition(i) \in Seq([by : {Subject}, scope : Delegated])
<1>1. [by |-> Subject, scope |-> ScopeOf(i.intent)] \in [by : {Subject}, scope : Delegated]
    BY AcceptedCurates DEF Delegated
<1> QED
    BY <1>1 DEF Petition, LogCovered

\* An intent, taken or refused, keeps the invariant.
LEMMA InvokeKeeps ==
    ASSUME EInv, NEW i \in Intents, Invoke(i)
    PROVE  EInv'
<1>1. CASE Answer(i) = "accepted"
    <2>1. Carried(i) = truth
        BY <1>1, AcceptedCurates DEF Carried
    <2>2. TruthKept'
        BY <1>1, <2>1 DEF Invoke, EInv, TruthKept
    <2>3. LogCovered'
        BY <1>1, PetitionCovered DEF Invoke, EInv, LogCovered
    <2>4. MountedIsShown'
        BY DEF Invoke, EInv, MountedIsShown
    <2> QED
        BY <2>2, <2>3, <2>4 DEF EInv
<1>2. CASE Answer(i) # "accepted"
    BY <1>2 DEF Invoke, EInv, TruthKept, LogCovered, MountedIsShown
<1> QED
    BY <1>1, <1>2

\* A viewer of the projection, whatever it asks for and however old what it saw,
\* leaves graph truth and its journal the user's, the log within the delegation,
\* and can resolve every card it has mounted.
THEOREM CurationOnly == EndpointSpec => []ViewersOnlyCurate
<1>1. EndpointInit => EInv
    <2> SUFFICES ASSUME EndpointInit PROVE EInv
        OBVIOUS
    <2>1. LogCovered
        BY DEF EndpointInit, LogCovered, Delegated
    <2> QED
        BY <2>1 DEF EndpointInit, EInv, TruthKept, MountedIsShown, NoScene
<1>2. EInv /\ [EndpointNext]_endpointVars => EInv'
    <2> SUFFICES ASSUME EInv, [EndpointNext]_endpointVars PROVE EInv'
        OBVIOUS
    <2>1. CASE Disclose
        BY <2>1 DEF Disclose, Presented, EInv, TruthKept, LogCovered, MountedIsShown
    <2>2. ASSUME NEW c \in Card, Resolve(c) PROVE EInv'
        <3>1. viewer'.scene = viewer.scene
            BY <2>2 DEF Resolve
        <3> QED
            BY <2>2, <3>1 DEF Resolve, EInv, TruthKept, LogCovered, MountedIsShown
    <2>3. ASSUME NEW i \in Intents, Invoke(i) PROVE EInv'
        BY <2>3, InvokeKeeps
    <2>4. CASE UNCHANGED endpointVars
        BY <2>4 DEF endpointVars, EInv, TruthKept, LogCovered, MountedIsShown
    <2> QED
        BY <2>1, <2>2, <2>3, <2>4 DEF EndpointNext
<1>3. EInv => ViewersOnlyCurate
    <2> SUFFICES ASSUME EInv PROVE ViewersOnlyCurate
        OBVIOUS
    <2>1. ASSUME NEW k \in DOMAIN audit PROVE audit[k].scope \in Delegated
        <3>1. audit[k] \in [by : {Subject}, scope : Delegated]
            BY EntryOfLog DEF EInv, LogCovered
        <3> QED
            BY <3>1
    <2> QED
        BY <2>1 DEF EInv, TruthKept, MountedIsShown, ViewersOnlyCurate
<1> QED
    BY <1>1, <1>2, <1>3, PTL DEF EndpointSpec

===============================================================================
