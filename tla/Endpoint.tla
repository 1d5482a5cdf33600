-------------------------------- MODULE Endpoint --------------------------------
(***************************************************************************)
(* The graph disclosed to another program (remote_projection.rs): one      *)
(* endpoint that owns an App, hands out snapshots and the resources they   *)
(* bind, and admits intents through servitor's gate, and the viewer at the *)
(* other end of the pipe (run_g3_canary, resolve_all).                     *)
(*                                                                         *)
(* A scene is the set of its cards at a revision; a card's two offers are  *)
(* one body, whose hash is of its contents.  The pipe is in order and one  *)
(* request at a time, so a request and its answer are one step.  What is   *)
(* asked under a wrong session, protocol or arrangement changes nothing    *)
(* and is left out, as is everything drawn.  The gate and the carrier are  *)
(* servitor's and graphshell's.                                            *)
(***************************************************************************)
EXTENDS Naturals, Sequences, SequencesExt

CONSTANTS
    Card,      \* nodes of the fixture's graph
    NewCard,   \* what an opened address would add
    MaxAudit   \* bound: entries of the audit log

VARIABLES
    truth,     \* App: the graph's cards, and the authors of its journal
    author,    \* App: who the journal takes the next edit for
    shown,     \* endpoint: the snapshot handed out last, NoScene before one
    bodies,    \* endpoint: the cards whose resources it will hand out
    audit,     \* endpoint: the audit log, an entry its author and scope
    viewer     \* the scene mounted, and the cards resolved in it

endpointVars == <<truth, author, shown, bodies, audit, viewer>>

User == "user"
Subject == "endpoint"     \* the key derived for the session
Delegated == {"layout"}   \* what the user's certificate lets the subject write

Actions == {"fit-view", "open-address"}
\* Mutant: every intent is petitioned under the scope that was delegated.
ScopeHeld(intent) == "layout"
ScopeOf(intent) == IF intent = "fit-view" THEN "layout" ELSE "graph"

NoScene == [revision |-> 0, cards |-> {}]
Revision == Len(truth.journal) + 1

-----------------------------------------------------------------------------
\* presentation: every card of the scene has its body and offers the actions.
Presented(scene) == scene.cards

\* snapshot: the resources of the scene before are gone.
Disclose ==
    /\ shown' = [revision |-> Revision, cards |-> truth.cards]
    /\ bodies' = Presented(shown')
    /\ viewer' = [scene |-> shown', resolved |-> {}]
    /\ UNCHANGED <<truth, author, audit>>

\* resource, asked for by a viewer resolving an instance it has mounted.
Resolve(c) ==
    /\ c \in viewer.scene.cards \ viewer.resolved
    /\ c \in bodies
    /\ viewer' = [viewer EXCEPT !.resolved = @ \cup {c}]
    /\ UNCHANGED <<truth, author, shown, bodies, audit>>

Advertised(i) == i.target \in shown.cards /\ i.intent \in Actions

\* The gate asks the delegation, of the scope the intent needs.
Covered(scope) == scope \in Delegated

PayloadFits(i) == IF i.intent = "fit-view" THEN i.payload = "empty" ELSE i.payload = "address"

Answer(i) ==
    IF shown = NoScene THEN "error"
    ELSE IF i.observed # shown.revision THEN "stale"
    ELSE IF Advertised(i) /\ PayloadFits(i) /\ Covered(ScopeOf(i.intent)) THEN "accepted"
    ELSE "rejected"

\* petition: an admitted intent is in the audit log before it is carried out.
Petition(i) == Append(audit, [by |-> Subject, scope |-> ScopeOf(i.intent)])

\* An address is opened in the subject's name; the journal is the user's again
\* when invoke returns.
Carried(i) ==
    IF i.intent = "open-address"
    THEN [cards |-> truth.cards \cup {NewCard}, journal |-> Append(truth.journal, Subject)]
    ELSE truth

Invoke(i) ==
    /\ Len(audit) < MaxAudit
    /\ IF Answer(i) = "accepted"
       THEN audit' = Petition(i) /\ truth' = Carried(i) /\ author' = User
       ELSE UNCHANGED <<audit, truth, author>>
    /\ UNCHANGED <<shown, bodies, viewer>>

\* A viewer invokes what it sees, and what it no longer sees or never did.
Intents == [target : Card \cup {NewCard}, observed : 0..MaxAudit,
            intent : Actions \cup {"unknown"}, payload : {"empty", "address", "bytes"}]

EndpointInit ==
    /\ truth = [cards |-> Card, journal |-> <<>>] /\ author = User
    /\ shown = NoScene /\ bodies = {}
    /\ audit = <<[by |-> Subject, scope |-> "layout"]>>
    /\ viewer = [scene |-> NoScene, resolved |-> {}]

EndpointNext ==
    \/ Disclose
    \/ \E c \in Card : Resolve(c)
    \/ \E i \in Intents : Invoke(i)

EndpointSpec == EndpointInit /\ [][EndpointNext]_endpointVars

\* A viewer curates and nothing else: whatever it invokes, and however old what
\* it saw, graph truth and its journal stay the user's, the log holds what the
\* delegation covers, and every card it has mounted can still be resolved
\* (invoke, petition, presentation).
ViewersOnlyCurate ==
    /\ truth = [cards |-> Card, journal |-> <<>>] /\ author = User
    /\ \A k \in DOMAIN audit : audit[k].scope \in Delegated
    /\ viewer.scene.cards \subseteq bodies

=============================================================================
