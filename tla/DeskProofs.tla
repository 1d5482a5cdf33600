------------------------------ MODULE DeskProofs ------------------------------
(***************************************************************************)
(* The resident helpers, the line and the pointer, and the panes, of any   *)
(* number: a helper is covered for no more than a review of it named, a    *)
(* start covers every resident again but for an install cut short, caret   *)
(* and highlight stay on the line, the install confirmed is the one shown, *)
(* no drag outlives the buttons, a pane is in one place and every window   *)
(* has its graph, and only a drag is not on disk.                          *)
(***************************************************************************)
EXTENDS MCDesk, FiniteSetTheorems, SequenceTheorems, TLAPS

DeskVars == <<part, panesVars, contentVars, denizensVars, inputVars, endpointVars>>

-----------------------------------------------------------------------------
(***************************************************************************)
(* Denizens.  A chain covers the projections of the world it was issued    *)
(* for, live or archived, and nothing that no review named; but for the    *)
(* pack whose install has not signed yet, or never did.                    *)
(***************************************************************************)
Bodies == [there : BOOLEAN, of : Pack \cup {NoPack}, bound : BOOLEAN]

\* Nothing is recorded but what an install confers, of this build or an older.
Grants == {D!InstallCaps, D!OldCaps}
DenizenTypes ==
    /\ staged \in Pack \cup {NoPack} /\ unsigned \in Pack \cup {NoPack}
    /\ node \in [Bearer -> Bodies] /\ stored \in [Bearer -> Bodies]
    /\ \A b \in Bearer : records[b] # <<>> => records[b][1] \in Bodies
    /\ DOMAIN world = Pack /\ DOMAIN archive = Pack /\ DOMAIN certs = Pack
    /\ DOMAIN authority = Pack /\ DOMAIN confirmed = Pack /\ DOMAIN records = Bearer
    /\ \A p \in Pack : /\ world[p] # <<>> => world[p][1] \in Grants
                       /\ archive[p] # <<>> => archive[p][1] \in Grants
                       /\ certs[p] # <<>> => certs[p][1].caps \in Grants

\* What is kept of a pack was named by a review of it.
KeptWasReviewed ==
    \A p \in Pack : /\ world[p] # <<>> => world[p][1] \subseteq confirmed[p]
                    /\ archive[p] # <<>> => archive[p][1] \subseteq confirmed[p]
                    /\ certs[p] # <<>> => certs[p][1].caps \subseteq confirmed[p]

\* The install under way has been confirmed, and its node is bound.
Signing ==
    unsigned # NoPack => D!Bound(node, unsigned) /\ D!InstallCaps \subseteq confirmed[unsigned]

\* A chain covers the world of its pack, in either slot, unless the install of a
\* newer one was cut short.
ChainsCover ==
    \A p \in Pack :
        /\ world[p] # <<>> /\ world[p][1] = D!OldCaps => archive[p] = <<>>
        /\ certs[p] # <<>> /\ p \notin torn /\ p # unsigned =>
                              /\ world[p] # <<>> => world[p][1] \subseteq certs[p][1].caps
                              /\ archive[p] # <<>> => archive[p][1] \subseteq certs[p][1].caps

AInv == DenizenTypes /\ KeptWasReviewed /\ Signing /\ ChainsCover /\ D!AuthorityWasReviewed

\* An older build conferred less than an install of today does.
LEMMA Caps == D!OldCaps \subseteq D!InstallCaps /\ D!OldCaps # D!InstallCaps
BY DEF D!OldCaps, D!InstallCaps

\* What a rebuild leaves, for nodes n, worlds w and a root r.
LEMMA Rebuilt ==
    ASSUME AInv, NEW n, NEW w, NEW r, D!Rebuild(n, w, r)
    PROVE  /\ DOMAIN certs' = Pack /\ DOMAIN authority' = Pack
           /\ \A p \in Pack :
                /\ \/ certs'[p] = certs[p]
                   \/ w[p] # <<>> /\ certs'[p] # <<>> /\ certs'[p][1].caps = w[p][1]
                /\ authority'[p] # {} => D!Bound(n, p) /\ certs'[p] # <<>>
                                         /\ authority'[p] = certs'[p][1].caps
                /\ D!Bound(n, p) /\ w[p] # <<>> /\ w[p][1] # {} =>
                      certs'[p] # <<>> /\ authority'[p] = certs'[p][1].caps
<1>1. ASSUME NEW p \in Pack
      PROVE  /\ \/ certs'[p] = certs[p]
                \/ /\ w[p] # <<>> /\ certs'[p] # <<>> /\ certs'[p][1].caps = w[p][1]
                   /\ D!Verifies(certs'[p], r)
             /\ D!Bound(n, p) /\ w[p] # <<>> /\ w[p][1] # {} => D!Verifies(certs'[p], r)
    BY DEF D!Rebuild, D!Healed, D!Verifies, D!Projected
<1>2. ASSUME NEW p \in Pack
      PROVE  authority'[p] = IF D!Bound(n, p) /\ D!Verifies(certs'[p], r) THEN certs'[p][1].caps ELSE {}
    BY DEF D!Rebuild
<1>3. DOMAIN certs' = Pack /\ DOMAIN authority' = Pack
    BY DEF D!Rebuild, D!Healed
<1> QED
    BY <1>1, <1>2, <1>3 DEF D!Verifies

\* A node that loses its binding, or is deleted.
LEMMA BodyFacts ==
    ASSUME NEW x \in Bodies
    PROVE  /\ [x EXCEPT !.bound = FALSE] \in Bodies /\ [x EXCEPT !.bound = FALSE].of = x.of
           /\ [x EXCEPT !.there = FALSE] \in Bodies /\ ~ [x EXCEPT !.there = FALSE].there
BY DEF Bodies

\* A confirmation binds a node to the pack, and writes its world ...
LEMMA ConfirmKeeps ==
    ASSUME AInv, D!ConfirmInstallDenizen
    PROVE  AInv'
<1> DEFINE p == staged
<1>1. p \in Pack /\ p # NoPack /\ unsigned = NoPack
    BY DEF D!ConfirmInstallDenizen, D!Idle, AInv, DenizenTypes
<1>2. PICK b \in D!Visited(p) : node' = [node EXCEPT ![b] = [there |-> TRUE, of |-> p, bound |-> TRUE]]
    BY DEF D!ConfirmInstallDenizen
<1>3. b \in Bearer /\ (node[b].of = p \/ node[b].of = NoPack)
    BY <1>2 DEF D!Visited
<1>4. /\ world' = [world EXCEPT ![p] = <<D!InstallCaps>>]
      /\ confirmed' = [confirmed EXCEPT ![p] = @ \cup D!InstallCaps]
      /\ staged' = NoPack /\ unsigned' = p
      /\ UNCHANGED <<stored, records, archive, certs, authority, torn, ran>>
    BY DEF D!ConfirmInstallDenizen
<1> HIDE DEF p
<1>5. /\ node' \in [Bearer -> Bodies]
      /\ node'[b].there /\ node'[b].bound /\ node'[b].of = p
      /\ \A c \in Bearer : c # b => node'[c] = node[c]
    BY <1>1, <1>2, <1>3 DEF AInv, DenizenTypes, Bodies
<1>6. /\ world'[p] # <<>> /\ world'[p][1] = D!InstallCaps
      /\ confirmed'[p] = confirmed[p] \cup D!InstallCaps
      /\ DOMAIN world' = Pack /\ DOMAIN confirmed' = Pack
      /\ \A q \in Pack : q # p => world'[q] = world[q] /\ confirmed'[q] = confirmed[q]
    BY <1>1, <1>4 DEF AInv, DenizenTypes
<1>7. DenizenTypes'
    BY <1>1, <1>4, <1>5, <1>6 DEF AInv, DenizenTypes, Grants
<1>8. KeptWasReviewed'
    BY <1>4, <1>6 DEF AInv, KeptWasReviewed
<1>9. ChainsCover'
    BY <1>1, <1>4, <1>6, Caps, DeskAssumption DEF AInv, ChainsCover, DenizenTypes, Grants
<1>10. \A q \in Pack : q # p /\ D!Bound(node, q) => D!Bound(node', q)
    BY <1>1, <1>3, <1>5, DeskAssumption DEF D!Bound, D!Residents
<1>11. D!Bound(node', p)
    BY <1>3, <1>5 DEF D!Bound, D!Residents
<1>12. D!AuthorityWasReviewed'
    BY <1>4, <1>6, <1>10, <1>11 DEF AInv, D!AuthorityWasReviewed
<1>13. Signing'
    <2> DEFINE m == node'
    <2>1. D!Bound(m, p) /\ m = node'
        BY <1>11
    <2> HIDE DEF m
    <2> QED
        BY <1>4, <1>6, <2>1 DEF Signing, D!Bound, D!Residents
<1> QED
    BY <1>7, <1>8, <1>9, <1>12, <1>13 DEF AInv

\* ... and then issues what the review named.
LEMMA CertifyKeeps ==
    ASSUME AInv, D!CertifyDenizen
    PROVE  AInv'
<1> DEFINE p == unsigned
<1>1. /\ p \in Pack /\ p # NoPack
      /\ D!Bound(node, p) /\ D!InstallCaps \subseteq confirmed[p]
    BY DEF D!CertifyDenizen, AInv, DenizenTypes, Signing
<1>2. /\ certs' = [certs EXCEPT ![p] = <<[caps |-> D!InstallCaps, root |-> root]>>]
      /\ authority' = [authority EXCEPT ![p] = @ \cup D!InstallCaps]
      /\ unsigned' = NoPack /\ torn' = torn \ {p}
      /\ UNCHANGED <<staged, node, stored, records, world, archive, confirmed, ran>>
    BY DEF D!CertifyDenizen
<1>9. \A q \in Pack : q # p => q # unsigned
    OBVIOUS
<1> HIDE DEF p
<1>3. /\ certs'[p] # <<>> /\ certs'[p][1].caps = D!InstallCaps
      /\ authority'[p] = authority[p] \cup D!InstallCaps
      /\ DOMAIN certs' = Pack /\ DOMAIN authority' = Pack
      /\ \A q \in Pack : q # p => certs'[q] = certs[q] /\ authority'[q] = authority[q]
    BY <1>1, <1>2 DEF AInv, DenizenTypes
<1>4. DenizenTypes'
    BY <1>1, <1>2, <1>3 DEF AInv, DenizenTypes, Grants
<1>5. KeptWasReviewed'
    BY <1>1, <1>2, <1>3 DEF AInv, KeptWasReviewed
<1>6. ChainsCover'
    BY <1>2, <1>3, <1>9, Caps DEF AInv, ChainsCover, DenizenTypes, Grants
<1>7. D!AuthorityWasReviewed'
    BY <1>1, <1>2, <1>3 DEF AInv, D!AuthorityWasReviewed, D!Bound, D!Residents
<1>8. Signing'
    BY <1>2 DEF Signing
<1> QED
    BY <1>4, <1>5, <1>6, <1>7, <1>8 DEF AInv

\* Uninstalling takes the world away, into the bin, and with it the coverage.
LEMMA UninstallKeeps ==
    ASSUME AInv, NEW b \in Bearer, D!UninstallDenizen(b)
    PROVE  AInv'
<1> DEFINE p == node[b].of
<1>1. /\ b \in D!Residents(node)
      /\ node' = [node EXCEPT ![b].bound = FALSE]
      /\ authority' = [authority EXCEPT ![p] = {}] /\ certs' = [certs EXCEPT ![p] = <<>>]
      /\ torn' = torn \ {p} /\ unsigned = NoPack
      /\ UNCHANGED <<staged, unsigned, stored, records, world, archive, confirmed, ran>>
    BY DEF D!UninstallDenizen, D!Idle
<1>2. /\ node' \in [Bearer -> Bodies] /\ node'[b].of = p
      /\ \A c \in Bearer : c # b => node'[c] = node[c]
    <2> DEFINE new == [node[b] EXCEPT !.bound = FALSE]
    <2>1. new \in Bodies /\ new.of = p
        BY BodyFacts DEF AInv, DenizenTypes
    <2>2. node' = [node EXCEPT ![b] = new]
        BY <1>1
    <2> HIDE DEF new
    <2> QED
        BY <2>1, <2>2 DEF AInv, DenizenTypes
<1> HIDE DEF p
<1>3. /\ DOMAIN certs' = Pack /\ DOMAIN authority' = Pack
      /\ \A q \in Pack : certs'[q] = certs[q] \/ certs'[q] = <<>>
      /\ \A q \in Pack : authority'[q] = authority[q] \/ authority'[q] = {}
      /\ p \in Pack => authority'[p] = {} /\ certs'[p] = <<>>
    BY <1>1 DEF AInv, DenizenTypes
<1>4. DenizenTypes' /\ KeptWasReviewed' /\ ChainsCover' /\ Signing'
    BY <1>1, <1>2, <1>3 DEF AInv, DenizenTypes, KeptWasReviewed, ChainsCover, Signing
<1>5. ASSUME NEW q \in Pack, q # p, D!Bound(node, q) PROVE D!Bound(node', q)
    BY <1>2, <1>5 DEF D!Bound, D!Residents, p
<1>6. D!AuthorityWasReviewed'
    BY <1>1, <1>3, <1>5 DEF AInv, D!AuthorityWasReviewed
<1> QED
    BY <1>4, <1>6 DEF AInv

\* Deleting a bearer archives the world only of a pack it is the last bearer of.
LEMMA DeleteKeeps ==
    ASSUME AInv, NEW b \in Bearer, D!DeleteFocusedNode(b)
    PROVE  AInv'
<1> DEFINE p == node[b].of
           left == [node EXCEPT ![b].there = FALSE]
<1>1. /\ node[b].there
      /\ records' = [records EXCEPT ![b] = <<node[b]>>] /\ node' = left
      /\ IF world[p] = <<>> THEN UNCHANGED <<world, archive>>
         ELSE world' = [world EXCEPT ![p] = <<>>] /\ archive' = [archive EXCEPT ![p] = world[p]]
      /\ IF b \in D!Residents(node) THEN D!Rebuild(node', world', root) ELSE UNCHANGED <<certs, authority>>
      /\ torn' = {q \in torn : certs[q] # <<>> /\ certs'[q] = certs[q]} /\ unsigned = NoPack
      /\ UNCHANGED <<staged, unsigned, stored, confirmed, ran>>
    BY DEF D!DeleteFocusedNode, D!Idle, D!StillTorn
<1>2. /\ node' \in [Bearer -> Bodies] /\ ~ node'[b].there
      /\ \A c \in Bearer : c # b => node'[c] = node[c]
    <2> DEFINE new == [node[b] EXCEPT !.there = FALSE]
    <2>1. new \in Bodies /\ ~ new.there
        BY BodyFacts DEF AInv, DenizenTypes
    <2>2. node' = [node EXCEPT ![b] = new]
        BY <1>1
    <2> HIDE DEF new
    <2> QED
        BY <2>1, <2>2 DEF AInv, DenizenTypes
<1>3. /\ DOMAIN records' = Bearer
      /\ \A c \in Bearer : records'[c] # <<>> => records'[c][1] \in Bodies
    BY <1>1 DEF AInv, DenizenTypes
<1> HIDE DEF p, left
<1>4. /\ DOMAIN world' = Pack /\ DOMAIN archive' = Pack
      /\ \A q \in Pack : \/ world'[q] = world[q] /\ archive'[q] = archive[q]
                         \/ world[q] # <<>> /\ world'[q] = <<>> /\ archive'[q] = world[q]
    BY <1>1 DEF AInv, DenizenTypes
<1>5. /\ DOMAIN certs' = Pack /\ DOMAIN authority' = Pack
      /\ \A q \in Pack :
           /\ \/ certs'[q] = certs[q]
              \/ world'[q] # <<>> /\ certs'[q] # <<>> /\ certs'[q][1].caps = world'[q][1]
           /\ \/ authority'[q] = {}
              \/ D!Bound(node', q) /\ certs'[q] # <<>> /\ authority'[q] = certs'[q][1].caps
              \/ D!Bound(node, q) /\ authority'[q] = authority[q] /\ b \notin D!Residents(node)
    <2>1. CASE b \in D!Residents(node)
        <3> DEFINE m == node'
                   w == world'
        <3> HIDE DEF m, w
        <3>1. D!Rebuild(m, w, root)
            BY <1>1, <2>1 DEF m, w
        <3> QED
            BY <3>1, Rebuilt DEF m, w
    <2>2. CASE b \notin D!Residents(node)
        BY <1>1, <2>2 DEF AInv, DenizenTypes, D!AuthorityWasReviewed
    <2> QED
        BY <2>1, <2>2
<1>6. ASSUME NEW q \in Pack, D!Bound(node, q), b \notin D!Residents(node) PROVE D!Bound(node', q)
    BY <1>2, <1>6 DEF D!Bound, D!Residents
<1>7. DenizenTypes'
    BY <1>1, <1>2, <1>3, <1>4, <1>5 DEF AInv, DenizenTypes
<1>8. KeptWasReviewed'
    BY <1>1, <1>4, <1>5 DEF AInv, KeptWasReviewed
<1>9. ChainsCover'
    BY <1>1, <1>4, <1>5, Caps DEF AInv, ChainsCover, DenizenTypes, Grants
<1>11. Signing'
    BY <1>1 DEF Signing
<1>10. D!AuthorityWasReviewed'
    BY <1>1, <1>5, <1>6, <1>8 DEF AInv, KeptWasReviewed, D!AuthorityWasReviewed
<1> QED
    BY <1>7, <1>8, <1>9, <1>10, <1>11 DEF AInv

\* A node recovered has its body and its world back as they were archived.
LEMMA RecoverKeeps ==
    ASSUME AInv, NEW b \in Bearer, D!RecoverDeletedNode(b)
    PROVE  AInv'
<1> DEFINE p == node[b].of
<1>1. /\ records[b] # <<>> /\ node' = [node EXCEPT ![b] = records[b][1]]
      /\ IF archive[p] = <<>> THEN UNCHANGED <<world, archive>>
         ELSE world' = [world EXCEPT ![p] = archive[p]] /\ archive' = [archive EXCEPT ![p] = <<>>]
      /\ D!Rebuild(node', world', root)
      /\ torn' = {q \in torn : certs[q] # <<>> /\ certs'[q] = certs[q]} /\ unsigned = NoPack
      /\ UNCHANGED <<staged, unsigned, stored, records, confirmed, ran>>
    BY DEF D!RecoverDeletedNode, D!Idle, D!StillTorn
<1>2. node' \in [Bearer -> Bodies]
    BY <1>1 DEF AInv, DenizenTypes
<1> HIDE DEF p
<1>4. /\ DOMAIN world' = Pack /\ DOMAIN archive' = Pack
      /\ \A q \in Pack : \/ world'[q] = world[q] /\ archive'[q] = archive[q]
                         \/ archive[q] # <<>> /\ archive'[q] = <<>> /\ world'[q] = archive[q]
    BY <1>1 DEF AInv, DenizenTypes
<1>5. /\ DOMAIN certs' = Pack /\ DOMAIN authority' = Pack
      /\ \A q \in Pack :
           /\ \/ certs'[q] = certs[q]
              \/ world'[q] # <<>> /\ certs'[q] # <<>> /\ certs'[q][1].caps = world'[q][1]
           /\ \/ authority'[q] = {}
              \/ D!Bound(node', q) /\ certs'[q] # <<>> /\ authority'[q] = certs'[q][1].caps
    <2> DEFINE m == node'
               w == world'
    <2> HIDE DEF m, w
    <2>1. D!Rebuild(m, w, root)
        BY <1>1 DEF m, w
    <2> QED
        BY <2>1, Rebuilt DEF m, w
<1>7. DenizenTypes'
    BY <1>1, <1>2, <1>4, <1>5 DEF AInv, DenizenTypes
<1>8. KeptWasReviewed'
    BY <1>1, <1>4, <1>5 DEF AInv, KeptWasReviewed
<1>9. ChainsCover'
    BY <1>1, <1>4, <1>5, Caps DEF AInv, ChainsCover, DenizenTypes, Grants
<1>11. Signing'
    BY <1>1 DEF Signing
<1>10. D!AuthorityWasReviewed'
    BY <1>1, <1>5, <1>8 DEF AInv, KeptWasReviewed, D!AuthorityWasReviewed
<1> QED
    BY <1>7, <1>8, <1>9, <1>10, <1>11 DEF AInv

\* A start reissues what the worlds record and covers the residents for it.
LEMMA RestartKeeps ==
    ASSUME AInv, D!Restart
    PROVE  AInv' /\ D!GrantsSurviveRestart
<1>1. /\ node' = stored /\ staged' = NoPack /\ ran' = <<>>
      /\ D!Rebuild(node', world, root')
      /\ torn' = {q \in torn \cup ({unsigned} \ {NoPack}) : certs[q] # <<>> /\ certs'[q] = certs[q]}
      /\ unsigned' = NoPack
      /\ UNCHANGED <<stored, records, world, archive, confirmed>>
    BY DEF D!Restart, D!StillTorn
<1>5. /\ DOMAIN certs' = Pack /\ DOMAIN authority' = Pack
      /\ \A q \in Pack :
           /\ \/ certs'[q] = certs[q]
              \/ world[q] # <<>> /\ certs'[q] # <<>> /\ certs'[q][1].caps = world[q][1]
           /\ \/ authority'[q] = {}
              \/ D!Bound(node', q) /\ certs'[q] # <<>> /\ authority'[q] = certs'[q][1].caps
           /\ D!Bound(node', q) /\ world[q] # <<>> /\ world[q][1] # {} =>
                 certs'[q] # <<>> /\ authority'[q] = certs'[q][1].caps
    <2> DEFINE m == node'
               r == root'
    <2> HIDE DEF m, r
    <2>1. D!Rebuild(m, world, r)
        BY <1>1 DEF m, r
    <2> QED
        BY <2>1, Rebuilt DEF m, r
<1>7. DenizenTypes'
    BY <1>1, <1>5 DEF AInv, DenizenTypes
<1>8. KeptWasReviewed'
    BY <1>1, <1>5 DEF AInv, KeptWasReviewed
<1>9. ChainsCover'
    <2>1. ASSUME NEW q \in Pack, certs'[q] = certs[q], certs'[q] # <<>>, q \notin torn'
          PROVE  q \notin torn /\ q # unsigned
        BY <1>1, <2>1, DeskAssumption
    <2> QED
        BY <1>1, <1>5, <2>1, Caps DEF AInv, ChainsCover, DenizenTypes, Grants
<1>10. D!AuthorityWasReviewed'
    BY <1>1, <1>5, <1>8 DEF AInv, KeptWasReviewed, D!AuthorityWasReviewed
<1>12. Signing'
    BY <1>1 DEF Signing
<1>11. D!GrantsSurviveRestart
    BY <1>1, <1>5, <1>7, <1>9, DeskAssumption DEF D!GrantsSurviveRestart, D!Projected, ChainsCover, DenizenTypes
<1> QED
    BY <1>7, <1>8, <1>9, <1>10, <1>11, <1>12 DEF AInv

\* A run's emission is in a ring of its grant, and no ring holds what only the
\* host may do.
LEMMA EmissionsAreGranted ==
    ASSUME NEW caps, NEW action, D!ScriptAccepts(caps, action) \/ D!SinkAccepts(caps, action)
    PROVE  D!RingOf(action) # "host-only"
<1>1. CASE D!SinkAccepts(caps, action)
    BY <1>1 DEF D!SinkAccepts, D!EmitAllowed, D!Powers
<1>2. CASE D!ScriptAccepts(caps, action)
    <2>1. action \in D!Navigate \cup D!Panes \cup D!Dispatch \cup D!SessionTier
        BY <1>2 DEF D!ScriptAccepts, D!Commands, D!Navigate, D!Panes, D!Dispatch, D!SessionTier
    <2>2. CASE action \in D!Navigate \cup D!Panes
        BY <2>2 DEF D!RingOf, D!Navigate, D!Panes, D!Dispatch, D!SessionTier, D!Places, D!HostOnly
    <2>3. CASE action \in D!Dispatch
        BY <2>3 DEF D!RingOf, D!Navigate, D!Panes, D!Dispatch, D!SessionTier, D!Places, D!HostOnly
    <2>4. CASE action \in D!SessionTier
        BY <2>4 DEF D!RingOf, D!Navigate, D!Panes, D!Dispatch, D!SessionTier, D!Places, D!HostOnly
    <2> QED
        BY <2>1, <2>2, <2>3, <2>4
<1> QED
    BY <1>1, <1>2

\* The steps that move no coverage.
LEMMA RestKeeps ==
    ASSUME AInv, D!CancelInstallDenizen \/ D!EmptyRecycleBin \/ D!SaveSession
                 \/ (\E p \in Pack : D!InstallDenizen(p))
                 \/ (\E b \in Bearer, action \in D!Commands \cup D!Decodable \cup {"summon-pane"} :
                        D!RunDenizen(b, action))
    PROVE  AInv'
<1>1. CASE D!CancelInstallDenizen \/ D!SaveSession \/ (\E p \in Pack : D!InstallDenizen(p))
    BY <1>1 DEF D!CancelInstallDenizen, D!SaveSession, D!InstallDenizen, D!files, D!identity,
       D!installing, AInv, DenizenTypes, KeptWasReviewed, Signing, ChainsCover, D!AuthorityWasReviewed
<1>2. CASE D!EmptyRecycleBin
    <2>1. /\ records' = [b \in Bearer |-> <<>>]
          /\ UNCHANGED <<staged, node, stored, world, certs, authority, unsigned, torn, confirmed, ran>>
          /\ DOMAIN archive' = Pack /\ \A p \in Pack : archive'[p] = archive[p] \/ archive'[p] = <<>>
        BY <1>2 DEF D!EmptyRecycleBin, D!installing
    <2> QED
        BY <2>1 DEF AInv, DenizenTypes, KeptWasReviewed, Signing, ChainsCover, D!AuthorityWasReviewed
<1>3. ASSUME NEW b \in Bearer, NEW action, D!RunDenizen(b, action)
      PROVE  AInv'
    <2>1. D!RingOf(action) # "host-only"
        BY <1>3, EmissionsAreGranted DEF D!RunDenizen
    <2>2. /\ ran' = <<[action |-> action, held |-> authority[node[b].of]]>>
          /\ UNCHANGED <<staged, node, stored, records, world, archive, certs, authority, unsigned, torn, confirmed>>
        BY <1>3 DEF D!RunDenizen, D!files, D!installing
    <2>3. ran'[1].action = action
        BY <2>2
    <2>4. D!AuthorityWasReviewed'
        BY <2>1, <2>2, <2>3 DEF AInv, D!AuthorityWasReviewed
    <2> QED
        BY <2>2, <2>4 DEF AInv, DenizenTypes, KeptWasReviewed, Signing, ChainsCover
<1> QED
    BY <1>1, <1>2, <1>3

\* Every step of the helpers' part keeps the invariant.
LEMMA DenizensStep ==
    ASSUME AInv, D!DenizensNext
    PROVE  AInv' /\ (D!Restart => D!GrantsSurviveRestart)
<1>1. ASSUME NEW b \in Bearer, D!UninstallDenizen(b) \/ D!DeleteFocusedNode(b) \/ D!RecoverDeletedNode(b)
      PROVE  AInv'
    BY <1>1, UninstallKeeps, DeleteKeeps, RecoverKeeps
<1> QED
    BY <1>1, ConfirmKeeps, CertifyKeeps, RestartKeeps, RestKeeps DEF D!DenizensNext

\* A profile of an older build starts with what that build's reviews named.
LEMMA DenizensBegin ==
    ASSUME D!DenizensInit
    PROVE  AInv
<1>1. PICK old \in SUBSET Old, first \in [Old -> Bearer] :
        /\ node = [b \in Bearer |->
               IF \E p \in old : first[p] = b
               THEN [there |-> TRUE, of |-> CHOOSE p \in old : first[p] = b, bound |-> TRUE]
               ELSE D!Empty]
        /\ world = [p \in Pack |-> IF p \in old THEN <<D!OldCaps>> ELSE <<>>]
        /\ confirmed = [p \in Pack |-> IF p \in old THEN D!OldCaps ELSE {}]
    BY DEF D!DenizensInit
<1>2. node \in [Bearer -> Bodies]
    <2>1. \A b \in Bearer : (\E p \in old : first[p] = b) => (CHOOSE p \in old : first[p] = b) \in Pack
        BY DeskAssumption
    <2> QED
        BY <1>1, <2>1 DEF Bodies, D!Empty
<1>3. \A p \in Pack : world[p] # <<>> => world[p][1] = D!OldCaps /\ confirmed[p] = D!OldCaps
    BY <1>1
<1>4. /\ DOMAIN world = Pack /\ DOMAIN confirmed = Pack /\ staged = NoPack /\ unsigned = NoPack /\ torn = {} /\ ran = <<>> /\ stored = node
      /\ records = [b \in Bearer |-> <<>>] /\ archive = [p \in Pack |-> <<>>]
      /\ certs = [p \in Pack |-> <<>>] /\ authority = [p \in Pack |-> {}]
    BY <1>1 DEF D!DenizensInit
<1> QED
    BY <1>2, <1>3, <1>4 DEF AInv, DenizenTypes, KeptWasReviewed, Signing, ChainsCover, D!AuthorityWasReviewed, Grants

DInv == part = "denizens" => AInv

\* A step of another part leaves the helpers alone.
LEMMA DenizensInductive ==
    /\ Init => DInv
    /\ DInv /\ [Next]_DeskVars => DInv'
<1>1. Init => DInv
    BY DenizensBegin DEF Init, DInv
<1>2. ASSUME DInv, [Next]_DeskVars, part' = "denizens"
      PROVE  AInv'
    <2>1. part = "denizens" /\ AInv
        BY <1>2 DEF Next, DInv, DeskVars
    <2>2. CASE UNCHANGED denizensVars
        BY <2>1, <2>2 DEF denizensVars, AInv, DenizenTypes, KeptWasReviewed, Signing, ChainsCover, D!AuthorityWasReviewed
    <2>3. CASE D!DenizensNext
        BY <2>1, <2>3, DenizensStep
    <2> QED
        BY <1>2, <2>1, <2>2, <2>3 DEF Next, DeskVars
<1> QED
    BY <1>1, <1>2 DEF DInv

\* AuthorityWasReviewed: whatever is staged, confirmed, uninstalled, deleted,
\* recovered, saved and restarted, in any order and for any number of packs, a
\* subject is covered for no more than a review of its pack named, and a body
\* emits nothing of a ring it was not granted.
THEOREM HelpersWereReviewed == Spec => []AuthorityWasReviewed
<1>1. DInv => AuthorityWasReviewed
    BY DEF DInv, AInv, AuthorityWasReviewed
<1> QED
    BY <1>1, DenizensInductive, PTL DEF Spec, DeskVars

\* StartsKeepGrants: a start covers every resident for what its world records,
\* whatever chains it finds and whichever root it starts under, but for a pack
\* whose install ended between the two files and left an older chain that holds.
THEOREM StartsCoverResidents == Spec => StartsKeepGrants
<1>1. DInv /\ [Next]_DeskVars
        => [part = "denizens" /\ D!Restart => D!GrantsSurviveRestart]_<<part, denizensVars>>
    BY RestartKeeps DEF DInv
<1> QED
    BY <1>1, DenizensInductive, PTL DEF Spec, DeskVars, StartsKeepGrants

-----------------------------------------------------------------------------
(***************************************************************************)
(* The line and the pointer.  The rows of a line are of the install whose  *)
(* review is pending, and there is a button down for every drag.           *)
(***************************************************************************)
Labels == Session \cup Helper \cup {NoHelper, I!Nowhere}
Kinds == {"hint", "rename", "command", "confirm", "cancel", "switch", "node", "go"}
\* Rows that confirm nothing but the install staged.
RowsFor(p) == {r \in [kind : Kinds, of : Labels] :
                  /\ r.kind = "confirm" => r.of = p
                  /\ r.kind = "switch" => r.of \in Session}

\* The bytes before the k-th boundary.
Wide(text, k) == k + Cardinality({i \in 1..k : text[i] = "w"})

\* A line whose rows are of the install p: caret and highlight on it, if open.
LineIn(T, R) ==
    [open : BOOLEAN, mode : Session \cup {I!Nowhere}, text : T, cursor : Nat,
     rows : R, selected : Int]
LineOf(p) == LineIn(Seq(I!Chars), Seq(RowsFor(p)))
Sound(l) ==
    l.open => l.cursor \in I!Boundaries(l.text) /\ l.selected \in 0..(Len(l.rows) - 1)

LineInv ==
    /\ review \in Helper \cup {NoHelper} /\ session \in Session
    /\ line \in LineOf(review) /\ Sound(line)
    /\ I!ReviewedIsConfirmed

\* At most one drag for every button that is down but the one a page captured.
DragsHeld ==
    /\ drag \subseteq {"tab", "workbench seam", "seam"}
    /\ "left" \notin held /\ "middle" \notin held => drag = {}
    /\ "left" \notin held \/ "middle" \notin held => \A x, y \in drag : x = y
    /\ "tab" \notin drag \/ "workbench seam" \notin drag \/ "seam" \notin drag
    /\ capture \in Hosted =>
         /\ "left" \notin held \/ "middle" \notin held => drag = {}
         /\ \A x, y \in drag : x = y

JInv == LineInv /\ DragsHeld

-----------------------------------------------------------------------------
\* Input counts as the theorems do.
LEMMA SameCount == \A S : I!Cardinality(S) = Cardinality(S)
BY DEF I!Cardinality, Cardinality

\* A finite set has its elements in some order.
LEMMA OrderedSet ==
    ASSUME NEW S, IsFiniteSet(S)
    PROVE  I!SetToSeq(S) \in Seq(S)
<1>1. Cardinality(S) \in Nat /\ \E f \in [1..Cardinality(S) -> S] : IsInjective(f)
    BY FS_CardinalityType DEF ExistsBijection, Bijection, Injection
<1>2. I!Cardinality(S) \in Nat /\ \E f \in [1..I!Cardinality(S) -> S] : I!IsInjective(f)
    BY <1>1, SameCount DEF I!IsInjective, IsInjective
<1>3. I!SetToSeq(S) \in [1..I!Cardinality(S) -> S]
    BY <1>2 DEF I!SetToSeq
<1> QED
    BY <1>2, <1>3, SeqDef

\* The rows of the other sessions.
LEMMA SwitchRows ==
    ASSUME NEW p, NEW h \in Session
    PROVE  I!Switches(h) \in Seq(RowsFor(p))
<1> DEFINE S == {I!Row("switch", s) : s \in Session \ {h}}
<1>1. IsFiniteSet(Session \ {h})
    BY DeskAssumption, FS_RemoveElement
<1>2. IsFiniteSet(S)
    <2> DEFINE T == Session \ {h}
               f == [s \in T |-> I!Row("switch", s)]
    <2>1. f \in Surjection(T, S)
        BY DEF Surjection
    <2> QED
        BY <1>1, <2>1, FS_Surjection
<1>3. S \subseteq RowsFor(p)
    BY DEF RowsFor, I!Row, Kinds, Labels
<1>4. I!SetToSeq(S) \in Seq(S)
    BY <1>2, OrderedSet
<1> HIDE DEF S
<1>5. I!SetToSeq(S) \in Seq(RowsFor(p))
    BY <1>3, <1>4, SeqMonotonic
<1> QED
    BY <1>5 DEF S, I!Switches

\* The row that says what to type is a row of any install.
LEMMA HintRow == \A p : I!Hint \in RowsFor(p)
BY DEF I!Hint, I!Row, RowsFor, Kinds, Labels

\* What a line offers, of the install staged if of any.
LEMMA RowFacts ==
    ASSUME NEW text \in Seq(I!Chars), NEW p \in Helper \cup {NoHelper}, NEW h \in Session
    PROVE  I!Rows(text, p, h) \in Seq(RowsFor(p)) /\ Len(I!Rows(text, p, h)) \in Nat \ {0}
<1>1. I!Verbs \in Seq(RowsFor(p))
    BY DEF I!Verbs, I!Row, RowsFor, Kinds, Labels
<1>2. I!Switches(h) \in Seq(RowsFor(p))
    BY SwitchRows
<1>3. I!Catalog(p, h) \in Seq(RowsFor(p))
    <2> DEFINE first == IF p = NoHelper THEN <<>> ELSE <<I!Row("confirm", p), I!Row("cancel", p)>>
    <2>1. first \in Seq(RowsFor(p))
        <3>1. I!Row("confirm", p) \in RowsFor(p) /\ I!Row("cancel", p) \in RowsFor(p)
            BY DEF I!Row, RowsFor, Kinds, Labels
        <3> QED
            BY <3>1
    <2>2. I!Catalog(p, h) = first \o I!Switches(h) \o I!Verbs
        BY DEF I!Catalog
    <2> HIDE DEF first
    <2> QED
        BY <1>1, <1>2, <2>1, <2>2, ConcatProperties
<1>4. I!Row("node", h) \in RowsFor(p) /\ I!Row("go", I!Nowhere) \in RowsFor(p)
    BY DEF I!Row, RowsFor, Kinds, Labels
<1> DEFINE one == IF text = <<"w">> THEN <<I!Row("node", h)>> ELSE <<>>
           two == IF I!Contains(text, "/") THEN <<I!Row("go", I!Nowhere)>> ELSE <<>>
           lane == CASE Tail(text) = <<>> -> I!Catalog(p, h)
                     [] Tail(text) = <<"w">> -> I!Switches(h)
                     [] OTHER -> <<>>
           found == IF text = <<>> THEN <<>> ELSE IF Head(text) = ">" THEN lane ELSE one \o two
<1>5. one \in Seq(RowsFor(p)) /\ two \in Seq(RowsFor(p))
    BY <1>4
<1>6. one \o two \in Seq(RowsFor(p))
    <2> HIDE DEF one, two
    <2> QED
        BY <1>5, ConcatProperties
<1>7. lane \in Seq(RowsFor(p))
    BY <1>2, <1>3
<1>8. found \in Seq(RowsFor(p))
    <2> HIDE DEF one, two, lane
    <2> QED
        BY <1>6, <1>7
<1>9. I!Rows(text, p, h) = IF found = <<>> THEN <<I!Hint>> ELSE found
    BY DEF I!Rows
<1> HIDE DEF found
<1>10. CASE found = <<>>
    BY <1>9, <1>10, HintRow
<1>11. CASE found # <<>>
    BY <1>8, <1>9, <1>11, EmptySeq, LenProperties
<1> QED
    BY <1>10, <1>11

-----------------------------------------------------------------------------
\* Boundaries.
LEMMA WideFacts ==
    ASSUME NEW text, NEW k \in Nat
    PROVE  /\ Wide(text, k) \in Nat /\ Wide(text, 0) = 0
           /\ Wide(text, k + 1) = Wide(text, k) + I!Width(text[k + 1])
<1> DEFINE W(n) == {i \in 1..n : text[i] = "w"}
<1>1. IsFiniteSet(1..k) /\ IsFiniteSet(1..(k + 1))
    BY FS_Interval
<1>2. IsFiniteSet(W(k)) /\ Cardinality(W(k)) \in Nat
    <2>1. W(k) \subseteq 1..k
        OBVIOUS
    <2> QED
        BY <1>1, <2>1, FS_Subset, FS_CardinalityType
<1>3. W(0) = {} /\ Cardinality(W(0)) = 0
    BY FS_EmptySet
<1>4. W(k + 1) = IF text[k + 1] = "w" THEN W(k) \cup {k + 1} ELSE W(k)
    OBVIOUS
<1>5. k + 1 \notin W(k)
    OBVIOUS
<1>6. Cardinality(W(k + 1)) = IF text[k + 1] = "w" THEN Cardinality(W(k)) + 1 ELSE Cardinality(W(k))
    <2> DEFINE S == W(k)
    <2>1. Cardinality(S \cup {k + 1}) = Cardinality(S) + 1
        <3> HIDE DEF W
        <3> QED
            BY <1>2, <1>5, FS_AddElement
    <2> QED
        BY <1>4, <2>1
<1>7. Wide(text, k) = k + Cardinality(W(k)) /\ Wide(text, k + 1) = k + 1 + Cardinality(W(k + 1))
      /\ Wide(text, 0) = 0 + Cardinality(W(0))
    BY DEF Wide
<1> HIDE DEF W
<1> QED
    BY <1>2, <1>3, <1>6, <1>7 DEF I!Width

\* Texts that begin alike have their first boundaries in common.
LEMMA WideSame ==
    ASSUME NEW text, NEW other, NEW k \in Nat, \A i \in 1..k : text[i] = other[i]
    PROVE  Wide(text, k) = Wide(other, k)
<1>1. {i \in 1..k : text[i] = "w"} = {i \in 1..k : other[i] = "w"}
    OBVIOUS
<1> QED
    BY <1>1 DEF Wide

\* The program's byte counts and boundaries, in terms of Wide.
LEMMA BytesFacts ==
    ASSUME NEW text \in Seq(I!Chars)
    PROVE  /\ I!Bytes(text) = Wide(text, Len(text))
           /\ \A k \in 0..Len(text) : I!Bytes(SubSeq(text, 1, k)) = Wide(text, k)
           /\ I!Boundaries(text) = {Wide(text, k) : k \in 0..Len(text)}
<1>1. Len(text) \in Nat /\ DOMAIN text = 1..Len(text)
    OBVIOUS
<1>2. I!Bytes(text) = Wide(text, Len(text))
    BY <1>1, SameCount DEF I!Bytes, Wide
<1>3. ASSUME NEW k \in 0..Len(text)
      PROVE  I!Bytes(SubSeq(text, 1, k)) = Wide(text, k)
    <2> DEFINE t == SubSeq(text, 1, k)
    <2>1. Len(t) = k /\ DOMAIN t = 1..k /\ \A i \in 1..k : t[i] = text[i]
        BY <1>1
    <2> HIDE DEF t
    <2>2. {i \in DOMAIN t : t[i] = "w"} = {i \in 1..k : text[i] = "w"}
        BY <2>1
    <2>3. I!Bytes(t) = k + Cardinality({i \in 1..k : text[i] = "w"})
        BY <2>1, <2>2, SameCount DEF I!Bytes
    <2> QED
        BY <2>3 DEF t, Wide
<1>4. I!Boundaries(text) = {Wide(text, k) : k \in 0..Len(text)}
    BY <1>3 DEF I!Boundaries
<1> QED
    BY <1>2, <1>3, <1>4

\* The characters before a caret that is on a boundary.
LEMMA BeforeFacts ==
    ASSUME NEW text \in Seq(I!Chars), NEW c \in I!Boundaries(text)
    PROVE  I!Before(text, c) \in 0..Len(text) /\ Wide(text, I!Before(text, c)) = c
<1>1. \E k \in 0..Len(text) : I!Bytes(SubSeq(text, 1, k)) = c
    BY DEF I!Boundaries
<1>2. I!Before(text, c) \in 0..Len(text) /\ I!Bytes(SubSeq(text, 1, I!Before(text, c))) = c
    BY <1>1 DEF I!Before
<1> QED
    BY <1>2, BytesFacts

\* What is put behind a sequence leaves it as it was.
LEMMA Joined ==
    ASSUME NEW S, NEW u \in Seq(S), NEW v \in Seq(S)
    PROVE  /\ u \o v \in Seq(S) /\ Len(u \o v) = Len(u) + Len(v)
           /\ \A i \in 1..Len(u) : (u \o v)[i] = u[i]
OBVIOUS

\* A character more, or one less.
LEMMA TextFacts ==
    ASSUME NEW text \in Seq(I!Chars), NEW k \in 0..Len(text)
    PROVE  /\ \A c \in I!Chars :
                /\ I!InsertAt(text, k + 1, c) \in Seq(I!Chars)
                /\ Len(I!InsertAt(text, k + 1, c)) = Len(text) + 1
                /\ I!InsertAt(text, k + 1, c)[k + 1] = c
                /\ \A i \in 1..k : I!InsertAt(text, k + 1, c)[i] = text[i]
           /\ k < Len(text) =>
                /\ I!RemoveAt(text, k + 1) \in Seq(I!Chars)
                /\ Len(I!RemoveAt(text, k + 1)) = Len(text) - 1
                /\ \A i \in 1..k : I!RemoveAt(text, k + 1)[i] = text[i]
<1> DEFINE a == SubSeq(text, 1, k)
           b == SubSeq(text, k + 1, Len(text))
           d == SubSeq(text, k + 2, Len(text))
<1>1. /\ a \in Seq(I!Chars) /\ Len(a) = k /\ \A i \in 1..k : a[i] = text[i]
      /\ b \in Seq(I!Chars) /\ Len(b) = Len(text) - k
      /\ k < Len(text) => d \in Seq(I!Chars) /\ Len(d) = Len(text) - k - 1
    BY SubSeqProperties
<1>2. ASSUME NEW c \in I!Chars
      PROVE  /\ I!InsertAt(text, k + 1, c) \in Seq(I!Chars)
             /\ Len(I!InsertAt(text, k + 1, c)) = Len(text) + 1
             /\ I!InsertAt(text, k + 1, c)[k + 1] = c
             /\ \A i \in 1..k : I!InsertAt(text, k + 1, c)[i] = text[i]
    <2> DEFINE e == a \o <<c>>
    <2>1. I!InsertAt(text, k + 1, c) = e \o b
        <3>1. (k + 1) - 1 = k
            OBVIOUS
        <3> QED
            BY <3>1 DEF I!InsertAt
    <2> HIDE DEF b
    <2>2. e \in Seq(I!Chars) /\ Len(e) = k + 1 /\ e[k + 1] = c /\ \A i \in 1..k : e[i] = text[i]
        <3> HIDE DEF a
        <3> QED
            BY <1>1
    <2> HIDE DEF e
    <2>3. e \o b \in Seq(I!Chars) /\ Len(e \o b) = Len(e) + Len(b) /\ \A i \in 1..Len(e) : (e \o b)[i] = e[i]
        BY <1>1, <2>2, Joined
    <2>4. k + 1 \in 1..Len(e) /\ (\A i \in 1..k : i \in 1..Len(e)) /\ Len(e) + Len(b) = Len(text) + 1
        BY <1>1, <2>2
    <2> QED
        BY <2>1, <2>2, <2>3, <2>4
<1>3. ASSUME k < Len(text)
      PROVE  /\ I!RemoveAt(text, k + 1) \in Seq(I!Chars)
             /\ Len(I!RemoveAt(text, k + 1)) = Len(text) - 1
             /\ \A i \in 1..k : I!RemoveAt(text, k + 1)[i] = text[i]
    <2>1. I!RemoveAt(text, k + 1) = a \o d
        <3>1. (k + 1) - 1 = k /\ (k + 1) + 1 = k + 2
            OBVIOUS
        <3> QED
            BY <3>1 DEF I!RemoveAt
    <2> HIDE DEF a, d
    <2>2. a \o d \in Seq(I!Chars) /\ Len(a \o d) = Len(a) + Len(d) /\ \A i \in 1..Len(a) : (a \o d)[i] = a[i]
        BY <1>1, <1>3, Joined
    <2>3. Len(a) = k /\ Len(a) + Len(d) = Len(text) - 1
        BY <1>1, <1>3
    <2> QED
        BY <1>1, <2>1, <2>2, <2>3
<1> QED
    BY <1>2, <1>3

-----------------------------------------------------------------------------
\* The line.
LEMMA ShutFacts == \A p : I!Shut \in LineOf(p) /\ Sound(I!Shut)
BY DEF I!Shut, LineOf, LineIn, Sound

\* What an assignment to one field of a line leaves of the others.
LEMMA RowsChanged ==
    ASSUME NEW T, NEW R, NEW Q, NEW l \in LineIn(T, R), NEW rows \in Q
    PROVE  /\ [l EXCEPT !.rows = rows] \in LineIn(T, Q)
           /\ [l EXCEPT !.rows = rows].open = l.open
           /\ [l EXCEPT !.rows = rows].text = l.text
           /\ [l EXCEPT !.rows = rows].cursor = l.cursor
           /\ [l EXCEPT !.rows = rows].rows = rows
           /\ [l EXCEPT !.rows = rows].selected = l.selected
BY DEF LineIn

\* The same, of the highlight.
LEMMA SelectedChanged ==
    ASSUME NEW T, NEW R, NEW l \in LineIn(T, R), NEW s \in Int
    PROVE  /\ [l EXCEPT !.selected = s] \in LineIn(T, R)
           /\ [l EXCEPT !.selected = s].open = l.open
           /\ [l EXCEPT !.selected = s].text = l.text
           /\ [l EXCEPT !.selected = s].cursor = l.cursor
           /\ [l EXCEPT !.selected = s].rows = l.rows
           /\ [l EXCEPT !.selected = s].selected = s
BY DEF LineIn

\* The same, of the caret.
LEMMA CaretChanged ==
    ASSUME NEW T, NEW R, NEW l \in LineIn(T, R), NEW c \in Nat
    PROVE  /\ [l EXCEPT !.cursor = c] \in LineIn(T, R)
           /\ [l EXCEPT !.cursor = c].open = l.open
           /\ [l EXCEPT !.cursor = c].text = l.text
           /\ [l EXCEPT !.cursor = c].cursor = c
           /\ [l EXCEPT !.cursor = c].rows = l.rows
           /\ [l EXCEPT !.cursor = c].selected = l.selected
BY DEF LineIn

\* The same, of the text.
LEMMA TextChanged ==
    ASSUME NEW T, NEW R, NEW l \in LineIn(T, R), NEW t \in T
    PROVE  /\ [l EXCEPT !.text = t] \in LineIn(T, R)
           /\ [l EXCEPT !.text = t].text = t
           /\ [l EXCEPT !.text = t].open = l.open
           /\ [l EXCEPT !.text = t].selected = l.selected
BY DEF LineIn

\* The same, of a line that is opened.
LEMMA OpenChanged ==
    ASSUME NEW T, NEW R, NEW l \in LineIn(T, R)
    PROVE  /\ [l EXCEPT !.open = TRUE] \in LineIn(T, R)
           /\ [l EXCEPT !.open = TRUE].selected = l.selected /\ [l EXCEPT !.open = TRUE].open
           /\ [l EXCEPT !.open = TRUE].text = l.text
           /\ [l EXCEPT !.open = TRUE].cursor = l.cursor
BY DEF LineIn

\* The same, of the mode.
LEMMA ModeChanged ==
    ASSUME NEW T, NEW R, NEW l \in LineIn(T, R), NEW b \in Session \cup {I!Nowhere}
    PROVE  /\ [l EXCEPT !.mode = b] \in LineIn(T, R)
           /\ [l EXCEPT !.mode = b].selected = l.selected
           /\ [l EXCEPT !.mode = b].text = l.text
           /\ [l EXCEPT !.mode = b].cursor = l.cursor
BY DEF LineIn

\* Two assignments are one after the other.
LEMMA Twice ==
    ASSUME NEW T, NEW R, NEW Q, NEW l \in LineIn(T, R), NEW rows \in Q, NEW s \in Int
    PROVE  [l EXCEPT !.rows = rows, !.selected = s] = [[l EXCEPT !.rows = rows] EXCEPT !.selected = s]
BY DEF LineIn

\* The line after a step, from what the step made of it.
LEMMA LineNow ==
    ASSUME NEW l, line' = l, NEW p \in Helper \cup {NoHelper}, review' = p, session' \in Session,
           l \in LineOf(p), Sound(l), granted' = <<>>
    PROVE  LineInv'
BY DEF LineInv, I!ReviewedIsConfirmed, LineOf, LineIn, Sound, RowsFor

\* Recomputing gives rows of the install staged and keeps the highlight on one.
LEMMA RecomputedFacts ==
    ASSUME NEW p \in Helper \cup {NoHelper}, NEW h \in Session, NEW q, NEW l \in LineOf(q),
           l.selected \in Nat, l.cursor \in I!Boundaries(l.text)
    PROVE  I!Recomputed(l, p, h) \in LineOf(p) /\ Sound(I!Recomputed(l, p, h))
<1> DEFINE rows == IF l.mode = I!Nowhere THEN I!Rows(l.text, p, h) ELSE <<I!Hint>>
           s == I!Least(l.selected, Len(rows) - 1)
<1>1. rows \in Seq(RowsFor(p)) /\ Len(rows) \in Nat \ {0}
    <2>1. l.text \in Seq(I!Chars)
        BY DEF LineOf, LineIn
    <2> QED
        BY <2>1, RowFacts, HintRow
<1>2. I!Recomputed(l, p, h) = [l EXCEPT !.rows = rows, !.selected = s]
    BY DEF I!Recomputed, LineOf, LineIn
<1> HIDE DEF rows
<1>3. s \in 0..(Len(rows) - 1)
    BY <1>1 DEF I!Least
<1> HIDE DEF s
<1>4. s \in Int
    BY <1>1, <1>3
<1> DEFINE o == [l EXCEPT !.rows = rows]
           m == [o EXCEPT !.selected = s]
<1>5. I!Recomputed(l, p, h) = m
    BY <1>1, <1>2, <1>4, Twice DEF LineOf
<1>6. /\ o \in LineOf(p) /\ o.open = l.open /\ o.text = l.text /\ o.cursor = l.cursor
      /\ o.rows = rows
    BY <1>1, RowsChanged DEF LineOf
<1> HIDE DEF o
<1>7. /\ m \in LineOf(p) /\ m.open = o.open /\ m.text = o.text /\ m.cursor = o.cursor
      /\ m.rows = o.rows /\ m.selected = s
    BY <1>4, <1>6, SelectedChanged DEF LineOf
<1> HIDE DEF m
<1>8. Sound(m)
    BY <1>3, <1>6, <1>7 DEF Sound
<1> QED
    BY <1>5, <1>7, <1>8

\* A line opened on a text of the program's own is sound.
LEMMA OpenedFacts ==
    ASSUME NEW p \in Helper \cup {NoHelper}, NEW h \in Session,
           NEW text \in {<<>>, <<">">>}, NEW c \in {0, I!Bytes(text)}
    PROVE  I!Opened(text, c, p, h) \in LineOf(p) /\ Sound(I!Opened(text, c, p, h))
<1>1. text \in Seq(I!Chars)
    <2>1. ">" \in I!Chars
        BY DEF I!Chars
    <2>2. CASE text = <<>>
        BY <2>2
    <2>3. CASE text = <<">">>
        BY <2>1, <2>3
    <2> QED
        BY <2>2, <2>3
<1>2. /\ c \in I!Boundaries(text) /\ c \in Nat
    <2>1. Len(text) \in 0..Len(text) /\ 0 \in 0..Len(text) /\ Len(text) \in Nat
        BY <1>1
    <2>2. I!Bytes(text) = Wide(text, Len(text)) /\ I!Boundaries(text) = {Wide(text, k) : k \in 0..Len(text)}
        BY <1>1, BytesFacts
    <2>3. Wide(text, Len(text)) \in Nat /\ Wide(text, 0) = 0
        BY <2>1, WideFacts
    <2> QED
        BY <2>1, <2>2, <2>3
<1> DEFINE sh == I!Shut
           a == [sh EXCEPT !.open = TRUE]
           b == [a EXCEPT !.text = text]
           l == [b EXCEPT !.cursor = c]
<1>3. sh \in LineOf(p) /\ sh.selected = 0
    BY ShutFacts DEF I!Shut
<1>4. I!Opened(text, c, p, h) = I!Recomputed(l, p, h)
    <2>1. [I!Shut EXCEPT !.open = TRUE, !.text = text, !.cursor = c] = l
        <3> HIDE DEF sh
        <3>1. [sh EXCEPT !.open = TRUE, !.text = text, !.cursor = c] = l
            BY <1>1, <1>2, <1>3 DEF LineOf, LineIn
        <3> QED
            BY <3>1 DEF sh
    <2> QED
        BY <2>1 DEF I!Opened
<1> HIDE DEF sh
<1>5. a \in LineOf(p) /\ a.selected = 0
    BY <1>3, OpenChanged DEF LineOf
<1> HIDE DEF a
<1>6. b \in LineOf(p) /\ b.selected = 0 /\ b.text = text
    BY <1>1, <1>5, TextChanged DEF LineOf
<1> HIDE DEF b
<1>7. l \in LineOf(p) /\ l.selected = 0 /\ l.text = text /\ l.cursor = c
    BY <1>2, <1>6, CaretChanged DEF LineOf
<1> HIDE DEF l
<1>8. l.selected \in Nat /\ l.cursor \in I!Boundaries(l.text)
    BY <1>2, <1>7
<1> QED
    BY <1>4, <1>7, <1>8, RecomputedFacts

\* An edit with the caret on a boundary of the new text.
LEMMA EditedKeeps ==
    ASSUME LineInv, NEW text \in Seq(I!Chars), NEW c \in I!Boundaries(text), c \in Nat, I!Edited(text, c),
           UNCHANGED <<review, session>>, granted' = <<>>
    PROVE  LineInv'
<1> DEFINE a == [line EXCEPT !.text = text]
           b == [a EXCEPT !.cursor = c]
           l == [b EXCEPT !.selected = 0]
<1>1. line \in LineOf(review)
    BY DEF LineInv
<1>2. [line EXCEPT !.text = text, !.cursor = c, !.selected = 0] = l
    BY <1>1 DEF LineOf, LineIn
<1>3. a \in LineOf(review) /\ a.text = text
    BY <1>1, TextChanged DEF LineOf
<1>4. line' = I!Recomputed(l, review, session)
    BY <1>2 DEF I!Edited
<1> HIDE DEF a
<1>5. b \in LineOf(review) /\ b.text = text /\ b.cursor = c
    BY <1>3, CaretChanged DEF LineOf
<1> HIDE DEF b
<1>6. l \in LineOf(review) /\ l.text = text /\ l.cursor = c /\ l.selected = 0
    BY <1>5, SelectedChanged DEF LineOf
<1> HIDE DEF l
<1>7. l.selected \in Nat /\ l.cursor \in I!Boundaries(l.text)
    BY <1>6
<1>8. line' \in LineOf(review) /\ Sound(line')
    BY <1>4, <1>6, <1>7, RecomputedFacts DEF LineInv
<1> QED
    BY <1>8, LineNow DEF LineInv
-----------------------------------------------------------------------------
\* A step that leaves the line, the review and the session alone.
LEMMA LineStays ==
    ASSUME LineInv, UNCHANGED <<line, review, session>>, granted' = <<>>
    PROVE  LineInv'
BY LineNow DEF LineInv

\* A step that shuts the line.
LEMMA ShutKeeps ==
    ASSUME LineInv, line' = I!Shut, review' \in {review, NoHelper}, session' \in Session, granted' = <<>>
    PROVE  LineInv'
<1>1. review' \in Helper \cup {NoHelper}
    BY DEF LineInv
<1>2. I!Shut \in LineOf(review') /\ Sound(I!Shut)
    BY ShutFacts
<1> DEFINE p == review'
<1>3. p \in Helper \cup {NoHelper} /\ I!Shut \in LineOf(p) /\ review' = p
    BY <1>1, <1>2
<1> HIDE DEF p
<1> QED
    BY <1>2, <1>3, LineNow

\* The line is opened on a text of its own, the caret at either end.
LEMMA OpenedKeeps ==
    ASSUME LineInv, NEW p \in Helper \cup {NoHelper}, NEW text \in {<<>>, <<">">>},
           NEW c \in {0, I!Bytes(text)}, line' = I!Opened(text, c, p, session),
           review' = p, session' = session, granted' = <<>>
    PROVE  LineInv'
<1>1. session \in Session
    BY DEF LineInv
<1> DEFINE l == I!Opened(text, c, p, session)
<1>2. l \in LineOf(p) /\ Sound(l)
    BY <1>1, OpenedFacts
<1> HIDE DEF l
<1>3. line' = l
    BY DEF l
<1> QED
    BY <1>1, <1>2, <1>3, LineNow

\* The line is summoned.
LEMMA OpenKeeps ==
    ASSUME LineInv, NEW command \in BOOLEAN, I!OmnibarOpen(command)
    PROVE  LineInv'
<1> DEFINE text == IF command THEN <<">">> ELSE <<>>
<1>1. /\ text \in {<<>>, <<">">>} /\ line' = I!Opened(text, I!Bytes(text), review, session)
      /\ review' = review /\ session' = session /\ granted' = <<>>
    BY DEF I!OmnibarOpen, I!Ungranted
<1> HIDE DEF text
<1>2. review \in Helper \cup {NoHelper}
    BY DEF LineInv
<1> DEFINE p == review
<1>3. review' = p /\ p \in Helper \cup {NoHelper} /\ line' = I!Opened(text, I!Bytes(text), p, session)
    BY <1>1, <1>2
<1> HIDE DEF p
<1> QED
    BY <1>1, <1>3, OpenedKeeps

\* A pack is dropped: its review takes the place of any other, and so do its rows.
LEMMA InstallKeeps ==
    ASSUME LineInv, NEW p \in Helper, I!InstallDenizen(p)
    PROVE  LineInv'
<1> DEFINE text == <<">">>
<1>1. /\ text \in {<<>>, <<">">>} /\ line' = I!Opened(text, 0, p, session)
      /\ review' = p /\ session' = session /\ granted' = <<>>
    BY DEF I!InstallDenizen, I!Ungranted
<1> HIDE DEF text
<1> QED
    BY <1>1, OpenedKeeps

\* The line is dismissed.
LEMMA CloseKeeps ==
    ASSUME LineInv, I!OmnibarClose
    PROVE  LineInv'
BY ShutKeeps DEF I!OmnibarClose, I!Ungranted, LineInv

\* Another session is adopted, without a review.
LEMMA AdoptedKeeps ==
    ASSUME LineInv, NEW s \in Session, I!Adopted(s), granted' = <<>>
    PROVE  LineInv'
BY ShutKeeps DEF I!Adopted

-----------------------------------------------------------------------------
\* A new text with the caret behind its k-th character.
LEMMA CaretOn ==
    ASSUME NEW text \in Seq(I!Chars), NEW k \in 0..Len(text)
    PROVE  Wide(text, k) \in I!Boundaries(text) /\ Wide(text, k) \in Nat
<1>1. Wide(text, k) \in Nat
    BY WideFacts
<1> QED
    BY <1>1, BytesFacts

\* What the invariant says of the line's fields.
LEMMA LineFacts ==
    ASSUME LineInv
    PROVE  /\ line.text \in Seq(I!Chars) /\ line.rows \in Seq(RowsFor(review))
           /\ line.cursor \in Nat /\ line.selected \in Int
           /\ line.open => /\ line.cursor \in I!Boundaries(line.text)
                           /\ line.selected \in 0..(Len(line.rows) - 1)
BY DEF LineInv, LineOf, LineIn, Sound

\* The caret is behind some character of the text.
LEMMA CaretFacts ==
    ASSUME LineInv, line.open
    PROVE  /\ I!Before(line.text, line.cursor) \in 0..Len(line.text)
           /\ Wide(line.text, I!Before(line.text, line.cursor)) = line.cursor
BY LineFacts, BeforeFacts

\* A character is inserted, the caret behind it.
LEMMA InsertKeeps ==
    ASSUME LineInv, line.open, NEW c \in I!Chars, I!OmnibarInsert(c)
    PROVE  LineInv'
<1> DEFINE text == line.text
           k == I!Before(line.text, line.cursor)
           new == I!InsertAt(text, k + 1, c)
           caret == line.cursor + I!Width(c)
<1>1. text \in Seq(I!Chars) /\ k \in 0..Len(text) /\ Wide(text, k) = line.cursor
    BY LineFacts, CaretFacts
<1>2. I!Edited(new, caret) /\ UNCHANGED <<review, session>> /\ granted' = <<>>
    BY DEF I!OmnibarInsert, I!Ungranted
<1> HIDE DEF text, k
<1>3. /\ new \in Seq(I!Chars) /\ Len(new) = Len(text) + 1 /\ new[k + 1] = c
      /\ \A i \in 1..k : text[i] = new[i]
    BY <1>1, TextFacts
<1> HIDE DEF new
<1>4. k \in Nat /\ Wide(text, k) = Wide(new, k)
    <2>1. k \in Nat
        BY <1>1
    <2> QED
        BY <2>1, <1>3, WideSame
<1>5. caret = Wide(new, k + 1)
    <2>1. Wide(new, k + 1) = Wide(new, k) + I!Width(new[k + 1])
        BY <1>4, WideFacts
    <2> QED
        BY <1>1, <1>3, <1>4, <2>1
<1> HIDE DEF caret
<1>6. k + 1 \in 0..Len(new)
    BY <1>1, <1>3
<1>7. caret \in I!Boundaries(new) /\ caret \in Nat
    BY <1>3, <1>5, <1>6, CaretOn
<1> QED
    BY <1>2, <1>3, <1>7, EditedKeeps

\* A character less behind the k-th.
LEMMA Removed ==
    ASSUME NEW text \in Seq(I!Chars), NEW k \in 0..Len(text), k < Len(text)
    PROVE  /\ I!RemoveAt(text, k + 1) \in Seq(I!Chars)
           /\ Wide(text, k) \in I!Boundaries(I!RemoveAt(text, k + 1))
<1> DEFINE new == I!RemoveAt(text, k + 1)
<1>1. /\ new \in Seq(I!Chars) /\ Len(new) = Len(text) - 1
      /\ \A i \in 1..k : text[i] = new[i]
    BY TextFacts
<1> HIDE DEF new
<1>2. k \in Nat /\ k \in 0..Len(new)
    BY <1>1
<1>3. Wide(text, k) = Wide(new, k)
    BY <1>1, <1>2, WideSame
<1>4. Wide(new, k) \in I!Boundaries(new)
    BY <1>1, <1>2, CaretOn
<1> QED
    BY <1>1, <1>3, <1>4 DEF new

\* The character before the caret goes.
LEMMA BackspaceKeeps ==
    ASSUME LineInv, line.open, I!OmnibarBackspace
    PROVE  LineInv'
<1> DEFINE text == line.text
           k == I!Before(line.text, line.cursor)
           caret == line.cursor - I!Width(text[k])
<1>1. text \in Seq(I!Chars) /\ k \in 0..Len(text) /\ Wide(text, k) = line.cursor
    BY LineFacts, CaretFacts
<1>2. /\ IF k = 0 THEN UNCHANGED line ELSE I!Edited(I!RemoveAt(text, k), caret)
      /\ UNCHANGED <<review, session>> /\ granted' = <<>>
    BY DEF I!OmnibarBackspace, I!Ungranted
<1>3. CASE k = 0
    BY <1>2, <1>3, LineStays
<1>4. CASE k # 0
    <2> HIDE DEF text, k
    <2> DEFINE j == k - 1
    <2>1. j \in Nat /\ j \in 0..Len(text) /\ j < Len(text) /\ j + 1 = k
        BY <1>1, <1>4
    <2> HIDE DEF j
    <2>2. Wide(text, k) = Wide(text, j) + I!Width(text[k]) /\ Wide(text, j) \in Nat
        BY <2>1, WideFacts
    <2>3. I!Width(text[k]) \in Nat
        BY DEF I!Width
    <2>4. caret = Wide(text, j)
        BY <1>1, <2>2, <2>3
    <2> HIDE DEF caret
    <2>5. I!RemoveAt(text, k) \in Seq(I!Chars) /\ caret \in I!Boundaries(I!RemoveAt(text, k)) /\ caret \in Nat
        BY <1>1, <2>1, <2>2, <2>4, Removed
    <2> QED
        BY <1>2, <1>4, <2>5, EditedKeeps
<1> QED
    BY <1>3, <1>4

\* The character behind the caret goes.
LEMMA DeleteKeepsLine ==
    ASSUME LineInv, line.open, I!OmnibarDelete
    PROVE  LineInv'
<1> DEFINE text == line.text
           k == I!Before(line.text, line.cursor)
<1>1. text \in Seq(I!Chars) /\ k \in 0..Len(text) /\ Wide(text, k) = line.cursor /\ line.cursor \in Nat
    BY LineFacts, CaretFacts
<1>2. /\ IF k = Len(text) THEN UNCHANGED line ELSE I!Edited(I!RemoveAt(text, k + 1), line.cursor)
      /\ UNCHANGED <<review, session>> /\ granted' = <<>>
    BY DEF I!OmnibarDelete, I!Ungranted
<1>3. CASE k = Len(text)
    BY <1>2, <1>3, LineStays
<1>4. CASE k # Len(text)
    <2> HIDE DEF text, k
    <2>1. I!RemoveAt(text, k + 1) \in Seq(I!Chars) /\ line.cursor \in I!Boundaries(I!RemoveAt(text, k + 1))
        <3>1. k < Len(text)
            BY <1>1, <1>4
        <3> QED
            BY <1>1, <3>1, Removed
    <2> QED
        BY <1>1, <1>2, <1>4, <2>1, EditedKeeps
<1> QED
    BY <1>3, <1>4

\* The caret is put on a boundary of the text as it is.
LEMMA CaretSet ==
    ASSUME LineInv, NEW c \in Nat, c \in I!Boundaries(line.text), line' = [line EXCEPT !.cursor = c],
           UNCHANGED <<review, session>>, granted' = <<>>
    PROVE  LineInv'
<1> DEFINE l == [line EXCEPT !.cursor = c]
<1>1. line \in LineOf(review) /\ Sound(line)
    BY DEF LineInv
<1>2. /\ l \in LineOf(review) /\ l.open = line.open /\ l.text = line.text /\ l.cursor = c
      /\ l.rows = line.rows /\ l.selected = line.selected
    BY <1>1, CaretChanged DEF LineOf
<1>3. line' = l
    OBVIOUS
<1> HIDE DEF l
<1>4. Sound(l)
    BY <1>1, <1>2 DEF Sound
<1> QED
    BY <1>2, <1>3, <1>4, LineNow DEF LineInv

\* The caret moves by a character or to an end.
LEMMA CaretKeeps ==
    ASSUME LineInv, line.open, NEW move \in {"left", "right", "home", "end"}, I!OmnibarCaret(move)
    PROVE  LineInv'
<1> DEFINE text == line.text
           k == I!Before(line.text, line.cursor)
           caret == CASE move = "home" -> 0
                      [] move = "end" -> I!Bytes(text)
                      [] move = "left" -> IF k = 0 THEN 0 ELSE line.cursor - I!Width(text[k])
                      [] move = "right" -> IF k = Len(text) THEN line.cursor
                                           ELSE line.cursor + I!Width(text[k + 1])
<1>1. text \in Seq(I!Chars) /\ k \in 0..Len(text) /\ Wide(text, k) = line.cursor /\ line.cursor \in Nat
      /\ Len(text) \in Nat
    BY LineFacts, CaretFacts
<1>2. line' = [line EXCEPT !.cursor = caret] /\ UNCHANGED <<review, session>> /\ granted' = <<>>
    BY DEF I!OmnibarCaret, I!Ungranted
<1>3. text = line.text
    OBVIOUS
<1> HIDE DEF text, k
<1>4. \E j \in 0..Len(text) : caret = Wide(text, j)
    <2>1. CASE move = "home"
        <3>1. Wide(text, 0) = 0 /\ 0 \in 0..Len(text)
            BY <1>1, WideFacts
        <3> QED
            BY <2>1, <3>1
    <2>2. CASE move = "end"
        <3>1. I!Bytes(text) = Wide(text, Len(text)) /\ Len(text) \in 0..Len(text)
            BY <1>1, BytesFacts
        <3> QED
            BY <2>2, <3>1
    <2>3. CASE move = "left"
        <3>1. CASE k = 0
            BY <1>1, <2>3, <3>1, WideFacts
        <3>2. CASE k # 0
            <4> DEFINE j == k - 1
            <4>1. j \in Nat /\ j \in 0..Len(text) /\ j + 1 = k
                BY <1>1, <3>2
            <4> HIDE DEF j
            <4>2. Wide(text, k) = Wide(text, j) + I!Width(text[k]) /\ Wide(text, j) \in Nat
                BY <4>1, WideFacts
            <4>3. I!Width(text[k]) \in Nat
                BY DEF I!Width
            <4>4. caret = line.cursor - I!Width(text[k])
                BY <2>3, <3>2
            <4>5. caret = Wide(text, j)
                BY <1>1, <4>2, <4>3, <4>4
            <4> QED
                BY <4>1, <4>5
        <3> QED
            BY <3>1, <3>2
    <2>4. CASE move = "right"
        <3>1. CASE k = Len(text)
            <4>1. caret = line.cursor
                BY <2>4, <3>1
            <4> QED
                BY <1>1, <4>1
        <3>2. CASE k # Len(text)
            <4>1. k + 1 \in 0..Len(text) /\ k \in Nat
                BY <1>1, <3>2
            <4>2. Wide(text, k + 1) = Wide(text, k) + I!Width(text[k + 1])
                BY <4>1, WideFacts
            <4>3. caret = line.cursor + I!Width(text[k + 1])
                BY <2>4, <3>2
            <4>4. caret = Wide(text, k + 1)
                BY <1>1, <4>2, <4>3
            <4> QED
                BY <4>1, <4>4
        <3> QED
            BY <3>1, <3>2
    <2> QED
        BY <2>1, <2>2, <2>3, <2>4
<1> HIDE DEF caret
<1>5. caret \in I!Boundaries(line.text) /\ caret \in Nat
    BY <1>1, <1>3, <1>4, CaretOn
<1> QED
    BY <1>2, <1>5, CaretSet

\* The highlight moves, around the ends.
LEMMA MoveKeeps ==
    ASSUME LineInv, line.open, NEW delta \in {-1, 1}, I!OmnibarMove(delta)
    PROVE  LineInv'
<1> DEFINE n == Len(line.rows)
           s == (line.selected + delta) % n
           l == [line EXCEPT !.selected = s]
<1>1. /\ line \in LineOf(review) /\ line.cursor \in I!Boundaries(line.text) /\ n \in Nat
      /\ line.selected \in 0..(n - 1) /\ line.selected \in Int
    <2>1. line \in LineOf(review)
        BY DEF LineInv
    <2> QED
        BY <2>1, LineFacts
<1>2. s \in 0..(n - 1)
    <2> HIDE DEF n
    <2>1. line.selected + delta \in Int /\ n > 0
        BY <1>1
    <2> QED
        BY <1>1, <2>1
<1>3. UNCHANGED <<review, session>> /\ granted' = <<>> /\ line' \in {line, l}
    BY DEF I!OmnibarMove, I!Ungranted
<1>4. CASE line' = line
    BY <1>3, <1>4, LineStays
<1>5. CASE line' = l
    <2>1. s \in Int
        BY <1>1, <1>2
    <2>2. n = Len(line.rows)
        OBVIOUS
    <2> HIDE DEF n, s
    <2>3. /\ l \in LineOf(review) /\ l.text = line.text /\ l.cursor = line.cursor
          /\ l.rows = line.rows /\ l.selected = s
        BY <1>1, <2>1, SelectedChanged DEF LineOf
    <2> HIDE DEF l
    <2>4. Sound(l)
        BY <1>1, <1>2, <2>2, <2>3 DEF Sound
    <2> QED
        BY <1>3, <1>5, <2>3, <2>4, LineNow DEF LineInv
<1> QED
    BY <1>3, <1>4, <1>5

-----------------------------------------------------------------------------
\* The arm of a row of the line, the return key having taken what it shows.
LEMMA LoweredKeeps ==
    ASSUME LineInv, NEW row \in RowsFor(review), NEW seen, seen = I!Hint \/ seen = row,
           I!Lowered(row, seen)
    PROVE  LineInv'
<1>1. CASE /\ row.kind = "confirm"
           /\ review' = NoHelper /\ line' = I!Shut
           /\ granted' = IF review = NoHelper \/ seen = I!Hint THEN <<>>
                         ELSE <<[done |-> review, shown |-> seen.of]>>
           /\ UNCHANGED <<session, live>>
    <2>1. I!ReviewedIsConfirmed'
        <3>1. CASE granted' = <<>>
            BY <3>1 DEF I!ReviewedIsConfirmed
        <3>2. CASE granted' = <<[done |-> review, shown |-> seen.of]>> /\ seen = row
            <4>1. row.of = review
                BY <1>1 DEF RowsFor
            <4>2. granted'[1] = [done |-> review, shown |-> review]
                BY <3>2, <4>1
            <4> QED
                BY <4>2 DEF I!ReviewedIsConfirmed
        <3> QED
            BY <1>1, <3>1, <3>2
    <2>2. line' \in LineOf(NoHelper) /\ Sound(line')
        BY <1>1, ShutFacts
    <2>3. (line \in LineOf(review) /\ Sound(line))'
        BY <1>1, <2>2 DEF Sound, LineOf, LineIn, RowsFor
    <2> QED
        BY <1>1, <2>1, <2>3 DEF LineInv
<1>2. CASE /\ line' = I!Shut /\ review' \in {review, NoHelper} /\ session' = session /\ granted' = <<>>
    BY <1>2, ShutKeeps DEF LineInv
<1>3. CASE row.kind = "switch" /\ I!Adopted(row.of) /\ granted' = <<>>
    <2>1. row.of \in Session
        BY <1>3 DEF RowsFor
    <2> QED
        BY <1>3, <2>1, AdoptedKeeps
<1>4. CASE /\ line' = I!Recomputed([I!Shut EXCEPT !.open = TRUE, !.mode = session], review, session)
           /\ UNCHANGED <<review, session>> /\ granted' = <<>>
    <2> DEFINE sh == I!Shut
               a == [sh EXCEPT !.open = TRUE]
               l == [a EXCEPT !.mode = session]
    <2>1. sh \in LineOf(review) /\ sh.selected = 0 /\ sh.cursor = 0 /\ sh.text = <<>>
        BY ShutFacts DEF I!Shut
    <2>2. session \in Session /\ review \in Helper \cup {NoHelper}
        BY DEF LineInv
    <2>3. line' = I!Recomputed(l, review, session)
        <3>1. [I!Shut EXCEPT !.open = TRUE, !.mode = session] = l
            <4> HIDE DEF sh
            <4>1. [sh EXCEPT !.open = TRUE, !.mode = session] = l
                BY <2>1 DEF LineOf, LineIn
            <4> QED
                BY <4>1 DEF sh
        <3> QED
            BY <3>1, <1>4
    <2> HIDE DEF sh
    <2>4. a \in LineOf(review) /\ a.selected = 0 /\ a.cursor = 0 /\ a.text = <<>>
        BY <2>1, OpenChanged DEF LineOf
    <2> HIDE DEF a
    <2>5. l \in LineOf(review) /\ l.selected = 0 /\ l.cursor = 0 /\ l.text = <<>>
        BY <2>2, <2>4, ModeChanged DEF LineOf
    <2> HIDE DEF l
    <2>6. l.selected \in Nat /\ l.cursor \in I!Boundaries(l.text)
        <3>1. <<>> \in Seq(I!Chars) /\ 0 \in 0..Len(<<>>) /\ Wide(<<>>, 0) = 0
            BY WideFacts
        <3>2. 0 \in I!Boundaries(<<>>)
            BY <3>1, CaretOn
        <3> QED
            BY <2>5, <3>2
    <2>7. line' \in LineOf(review) /\ Sound(line')
        BY <2>2, <2>3, <2>5, <2>6, RecomputedFacts
    <2> QED
        BY <1>4, <2>2, <2>7, LineNow
<1> QED
    BY <1>1, <1>2, <1>3, <1>4 DEF I!Lowered, I!Ungranted

\* What a commit takes is a row of the install staged.
LEMMA CommittedFacts ==
    ASSUME NEW p, NEW l, l.rows \in Seq(RowsFor(p)),
           l.rows = <<>> \/ l.selected + 1 \in DOMAIN l.rows
    PROVE  I!Committed(l) \in RowsFor(p)
<1>1. I!Row("go", I!Nowhere) \in RowsFor(p) /\ I!Hint \in RowsFor(p)
    BY HintRow DEF I!Row, RowsFor, Kinds, Labels
<1> DEFINE row == IF l.rows = <<>> THEN I!Hint ELSE l.rows[l.selected + 1]
<1>2. row \in RowsFor(p)
    BY <1>1, ElementOfSeq
<1>3. I!Committed(l) \in {row, I!Row("go", I!Nowhere), I!Hint}
    BY DEF I!Committed
<1> HIDE DEF row
<1> QED
    BY <1>1, <1>2, <1>3

\* The line is committed, by the return key or by a press that shows nothing.
LEMMA CommitKeeps ==
    ASSUME LineInv, NEW l, l.rows \in Seq(RowsFor(review)),
           l.rows = <<>> \/ l.selected + 1 \in DOMAIN l.rows,
           NEW seen, seen = I!Hint \/ seen = I!Committed(l), I!Commit(l, seen)
    PROVE  LineInv'
<1>1. I!Committed(l) \in RowsFor(review)
    BY CommittedFacts
<1>2. CASE line' = I!Shut /\ UNCHANGED <<review, session, live>> /\ I!Ungranted
    BY <1>2, ShutKeeps DEF I!Ungranted, LineInv
<1>3. CASE I!Lowered(I!Committed(l), seen)
    BY <1>1, <1>3, LoweredKeeps
<1> QED
    BY <1>2, <1>3 DEF I!Commit

\* The return key.
LEMMA ReturnKeeps ==
    ASSUME LineInv, line.open, I!OmnibarCommit
    PROVE  LineInv'
<1>1. line.rows \in Seq(RowsFor(review)) /\ line.selected + 1 \in DOMAIN line.rows
    BY LineFacts
<1> QED
    BY <1>1, CommitKeeps DEF I!OmnibarCommit

\* A press on a row.
LEMMA CommitRowKeeps ==
    ASSUME LineInv, NEW i, I!OmnibarCommitRow(i)
    PROVE  LineInv'
<1>1. CASE i \notin DOMAIN line.rows
    BY <1>1, LineStays DEF I!OmnibarCommitRow, I!Ungranted
<1>2. CASE i \in DOMAIN line.rows
    <2> DEFINE s == i - 1
               l == [line EXCEPT !.selected = s]
    <2>1. i \in Int /\ s \in Int /\ s + 1 = i
        BY <1>2, LineFacts
    <2>2. I!Commit(l, I!Hint)
        BY <1>2 DEF I!OmnibarCommitRow
    <2> HIDE DEF s
    <2>3. l.rows = line.rows /\ l.selected = s
        BY <2>1, SelectedChanged DEF LineInv, LineOf
    <2> HIDE DEF l
    <2>4. l.rows \in Seq(RowsFor(review)) /\ l.selected + 1 \in DOMAIN l.rows
        BY <1>2, <2>1, <2>3, LineFacts
    <2> QED
        BY <2>2, <2>4, CommitKeeps
<1> QED
    BY <1>1, <1>2

\* A press on a pane's row.
LEMMA PaneClickedKeeps ==
    ASSUME LineInv, I!PaneClicked
    PROVE  LineInv'
BY LineStays, AdoptedKeeps DEF I!PaneClicked, I!Nothing, I!Ungranted

\* A key while the line is open.
LEMMA LineKeyKeeps ==
    ASSUME LineInv, I!LineKey
    PROVE  LineInv'
BY CloseKeeps, ReturnKeeps, BackspaceKeeps, DeleteKeepsLine, MoveKeeps, CaretKeeps, InsertKeeps DEF I!LineKey

\* A key that a page or the canvas takes.
LEMMA PageKeyKeeps ==
    ASSUME LineInv, NEW key, I!PageKey(key) \/ I!CanvasKey(key)
    PROVE  LineInv'
BY LineStays, OpenKeeps DEF I!PageKey, I!CanvasKey, I!Nothing, I!Ungranted

\* A press while the line is open.
LEMMA PressLineKeeps ==
    ASSUME LineInv, NEW button, I!PressLine(button)
    PROVE  LineInv'
BY CloseKeeps, CommitRowKeeps DEF I!PressLine

\* A press or a release elsewhere in the window.
LEMMA PressElsewhereKeeps ==
    ASSUME LineInv, NEW button, NEW x, I!PressCanvas(button) \/ I!Release(button) \/ I!PressPage(button, x) \/ I!PressPane(button, x)
    PROVE  LineInv'
BY LineStays, PaneClickedKeeps DEF I!PressCanvas, I!Release, I!PressPage, I!PressPane, I!Nothing, I!Ungranted

\* Compositions, context menus, other windows, drops and pages that come and go.
LEMMA OtherKeeps ==
    ASSUME LineInv, I!LineIme \/ I!PressRight \/ I!PressLens \/ I!DropFile \/ I!ContentChanges
    PROVE  LineInv'
<1>1. TRUE \in BOOLEAN
    OBVIOUS
<1>2. CASE I!LineIme
    BY <1>2, InsertKeeps DEF I!LineIme
<1>3. CASE I!PressRight
    BY <1>1, <1>3, OpenKeeps DEF I!PressRight
<1>4. CASE I!PressLens
    BY <1>4, LineStays, PaneClickedKeeps DEF I!PressLens, I!Ungranted
<1>5. CASE I!DropFile
    BY <1>5, LineStays, InstallKeeps DEF I!DropFile, I!Nothing, I!Ungranted
<1>6. CASE I!ContentChanges
    BY <1>6, LineStays DEF I!ContentChanges, I!Ungranted
<1> QED
    BY <1>2, <1>3, <1>4, <1>5, <1>6

\* Every step of the input's part keeps the line.
LEMMA LineStep ==
    ASSUME LineInv, I!InputNext
    PROVE  LineInv'
BY LineKeyKeeps, PageKeyKeeps, PressLineKeeps, PressElsewhereKeeps, OtherKeeps DEF I!InputNext

-----------------------------------------------------------------------------

\* Every step of the input's part keeps a button down for each drag.
LEMMA DragsStep ==
    ASSUME DragsHeld, I!InputNext
    PROVE  DragsHeld'
<1>1. CASE UNCHANGED <<capture, held, drag>>
    BY <1>1 DEF DragsHeld
<1>2. ASSUME NEW button \in {"left", "middle"}, I!PressLine(button) \/ I!PressCanvas(button)
      PROVE  DragsHeld'
    BY <1>2, DeskAssumption DEF I!PressLine, I!PressCanvas, DragsHeld, I!Nowhere
<1>3. CASE I!PressRight
    BY <1>3, DeskAssumption DEF I!PressRight, DragsHeld, I!Nowhere
<1>4. ASSUME NEW button \in {"left", "middle"}, NEW p, I!PressPage(button, p)
      PROVE  DragsHeld'
    BY <1>4 DEF I!PressPage, DragsHeld
<1>5. ASSUME NEW button \in {"left", "middle"}, NEW on \in {"tab", "workbench seam", "seam", "row"}, I!PressPane(button, on)
      PROVE  DragsHeld'
    <2>1. held' = held \cup {button} /\ capture' \notin Hosted /\ button \notin held
        BY <1>5, DeskAssumption DEF I!PressPane, I!Nowhere
    <2>2. drag' = drag \/ (on \in {"tab", "workbench seam", "seam"} /\ drag' = drag \cup {on})
        BY <1>5 DEF I!PressPane
    <2>3. CASE drag' = drag
        BY <2>1, <2>3 DEF DragsHeld
    <2>4. CASE on \in {"tab", "workbench seam", "seam"} /\ drag' = drag \cup {on}
        <3>1. \A x, y \in drag : x = y
            BY <2>1 DEF DragsHeld
        <3>2. drag = {} \/ \E z \in drag : drag = {z}
            BY <3>1
        <3>3. drag' \subseteq {"tab", "workbench seam", "seam"} /\ ("tab" \notin drag' \/ "workbench seam" \notin drag' \/ "seam" \notin drag')
            <4>1. drag \subseteq {"tab", "workbench seam", "seam"}
                BY DEF DragsHeld
            <4>2. CASE drag = {}
                BY <2>4, <4>2
            <4>3. CASE \E z \in drag : drag = {z}
                BY <2>4, <4>1, <4>3
            <4> QED
                BY <3>2, <4>2, <4>3
        <3>4. button \in held'
            BY <2>1
        <3>5. ("left" \notin held' \/ "middle" \notin held') => drag = {}
            BY <2>1 DEF DragsHeld
        <3> QED
            BY <2>1, <2>4, <3>3, <3>4, <3>5 DEF DragsHeld
    <2> QED
        BY <2>2, <2>3, <2>4
<1>6. ASSUME NEW button \in {"left", "middle", "right"}, I!Release(button)
      PROVE  DragsHeld'
    <2>1. held' = held \ {button} /\ capture' \notin Hosted /\ button \in held
        BY <1>6, DeskAssumption DEF I!Release, I!Nowhere
    <2>2. CASE button = "left" /\ capture \in Hosted /\ drag' = drag
        BY <2>1, <2>2 DEF DragsHeld
    <2>3. CASE I!DragEnds
        BY <2>1, <2>3 DEF DragsHeld, I!DragEnds
    <2> QED
        BY <1>6, <2>2, <2>3 DEF I!Release
<1> QED
    BY <1>1, <1>2, <1>3, <1>4, <1>5, <1>6
    DEF I!InputNext, I!LineKey, I!LineIme, I!PageKey, I!CanvasKey, I!PressLens, I!DropFile, I!ContentChanges, I!pointer

\* The app starts with the line shut or open, and nothing pressed.
LEMMA InputBegin ==
    ASSUME I!InputInit
    PROVE  JInv
<1>1. session \in Session /\ review = NoHelper /\ I!ReviewedIsConfirmed /\ DragsHeld
    BY DeskAssumption DEF I!InputInit, I!ReviewedIsConfirmed, DragsHeld, I!Nowhere
<1>2. line \in LineOf(NoHelper) /\ Sound(line)
    <2> DEFINE text == <<>>
    <2>1. text \in {<<>>, <<">">>}
        OBVIOUS
    <2>2. line = I!Shut \/ line = I!Opened(text, 0, NoHelper, session)
        BY DEF I!InputInit
    <2> HIDE DEF text
    <2>3. CASE line = I!Shut
        BY <2>3, ShutFacts
    <2>4. CASE line = I!Opened(text, 0, NoHelper, session)
        BY <1>1, <2>1, <2>4, OpenedFacts
    <2> QED
        BY <2>2, <2>3, <2>4
<1> QED
    BY <1>1, <1>2 DEF JInv, LineInv

PInv == part = "input" => JInv

\* A step of another part leaves the line and the pointer alone.
LEMMA InputInductive ==
    /\ Init => PInv
    /\ PInv /\ [Next]_DeskVars => PInv'
<1>1. Init => PInv
    BY InputBegin DEF Init, PInv
<1>2. ASSUME PInv, [Next]_DeskVars, part' = "input"
      PROVE  JInv'
    <2>1. part = "input" /\ JInv
        BY <1>2 DEF Next, PInv, DeskVars
    <2>2. CASE UNCHANGED inputVars
        <3>1. LineInv'
            BY <2>1, <2>2 DEF inputVars, JInv, LineInv, I!ReviewedIsConfirmed, Sound, LineOf, LineIn, RowsFor
        <3>2. DragsHeld'
            BY <2>1, <2>2 DEF inputVars, JInv, DragsHeld
        <3> QED
            BY <3>1, <3>2 DEF JInv
    <2>3. CASE I!InputNext
        BY <2>1, <2>3, LineStep, DragsStep DEF JInv
    <2> QED
        BY <1>2, <2>1, <2>2, <2>3 DEF Next, DeskVars
<1> QED
    BY <1>1, <1>2 DEF PInv

\* LineSound: for a text of any length, the caret of an open line is on a
\* character boundary and its highlight on a row, whatever is typed, dropped,
\* pressed or switched to.
THEOREM LinesAreSound == Spec => []LineSound
<1>1. PInv => LineSound
    BY DEF PInv, JInv, LineInv, Sound, LineSound, I!LineSound
<1> QED
    BY <1>1, InputInductive, PTL DEF Spec, DeskVars

\* ReviewedIsConfirmed: the install that the return key confirms is the one whose
\* review the chosen row shows, for any number of packs dropped before.
THEOREM ConfirmsWhatIsShown == Spec => []ReviewedIsConfirmed
<1>1. PInv => ReviewedIsConfirmed
    BY DEF PInv, JInv, LineInv, ReviewedIsConfirmed
<1> QED
    BY <1>1, InputInductive, PTL DEF Spec, DeskVars

\* DragsEnd: with every button up nothing is dragged, for any number of pages
\* that presses and releases may go to.
THEOREM DragsEndWithButtons == Spec => []DragsEnd
<1>1. PInv => DragsEnd
    BY DEF PInv, JInv, DragsHeld, DragsEnd, I!DragsEnd
<1> QED
    BY <1>1, InputInductive, PTL DEF Spec, DeskVars

-----------------------------------------------------------------------------
(***************************************************************************)
(* Panes.  What keeps the trees apart is that the paths of a tree's leaves *)
(* are no prefixes of each other, so that the sibling of a closed leaf can *)
(* be lifted without landing on another, and that an id is minted above    *)
(* all there are.  A lens has a window, or a request for one, or none.     *)
(***************************************************************************)
Path == Seq({1, 2})
PaneType == [id : Nat, content : {"Orrery", "Workbench", "Tile"} \cup Summoned,
             node : Tile \cup {P!None}, sections : SUBSET Section]
Bushes == UNION {[d -> PaneType] : d \in SUBSET Path}
Trees == [panes : Bushes, moved : SUBSET Path]

\* q is p, or below it.
Under(p, q) == Len(p) <= Len(q) /\ \A i \in 1..Len(p) : q[i] = p[i]

\* Leaves are apart, panes have ids of their own, and one of them is the graph.
Apart(l) == \A p, q \in P!Leaves(l) : Under(p, q) => p = q
OwnIds(l) == \A p, q \in P!Leaves(l) : l.panes[p].id = l.panes[q].id => p = q
OneGraph(l) ==
    \E g \in P!Leaves(l) : \A p \in P!Leaves(l) : l.panes[p].content = "Orrery" <=> p = g
Planted(l) == Apart(l) /\ OwnIds(l) /\ OneGraph(l)

Lives(ls) == {s \in DOMAIN ls : ls[s] # P!Gone}
Orchard(ls) ==
    /\ ls \in Seq(Trees \cup {P!Gone}) /\ Len(ls) >= 1 /\ Len(ls) <= MaxLens + 1
    /\ 1 \in Lives(ls)
    /\ \A s \in Lives(ls) : Planted(ls[s])
    /\ \A s, t \in Lives(ls) : s # t =>
         \A p \in P!Leaves(ls[s]), q \in P!Leaves(ls[t]) : ls[s].panes[p].id # ls[t].panes[q].id

\* No pane has the id, all ids are smaller, and no graph has it.
Fresh(ls, id) == \A s \in Lives(ls) : \A p \in P!Leaves(ls[s]) : ls[s].panes[p].id # id
Below(ls, n) == \A s \in Lives(ls) : \A p \in P!Leaves(ls[s]) : ls[s].panes[p].id < n
NoGraph(ls, id) ==
    \A s \in Lives(ls) : \A p \in P!Leaves(ls[s]) :
        ls[s].panes[p].content = "Orrery" => ls[s].panes[p].id # id

\* The windows asked for, and those there are, for the trees ls.
WindowsFit(ls, asked, there) ==
    /\ asked \in Seq(Nat) /\ there \in [P!Slots -> {0, 1}]
    /\ \A i \in DOMAIN asked : /\ asked[i] + 1 \in Lives(ls) /\ asked[i] \in P!Slots
                               /\ there[asked[i]] = 0
    /\ \A i, j \in DOMAIN asked : asked[i] = asked[j] => i = j
    /\ \A o \in P!Slots : there[o] = 1 => o + 1 \in Lives(ls)

\* The trees ls, with n the next id and act the active pane.
Arranged(ls, n, act) ==
    /\ n \in Nat /\ Orchard(ls) /\ Below(ls, n)
    /\ act < n /\ (act \in Nat \/ act = P!NoPane) /\ NoGraph(ls, act)

\* The inductive invariant of the panes.
PanesInv ==
    /\ Arranged(layout, nextPane, active)
    /\ WindowsFit(layout, pending, windows)
    /\ Orchard(saved.layout)
    /\ P!OnlyDragsUnsaved

-----------------------------------------------------------------------------
\* A prefix is what the sequence begins with.
LEMMA PrefixFacts ==
    ASSUME NEW S, NEW p \in Seq(S), NEW q \in Seq(S)
    PROVE  P!IsPrefix(p, q) <=> Under(p, q)
<1>1. CASE Len(p) <= Len(q)
    <2>1. SubSeq(p, 1, Len(p)) = p
        BY SubSeqFull
    <2>2. /\ SubSeq(q, 1, Len(p)) \in Seq(S) /\ Len(SubSeq(q, 1, Len(p))) = Len(p)
          /\ \A i \in 1..Len(p) : SubSeq(q, 1, Len(p))[i] = q[i]
        BY <1>1
    <2>3. SubSeq(q, 1, Len(p)) = p <=> \A i \in 1..Len(p) : q[i] = p[i]
        BY <2>2, SeqEqual
    <2> QED
        BY <1>1, <2>1, <2>3 DEF P!IsPrefix, Under
<1> QED
    BY <1>1 DEF P!IsPrefix, Under

LEMMA FrontFacts ==
    ASSUME NEW S, NEW p \in Seq(S), p # <<>>
    PROVE  /\ P!Front(p) \in Seq(S) /\ Len(p) \in Nat /\ Len(p) >= 1
           /\ Len(P!Front(p)) = Len(p) - 1
           /\ \A i \in 1..(Len(p) - 1) : P!Front(p)[i] = p[i]
           /\ P!Last(p) = p[Len(p)] /\ p[Len(p)] \in S
<1>1. Len(p) \in Nat /\ Len(p) >= 1 /\ p[Len(p)] \in S
    BY EmptySeq, LenProperties
<1>2. \A i \in 1..(Len(p) - 1) : p[i] \in S
    BY <1>1
<1> DEFINE n == Len(p) - 1
<1>3. n \in Nat /\ n <= Len(p)
    BY <1>1
<1> HIDE DEF n
<1>4. /\ SubSeq(p, 1, n) \in Seq(S) /\ Len(SubSeq(p, 1, n)) = n
      /\ \A i \in 1..n : SubSeq(p, 1, n)[i] = p[i]
    BY <1>1, <1>3
<1> QED
    BY <1>1, <1>4 DEF P!Front, P!Last, n

\* A function on paths is in Bushes, and only such.
LEMMA Bush ==
    /\ \A d \in SUBSET Path : \A f \in [d -> PaneType] : f \in Bushes
    /\ \A f \in Bushes : DOMAIN f \subseteq Path /\ f \in [DOMAIN f -> PaneType]
BY DEF Bushes

\* What there is to know about a tree.
LEMMA TreeFacts ==
    ASSUME NEW l \in Trees
    PROVE  /\ P!Leaves(l) \subseteq Path /\ l.moved \subseteq Path
           /\ l.panes \in [P!Leaves(l) -> PaneType]
           /\ \A p \in P!Leaves(l) : l.panes[p] \in PaneType
BY Bush DEF Trees, P!Leaves

LEMMA MakeTree ==
    ASSUME NEW d \in SUBSET Path, NEW f \in [d -> PaneType], NEW m \in SUBSET Path
    PROVE  /\ [panes |-> f, moved |-> m] \in Trees
           /\ P!Leaves([panes |-> f, moved |-> m]) = d
BY Bush DEF Trees, P!Leaves

\* A planted tree is there.
LEMMA NotGone ==
    ASSUME NEW l \in Trees, Planted(l)
    PROVE  l # P!Gone
<1>1. P!Leaves(l) # {}
    BY DEF Planted, OneGraph
<1>2. P!Leaves(P!Gone) = {}
    BY DEF P!Leaves, P!Gone
<1> QED
    BY <1>1, <1>2

-----------------------------------------------------------------------------
\* The sibling of a leaf, and where a path goes that is lifted with it.
Sibling(at) == Append(P!Front(at), 3 - P!Last(at))
Lift(at, p) ==
    IF P!IsPrefix(Sibling(at), p)
    THEN P!Front(at) \o SubSeq(p, Len(Sibling(at)) + 1, Len(p)) ELSE p

LEMMA SiblingFacts ==
    ASSUME NEW at \in Path, at # <<>>
    PROVE  /\ Sibling(at) \in Path /\ Len(Sibling(at)) = Len(at)
           /\ \A i \in 1..(Len(at) - 1) : Sibling(at)[i] = at[i]
           /\ Sibling(at)[Len(at)] = 3 - at[Len(at)]
           /\ at[Len(at)] \in {1, 2} /\ Len(at) \in Nat /\ Len(at) >= 1
<1>1. /\ P!Front(at) \in Path /\ Len(at) \in Nat /\ Len(at) >= 1
      /\ Len(P!Front(at)) = Len(at) - 1
      /\ \A i \in 1..(Len(at) - 1) : P!Front(at)[i] = at[i]
      /\ P!Last(at) = at[Len(at)] /\ at[Len(at)] \in {1, 2}
    BY FrontFacts DEF Path
<1>2. 3 - P!Last(at) \in {1, 2}
    BY <1>1
<1>3. /\ Sibling(at) \in Path /\ Len(Sibling(at)) = Len(P!Front(at)) + 1
      /\ \A i \in 1..Len(P!Front(at)) : Sibling(at)[i] = P!Front(at)[i]
      /\ Sibling(at)[Len(P!Front(at)) + 1] = 3 - P!Last(at)
    BY <1>1, <1>2, AppendProperties DEF Sibling, Path
<1> QED
    BY <1>1, <1>3

\* A path below the sibling loses one choice; the others stay.
LEMMA LiftFacts ==
    ASSUME NEW at \in Path, at # <<>>, NEW p \in Path
    PROVE  /\ Lift(at, p) \in Path
           /\ ~ Under(Sibling(at), p) => Lift(at, p) = p
           /\ Under(Sibling(at), p) =>
                /\ Len(p) >= Len(at) /\ Len(Lift(at, p)) = Len(p) - 1
                /\ \A i \in 1..(Len(at) - 1) : Lift(at, p)[i] = at[i] /\ p[i] = at[i]
                /\ p[Len(at)] = 3 - at[Len(at)]
                /\ \A i \in Len(at)..(Len(p) - 1) : Lift(at, p)[i] = p[i + 1]
<1>0. P!IsPrefix(Sibling(at), p) <=> Under(Sibling(at), p)
    BY SiblingFacts, PrefixFacts DEF Path
<1>1. CASE ~ Under(Sibling(at), p)
    BY <1>0, <1>1 DEF Lift
<1>2. CASE Under(Sibling(at), p)
    <2> DEFINE n == Len(at)
               f == P!Front(at)
               r == SubSeq(p, n + 1, Len(p))
    <2>1. /\ n \in Nat /\ n >= 1 /\ Len(Sibling(at)) = n /\ Len(p) \in Nat
          /\ \A i \in 1..(n - 1) : Sibling(at)[i] = at[i]
          /\ Sibling(at)[n] = 3 - at[n]
        BY SiblingFacts DEF Path
    <2>2. Len(p) >= n /\ (\A i \in 1..n : p[i] = Sibling(at)[i])
        BY <1>2, <2>1 DEF Under
    <2>3. f \in Path /\ Len(f) = n - 1 /\ \A i \in 1..(n - 1) : f[i] = at[i]
        BY FrontFacts DEF Path
    <2>4. r \in Path /\ Len(r) = Len(p) - n /\ \A i \in 1..(Len(p) - n) : r[i] = p[n + i]
        <3>1. n + 1 \in 1..(Len(p) + 1) /\ Len(p) \in n..Len(p)
            BY <2>1, <2>2
        <3> HIDE DEF n
        <3>2. \A i \in (n + 1)..Len(p) : p[i] \in {1, 2}
            BY <2>1 DEF Path
        <3>3. /\ r \in Seq({1, 2})
              /\ Len(r) = IF n + 1 <= Len(p) THEN Len(p) - (n + 1) + 1 ELSE 0
              /\ \A i \in 1..(Len(p) - (n + 1) + 1) : r[i] = p[n + 1 + i - 1]
            BY <2>1, <2>2, <3>2, SubSeqProperties DEF Path
        <3> QED
            BY <2>1, <2>2, <3>3 DEF Path
    <2>5. Lift(at, p) = f \o r
        BY <1>0, <1>2, <2>1 DEF Lift
    <2> HIDE DEF n, f, r
    <2>6. /\ f \o r \in Path /\ Len(f \o r) = Len(f) + Len(r)
          /\ \A i \in 1..(Len(f) + Len(r)) :
               (f \o r)[i] = IF i <= Len(f) THEN f[i] ELSE r[i - Len(f)]
        BY <2>3, <2>4, ConcatProperties DEF Path
    <2>7. Len(f \o r) = Len(p) - 1
        BY <2>1, <2>3, <2>4, <2>6
    <2>8. ASSUME NEW i \in 1..(n - 1)
          PROVE  (f \o r)[i] = at[i] /\ p[i] = at[i]
        <3>1. i <= Len(f) /\ i \in 1..(Len(f) + Len(r)) /\ i \in 1..n
            BY <2>1, <2>2, <2>3, <2>4
        <3> QED
            BY <3>1, <2>1, <2>2, <2>3, <2>6
    <2>9. ASSUME NEW i \in n..(Len(p) - 1)
          PROVE  (f \o r)[i] = p[i + 1]
        <3>1. ~ (i <= Len(f)) /\ i \in 1..(Len(f) + Len(r)) /\ i - Len(f) \in 1..(Len(p) - n)
              /\ n + (i - Len(f)) = i + 1
            BY <2>1, <2>2, <2>3, <2>4
        <3> QED
            BY <3>1, <2>4, <2>6
    <2>10. p[n] = 3 - at[n]
        BY <2>1, <2>2
    <2> QED
        BY <1>2, <2>2, <2>5, <2>6, <2>7, <2>8, <2>9, <2>10 DEF n
<1> QED
    BY <1>1, <1>2

\* No two leaves meet when the sibling of a third is lifted.
LEMMA LiftApart ==
    ASSUME NEW l \in Trees, Apart(l), NEW at \in P!Leaves(l), at # <<>>,
           NEW p \in P!Leaves(l) \ {at}, NEW q \in P!Leaves(l) \ {at},
           Under(Lift(at, p), Lift(at, q))
    PROVE  p = q
<1> DEFINE n == Len(at)
<1>1. /\ at \in Path /\ p \in Path /\ q \in Path
      /\ Len(p) \in Nat /\ Len(q) \in Nat /\ Len(at) \in Nat
      /\ \A i \in 1..Len(p) : p[i] \in {1, 2}
      /\ \A i \in 1..Len(q) : q[i] \in {1, 2}
    BY TreeFacts DEF Path
<1>2. /\ Len(Sibling(at)) = n /\ n \in Nat /\ n >= 1
      /\ \A i \in 1..(n - 1) : Sibling(at)[i] = at[i]
      /\ Sibling(at)[n] = 3 - at[n] /\ at[n] \in {1, 2}
    BY <1>1, SiblingFacts
\* Below the parent there are the leaf and what is below its sibling.
<1>3. ASSUME NEW r \in Path, r \in P!Leaves(l) \ {at}, Len(r) >= n - 1,
             \A i \in 1..(n - 1) : r[i] = at[i]
      PROVE  Under(Sibling(at), r)
    <2>1. Len(r) \in Nat /\ \A i \in 1..Len(r) : r[i] \in {1, 2}
        BY DEF Path
    <2>2. ~ Under(r, at) /\ ~ Under(at, r)
        BY <1>3 DEF Apart
    <2>3. Len(r) >= n
        BY <1>2, <1>3, <2>1, <2>2 DEF Under
    <2>4. r[n] # at[n]
        <3>1. SUFFICES ASSUME r[n] = at[n] PROVE Under(at, r)
            BY <2>2
        <3>2. ASSUME NEW i \in 1..n PROVE r[i] = at[i]
            BY <1>2, <1>3, <3>1
        <3> QED
            BY <2>3, <3>2 DEF Under
    <2>5. r[n] = 3 - at[n]
        BY <1>2, <2>1, <2>3, <2>4
    <2>6. ASSUME NEW i \in 1..n PROVE r[i] = Sibling(at)[i]
        BY <1>2, <1>3, <2>5
    <2> QED
        BY <1>2, <2>3, <2>6 DEF Under
<1>4. CASE Under(Sibling(at), p) /\ Under(Sibling(at), q)
    <2>1. /\ Len(p) >= n /\ Len(Lift(at, p)) = Len(p) - 1
          /\ \A i \in 1..(n - 1) : p[i] = at[i]
          /\ p[n] = 3 - at[n]
          /\ \A i \in n..(Len(p) - 1) : Lift(at, p)[i] = p[i + 1]
        BY <1>1, <1>4, LiftFacts
    <2>2. /\ Len(q) >= n /\ Len(Lift(at, q)) = Len(q) - 1
          /\ \A i \in 1..(n - 1) : q[i] = at[i]
          /\ q[n] = 3 - at[n]
          /\ \A i \in n..(Len(q) - 1) : Lift(at, q)[i] = q[i + 1]
        BY <1>1, <1>4, LiftFacts
    <2>3. Len(p) <= Len(q) /\ \A i \in 1..(Len(p) - 1) : Lift(at, q)[i] = Lift(at, p)[i]
        BY <1>1, <2>1, <2>2 DEF Under
    <2>4. ASSUME NEW i \in 1..Len(p) PROVE q[i] = p[i]
        <3>1. CASE i < n
            BY <1>1, <1>2, <2>1, <2>2, <3>1
        <3>2. CASE i = n
            BY <2>1, <2>2, <3>2
        <3>3. CASE i > n
            <4>1. i - 1 \in n..(Len(p) - 1) /\ i - 1 \in n..(Len(q) - 1) /\ i - 1 \in 1..(Len(p) - 1)
                  /\ (i - 1) + 1 = i
                BY <1>1, <1>2, <2>3, <3>3
            <4> QED
                BY <4>1, <2>1, <2>2, <2>3
        <3> QED
            BY <1>1, <1>2, <3>1, <3>2, <3>3
    <2>5. Under(p, q)
        BY <2>3, <2>4 DEF Under
    <2> QED
        BY <2>5 DEF Apart
<1>5. CASE ~ Under(Sibling(at), p) /\ ~ Under(Sibling(at), q)
    <2>1. Under(p, q)
        BY <1>1, <1>5, LiftFacts
    <2> QED
        BY <2>1 DEF Apart
<1>6. CASE Under(Sibling(at), p) /\ ~ Under(Sibling(at), q)
    <2>1. /\ Len(p) >= n /\ Len(Lift(at, p)) = Len(p) - 1
          /\ \A i \in 1..(n - 1) : Lift(at, p)[i] = at[i]
          /\ Lift(at, q) = q
        BY <1>1, <1>6, LiftFacts
    <2>2. Len(q) >= n - 1
        BY <1>1, <1>2, <2>1 DEF Under
    <2>3. ASSUME NEW i \in 1..(n - 1) PROVE q[i] = at[i]
        <3>1. i \in 1..Len(Lift(at, p))
            BY <1>1, <1>2, <2>1
        <3> QED
            BY <2>1, <3>1 DEF Under
    <2> QED
        BY <1>1, <1>3, <1>6, <2>2, <2>3
<1>7. CASE ~ Under(Sibling(at), p) /\ Under(Sibling(at), q)
    <2>1. /\ Len(q) >= n /\ Len(Lift(at, q)) = Len(q) - 1
          /\ \A i \in 1..(n - 1) : Lift(at, q)[i] = at[i]
          /\ Lift(at, p) = p
        BY <1>1, <1>7, LiftFacts
    <2>2. \A i \in 1..Len(p) : Lift(at, q)[i] = p[i]
        BY <2>1 DEF Under
    <2>3. CASE Len(p) < n
        <3>1. ASSUME NEW i \in 1..Len(p) PROVE at[i] = p[i]
            BY <1>1, <1>2, <2>1, <2>2, <2>3
        <3>2. Under(p, at)
            BY <1>1, <1>2, <2>3, <3>1 DEF Under
        <3> QED
            BY <3>2 DEF Apart
    <2>4. CASE Len(p) >= n
        <3>1. ASSUME NEW i \in 1..(n - 1) PROVE p[i] = at[i]
            <4>1. i \in 1..Len(p)
                BY <1>1, <1>2, <2>4
            <4> QED
                BY <4>1, <2>1, <2>2
        <3>2. Len(p) >= n - 1
            BY <1>1, <1>2, <2>4
        <3> QED
            BY <1>1, <1>3, <1>7, <3>1, <3>2
    <2> QED
        BY <1>1, <1>2, <2>3, <2>4
<1> QED
    BY <1>4, <1>5, <1>6, <1>7

\* The panes of m are those of l, but for ids in new, which are no graphs.
From(m, l, new) ==
    \A q \in P!Leaves(m) :
        \/ \E p \in P!Leaves(l) : /\ m.panes[q].id = l.panes[p].id
                                  /\ m.panes[q].content = l.panes[p].content
        \/ m.panes[q].id \in new /\ m.panes[q].content # "Orrery"

\* Closing a leaf that is no graph leaves a tree without it.
LEMMA CloseTree ==
    ASSUME NEW l \in Trees, Planted(l), NEW at \in P!Leaves(l), at # <<>>,
           l.panes[at].content # "Orrery"
    PROVE  /\ P!CloseLeaf(l, at) \in Trees /\ Planted(P!CloseLeaf(l, at))
           /\ From(P!CloseLeaf(l, at), l, {})
           /\ \A q \in P!Leaves(P!CloseLeaf(l, at)) :
                P!CloseLeaf(l, at).panes[q].id # l.panes[at].id
<1> DEFINE rest == P!Leaves(l) \ {at}
           d == {Lift(at, p) : p \in rest}
           Of(q) == CHOOSE p \in rest : Lift(at, p) = q
           f == [q \in d |-> l.panes[Of(q)]]
           mv == {Lift(at, p) : p \in l.moved \ {P!Front(at)}}
           m == P!CloseLeaf(l, at)
<1>1. m = [panes |-> f, moved |-> mv]
    BY DEF P!CloseLeaf, Lift, Sibling
<1>2. at \in Path /\ rest \subseteq Path /\ l.moved \subseteq Path
      /\ l.panes \in [P!Leaves(l) -> PaneType]
    BY TreeFacts
<1>3. d \in SUBSET Path /\ mv \in SUBSET Path
    BY <1>2, LiftFacts
<1>4. \A q \in d : Of(q) \in rest /\ Lift(at, Of(q)) = q
    OBVIOUS
<1>5. \A p \in rest : Lift(at, p) \in d
    OBVIOUS
<1>6. f \in [d -> PaneType] /\ \A q \in d : f[q] = l.panes[Of(q)]
    BY <1>2, <1>4
<1> HIDE DEF d, mv, f, m, Of
<1>7. m \in Trees /\ P!Leaves(m) = d /\ m.panes = f
    BY <1>1, <1>3, <1>6, MakeTree
<1>8. ASSUME NEW p \in rest, NEW q \in rest, Under(Lift(at, p), Lift(at, q))
      PROVE  p = q
    BY <1>8, LiftApart DEF Planted
<1>9. ASSUME NEW p \in rest PROVE Of(Lift(at, p)) = p
    <2>1. Under(Lift(at, p), Lift(at, p))
        BY <1>2, <1>3, <1>5 DEF Under, Path
    <2>2. Of(Lift(at, p)) \in rest /\ Lift(at, Of(Lift(at, p))) = Lift(at, p)
        BY <1>4, <1>5
    <2> QED
        BY <1>8, <2>1, <2>2
<1>10. Apart(m)
    <2>1. ASSUME NEW a \in d, NEW b \in d, Under(a, b) PROVE a = b
        <3>1. Of(a) = Of(b)
            BY <1>4, <1>8, <2>1
        <3> QED
            BY <1>4, <3>1
    <2> QED
        BY <1>7, <2>1 DEF Apart
<1>11. OwnIds(m)
    <2>1. ASSUME NEW a \in d, NEW b \in d, f[a].id = f[b].id PROVE a = b
        <3>1. Of(a) = Of(b)
            BY <1>4, <1>6, <2>1 DEF Planted, OwnIds
        <3> QED
            BY <1>4, <3>1
    <2> QED
        BY <1>7, <2>1 DEF OwnIds
<1>12. OneGraph(m)
    <2>1. PICK g \in P!Leaves(l) : \A p \in P!Leaves(l) : l.panes[p].content = "Orrery" <=> p = g
        BY DEF Planted, OneGraph
    <2>2. g \in rest
        BY <2>1
    <2>3. ASSUME NEW q \in d PROVE f[q].content = "Orrery" <=> q = Lift(at, g)
        <3>1. f[q].content = "Orrery" <=> Of(q) = g
            BY <1>4, <1>6, <2>1
        <3>2. Of(q) = g <=> q = Lift(at, g)
            BY <1>4, <1>9, <2>2
        <3> QED
            BY <3>1, <3>2
    <2> QED
        BY <1>5, <1>7, <2>2, <2>3 DEF OneGraph
<1>13. From(m, l, {})
    BY <1>4, <1>6, <1>7 DEF From
<1>14. ASSUME NEW q \in d PROVE f[q].id # l.panes[at].id
    BY <1>4, <1>6 DEF Planted, OwnIds
<1> QED
    BY <1>7, <1>10, <1>11, <1>12, <1>13, <1>14 DEF Planted, m

\* A leaf that becomes a split of itself and a new pane.
LEMMA SummonTree ==
    ASSUME NEW l \in Trees, Planted(l), NEW at \in P!Leaves(l), NEW pane \in PaneType,
           pane.content # "Orrery", \A p \in P!Leaves(l) : l.panes[p].id # pane.id
    PROVE  /\ P!SummonLeaf(l, at, pane) \in Trees /\ Planted(P!SummonLeaf(l, at, pane))
           /\ From(P!SummonLeaf(l, at, pane), l, {pane.id})
<1> DEFINE a == Append(at, 1)
           b == Append(at, 2)
           rest == P!Leaves(l) \ {at}
           d == rest \cup {a, b}
           f == [p \in d |-> IF p = a THEN l.panes[at] ELSE IF p = b THEN pane ELSE l.panes[p]]
           m == P!SummonLeaf(l, at, pane)
<1>1. at \in Path /\ rest \subseteq Path /\ l.moved \subseteq Path
      /\ l.panes \in [P!Leaves(l) -> PaneType]
    BY TreeFacts
<1>2. /\ a \in Path /\ Len(a) = Len(at) + 1 /\ Len(at) \in Nat
      /\ (\A i \in 1..Len(at) : a[i] = at[i]) /\ a[Len(at) + 1] = 1
    BY <1>1, AppendProperties DEF Path
<1>3. /\ b \in Path /\ Len(b) = Len(at) + 1
      /\ (\A i \in 1..Len(at) : b[i] = at[i]) /\ b[Len(at) + 1] = 2
    BY <1>1, AppendProperties DEF Path
<1>4. m = [panes |-> f, moved |-> l.moved]
    BY DEF P!SummonLeaf, Trees
<1> HIDE DEF a, b, m
<1>5. d \in SUBSET Path /\ f \in [d -> PaneType]
    BY <1>1, <1>2, <1>3
<1>6. ~ Under(a, b) /\ ~ Under(b, a) /\ a # b
    BY <1>2, <1>3 DEF Under
<1>7. ASSUME NEW c \in {a, b}, NEW q \in rest PROVE ~ Under(c, q) /\ ~ Under(q, c) /\ q # c
    <2>1. q \in Path /\ Len(q) \in Nat /\ ~ Under(at, q) /\ ~ Under(q, at)
        BY <1>1 DEF Planted, Apart, Path
    <2>2. Len(c) = Len(at) + 1 /\ (\A i \in 1..Len(at) : c[i] = at[i])
        BY <1>2, <1>3
    <2>3. ~ Under(c, q)
        BY <1>2, <2>1, <2>2 DEF Under
    <2>4. ~ Under(q, c)
        <3>1. SUFFICES ASSUME Under(q, c) PROVE FALSE
            OBVIOUS
        <3>2. CASE Len(q) <= Len(at)
            BY <1>2, <2>1, <2>2, <3>1, <3>2 DEF Under
        <3>3. CASE Len(q) > Len(at)
            <4>1. \A i \in 1..Len(at) : q[i] = at[i]
                BY <1>2, <2>1, <2>2, <3>1, <3>3 DEF Under
            <4> QED
                BY <1>2, <2>1, <3>3, <4>1 DEF Under
        <3> QED
            BY <1>2, <2>1, <3>2, <3>3
    <2>5. Under(q, q)
        BY <2>1 DEF Under
    <2> QED
        BY <2>3, <2>4, <2>5
<1>8. /\ f[a] = l.panes[at] /\ f[b] = pane
      /\ \A q \in rest : f[q] = l.panes[q]
    BY <1>6, <1>7
<1> HIDE DEF f
<1>9. m \in Trees /\ P!Leaves(m) = d /\ m.panes = f
    BY <1>1, <1>4, <1>5, MakeTree
<1>10. Apart(m)
    <2>1. ASSUME NEW p \in d, NEW q \in d, Under(p, q) PROVE p = q
        <3>1. CASE p \in rest /\ q \in rest
            BY <2>1, <3>1 DEF Planted, Apart
        <3>2. CASE p \in {a, b} \/ q \in {a, b}
            BY <1>6, <1>7, <2>1, <3>2
        <3> QED
            BY <3>1, <3>2
    <2> QED
        BY <1>9, <2>1 DEF Apart
<1>11. OwnIds(m)
    <2>1. ASSUME NEW p \in rest, NEW q \in P!Leaves(l), l.panes[p].id = l.panes[q].id PROVE p = q
        BY <2>1 DEF Planted, OwnIds
    <2>2. ASSUME NEW p \in d, NEW q \in d, f[p].id = f[q].id PROVE p = q
        <3>1. CASE p \in rest /\ q \in rest
            BY <1>8, <2>1, <2>2, <3>1
        <3>2. CASE p = a
            BY <1>8, <2>1, <2>2, <3>2
        <3>3. CASE p = b
            BY <1>8, <2>2, <3>3
        <3>4. CASE p \in rest /\ q \in {a, b}
            BY <1>8, <2>1, <2>2, <3>4
        <3> QED
            BY <3>1, <3>2, <3>3, <3>4
    <2> QED
        BY <1>9, <2>2 DEF OwnIds
<1>12. OneGraph(m)
    <2>1. PICK g \in P!Leaves(l) : \A p \in P!Leaves(l) : l.panes[p].content = "Orrery" <=> p = g
        BY DEF Planted, OneGraph
    <2> DEFINE h == IF g = at THEN a ELSE g
    <2>2. h \in d
        OBVIOUS
    <2>3. ASSUME NEW q \in d PROVE f[q].content = "Orrery" <=> q = h
        <3>1. CASE q \in rest
            BY <1>7, <1>8, <2>1, <3>1
        <3>2. CASE q = a
            BY <1>7, <1>8, <2>1, <3>2
        <3>3. CASE q = b
            BY <1>6, <1>7, <1>8, <2>1, <3>3
        <3> QED
            BY <3>1, <3>2, <3>3
    <2> HIDE DEF h
    <2> QED
        BY <1>9, <2>2, <2>3 DEF OneGraph
<1>13. From(m, l, {pane.id})
    <2>1. ASSUME NEW q \in d
          PROVE  \/ \E p \in P!Leaves(l) : f[q].id = l.panes[p].id /\ f[q].content = l.panes[p].content
                 \/ f[q].id \in {pane.id} /\ f[q].content # "Orrery"
        <3>1. CASE q \in rest
            BY <1>8, <3>1
        <3>2. CASE q = a
            BY <1>8, <3>2
        <3>3. CASE q = b
            BY <1>8, <3>3
        <3> QED
            BY <3>1, <3>2, <3>3
    <2> QED
        BY <1>9, <2>1 DEF From
<1> QED
    BY <1>9, <1>10, <1>11, <1>12, <1>13 DEF Planted, m

\* A tree with one leaf, the graph.
LEMMA SeededTree ==
    ASSUME NEW id \in Nat
    PROVE  /\ P!Seeded(id) \in Trees /\ Planted(P!Seeded(id))
           /\ P!Leaves(P!Seeded(id)) = {<<>>}
           /\ P!Seeded(id).panes[<<>>].id = id /\ P!Seeded(id).panes[<<>>].content = "Orrery"
<1> DEFINE pane == P!Pane(id, "Orrery", P!None)
           trunk == <<>>
           f == [p \in {trunk} |-> pane]
<1>1. trunk \in Path
    BY DEF Path
<1>2. pane \in PaneType /\ pane.id = id /\ pane.content = "Orrery"
    BY DEF P!Pane, PaneType
<1>3. P!Seeded(id) = [panes |-> f, moved |-> {}]
    BY DEF P!Seeded, P!Leaf
<1> HIDE DEF trunk, pane
<1>4. P!Seeded(id) \in Trees /\ P!Leaves(P!Seeded(id)) = {trunk} /\ P!Seeded(id).panes = f
    BY <1>1, <1>2, <1>3, MakeTree
<1>5. Apart(P!Seeded(id)) /\ OwnIds(P!Seeded(id))
    BY <1>4 DEF Apart, OwnIds
<1>6. OneGraph(P!Seeded(id))
    BY <1>2, <1>4 DEF OneGraph
<1> QED
    BY <1>2, <1>4, <1>5, <1>6 DEF Planted, trunk

\* A moved seam changes no pane.
LEMMA RatioTree ==
    ASSUME NEW l \in Trees, Planted(l), NEW at
    PROVE  /\ P!SetRatio(l, at) \in Trees /\ Planted(P!SetRatio(l, at))
           /\ From(P!SetRatio(l, at), l, {})
<1>1. l.panes \in [P!Leaves(l) -> PaneType] /\ P!Leaves(l) \subseteq Path /\ l.moved \subseteq Path
    BY TreeFacts
<1>2. CASE at \notin P!Splits(l)
    BY <1>2 DEF P!SetRatio, From
<1>3. CASE at \in P!Splits(l)
    <2>1. at \in Path
        <3>1. PICK q \in P!Leaves(l) : at \in P!Prefixes(q)
            BY <1>3 DEF P!Splits
        <3>2. PICK n \in 0..Len(q) : at = SubSeq(q, 1, n)
            BY <3>1 DEF P!Prefixes
        <3>3. q \in Path /\ Len(q) \in Nat /\ \A i \in 1..Len(q) : q[i] \in {1, 2}
            BY <1>1 DEF Path
        <3>4. n \in Int /\ \A i \in 1..n : q[i] \in {1, 2}
            BY <3>3
        <3>5. SubSeq(q, 1, n) \in Seq({1, 2})
            BY <3>4, SubSeqProperties
        <3> QED
            BY <3>2, <3>5 DEF Path
    <2> DEFINE mv == l.moved \cup {at}
               m == [panes |-> l.panes, moved |-> mv]
    <2>2. P!SetRatio(l, at) = m
        BY <1>3 DEF P!SetRatio, Trees
    <2>3. mv \in SUBSET Path
        BY <1>1, <2>1
    <2> HIDE DEF mv
    <2>4. m \in Trees /\ P!Leaves(m) = P!Leaves(l)
        BY <1>1, <2>3, MakeTree
    <2>5. m.panes = l.panes
        OBVIOUS
    <2> HIDE DEF m
    <2>6. Planted(m)
        BY <2>4, <2>5 DEF Planted, Apart, OwnIds, OneGraph
    <2>7. From(m, l, {})
        BY <2>4, <2>5 DEF From
    <2> QED
        BY <2>2, <2>4, <2>6, <2>7
<1> QED
    BY <1>2, <1>3

\* A pane with other sections is where it was.
LEMMA SectionsTree ==
    ASSUME NEW l \in Trees, Planted(l), NEW at \in P!Leaves(l), NEW x \in SUBSET Section,
           NEW m, m = [l EXCEPT !.panes[at].sections = x]
    PROVE  m \in Trees /\ Planted(m) /\ From(m, l, {})
<1>1. l.panes \in [P!Leaves(l) -> PaneType] /\ P!Leaves(l) \subseteq Path /\ l.moved \subseteq Path
    BY TreeFacts
<1> DEFINE f == [l.panes EXCEPT ![at] = [l.panes[at] EXCEPT !.sections = x]]
<1>2. m = [panes |-> f, moved |-> l.moved]
    BY DEF Trees
<1>3. /\ [l.panes[at] EXCEPT !.sections = x] \in PaneType
      /\ [l.panes[at] EXCEPT !.sections = x].id = l.panes[at].id
      /\ [l.panes[at] EXCEPT !.sections = x].content = l.panes[at].content
    BY <1>1 DEF PaneType
<1>4. /\ f \in [P!Leaves(l) -> PaneType]
      /\ \A p \in P!Leaves(l) : f[p].id = l.panes[p].id /\ f[p].content = l.panes[p].content
    BY <1>1, <1>3
<1> HIDE DEF f
<1> DEFINE k == [panes |-> f, moved |-> l.moved]
<1>8. k \in Trees /\ P!Leaves(k) = P!Leaves(l)
    BY <1>1, <1>4, MakeTree
<1>9. m = k /\ k.panes = f
    BY <1>2
<1> HIDE DEF k
<1>5. m \in Trees /\ P!Leaves(m) = P!Leaves(l) /\ m.panes = f
    BY <1>8, <1>9
<1>6. Apart(m) /\ OwnIds(m)
    BY <1>4, <1>5 DEF Planted, Apart, OwnIds
<1>7. OneGraph(m)
    BY <1>4, <1>5 DEF Planted, OneGraph
<1> QED
    BY <1>4, <1>5, <1>6, <1>7 DEF Planted, From

-----------------------------------------------------------------------------
(* Trees in their slots.                                                     *)

LEMMA OrchardFacts ==
    ASSUME NEW ls, Orchard(ls)
    PROVE  /\ Len(ls) \in Nat /\ DOMAIN ls = 1..Len(ls) /\ 1 \in Lives(ls)
           /\ \A s \in Lives(ls) : s \in DOMAIN ls /\ ls[s] \in Trees /\ Planted(ls[s])
           /\ \A s \in DOMAIN ls : s \notin Lives(ls) => ls[s] = P!Gone
BY DEF Orchard, Lives

\* A tree is replaced by one of its panes and panes of new ids.
LEMMA Replaced ==
    ASSUME NEW ls, Orchard(ls), NEW s \in Lives(ls), NEW m \in Trees, Planted(m),
           NEW new, From(m, ls[s], new), \A id \in new : Fresh(ls, id)
    PROVE  /\ Orchard([ls EXCEPT ![s] = m])
           /\ Lives([ls EXCEPT ![s] = m]) = Lives(ls)
           /\ Len([ls EXCEPT ![s] = m]) = Len(ls)
           /\ \A n : Below(ls, n) /\ (\A id \in new : id < n) => Below([ls EXCEPT ![s] = m], n)
           /\ \A id : NoGraph(ls, id) => NoGraph([ls EXCEPT ![s] = m], id)
           /\ \A id : Fresh(ls, id) /\ id \notin new => Fresh([ls EXCEPT ![s] = m], id)
<1> DEFINE k == [ls EXCEPT ![s] = m]
<1>1. /\ ls \in Seq(Trees \cup {P!Gone}) /\ s \in 1..Len(ls) /\ DOMAIN ls = 1..Len(ls)
      /\ s \in DOMAIN ls
    BY OrchardFacts DEF Orchard
<1>2. /\ k \in Seq(Trees \cup {P!Gone}) /\ Len(k) = Len(ls) /\ DOMAIN k = DOMAIN ls
      /\ k[s] = m /\ \A t \in DOMAIN ls : t # s => k[t] = ls[t]
    BY <1>1, ExceptSeq
<1> HIDE DEF k
<1>3. Lives(k) = Lives(ls)
    BY <1>2, NotGone DEF Lives
<1>4. ASSUME NEW t \in Lives(ls), t # s PROVE k[t] = ls[t]
    BY <1>2, <1>4 DEF Lives
<1>5. \A t \in Lives(k) : Planted(k[t])
    BY <1>2, <1>3, <1>4, OrchardFacts
<1>6. ASSUME NEW t \in Lives(ls), t # s, NEW p \in P!Leaves(m), NEW q \in P!Leaves(ls[t])
      PROVE  m.panes[p].id # ls[t].panes[q].id
    BY <1>6 DEF From, Orchard, Fresh
<1>7. ASSUME NEW t \in Lives(k), NEW u \in Lives(k), t # u,
             NEW p \in P!Leaves(k[t]), NEW q \in P!Leaves(k[u])
      PROVE  k[t].panes[p].id # k[u].panes[q].id
    <2>1. CASE t = s
        BY <1>2, <1>3, <1>4, <1>6, <1>7, <2>1
    <2>2. CASE u = s
        BY <1>2, <1>3, <1>4, <1>6, <1>7, <2>2
    <2>3. CASE t # s /\ u # s
        BY <1>3, <1>4, <1>7, <2>3 DEF Orchard
    <2> QED
        BY <2>1, <2>2, <2>3
<1>8. Orchard(k)
    BY <1>2, <1>3, <1>5, <1>7 DEF Orchard
<1>9. ASSUME NEW n, Below(ls, n), \A id \in new : id < n PROVE Below(k, n)
    <2>1. ASSUME NEW t \in Lives(k), NEW p \in P!Leaves(k[t]) PROVE k[t].panes[p].id < n
        <3>1. CASE t = s
            BY <1>2, <1>9, <2>1, <3>1 DEF From, Below
        <3>2. CASE t # s
            BY <1>3, <1>4, <1>9, <2>1, <3>2 DEF Below
        <3> QED
            BY <3>1, <3>2
    <2> QED
        BY <2>1 DEF Below
<1>10. ASSUME NEW id, NoGraph(ls, id) PROVE NoGraph(k, id)
    <2>1. ASSUME NEW t \in Lives(k), NEW p \in P!Leaves(k[t]), k[t].panes[p].content = "Orrery"
          PROVE  k[t].panes[p].id # id
        <3>1. CASE t = s
            BY <1>2, <1>10, <2>1, <3>1 DEF From, NoGraph
        <3>2. CASE t # s
            BY <1>3, <1>4, <1>10, <2>1, <3>2 DEF NoGraph
        <3> QED
            BY <3>1, <3>2
    <2> QED
        BY <2>1 DEF NoGraph
<1>11. ASSUME NEW id, Fresh(ls, id), id \notin new PROVE Fresh(k, id)
    <2>1. ASSUME NEW t \in Lives(k), NEW p \in P!Leaves(k[t]) PROVE k[t].panes[p].id # id
        <3>1. CASE t = s
            BY <1>2, <1>11, <2>1, <3>1 DEF From, Fresh
        <3>2. CASE t # s
            BY <1>3, <1>4, <1>11, <2>1, <3>2 DEF Fresh
        <3> QED
            BY <3>1, <3>2
    <2> QED
        BY <2>1 DEF Fresh
<1> QED
    BY <1>2, <1>3, <1>8, <1>9, <1>10, <1>11 DEF k

\* A tree with panes of new ids in a slot of its own.
LEMMA Added ==
    ASSUME NEW ls, Orchard(ls), Len(ls) <= MaxLens, NEW m \in Trees, Planted(m),
           \A p \in P!Leaves(m) : Fresh(ls, m.panes[p].id)
    PROVE  /\ Orchard(Append(ls, m))
           /\ Lives(Append(ls, m)) = Lives(ls) \cup {Len(ls) + 1}
           /\ Len(Append(ls, m)) = Len(ls) + 1
           /\ \A t \in DOMAIN ls : Append(ls, m)[t] = ls[t]
           /\ Append(ls, m)[Len(ls) + 1] = m
           /\ \A n : Below(ls, n) /\ (\A p \in P!Leaves(m) : m.panes[p].id < n)
                    => Below(Append(ls, m), n)
           /\ \A id : NoGraph(ls, id) /\ (\A p \in P!Leaves(m) : m.panes[p].content = "Orrery" => m.panes[p].id # id)
                    => NoGraph(Append(ls, m), id)
<1> DEFINE k == Append(ls, m)
           new == Len(ls) + 1
<1>1. /\ ls \in Seq(Trees \cup {P!Gone}) /\ Len(ls) \in Nat /\ DOMAIN ls = 1..Len(ls)
    BY OrchardFacts DEF Orchard
<1>2. /\ k \in Seq(Trees \cup {P!Gone}) /\ Len(k) = new /\ DOMAIN k = 1..new
      /\ k[new] = m /\ \A t \in DOMAIN ls : k[t] = ls[t]
    BY <1>1, AppendProperties
<1>3. DOMAIN k = DOMAIN ls \cup {new} /\ new \notin DOMAIN ls
    BY <1>1, <1>2
<1>4. new \in Int /\ new >= 1 /\ new <= MaxLens + 1
    BY <1>1, DeskAssumption
<1> HIDE DEF k, new
<1>5. Lives(k) = Lives(ls) \cup {new}
    BY <1>2, <1>3, NotGone DEF Lives
<1>6. ASSUME NEW t \in Lives(ls) PROVE k[t] = ls[t] /\ t # new
    BY <1>2, <1>3 DEF Lives
<1>7. \A t \in Lives(k) : Planted(k[t])
    BY <1>2, <1>5, <1>6, OrchardFacts
<1>8. ASSUME NEW t \in Lives(k), NEW u \in Lives(k), t # u,
             NEW p \in P!Leaves(k[t]), NEW q \in P!Leaves(k[u])
      PROVE  k[t].panes[p].id # k[u].panes[q].id
    <2>1. CASE t = new
        BY <1>2, <1>5, <1>6, <1>8, <2>1 DEF Fresh
    <2>2. CASE u = new
        BY <1>2, <1>5, <1>6, <1>8, <2>2 DEF Fresh
    <2>3. CASE t \in Lives(ls) /\ u \in Lives(ls)
        BY <1>6, <1>8, <2>3 DEF Orchard
    <2> QED
        BY <1>5, <2>1, <2>2, <2>3
<1>9. Orchard(k)
    BY <1>2, <1>4, <1>5, <1>7, <1>8 DEF Orchard
<1>10. ASSUME NEW n, Below(ls, n), \A p \in P!Leaves(m) : m.panes[p].id < n PROVE Below(k, n)
    BY <1>2, <1>5, <1>6, <1>10 DEF Below
<1>11. ASSUME NEW id, NoGraph(ls, id), \A p \in P!Leaves(m) : m.panes[p].content = "Orrery" => m.panes[p].id # id
       PROVE  NoGraph(k, id)
    BY <1>2, <1>5, <1>6, <1>11 DEF NoGraph
<1> QED
    BY <1>2, <1>5, <1>9, <1>10, <1>11 DEF k, new

\* A lens that is closed leaves its slot.
LEMMA Emptied ==
    ASSUME NEW ls, Orchard(ls), NEW s \in Lives(ls), s # 1
    PROVE  /\ Orchard([ls EXCEPT ![s] = P!Gone])
           /\ Lives([ls EXCEPT ![s] = P!Gone]) = Lives(ls) \ {s}
           /\ Len([ls EXCEPT ![s] = P!Gone]) = Len(ls)
           /\ \A n : Below(ls, n) => Below([ls EXCEPT ![s] = P!Gone], n)
           /\ \A id : NoGraph(ls, id) => NoGraph([ls EXCEPT ![s] = P!Gone], id)
<1> DEFINE k == [ls EXCEPT ![s] = P!Gone]
<1>1. /\ ls \in Seq(Trees \cup {P!Gone}) /\ s \in 1..Len(ls) /\ DOMAIN ls = 1..Len(ls)
      /\ s \in DOMAIN ls /\ P!Gone \in Trees \cup {P!Gone}
    BY OrchardFacts DEF Orchard
<1>2. /\ k \in Seq(Trees \cup {P!Gone}) /\ Len(k) = Len(ls) /\ DOMAIN k = DOMAIN ls
      /\ k[s] = P!Gone /\ \A t \in DOMAIN ls : t # s => k[t] = ls[t]
    BY <1>1, ExceptSeq
<1> HIDE DEF k
<1>3. Lives(k) = Lives(ls) \ {s}
    BY <1>2 DEF Lives
<1>4. ASSUME NEW t \in Lives(k) PROVE t \in Lives(ls) /\ k[t] = ls[t]
    BY <1>2, <1>3 DEF Lives
<1>5. Orchard(k)
    BY <1>2, <1>3, <1>4 DEF Orchard
<1> QED
    BY <1>2, <1>3, <1>4, <1>5 DEF Below, NoGraph, k

-----------------------------------------------------------------------------
(* Steps.                                                                    *)

\* The windows are those of the lenses there are.
LEMMA WindowsKept ==
    ASSUME NEW ls, NEW k, NEW asked, NEW there, WindowsFit(ls, asked, there),
           Lives(ls) \subseteq Lives(k)
    PROVE  WindowsFit(k, asked, there)
BY DEF WindowsFit

\* A new lens has no window yet, and one is asked for.
LEMMA WindowAsked ==
    ASSUME NEW ls, Orchard(ls), NEW k, NEW asked, NEW there, WindowsFit(ls, asked, there),
           Len(ls) <= MaxLens, Lives(k) = Lives(ls) \cup {Len(ls) + 1}
    PROVE  WindowsFit(k, Append(asked, Len(ls)), there)
<1> DEFINE o == Len(ls)
           q == Append(asked, o)
<1>1. o \in Nat /\ o >= 1 /\ o \in P!Slots /\ DOMAIN ls = 1..o /\ asked \in Seq(Nat)
    BY OrchardFacts, DeskAssumption DEF P!Slots, WindowsFit, Orchard
<1>2. o + 1 \notin Lives(ls)
    BY <1>1 DEF Lives
<1>3. /\ q \in Seq(Nat) /\ Len(q) = Len(asked) + 1 /\ Len(asked) \in Nat
      /\ \A i \in 1..Len(asked) : q[i] = asked[i]
      /\ q[Len(asked) + 1] = o /\ DOMAIN asked = 1..Len(asked) /\ DOMAIN q = 1..Len(q)
    BY <1>1, AppendProperties, LenProperties
<1>4. there \in [P!Slots -> {0, 1}] /\ there[o] = 0
    BY <1>1, <1>2 DEF WindowsFit
<1>5. \A i \in DOMAIN asked : asked[i] # o
    BY <1>1, <1>2 DEF WindowsFit
<1> HIDE DEF o, q
<1>6. \A i \in DOMAIN q : i \in DOMAIN asked \/ i = Len(asked) + 1
    BY <1>3
<1>7. Lives(k) = Lives(ls) \cup {o + 1}
    BY DEF o
<1>8. ASSUME NEW i \in DOMAIN q
      PROVE  q[i] + 1 \in Lives(k) /\ q[i] \in P!Slots /\ there[q[i]] = 0
    BY <1>1, <1>3, <1>4, <1>6, <1>7 DEF WindowsFit
<1>9. ASSUME NEW i \in DOMAIN q, NEW j \in DOMAIN q, q[i] = q[j] PROVE i = j
    BY <1>3, <1>5, <1>6, <1>9 DEF WindowsFit
<1>10. \A w \in P!Slots : there[w] = 1 => w + 1 \in Lives(k)
    BY <1>7 DEF WindowsFit
<1>11. WindowsFit(k, q, there)
    BY <1>3, <1>4, <1>8, <1>9, <1>10 DEF WindowsFit
<1> QED
    BY <1>11 DEF q, o

\* After a save everything is on disk.
LEMMA SavedAll ==
    ASSUME Orchard(layout'), saved'.layout = layout', saved'.tiled = tiled', saved'.front = front'
    PROVE  Orchard(saved'.layout) /\ P!OnlyDragsUnsaved'
<1> DEFINE a == layout'
<1>1. a \in Seq(Trees \cup {P!Gone})
    BY DEF Orchard
<1>2. Under(a, a)
    <2> HIDE DEF a
    <2> QED
        BY <1>1 DEF Under
<1>3. P!IsPrefix(a, a)
    <2> HIDE DEF a
    <2> QED
        BY <1>1, <1>2, PrefixFacts
<1> QED
    BY <1>3 DEF P!OnlyDragsUnsaved

LEMMA SavingStep ==
    ASSUME Arranged(layout', nextPane', active'), WindowsFit(layout', pending', windows'), P!Saved
    PROVE  PanesInv'
<1>1. saved'.layout = layout' /\ saved'.tiled = tiled' /\ saved'.front = front'
    BY DEF P!Saved, P!Image
<1>2. Orchard(layout')
    BY DEF Arranged
<1> QED
    BY <1>1, <1>2, SavedAll DEF PanesInv

\* Live is what it is called here.
LEMMA LiveIsLives == P!Live = Lives(layout)
BY DEF P!Live, Lives

\* A pane summoned goes beside a leaf that is there.
LEMMA AnchorFacts ==
    ASSUME PanesInv
    PROVE  P!Anchor[1] \in Lives(layout) /\ P!Anchor[2] \in P!Leaves(layout[P!Anchor[1]])
<1>1. CASE active # P!NoPane /\ P!Spaces(active) # {}
    <2> DEFINE s == CHOOSE s \in P!Spaces(active) : TRUE
    <2>1. s \in P!Spaces(active)
        BY <1>1
    <2> HIDE DEF s
    <2>2. s \in Lives(layout) /\ active \in P!Ids(layout[s])
        BY <2>1, LiveIsLives DEF P!Spaces
    <2>3. P!PathOf(layout[s], active) \in P!Leaves(layout[s])
        BY <2>2 DEF P!PathOf, P!Ids
    <2>4. P!Anchor = <<s, P!PathOf(layout[s], active)>>
        BY <1>1 DEF P!Anchor, s
    <2> QED
        BY <2>2, <2>3, <2>4
<1>2. CASE ~ (active # P!NoPane /\ P!Spaces(active) # {})
    <2>1. 1 \in Lives(layout) /\ OneGraph(layout[1])
        BY DEF PanesInv, Arranged, Orchard, Planted
    <2>2. P!Shows(layout[1], "Orrery") # {}
        BY <2>1 DEF OneGraph, P!Shows
    <2> DEFINE g == CHOOSE p \in P!Shows(layout[1], "Orrery") : TRUE
    <2>3. g \in P!Leaves(layout[1])
        BY <2>2 DEF P!Shows
    <2>4. P!Anchor = <<1, g>>
        BY <1>2, <2>2 DEF P!Anchor
    <2> HIDE DEF g
    <2> QED
        BY <2>1, <2>3, <2>4
<1> QED
    BY <1>1, <1>2

LEMMA SummoningFacts ==
    ASSUME PanesInv, NEW what \in Summoned \cup {"Workbench"}, P!Summoning(what)
    PROVE  /\ Arranged(layout', nextPane', active')
           /\ Lives(layout') = Lives(layout)
<1> DEFINE s == P!Anchor[1]
           at == P!Anchor[2]
           pane == P!Pane(nextPane, what, P!None)
           m == P!SummonLeaf(layout[s], at, pane)
           a == layout'
<1>1. s \in Lives(layout) /\ at \in P!Leaves(layout[s])
    BY AnchorFacts
<1>2. /\ nextPane \in Nat /\ Orchard(layout) /\ Below(layout, nextPane)
    BY DEF PanesInv, Arranged
<1>3. pane \in PaneType /\ pane.id = nextPane /\ pane.content # "Orrery"
    BY <1>2, DeskAssumption DEF P!Pane, PaneType
<1>4. a = [layout EXCEPT ![s] = m] /\ active' = nextPane /\ nextPane' = nextPane + 1
    <2>1. s \in DOMAIN layout
        BY <1>1 DEF Lives
    <2> QED
        BY <2>1 DEF P!Summoning
<1> HIDE DEF s, at, pane, a
<1>5. layout[s] \in Trees /\ Planted(layout[s])
    BY <1>1, <1>2, OrchardFacts
<1>6. Fresh(layout, nextPane) /\ NoGraph(layout, nextPane)
    BY <1>2 DEF Below, Fresh, NoGraph, P!Leaves, Orchard
<1>7. m \in Trees /\ Planted(m) /\ From(m, layout[s], {nextPane})
    BY <1>1, <1>3, <1>5, <1>6, SummonTree DEF Fresh
<1> HIDE DEF m
<1> DEFINE new == {nextPane}
<1>11. \A id \in new : Fresh(layout, id) /\ id < nextPane + 1
    BY <1>2, <1>6
<1>12. From(m, layout[s], new)
    BY <1>7
<1> HIDE DEF new
<1>8. /\ Orchard(a) /\ Lives(a) = Lives(layout) /\ NoGraph(a, nextPane)
      /\ Below(layout, nextPane + 1) => Below(a, nextPane + 1)
    BY <1>1, <1>2, <1>4, <1>6, <1>7, <1>11, <1>12, Replaced
<1>9. Below(layout, nextPane + 1)
    <2>1. ASSUME NEW t \in Lives(layout), NEW p \in P!Leaves(layout[t])
          PROVE  layout[t].panes[p].id < nextPane + 1
        <3>1. layout[t].panes[p] \in PaneType /\ layout[t].panes[p].id < nextPane
            BY <1>2, OrchardFacts, TreeFacts DEF Below
        <3> QED
            BY <1>2, <3>1 DEF PaneType
    <2> QED
        BY <2>1 DEF Below
<1>10. Arranged(a, nextPane + 1, nextPane)
    BY <1>2, <1>8, <1>9 DEF Arranged
<1> QED
    BY <1>4, <1>8, <1>10 DEF a

\* The leaf that is closed or torn out is the active pane's, and no graph.
LEMMA ClosableFacts ==
    ASSUME PanesInv, NEW s \in P!Live, NEW p \in P!Leaves(layout[s]), P!Closable(s, p)
    PROVE  /\ s \in Lives(layout) /\ layout[s] \in Trees /\ Planted(layout[s]) /\ p # <<>>
           /\ layout[s].panes[p] \in PaneType /\ layout[s].panes[p].id = active
           /\ layout[s].panes[p].content # "Orrery"
<1>1. s \in Lives(layout) /\ Orchard(layout) /\ NoGraph(layout, active)
    BY LiveIsLives DEF PanesInv, Arranged
<1>2. layout[s] \in Trees /\ Planted(layout[s])
    BY <1>1, OrchardFacts
<1>3. p # <<>> /\ p = P!PathOf(layout[s], active) /\ active \in P!Ids(layout[s])
    BY DEF P!Closable, P!Spaces
<1>4. layout[s].panes[p].id = active
    BY <1>3 DEF P!PathOf, P!Ids
<1> QED
    BY <1>1, <1>2, <1>3, <1>4, TreeFacts DEF NoGraph

\* The trees without a leaf that may be closed.
LEMMA ClosedFacts ==
    ASSUME PanesInv, NEW s \in P!Live, NEW p \in P!Leaves(layout[s]), P!Closable(s, p),
           NEW k, k = [layout EXCEPT ![s] = P!CloseLeaf(@, p)]
    PROVE  /\ Arranged(k, nextPane, active) /\ Fresh(k, active)
           /\ Lives(k) = Lives(layout) /\ Len(k) = Len(layout)
<1> DEFINE l == layout[s]
           m == P!CloseLeaf(l, p)
           none == {}
<1>1. /\ s \in Lives(layout) /\ l \in Trees /\ Planted(l) /\ p # <<>>
      /\ l.panes[p].id = active /\ l.panes[p].content # "Orrery"
    BY ClosableFacts
<1>2. k = [layout EXCEPT ![s] = m]
    <2>1. s \in DOMAIN layout
        BY <1>1 DEF Lives
    <2> QED
        BY <2>1
<1>3. Arranged(layout, nextPane, active)
    BY DEF PanesInv
<1> HIDE DEF l
<1>4. /\ m \in Trees /\ Planted(m) /\ From(m, l, none)
      /\ \A q \in P!Leaves(m) : m.panes[q].id # active
    BY <1>1, CloseTree DEF l
<1>5. \A id \in none : Fresh(layout, id) /\ id < nextPane
    OBVIOUS
<1>8. From(m, layout[s], none)
    BY <1>4 DEF l
<1>9. Orchard(layout) /\ Below(layout, nextPane) /\ NoGraph(layout, active)
    BY <1>3 DEF Arranged
<1> HIDE DEF m, none
<1> DEFINE j == [layout EXCEPT ![s] = m]
<1>10. m \in Trees /\ Planted(m) /\ s \in Lives(layout)
    BY <1>1, <1>4
<1>11. /\ Orchard(j) /\ Lives(j) = Lives(layout) /\ Len(j) = Len(layout)
       /\ Below(j, nextPane) /\ NoGraph(j, active)
    BY <1>5, <1>8, <1>9, <1>10, Replaced
<1>6. /\ Orchard(k) /\ Lives(k) = Lives(layout) /\ Len(k) = Len(layout)
      /\ Below(k, nextPane) /\ NoGraph(k, active)
    BY <1>2, <1>11
<1>7. Fresh(k, active)
    <2>1. ASSUME NEW t \in Lives(k), NEW q \in P!Leaves(k[t]) PROVE k[t].panes[q].id # active
        <3>1. CASE t = s
            <4>1. k[t] = m
                BY <1>1, <1>2, <3>1 DEF Lives
            <4> QED
                BY <1>4, <2>1, <4>1
        <3>2. CASE t # s
            <4>1. k[t] = layout[t] /\ t \in Lives(layout)
                BY <1>2, <1>6, <2>1, <3>2 DEF Lives
            <4> QED
                BY <1>1, <1>3, <2>1, <3>2, <4>1 DEF Arranged, Orchard, l
        <3> QED
            BY <3>1, <3>2
    <2> QED
        BY <2>1 DEF Fresh
<1> QED
    BY <1>3, <1>6, <1>7 DEF Arranged

\* What landing does to the trees ls: a pane joins a lens, or a new one.
LEMMA LandingFacts ==
    ASSUME NEW ls, NEW id \in Nat, NEW act, Arranged(ls, id, act),
           NEW pane \in PaneType, pane.content # "Orrery", pane.id < id, Fresh(ls, pane.id),
           NEW left, P!Landing(ls, id, pane, left)
    PROVE  /\ Arranged(layout', nextPane', act)
           /\ \/ Lives(layout') = Lives(ls) /\ pending' = pending
              \/ /\ Len(ls) <= MaxLens /\ Lives(layout') = Lives(ls) \cup {Len(ls) + 1}
                 /\ pending' = Append(pending, Len(ls))
<1> DEFINE there == {s \in DOMAIN ls : s > 1 /\ s # left /\ ls[s] # P!Gone}
           a == layout'
           new == {pane.id}
<1>0. pane.id \in Nat /\ (\A x \in new : Fresh(ls, x) /\ x < id) /\ new = {pane.id}
    BY DEF PaneType
<1>1. ASSUME /\ there = {} /\ Len(ls) <= MaxLens
             /\ a = Append(ls, P!SummonLeaf(P!Seeded(id), <<>>, pane))
             /\ nextPane' = id + 1 /\ pending' = Append(pending, Len(ls))
      PROVE  /\ Arranged(a, nextPane', act)
             /\ Lives(a) = Lives(ls) \cup {Len(ls) + 1}
    <2> DEFINE m == P!SummonLeaf(P!Seeded(id), <<>>, pane)
    <2> HIDE DEF a, new, there
    <2>1. /\ P!Seeded(id) \in Trees /\ Planted(P!Seeded(id)) /\ <<>> \in P!Leaves(P!Seeded(id))
          /\ \A p \in P!Leaves(P!Seeded(id)) : P!Seeded(id).panes[p].id = id
        BY SeededTree
    <2>2. m \in Trees /\ Planted(m) /\ From(m, P!Seeded(id), new)
        <3>1. \A p \in P!Leaves(P!Seeded(id)) : P!Seeded(id).panes[p].id # pane.id
            BY <1>0, <2>1
        <3> QED
            BY <2>1, <3>1, SummonTree DEF new
    <2>3. a = Append(ls, m)
        BY <1>1
    <2> HIDE DEF m
    <2>4. ASSUME NEW p \in P!Leaves(m)
          PROVE  /\ m.panes[p].id = id \/ m.panes[p].id = pane.id
                 /\ m.panes[p].content = "Orrery" => m.panes[p].id = id
        BY <1>0, <2>1, <2>2 DEF From
    <2>5. Fresh(ls, id)
        <3>1. ASSUME NEW s \in Lives(ls), NEW p \in P!Leaves(ls[s]) PROVE ls[s].panes[p].id # id
            BY DEF Arranged, Below
        <3> QED
            BY <3>1 DEF Fresh
    <2>6. \A p \in P!Leaves(m) : Fresh(ls, m.panes[p].id) /\ m.panes[p].id < id + 1
        BY <1>0, <2>4, <2>5
    <2>7. \A p \in P!Leaves(m) : m.panes[p].content = "Orrery" => m.panes[p].id # act
        BY <2>4 DEF Arranged
    <2>8. Below(ls, id + 1)
        <3>1. ASSUME NEW t \in Lives(ls), NEW p \in P!Leaves(ls[t])
              PROVE  ls[t].panes[p].id < id + 1
            <4>1. ls[t].panes[p] \in PaneType /\ ls[t].panes[p].id < id
                BY OrchardFacts, TreeFacts DEF Below, Arranged
            <4> QED
                BY <4>1 DEF PaneType
        <3> QED
            BY <3>1 DEF Below
    <2>9. /\ Orchard(a) /\ Lives(a) = Lives(ls) \cup {Len(ls) + 1}
          /\ Below(a, id + 1) /\ NoGraph(a, act)
        BY <1>1, <2>2, <2>3, <2>6, <2>7, <2>8, Added DEF Arranged
    <2>10. id + 1 \in Nat /\ act < id + 1
        BY DEF Arranged, P!NoPane
    <2> QED
        BY <1>1, <2>9, <2>10 DEF Arranged
<1>2. ASSUME NEW s \in DOMAIN ls, NEW at \in P!Leaves(ls[s]), P!IsGreatest(s, there),
             a = [ls EXCEPT ![s] = P!SummonLeaf(@, at, pane)], nextPane' = id
      PROVE  Arranged(a, nextPane', act) /\ Lives(a) = Lives(ls)
    <2> DEFINE m == P!SummonLeaf(ls[s], at, pane)
    <2>1. s \in Lives(ls) /\ a = [ls EXCEPT ![s] = m]
        BY <1>2 DEF P!IsGreatest, Lives
    <2> HIDE DEF a, new, there
    <2>2. ls[s] \in Trees /\ Planted(ls[s])
        BY <2>1, OrchardFacts DEF Arranged
    <2>3. m \in Trees /\ Planted(m) /\ From(m, ls[s], new)
        BY <2>1, <2>2, SummonTree DEF Fresh, new
    <2> HIDE DEF m
    <2>4. /\ Orchard(a) /\ Lives(a) = Lives(ls) /\ Below(a, id) /\ NoGraph(a, act)
        BY <1>0, <2>1, <2>3, Replaced DEF Arranged
    <2> QED
        BY <1>2, <2>4 DEF Arranged
<1>3. CASE there = {} /\ Len(ls) <= MaxLens /\ id <= MaxPaneId
             /\ layout' = Append(ls, P!SummonLeaf(P!Seeded(id), <<>>, pane))
             /\ nextPane' = id + 1 /\ pending' = Append(pending, Len(ls))
    BY <1>1, <1>3
<1>4. CASE /\ id <= MaxPaneId + 1
           /\ \E s \in DOMAIN ls : \E at \in P!Leaves(ls[s]) :
                /\ P!IsGreatest(s, there) /\ P!IsLastLeaf(ls[s], at)
                /\ layout' = [ls EXCEPT ![s] = P!SummonLeaf(@, at, pane)]
           /\ nextPane' = id
           /\ UNCHANGED pending
    BY <1>2, <1>4
<1> QED
    BY <1>3, <1>4 DEF P!Landing

\* Where the windows' trees and requests stay, or a lens is added to them.
LEMMA WindowsStep ==
    ASSUME NEW ls, Orchard(ls), WindowsFit(ls, pending, windows), UNCHANGED windows,
           \/ Lives(layout') = Lives(ls) /\ pending' = pending
           \/ /\ Len(ls) <= MaxLens /\ Lives(layout') = Lives(ls) \cup {Len(ls) + 1}
              /\ pending' = Append(pending, Len(ls))
    PROVE  WindowsFit(layout', pending', windows')
<1> DEFINE a == layout'
           q == pending'
<1>1. CASE Lives(a) = Lives(ls) /\ q = pending
    BY <1>1, WindowsKept
<1>2. CASE /\ Len(ls) <= MaxLens /\ Lives(a) = Lives(ls) \cup {Len(ls) + 1}
           /\ q = Append(pending, Len(ls))
    <2> HIDE DEF a
    <2>1. WindowsFit(a, Append(pending, Len(ls)), windows)
        BY <1>2, WindowAsked
    <2> QED
        BY <1>2, <2>1 DEF a
<1> QED
    BY <1>1, <1>2

\* The arms that add, close or move panes.
LEMMA SummonKeeps ==
    ASSUME PanesInv, NEW c \in Summoned, P!SummonPane(c)
    PROVE  PanesInv'
<1>1. Arranged(layout', nextPane', active') /\ Lives(layout') = Lives(layout)
    BY SummoningFacts DEF P!SummonPane
<1>2. WindowsFit(layout', pending', windows')
    BY <1>1, WindowsStep DEF P!SummonPane, PanesInv, Arranged
<1> QED
    BY <1>1, <1>2, SavingStep DEF P!SummonPane

LEMMA OpenPaneKeeps ==
    ASSUME PanesInv, NEW m \in Tile, P!OpenInWorkbench(m)
    PROVE  PanesInv'
<1>1. Arranged(layout', nextPane', active') /\ Lives(layout') = Lives(layout)
    <2>1. CASE P!Summoning("Workbench")
        BY <2>1, SummoningFacts
    <2>2. CASE UNCHANGED P!tree
        BY <2>2 DEF P!tree, PanesInv
    <2> QED
        BY <2>1, <2>2 DEF P!OpenInWorkbench
<1>2. WindowsFit(layout', pending', windows')
    BY <1>1, WindowsStep DEF P!OpenInWorkbench, PanesInv, Arranged
<1> QED
    BY <1>1, <1>2, SavingStep DEF P!OpenInWorkbench

\* With no pane active nothing is wrong with the active pane.
LEMMA NoneActive ==
    ASSUME NEW ls, NEW n, NEW act, Arranged(ls, n, act)
    PROVE  Arranged(ls, n, P!NoPane)
<1>1. n \in Nat /\ Orchard(ls)
    BY DEF Arranged
<1>2. ASSUME NEW s \in Lives(ls), NEW p \in P!Leaves(ls[s]) PROVE ls[s].panes[p].id # P!NoPane
    <2>1. ls[s].panes[p] \in PaneType
        BY <1>1, OrchardFacts, TreeFacts
    <2> QED
        BY <2>1 DEF PaneType, P!NoPane
<1>3. NoGraph(ls, P!NoPane) /\ P!NoPane < n
    BY <1>1, <1>2 DEF NoGraph, P!NoPane
<1> QED
    BY <1>3 DEF Arranged

LEMMA ClosePaneKeeps ==
    ASSUME PanesInv, P!CloseActivePane
    PROVE  PanesInv'
<1>1. PICK s \in P!Live : \E p \in P!Leaves(layout[s]) :
         P!Closable(s, p) /\ layout' = [layout EXCEPT ![s] = P!CloseLeaf(@, p)]
    BY DEF P!CloseActivePane
<1>2. PICK p \in P!Leaves(layout[s]) :
         P!Closable(s, p) /\ layout' = [layout EXCEPT ![s] = P!CloseLeaf(@, p)]
    BY <1>1
<1>3. /\ active' = P!NoPane /\ P!Saved
      /\ UNCHANGED <<nextPane, pending, windows>>
    BY DEF P!CloseActivePane
<1> DEFINE a == layout'
<1>4. a = [layout EXCEPT ![s] = P!CloseLeaf(@, p)]
    BY <1>2
<1> HIDE DEF a
<1>5. Arranged(a, nextPane, active) /\ Lives(a) = Lives(layout)
    BY <1>2, <1>4, ClosedFacts
<1>6. Arranged(a, nextPane, P!NoPane)
    BY <1>5, NoneActive
<1>7. Arranged(layout', nextPane', active') /\ Lives(layout') = Lives(layout)
    BY <1>3, <1>5, <1>6 DEF a
<1>8. WindowsFit(layout', pending', windows')
    BY <1>3, <1>7, WindowsStep DEF PanesInv, Arranged
<1> QED
    BY <1>3, <1>7, <1>8, SavingStep

LEMMA TearOutKeeps ==
    ASSUME PanesInv, P!TearOutActivePane
    PROVE  PanesInv'
<1>1. PICK s \in P!Live : \E p \in P!Leaves(layout[s]) :
         /\ P!Closable(s, p)
         /\ P!Landing([layout EXCEPT ![s] = P!CloseLeaf(@, p)], nextPane, layout[s].panes[p], s)
    BY DEF P!TearOutActivePane
<1>2. PICK p \in P!Leaves(layout[s]) :
         /\ P!Closable(s, p)
         /\ P!Landing([layout EXCEPT ![s] = P!CloseLeaf(@, p)], nextPane, layout[s].panes[p], s)
    BY <1>1
<1>3. P!Saved /\ UNCHANGED <<active, windows>>
    BY DEF P!TearOutActivePane
<1> DEFINE k == [layout EXCEPT ![s] = P!CloseLeaf(@, p)]
           pane == layout[s].panes[p]
<1>4. /\ Arranged(k, nextPane, active) /\ Fresh(k, active)
      /\ Lives(k) = Lives(layout) /\ Len(k) = Len(layout)
    BY <1>2, ClosedFacts
<1>5. pane \in PaneType /\ pane.id = active /\ pane.content # "Orrery"
    BY <1>2, ClosableFacts
<1>6. P!Landing(k, nextPane, pane, s)
    BY <1>2
<1> HIDE DEF k, pane
<1>7. nextPane \in Nat /\ pane.id < nextPane /\ Fresh(k, pane.id) /\ Orchard(k)
    BY <1>4, <1>5 DEF Arranged
<1>8. /\ Arranged(layout', nextPane', active)
      /\ \/ Lives(layout') = Lives(k) /\ pending' = pending
         \/ /\ Len(k) <= MaxLens /\ Lives(layout') = Lives(k) \cup {Len(k) + 1}
            /\ pending' = Append(pending, Len(k))
    BY <1>4, <1>5, <1>6, <1>7, LandingFacts
<1>9. WindowsFit(k, pending, windows)
    BY <1>4, WindowsKept DEF PanesInv
<1>10. WindowsFit(layout', pending', windows')
    BY <1>3, <1>7, <1>8, <1>9, WindowsStep
<1> QED
    BY <1>3, <1>8, <1>10, SavingStep

LEMMA TearTileKeeps ==
    ASSUME PanesInv, NEW m \in Tile, P!TearOutTile(m)
    PROVE  PanesInv'
<1> DEFINE pane == P!Pane(nextPane, "Tile", m)
           n == nextPane + 1
<1>1. P!Landing(layout, n, pane, 0) /\ active' = nextPane /\ P!Saved /\ UNCHANGED windows
    BY DEF P!TearOutTile
<1>2. nextPane \in Nat /\ Orchard(layout) /\ Below(layout, nextPane)
    BY DEF PanesInv, Arranged
<1>3. pane \in PaneType /\ pane.id = nextPane /\ pane.content # "Orrery"
    BY <1>2 DEF P!Pane, PaneType
<1>4. ASSUME NEW t \in Lives(layout), NEW p \in P!Leaves(layout[t])
      PROVE  layout[t].panes[p].id < n /\ layout[t].panes[p].id # nextPane
    <2>1. layout[t].panes[p] \in PaneType /\ layout[t].panes[p].id < nextPane
        BY <1>2, OrchardFacts, TreeFacts DEF Below
    <2> QED
        BY <1>2, <2>1 DEF PaneType
<1>5. n \in Nat /\ nextPane < n
    BY <1>2
<1> HIDE DEF pane, n
<1>6. Below(layout, n) /\ Fresh(layout, nextPane) /\ NoGraph(layout, nextPane)
    BY <1>4 DEF Below, Fresh, NoGraph
<1>7. Arranged(layout, n, nextPane)
    BY <1>2, <1>5, <1>6 DEF Arranged
<1>8. /\ Arranged(layout', nextPane', nextPane)
      /\ \/ Lives(layout') = Lives(layout) /\ pending' = pending
         \/ /\ Len(layout) <= MaxLens /\ Lives(layout') = Lives(layout) \cup {Len(layout) + 1}
            /\ pending' = Append(pending, Len(layout))
    BY <1>1, <1>3, <1>5, <1>6, <1>7, LandingFacts
<1>9. WindowsFit(layout', pending', windows')
    BY <1>1, <1>2, <1>8, WindowsStep DEF PanesInv
<1> QED
    BY <1>1, <1>8, <1>9, SavingStep

\* What does not touch the trees and the windows saves what there is.
LEMMA QuietKeeps ==
    ASSUME PanesInv, UNCHANGED <<layout, nextPane, active, pending, windows>>, P!Saved
    PROVE  PanesInv'
<1>1. Arranged(layout', nextPane', active') /\ WindowsFit(layout', pending', windows')
    BY DEF PanesInv
<1> QED
    BY <1>1, SavingStep

\* One tree has changed, and no pane in it.
LEMMA TreeChanged ==
    ASSUME PanesInv, NEW s \in Lives(layout), NEW m \in Trees, Planted(m),
           From(m, layout[s], {}), layout' = [layout EXCEPT ![s] = m],
           UNCHANGED <<nextPane, active, pending, windows>>
    PROVE  Arranged(layout', nextPane', active') /\ WindowsFit(layout', pending', windows')
<1> DEFINE j == [layout EXCEPT ![s] = m]
           none == {}
<1>1. Orchard(layout) /\ Below(layout, nextPane) /\ NoGraph(layout, active)
    BY DEF PanesInv, Arranged
<1>2. (\A id \in none : Fresh(layout, id) /\ id < nextPane) /\ From(m, layout[s], none)
    OBVIOUS
<1> HIDE DEF none
<1>3. Orchard(j) /\ Below(j, nextPane) /\ NoGraph(j, active) /\ Lives(j) = Lives(layout)
    BY <1>1, <1>2, Replaced
<1>4. layout' = j
    OBVIOUS
<1> HIDE DEF j
<1>5. Arranged(j, nextPane, active)
    BY <1>3 DEF PanesInv, Arranged
<1>6. WindowsFit(j, pending, windows)
    BY <1>3, WindowsKept DEF PanesInv
<1> QED
    BY <1>4, <1>5, <1>6

LEMMA DividerKeeps ==
    ASSUME PanesInv, P!SetActivePaneDivider
    PROVE  PanesInv'
<1>1. PICK s \in P!Live : \E p \in P!Leaves(layout[s]) :
         P!Closable(s, p) /\ layout' = [layout EXCEPT ![s] = P!SetRatio(@, P!Front(p))]
    BY DEF P!SetActivePaneDivider
<1>2. PICK p \in P!Leaves(layout[s]) :
         P!Closable(s, p) /\ layout' = [layout EXCEPT ![s] = P!SetRatio(@, P!Front(p))]
    BY <1>1
<1>3. P!Saved /\ UNCHANGED <<nextPane, active, pending, windows>>
    BY DEF P!SetActivePaneDivider
<1> DEFINE m == P!SetRatio(layout[s], P!Front(p))
<1>4. s \in Lives(layout) /\ layout[s] \in Trees /\ Planted(layout[s])
    BY <1>2, ClosableFacts
<1>5. layout' = [layout EXCEPT ![s] = m]
    BY <1>2, <1>4 DEF Lives
<1>6. m \in Trees /\ Planted(m) /\ From(m, layout[s], {})
    BY <1>4, RatioTree
<1> HIDE DEF m
<1>7. Arranged(layout', nextPane', active') /\ WindowsFit(layout', pending', windows')
    BY <1>3, <1>4, <1>5, <1>6, TreeChanged
<1> QED
    BY <1>3, <1>7, SavingStep

LEMMA SectionsKeep ==
    ASSUME PanesInv, P!EditSections
    PROVE  PanesInv'
<1>1. PICK s \in P!Live : \E p \in P!Shows(layout[s], "Gloss") :
         \E x \in Section : layout' = [layout EXCEPT ![s].panes[p].sections = P!Toggled(@, x)]
    BY DEF P!EditSections
<1>2. PICK p \in P!Shows(layout[s], "Gloss"), x \in Section :
         layout' = [layout EXCEPT ![s].panes[p].sections = P!Toggled(@, x)]
    BY <1>1
<1>3. P!Saved /\ UNCHANGED <<nextPane, active, pending, windows>>
    BY DEF P!EditSections
<1> DEFINE l == layout[s]
           y == P!Toggled(l.panes[p].sections, x)
           m == [l EXCEPT !.panes[p].sections = y]
<1>4. s \in Lives(layout) /\ l \in Trees /\ Planted(l) /\ p \in P!Leaves(l)
    BY <1>2, LiveIsLives, OrchardFacts DEF PanesInv, Arranged, P!Shows
<1>5. l.panes[p] \in PaneType
    BY <1>4, TreeFacts
<1>6. y \in SUBSET Section
    BY <1>5 DEF P!Toggled, PaneType
<1>7. /\ s \in DOMAIN layout /\ DOMAIN l = {"panes", "moved"} /\ p \in DOMAIN l.panes
      /\ DOMAIN l.panes[p] = {"id", "content", "node", "sections"}
    BY <1>4, <1>5 DEF Lives, Trees, PaneType, P!Leaves
<1>8. layout' = [layout EXCEPT ![s] = m]
    BY <1>2, <1>7
<1> HIDE DEF y
<1>9. m \in Trees /\ Planted(m) /\ From(m, l, {})
    BY <1>4, <1>6, SectionsTree
<1> HIDE DEF m
<1>10. Arranged(layout', nextPane', active') /\ WindowsFit(layout', pending', windows')
    BY <1>3, <1>4, <1>8, <1>9, TreeChanged
<1> QED
    BY <1>3, <1>10, SavingStep

\* A ratio in motion is not saved, and there is a seam held.
LEMMA MoveSeamKeeps ==
    ASSUME PanesInv, P!MoveSeam
    PROVE  PanesInv'
<1>1. UNCHANGED <<nextPane, active, pending, windows>> /\ UNCHANGED <<saved, seam, lensSeam>>
    BY DEF P!MoveSeam, P!seams
<1>2. /\ seam # P!None \/ lensSeam # P!None
      /\ \E s \in Lives(layout) : \E at :
            layout' = [layout EXCEPT ![s] = P!SetRatio(layout[s], at)]
    <2>1. CASE seam # P!None /\ layout' = [layout EXCEPT ![1] = P!SetRatio(@, seam[1])]
        <3>1. 1 \in Lives(layout)
            BY DEF PanesInv, Arranged, Orchard
        <3>2. layout' = [layout EXCEPT ![1] = P!SetRatio(layout[1], seam[1])]
            BY <2>1, <3>1 DEF Lives
        <3> QED
            BY <2>1, <3>1, <3>2
    <2>2. CASE /\ lensSeam # P!None /\ lensSeam[1] \in P!Live
               /\ layout' = [layout EXCEPT ![lensSeam[1]] = P!SetRatio(@, lensSeam[2])]
        <3> DEFINE t == lensSeam[1]
                   r == lensSeam[2]
        <3>1. t \in Lives(layout)
            BY <2>2, LiveIsLives
        <3>2. layout' = [layout EXCEPT ![t] = P!SetRatio(layout[t], r)]
            BY <2>2, <3>1 DEF Lives
        <3> HIDE DEF t, r
        <3> QED
            BY <2>2, <3>1, <3>2
    <2> QED
        BY <2>1, <2>2 DEF P!MoveSeam
<1>3. PICK s \in Lives(layout) : \E at : layout' = [layout EXCEPT ![s] = P!SetRatio(layout[s], at)]
    BY <1>2
<1>3a. PICK at : layout' = [layout EXCEPT ![s] = P!SetRatio(layout[s], at)]
    BY <1>3
<1> DEFINE m == P!SetRatio(layout[s], at)
<1>4. layout[s] \in Trees /\ Planted(layout[s])
    BY OrchardFacts DEF PanesInv, Arranged
<1>5. m \in Trees /\ Planted(m) /\ From(m, layout[s], {}) /\ layout' = [layout EXCEPT ![s] = m]
    BY <1>3a, <1>4, RatioTree
<1> HIDE DEF m
<1>6. Arranged(layout', nextPane', active') /\ WindowsFit(layout', pending', windows')
    BY <1>1, <1>5, TreeChanged
<1>7. Orchard(saved'.layout)
    BY <1>1 DEF PanesInv
<1>8. P!OnlyDragsUnsaved'
    BY <1>1, <1>2 DEF P!OnlyDragsUnsaved
<1> QED
    BY <1>6, <1>7, <1>8 DEF PanesInv

\* What changes neither the trees nor what is saved, and lets no seam go.
LEMMA StillKeeps ==
    ASSUME PanesInv, UNCHANGED <<layout, saved, tiled, front>>,
           Arranged(layout, nextPane', active'), WindowsFit(layout, pending', windows'),
           seam' = P!None /\ lensSeam' = P!None => seam = P!None /\ lensSeam = P!None
    PROVE  PanesInv'
<1>1. P!OnlyDragsUnsaved'
    BY DEF PanesInv, P!OnlyDragsUnsaved
<1> QED
    BY <1>1 DEF PanesInv

\* A pane pressed is no graph.
LEMMA PressKeeps ==
    ASSUME PanesInv, P!PressPane
    PROVE  PanesInv'
<1>1. PICK s \in P!Shown : \E p \in P!Visible(s) :
         /\ layout[s].panes[p].content # "Orrery"
         /\ active' = layout[s].panes[p].id
    BY DEF P!PressPane
<1>2. PICK p \in P!Visible(s) :
         /\ layout[s].panes[p].content # "Orrery"
         /\ active' = layout[s].panes[p].id
    BY <1>1
<1>3. s \in Lives(layout) /\ Arranged(layout, nextPane, active) /\ Orchard(layout)
    BY LiveIsLives DEF P!Shown, PanesInv, Arranged
<1>4. p \in P!Leaves(layout[s])
    <2>1. CASE s = 1 /\ maximized \in P!Ids(layout[1])
        BY <1>2, <2>1 DEF P!Visible, P!PathOf, P!Ids
    <2>2. CASE ~ (s = 1 /\ maximized \in P!Ids(layout[1]))
        BY <1>2, <2>2 DEF P!Visible
    <2> QED
        BY <2>1, <2>2
<1>5. layout[s].panes[p] \in PaneType /\ layout[s].panes[p].id < nextPane
    BY <1>3, <1>4, OrchardFacts, TreeFacts DEF Arranged, Below
<1>6. active' \in Nat /\ active' < nextPane
    BY <1>2, <1>5 DEF PaneType
<1> DEFINE act == active'
<1>7. ASSUME NEW t \in Lives(layout), NEW q \in P!Leaves(layout[t]),
             layout[t].panes[q].content = "Orrery"
      PROVE  layout[t].panes[q].id # act
    <2>1. CASE t = s
        BY <1>2, <1>3, <1>4, <1>7, <2>1 DEF Orchard, Planted, OwnIds
    <2>2. CASE t # s
        BY <1>2, <1>3, <1>4, <1>7, <2>2 DEF Orchard
    <2> QED
        BY <2>1, <2>2
<1>8. act \in Nat /\ act < nextPane
    BY <1>6
<1> HIDE DEF act
<1>9. Arranged(layout, nextPane, act)
    BY <1>3, <1>7, <1>8 DEF Arranged, NoGraph
<1>10. UNCHANGED <<layout, saved, tiled, front, nextPane, pending, windows, seam, lensSeam>>
    BY DEF P!PressPane, P!bench, P!seams
<1> QED
    BY <1>9, <1>10, StillKeeps DEF PanesInv, act

\* A window is made, or not, of the lens asked for last.
LEMMA DrainKeeps ==
    ASSUME PanesInv, P!DrainPendingWindow
    PROVE  PanesInv'
<1> DEFINE q == P!Front(pending)
           o == P!Last(pending)
           n == Len(pending)
           w == windows'
<1>1. WindowsFit(layout, pending, windows) /\ pending \in Seq(Nat) /\ pending # <<>>
    BY DEF PanesInv, WindowsFit, P!DrainPendingWindow
<1>2. /\ q \in Seq(Nat) /\ n \in Nat /\ n >= 1 /\ Len(q) = n - 1 /\ o = pending[n]
      /\ \A i \in 1..(n - 1) : q[i] = pending[i]
    BY <1>1, FrontFacts
<1>3. DOMAIN q = 1..(n - 1) /\ DOMAIN pending = 1..n /\ n \in DOMAIN pending
    BY <1>1, <1>2, LenProperties
<1>4. o + 1 \in Lives(layout) /\ o \in P!Slots /\ windows[o] = 0 /\ windows \in [P!Slots -> {0, 1}]
    BY <1>1, <1>2, <1>3 DEF WindowsFit
<1>5. w = windows \/ w = [windows EXCEPT ![o] = windows[o] + 1]
    BY DEF P!DrainPendingWindow
<1>6. pending' = q /\ UNCHANGED <<layout, saved, tiled, front, nextPane, active, seam, lensSeam>>
    BY DEF P!DrainPendingWindow, P!tree, P!bench, P!seams
<1>7. ASSUME NEW i \in DOMAIN q
      PROVE  i \in DOMAIN pending /\ i # n /\ q[i] = pending[i] /\ q[i] # o
    <2>1. i \in DOMAIN pending /\ i # n /\ q[i] = pending[i]
        BY <1>2, <1>3
    <2> QED
        BY <1>1, <1>2, <1>3, <2>1 DEF WindowsFit
<1> HIDE DEF q, o, n, w
<1>8. /\ w \in [P!Slots -> {0, 1}] /\ \A v \in P!Slots : v # o => w[v] = windows[v]
    BY <1>4, <1>5
<1>9. ASSUME NEW i \in DOMAIN q
      PROVE  q[i] + 1 \in Lives(layout) /\ q[i] \in P!Slots /\ w[q[i]] = 0
    BY <1>1, <1>7, <1>8 DEF WindowsFit
<1>10. ASSUME NEW i \in DOMAIN q, NEW j \in DOMAIN q, q[i] = q[j] PROVE i = j
    BY <1>1, <1>7, <1>10 DEF WindowsFit
<1>11. \A v \in P!Slots : w[v] = 1 => v + 1 \in Lives(layout)
    BY <1>1, <1>4, <1>8 DEF WindowsFit
<1>12. WindowsFit(layout, q, w)
    BY <1>2, <1>8, <1>9, <1>10, <1>11 DEF WindowsFit
<1>13. Arranged(layout, nextPane', active')
    BY <1>6 DEF PanesInv
<1> QED
    BY <1>6, <1>12, <1>13, StillKeeps DEF w

LEMMA StillSteps ==
    ASSUME PanesInv, P!ToggleMaximizePane \/ P!PressSeam
    PROVE  PanesInv'
<1>1. /\ UNCHANGED <<layout, saved, tiled, front, nextPane, active, pending, windows>>
      /\ seam' = P!None /\ lensSeam' = P!None => seam = P!None /\ lensSeam = P!None
    BY DEF P!ToggleMaximizePane, P!PressSeam, P!tree, P!bench, P!seams
<1>2. Arranged(layout, nextPane', active') /\ WindowsFit(layout, pending', windows')
    BY <1>1 DEF PanesInv
<1> QED
    BY <1>1, <1>2, StillKeeps

LEMMA QuietSteps ==
    ASSUME PanesInv,
           \/ P!SaveSession \/ P!ReleaseSeam
           \/ \E m \in Tile : P!CloseWorkbenchTile(m) \/ P!RaiseTile(m)
    PROVE  PanesInv'
<1>1. UNCHANGED <<layout, nextPane, active, pending, windows>> /\ P!Saved
    BY DEF P!SaveSession, P!ReleaseSeam, P!CloseWorkbenchTile, P!RaiseTile, P!tree
<1> QED
    BY <1>1, QuietKeeps

\* A window opened is bare: it is the one thing not saved.
LEMMA NewWindowKeeps ==
    ASSUME PanesInv, P!NewWindow
    PROVE  PanesInv'
<1> DEFINE m == P!Seeded(nextPane)
           k == Append(layout, m)
<1>1. /\ layout' = k /\ nextPane' = nextPane + 1 /\ pending' = Append(pending, Len(layout))
      /\ Len(layout) <= MaxLens
      /\ UNCHANGED <<active, saved, tiled, front, windows, seam, lensSeam>>
    BY DEF P!NewWindow, P!bench, P!seams
<1>2. /\ nextPane \in Nat /\ Orchard(layout) /\ Below(layout, nextPane)
      /\ active < nextPane /\ (active \in Nat \/ active = P!NoPane) /\ NoGraph(layout, active)
      /\ WindowsFit(layout, pending, windows)
    BY DEF PanesInv, Arranged
<1>3. /\ m \in Trees /\ Planted(m) /\ P!Leaves(m) = {<<>>}
      /\ \A p \in P!Leaves(m) : m.panes[p].id = nextPane
      /\ P!Shows(m, "Orrery") # {}
    <2>1. /\ m \in Trees /\ Planted(m) /\ P!Leaves(m) = {<<>>}
          /\ m.panes[<<>>].id = nextPane /\ m.panes[<<>>].content = "Orrery"
        BY <1>2, SeededTree
    <2> HIDE DEF m
    <2> QED
        BY <2>1 DEF P!Shows
<1> HIDE DEF m
<1>4. Fresh(layout, nextPane)
    BY <1>2 DEF Below, Fresh, P!Leaves, Orchard
<1>5. Below(layout, nextPane + 1)
    <2>1. ASSUME NEW t \in Lives(layout), NEW p \in P!Leaves(layout[t])
          PROVE  layout[t].panes[p].id < nextPane + 1
        <3>1. layout[t].panes[p] \in PaneType /\ layout[t].panes[p].id < nextPane
            BY <1>2, OrchardFacts, TreeFacts DEF Below
        <3> QED
            BY <1>2, <3>1 DEF PaneType
    <2> QED
        BY <2>1 DEF Below
<1>6. \A p \in P!Leaves(m) : Fresh(layout, m.panes[p].id) /\ m.panes[p].id < nextPane + 1
                              /\ m.panes[p].id # active
    BY <1>2, <1>3, <1>4
<1>7. /\ Orchard(k) /\ Lives(k) = Lives(layout) \cup {Len(layout) + 1}
      /\ \A t \in DOMAIN layout : k[t] = layout[t]
      /\ k[Len(layout) + 1] = m
      /\ Below(k, nextPane + 1) /\ NoGraph(k, active) /\ Len(k) = Len(layout) + 1
    BY <1>1, <1>2, <1>3, <1>5, <1>6, Added
<1> HIDE DEF k
<1>8. WindowsFit(k, Append(pending, Len(layout)), windows)
    BY <1>1, <1>2, <1>7, WindowAsked
<1>9. Arranged(k, nextPane + 1, active)
    <2>1. nextPane + 1 \in Nat /\ active < nextPane + 1
        BY <1>2 DEF P!NoPane
    <2> QED
        BY <1>2, <1>7, <2>1 DEF Arranged
<1>10. P!OnlyDragsUnsaved'
    <2> SUFFICES ASSUME seam = P!None, lensSeam = P!None PROVE P!OnlyDragsUnsaved'
        BY <1>1 DEF P!OnlyDragsUnsaved
    <2> DEFINE d == saved.layout
    <2>1. /\ saved.tiled = tiled /\ saved.front = front /\ P!IsPrefix(d, layout)
          /\ \A s \in DOMAIN layout \ DOMAIN d :
               P!Leaves(layout[s]) = {<<>>} /\ P!Shows(layout[s], "Orrery") # {}
        BY DEF PanesInv, P!OnlyDragsUnsaved
    <2>2. /\ d \in Seq(Trees \cup {P!Gone}) /\ layout \in Seq(Trees \cup {P!Gone})
          /\ k \in Seq(Trees \cup {P!Gone})
        BY <1>2, <1>7 DEF PanesInv, Orchard
    <2> HIDE DEF d
    <2>3. Under(d, layout)
        BY <2>1, <2>2, PrefixFacts
    <2>4. Under(d, k)
        BY <1>7, <2>2, <2>3 DEF Under
    <2>5. P!IsPrefix(d, k)
        BY <2>2, <2>4, PrefixFacts
    <2>6. \A s \in DOMAIN k : s \in DOMAIN layout \/ s = Len(layout) + 1
        BY <1>7, <2>2
    <2>7. \A s \in DOMAIN k \ DOMAIN d :
             P!Leaves(k[s]) = {<<>>} /\ P!Shows(k[s], "Orrery") # {}
        BY <1>3, <1>7, <2>1, <2>6
    <2>8. layout' = k /\ saved' = saved /\ d = saved.layout
        BY <1>1 DEF d
    <2> QED
        BY <1>1, <2>1, <2>5, <2>7, <2>8 DEF P!OnlyDragsUnsaved
<1> QED
    BY <1>1, <1>8, <1>9, <1>10 DEF PanesInv

LEMMA CloseLensKeeps ==
    ASSUME PanesInv, NEW o \in P!Slots, P!CloseLens(o)
    PROVE  PanesInv'
<1> DEFINE k == [layout EXCEPT ![o + 1] = P!Gone]
           w == [windows EXCEPT ![o] = windows[o] - 1]
<1>1. /\ layout' = k /\ windows' = w /\ windows[o] > 0 /\ P!Saved
      /\ UNCHANGED <<nextPane, active, pending>>
    BY DEF P!CloseLens
<1>2. /\ Orchard(layout) /\ WindowsFit(layout, pending, windows) /\ Arranged(layout, nextPane, active)
      /\ windows \in [P!Slots -> {0, 1}]
    BY DEF PanesInv, Arranged, WindowsFit
<1>3. windows[o] = 1 /\ o + 1 \in Lives(layout) /\ o + 1 # 1 /\ o \in Int
    <2>1. windows[o] \in {0, 1} /\ windows[o] # 0
        BY <1>1, <1>2
    <2>2. o \in Int /\ o >= 1
        BY DeskAssumption DEF P!Slots
    <2> QED
        BY <1>2, <2>1, <2>2 DEF WindowsFit
<1>4. w \in [P!Slots -> {0, 1}] /\ w[o] = 0 /\ \A v \in P!Slots : v # o => w[v] = windows[v]
    BY <1>2, <1>3
<1> HIDE DEF w
<1>5. /\ Orchard(k) /\ Lives(k) = Lives(layout) \ {o + 1}
      /\ Below(k, nextPane) /\ NoGraph(k, active)
    BY <1>2, <1>3, Emptied DEF Arranged
<1> HIDE DEF k
<1>6. Arranged(k, nextPane, active)
    BY <1>2, <1>5 DEF Arranged
<1>7. ASSUME NEW i \in DOMAIN pending
      PROVE  pending[i] + 1 \in Lives(k) /\ pending[i] \in P!Slots /\ w[pending[i]] = 0
    <2>1. pending[i] + 1 \in Lives(layout) /\ pending[i] \in P!Slots /\ windows[pending[i]] = 0
        BY <1>2 DEF WindowsFit
    <2>2. pending[i] # o
        BY <1>3, <2>1
    <2>3. pending[i] + 1 # o + 1
        BY <1>3, <2>1, <2>2 DEF P!Slots
    <2> QED
        BY <1>4, <1>5, <2>1, <2>2, <2>3
<1>8. ASSUME NEW v \in P!Slots, w[v] = 1 PROVE v + 1 \in Lives(k)
    <2>1. v # o /\ v + 1 \in Lives(layout)
        BY <1>2, <1>4, <1>8 DEF WindowsFit
    <2>2. v + 1 # o + 1
        BY <1>3, <2>1 DEF P!Slots
    <2> QED
        BY <1>5, <2>1, <2>2
<1>9. WindowsFit(k, pending, w)
    BY <1>2, <1>4, <1>7, <1>8 DEF WindowsFit
<1>10. Arranged(layout', nextPane', active') /\ WindowsFit(layout', pending', windows')
    BY <1>1, <1>6, <1>9
<1> QED
    BY <1>1, <1>10, SavingStep

-----------------------------------------------------------------------------
(* Adopting, the first state, and every step.                                *)

\* Panes counts as the theorems do.
LEMMA PanesCount == \A S : P!Cardinality(S) = Cardinality(S)
BY DEF P!Cardinality, Cardinality

\* Every lens is asked for once.
LEMMA AskedFits ==
    ASSUME NEW ls, Orchard(ls), NEW q \in P!Asked(ls), NEW w, w = [o \in P!Slots |-> 0]
    PROVE  WindowsFit(ls, q, w)
<1> DEFINE lenses == {o \in 1..(Len(ls) - 1) : ls[o + 1] # P!Gone}
           n == Cardinality(lenses)
<1>1. Len(ls) \in Nat /\ Len(ls) <= MaxLens + 1 /\ DOMAIN ls = 1..Len(ls)
    BY OrchardFacts DEF Orchard
<1>2. n \in Nat
    <2>1. IsFiniteSet(1..(Len(ls) - 1))
        BY <1>1, FS_Interval
    <2>2. IsFiniteSet(lenses)
        BY <2>1, FS_Subset
    <2> HIDE DEF lenses
    <2> QED
        BY <2>2, FS_CardinalityType
<1>3. /\ q \in [1..n -> lenses] /\ \A i, j \in DOMAIN q : i < j => q[i] < q[j]
    <2>1. P!Cardinality(lenses) = n
        BY PanesCount
    <2> QED
        BY <2>1 DEF P!Asked
<1>4. \A o \in lenses : o \in Nat /\ o \in P!Slots /\ o + 1 \in Lives(ls)
    BY <1>1, DeskAssumption DEF P!Slots, Lives
<1> HIDE DEF lenses, n
<1>5. q \in Seq(Nat) /\ DOMAIN q = 1..n
    <2>1. q \in [1..n -> Nat]
        BY <1>3, <1>4
    <2> QED
        BY <1>2, <2>1, IsASeq
<1>6. ASSUME NEW i \in DOMAIN q, NEW j \in DOMAIN q, q[i] = q[j] PROVE i = j
    <2>1. i \in Nat /\ j \in Nat /\ q[i] \in Nat /\ q[j] \in Nat
        BY <1>2, <1>3, <1>4, <1>5
    <2>2. ~ (i < j) /\ ~ (j < i)
        BY <1>3, <1>6, <2>1
    <2> QED
        BY <2>1, <2>2
<1>7. \A o \in P!Slots : w[o] = 0
    OBVIOUS
<1>8. w \in [P!Slots -> {0, 1}]
    OBVIOUS
<1>9. ASSUME NEW i \in DOMAIN q
      PROVE  q[i] + 1 \in Lives(ls) /\ q[i] \in P!Slots /\ w[q[i]] = 0
    BY <1>3, <1>4, <1>5, <1>7
<1>10. \A o \in P!Slots : w[o] = 1 => o + 1 \in Lives(ls)
    BY <1>7
<1> QED
    BY <1>5, <1>6, <1>8, <1>9, <1>10 DEF WindowsFit

\* An arrangement read from disk is one, with the next id above those in it.
LEMMA AdoptFacts ==
    ASSUME NEW image, Orchard(image.layout), P!Adopt(image)
    PROVE  PanesInv'
<1> DEFINE ls == image.layout
           n == nextPane'
           q == pending'
           w == windows'
<1>1. /\ layout' = ls /\ saved'.layout = ls /\ saved'.tiled = tiled' /\ saved'.front = front'
      /\ q \in P!Asked(ls) /\ w = [o \in P!Slots |-> 0] /\ active' = P!NoPane
      /\ \E id \in P!PaneIds(ls) : P!IsGreatest(id, P!PaneIds(ls)) /\ n = id + 1
    BY DEF P!Adopt
<1>2. PICK top \in P!PaneIds(ls) : P!IsGreatest(top, P!PaneIds(ls)) /\ n = top + 1
    BY <1>1
<1> HIDE DEF ls, n, q, w
<1>3. Orchard(ls)
    BY DEF ls
<1>4. ASSUME NEW t \in Lives(ls), NEW p \in P!Leaves(ls[t])
      PROVE  ls[t].panes[p].id \in Nat /\ ls[t].panes[p].id \in P!PaneIds(ls)
    <2>1. ls[t].panes[p] \in PaneType /\ t \in DOMAIN ls
        BY <1>3, OrchardFacts, TreeFacts
    <2> QED
        BY <2>1 DEF PaneType, P!PaneIds, P!Ids
<1>5. top \in Nat
    <2>0. PICK t \in DOMAIN ls : top \in P!Ids(ls[t])
        BY DEF P!PaneIds
    <2>1. PICK p \in P!Leaves(ls[t]) : top = ls[t].panes[p].id
        BY <2>0 DEF P!Ids
    <2>2. ls[t] # P!Gone
        BY DEF P!Leaves, P!Gone
    <2> QED
        BY <1>4, <2>1, <2>2 DEF Lives
<1>6. n \in Nat
    BY <1>2, <1>5
<1>7. Below(ls, n)
    <2>1. ASSUME NEW t \in Lives(ls), NEW p \in P!Leaves(ls[t]) PROVE ls[t].panes[p].id < n
        <3>1. ls[t].panes[p].id <= top /\ ls[t].panes[p].id \in Nat
            BY <1>2, <1>4 DEF P!IsGreatest
        <3> QED
            BY <1>2, <1>5, <3>1
    <2> QED
        BY <2>1 DEF Below
<1>8. Arranged(ls, n, P!NoPane)
    <2>1. ASSUME NEW t \in Lives(ls), NEW p \in P!Leaves(ls[t])
          PROVE  ls[t].panes[p].id # P!NoPane
        BY <1>4 DEF P!NoPane
    <2>2. P!NoPane < n
        BY <1>6 DEF P!NoPane
    <2> QED
        BY <1>3, <1>6, <1>7, <2>1, <2>2 DEF Arranged, NoGraph
<1>9. WindowsFit(ls, q, w)
    BY <1>1, <1>3, AskedFits
<1>10. Arranged(layout', nextPane', active') /\ WindowsFit(layout', pending', windows')
    BY <1>1, <1>8, <1>9 DEF n, q, w
<1>11. Orchard(saved'.layout) /\ P!OnlyDragsUnsaved'
    BY <1>1, <1>3, SavedAll
<1> QED
    BY <1>10, <1>11 DEF PanesInv

\* The arrangement a session begins with.
LEMMA DeskFacts ==
    /\ Orchard(P!Desk) /\ Below(P!Desk, 1)
    /\ P!Desk \in Seq(Trees \cup {P!Gone}) /\ Lives(P!Desk) = {1}
<1> DEFINE m == P!Seeded(0)
           d == <<m>>
<1>1. P!Desk = d
    BY DEF P!Desk, P!Seeded
<1>2. /\ m \in Trees /\ Planted(m) /\ \A p \in P!Leaves(m) : m.panes[p].id = 0
    BY SeededTree
<1>3. m # P!Gone
    BY <1>2, NotGone
<1> HIDE DEF m
<1>4. d \in Seq(Trees \cup {P!Gone}) /\ Len(d) = 1 /\ DOMAIN d = {1} /\ d[1] = m
    BY <1>2
<1> HIDE DEF d
<1>5. Lives(d) = {1}
    BY <1>3, <1>4 DEF Lives
<1>6. Orchard(d)
    BY <1>2, <1>4, <1>5, DeskAssumption DEF Orchard
<1>7. Below(d, 1)
    BY <1>2, <1>4, <1>5 DEF Below
<1> QED
    BY <1>1, <1>4, <1>5, <1>6, <1>7

LEMMA PanesBegin == P!PanesInit => PanesInv
<1> SUFFICES ASSUME P!PanesInit PROVE PanesInv
    OBVIOUS
<1> DEFINE d == P!Desk
           q == pending
<1>1. /\ layout = d /\ active = P!NoPane /\ nextPane = 1 /\ q = <<>>
      /\ windows = [o \in P!Slots |-> 0] /\ saved = P!Default
      /\ tiled = {} /\ front = {}
    BY DEF P!PanesInit
<1>2. /\ saved.layout = d /\ saved.tiled = {} /\ saved.front = {}
    BY <1>1 DEF P!Default, P!Image
<1>3. Orchard(d) /\ Below(d, 1) /\ d \in Seq(Trees \cup {P!Gone}) /\ Lives(d) = {1}
    BY DeskFacts
<1>4. q \in Seq(Nat) /\ DOMAIN q = {}
    BY <1>1
<1> HIDE DEF d, q
<1>5. Arranged(d, 1, P!NoPane)
    <2>1. ASSUME NEW t \in Lives(d), NEW p \in P!Leaves(d[t]) PROVE d[t].panes[p].id # P!NoPane
        <3>1. d[t].panes[p] \in PaneType
            BY <1>3, OrchardFacts, TreeFacts
        <3> QED
            BY <3>1 DEF PaneType, P!NoPane
    <2> QED
        BY <1>3, <2>1 DEF Arranged, NoGraph, P!NoPane
<1>6. WindowsFit(d, q, windows)
    BY <1>1, <1>4 DEF WindowsFit
<1>7. P!IsPrefix(d, d)
    <2>1. Under(d, d)
        BY <1>3 DEF Under
    <2> QED
        BY <1>3, <2>1, PrefixFacts
<1>8. P!OnlyDragsUnsaved
    BY <1>1, <1>2, <1>7 DEF P!OnlyDragsUnsaved
<1> QED
    BY <1>1, <1>2, <1>3, <1>5, <1>6, <1>8 DEF PanesInv, q

LEMMA PanesStep == PanesInv /\ P!PanesNext => PanesInv'
<1> SUFFICES ASSUME PanesInv, P!PanesNext PROVE PanesInv'
    OBVIOUS
<1>1. ASSUME NEW c \in Summoned, P!SummonPane(c) PROVE PanesInv'
    BY <1>1, SummonKeeps
<1>2. CASE P!CloseActivePane
    BY <1>2, ClosePaneKeeps
<1>3. CASE P!TearOutActivePane
    BY <1>3, TearOutKeeps
<1>4. ASSUME NEW m \in Tile,
             P!OpenInWorkbench(m) \/ P!CloseWorkbenchTile(m) \/ P!TearOutTile(m) \/ P!RaiseTile(m)
      PROVE  PanesInv'
    BY <1>4, OpenPaneKeeps, TearTileKeeps, QuietSteps
<1>5. CASE P!ToggleMaximizePane \/ P!PressSeam
    BY <1>5, StillSteps
<1>6. CASE P!SetActivePaneDivider
    BY <1>6, DividerKeeps
<1>7. CASE P!EditSections
    BY <1>7, SectionsKeep
<1>8. CASE P!NewWindow
    BY <1>8, NewWindowKeeps
<1>9. CASE P!SaveSession \/ P!ReleaseSeam
    BY <1>9, QuietSteps
<1>10. CASE P!DrainPendingWindow
    BY <1>10, DrainKeeps
<1>11. ASSUME NEW o \in P!Slots, P!CloseLens(o) PROVE PanesInv'
    BY <1>11, CloseLensKeeps
<1>12. CASE P!PressPane
    BY <1>12, PressKeeps
<1>13. CASE P!MoveSeam
    BY <1>13, MoveSeamKeeps
<1>14. CASE P!SwitchSession
    <2>1. CASE P!Adopt(P!Image(layout, tiled, front))
        <3> DEFINE image == P!Image(layout, tiled, front)
        <3>1. Orchard(image.layout)
            BY DEF PanesInv, Arranged, P!Image
        <3> HIDE DEF image
        <3>2. P!Adopt(image)
            BY <2>1 DEF image
        <3> QED
            BY <3>1, <3>2, AdoptFacts
    <2>2. CASE P!Adopt(P!Default)
        <3> DEFINE image == P!Default
        <3>1. Orchard(image.layout)
            BY DeskFacts DEF P!Default, P!Image
        <3> HIDE DEF image
        <3>2. P!Adopt(image)
            BY <2>2 DEF image
        <3> QED
            BY <3>1, <3>2, AdoptFacts
    <2> QED
        BY <1>14, <2>1, <2>2 DEF P!SwitchSession
<1>15. CASE P!Restart
    <2>1. P!Adopt(saved) /\ Orchard(saved.layout)
        BY <1>15 DEF P!Restart, PanesInv
    <2> QED
        BY <2>1, AdoptFacts
<1> QED
    BY <1>1, <1>2, <1>3, <1>4, <1>5, <1>6, <1>7, <1>8, <1>9, <1>10, <1>11, <1>12,
       <1>13, <1>14, <1>15 DEF P!PanesNext

LayoutInv == part = "panes" => PanesInv

\* A step of another part leaves the panes alone.
LEMMA PanesInductive ==
    /\ Init => LayoutInv
    /\ LayoutInv /\ [Next]_DeskVars => LayoutInv'
<1>1. Init => LayoutInv
    BY PanesBegin DEF Init, LayoutInv
<1>2. ASSUME LayoutInv, [Next]_DeskVars, part' = "panes"
      PROVE  PanesInv'
    <2>1. part = "panes" /\ PanesInv
        BY <1>2 DEF Next, LayoutInv, DeskVars
    <2>2. CASE UNCHANGED panesVars
        <3>1. UNCHANGED <<layout, saved, tiled, front, nextPane, active, pending, windows, seam, lensSeam>>
            BY <2>2 DEF panesVars
        <3> QED
            BY <2>1, <3>1, StillKeeps DEF PanesInv
    <2>3. CASE P!PanesNext
        BY <2>1, <2>3, PanesStep
    <2> QED
        BY <1>2, <2>1, <2>2, <2>3 DEF Next, DeskVars
<1> QED
    BY <1>1, <1>2 DEF LayoutInv

\* What the invariant says of the arrangement.
LEMMA SoundNow == PanesInv => P!ArrangementSound
<1> SUFFICES ASSUME PanesInv PROVE P!ArrangementSound
    OBVIOUS
<1>1. /\ Orchard(layout) /\ Below(layout, nextPane) /\ nextPane \in Nat
      /\ WindowsFit(layout, pending, windows) /\ P!Live = Lives(layout)
    BY LiveIsLives DEF PanesInv, Arranged
<1>2. P!PlacedOnce
    <2>1. ASSUME NEW s \in Lives(layout), NEW p \in P!Leaves(layout[s]), NEW q \in P!Leaves(layout[s]),
                 layout[s].panes[p].id = layout[s].panes[q].id
          PROVE  p = q
        BY <1>1, <2>1 DEF Orchard, Planted, OwnIds
    <2>2. ASSUME NEW s \in Lives(layout), NEW t \in Lives(layout), s # t
          PROVE  P!Ids(layout[s]) \cap P!Ids(layout[t]) = {}
        BY <1>1, <2>2 DEF Orchard, P!Ids
    <2>3. ASSUME NEW id \in P!PaneIds(layout) PROVE id < nextPane
        <3>0. PICK t \in DOMAIN layout : id \in P!Ids(layout[t])
            BY <2>3 DEF P!PaneIds
        <3>1. PICK p \in P!Leaves(layout[t]) : id = layout[t].panes[p].id
            BY <3>0 DEF P!Ids
        <3>2. layout[t] # P!Gone
            BY <3>1 DEF P!Leaves, P!Gone
        <3> QED
            BY <1>1, <3>1, <3>2 DEF Lives, Below
    <2> QED
        BY <1>1, <2>1, <2>2, <2>3 DEF P!PlacedOnce
<1>3. P!GraphKept
    <2>1. ASSUME NEW s \in Lives(layout)
          PROVE  P!Cardinality(P!Shows(layout[s], "Orrery")) = 1
        <3>1. PICK g \in P!Leaves(layout[s]) :
                \A p \in P!Leaves(layout[s]) : layout[s].panes[p].content = "Orrery" <=> p = g
            BY <1>1, <2>1 DEF Orchard, Planted, OneGraph
        <3>2. P!Shows(layout[s], "Orrery") = {g}
            BY <3>1 DEF P!Shows
        <3> QED
            BY <3>2, PanesCount, FS_Singleton
    <2> QED
        BY <1>1, <2>1 DEF P!GraphKept
<1>4. P!OneWindowEach
    <2>1. ASSUME NEW o \in P!Slots
          PROVE  windows[o] + P!Cardinality({i \in DOMAIN pending : pending[i] = o})
                   <= (IF o + 1 \in P!Live THEN 1 ELSE 0)
        <3> DEFINE asked == {i \in DOMAIN pending : pending[i] = o}
        <3>1. windows[o] \in {0, 1} /\ (windows[o] = 1 => o + 1 \in P!Live)
            BY <1>1 DEF WindowsFit
        <3>2. CASE asked = {}
            <4>1. P!Cardinality(asked) = 0
                BY <3>2, PanesCount, FS_EmptySet
            <4> QED
                BY <3>1, <4>1
        <3>3. ASSUME NEW i \in asked
              PROVE  /\ P!Cardinality(asked) = 1 /\ windows[o] = 0 /\ o + 1 \in P!Live
            <4>1. asked = {i} /\ windows[o] = 0 /\ o + 1 \in P!Live
                BY <1>1, <3>3 DEF WindowsFit
            <4> HIDE DEF asked
            <4> QED
                BY <4>1, PanesCount, FS_Singleton
        <3> QED
            BY <3>1, <3>2, <3>3
    <2> QED
        BY <2>1 DEF P!OneWindowEach
<1> QED
    BY <1>2, <1>3, <1>4 DEF P!ArrangementSound

\* ArrangementSound: every pane is in one place under an id of its own, every
\* window has its graph, and every lens at most one window, through every
\* close, tear-out, switch and restart, for any number of panes and lenses.
THEOREM ArrangementsAreSound == Spec => []ArrangementSound
<1>1. LayoutInv => ArrangementSound
    BY SoundNow DEF LayoutInv, ArrangementSound
<1> QED
    BY <1>1, PanesInductive, PTL DEF Spec, DeskVars

\* OnlyDragsUnsaved: with no seam held, what a start would read back is all
\* there is but windows just opened.
THEOREM OnlyDragsAreLost == Spec => []OnlyDragsUnsaved
<1>1. LayoutInv => OnlyDragsUnsaved
    BY DEF LayoutInv, PanesInv, OnlyDragsUnsaved
<1> QED
    BY <1>1, PanesInductive, PTL DEF Spec, DeskVars

=============================================================================
