------------------------------- MODULE Denizens -------------------------------
(***************************************************************************)
(* Resident helpers: the review that installs one (app/denizen_arms.rs,    *)
(* denizen.rs), the node it lives on and the world that node bears, its    *)
(* certificates, the rings they cover and what a run of it may emit        *)
(* (ring.rs, script.rs, component.rs), and the profile identity they       *)
(* descend from (identity.rs).                                             *)
(*                                                                         *)
(* A pack is told apart by its content, as its subject is: the node's      *)
(* address, the world's log and the certificate file are named after it.   *)
(* A certificate is the capabilities it confers and the root that signed   *)
(* it; servitor's table covers what a chain to the current root says, and  *)
(* the bytes signed are personae's.  A world is the grants projected into  *)
(* it; what else a resident writes there is left out.  Effects run after   *)
(* the arm that returned them, on the same thread: between the two, and    *)
(* between the two files an install writes, only the end of the process    *)
(* can come.  The recycle bin is seen as its list of records, the newest   *)
(* of a node first; when it answers is RecycleBin's.  Writes to the        *)
(* session's directory succeed.                                            *)
(***************************************************************************)
EXTENDS Naturals, Sequences, FiniteSets

CONSTANTS
    Pack,
    Lane,       \* [Pack -> SUBSET {"lua", "wasm"}]: what may run the pack's body
    Bearer,     \* nodes a denizen can live on
    Root,       \* master keys of the profile, the vault's among them
    VaultRoot,
    NoPack, NoRoot,
    Old         \* packs that an older build installed: no certificates, fewer rings

VARIABLES
    staged,     \* pending_install
    node,       \* of a node: whether it is there, its pack, whether it is bound
    stored,     \* the same in graph.json and facets.json
    records,    \* the newest bin record of a node: what it was, if it was deleted
    world,      \* the live world file of a pack: its projected grants, if it is there
    archive,    \* the archived one
    certs,      \* the certificate file of a pack
    authority,  \* what the delegation table covers of a subject
    root, seed, \* the current master key, and the unsealed seed file
    owed,       \* whether a SaveSession has not run yet
    unsigned,   \* the pack of an install whose world is written, its chain not yet
    torn,       \* history: packs of installs that ended there and kept an older chain
    confirmed,  \* what the user ever confirmed of a pack
    ran         \* the emission a run has just got through, and what its subject held

denizenVars == <<staged, node, stored, records, world, archive, certs,
                 authority, root, seed, owed, unsigned, torn, confirmed, ran>>
identity == <<root, seed>>
files == <<world, archive, certs>>
installing == <<unsigned, torn>>

-----------------------------------------------------------------------------
(***************************************************************************)
(* Rings.                                                                  *)
(***************************************************************************)
Powers == {"navigate", "panes", "dispatch", "session", "place"}

\* ring_of: every action has a ring, and host-only is in no grant.
Navigate == {"open-address", "nav-back", "nav-forward", "reload"}
Panes ==
    {"new-window", "tear-out-active-pane", "summon-pane", "close-active-pane",
     "toggle-maximize-pane", "open-in-workbench", "tear-out-tile",
     "workbench-activate", "close-workbench-tile"}
Dispatch ==
    {"reseed-layout", "fit-view", "set-layout-strategy", "toggle-isometric",
     "orbit-by", "tilt-by", "toggle-height-by-degree", "toggle-physics",
     "toggle-size-by-recency", "toggle-node-content", "omnibar-insert",
     "omnibar-commit", "omnibar-close"}
SessionTier ==
    {"save-session", "fork-node", "fork-focused-node", "new-session",
     "switch-session", "close-session", "delete-focused-node",
     "recover-deleted-node", "empty-recycle-bin", "recover-session"}
Places == {"send-place-message", "share-focused-node", "resync-place"}
HostOnly ==
    {"install-denizen", "confirm-install-denizen", "cancel-install-denizen",
     "run-denizen", "uninstall-denizen", "join-place"}
RingOf(action) ==
    CASE action \in Navigate -> "navigate"
      [] action \in Panes -> "panes"
      [] action \in Dispatch -> "dispatch"
      [] action \in SessionTier -> "session"
      [] action \in Places -> "place"
      [] action \in HostOnly -> "host-only"

\* emit_allowed, and the answer a component gets when it asks what it holds.
EmitAllowed(held, action) == RingOf(action) \in held \cap Powers
GrantedRings(held) == held \cap Powers

\* decode_envelope: the names it knows; of the others some take a payload of
\* a kind it has no parser for.
Decodable ==
    Navigate \cup (Panes \ {"summon-pane"}) \cup (Dispatch \ {"set-layout-strategy"})
        \cup SessionTier \cup (HostOnly \ {"uninstall-denizen", "join-place"})

\* action_for: what a control script's dispatch knows by name.
Commands ==
    {"save-session", "nav-back", "nav-forward", "reload", "close-active-pane",
     "toggle-maximize-pane", "open-in-workbench", "close-workbench-tile",
     "new-window"} \cup (Dispatch \ {"orbit-by", "tilt-by", "omnibar-insert",
                                     "omnibar-commit", "omnibar-close"})

\* The two faces of a grant: the ring gate of a component, and the bits of a
\* script, one for each of its functions.
SinkAccepts(held, action) == action \in Decodable /\ EmitAllowed(held, action)
ScriptAccepts(held, action) ==
    \/ action \in Commands /\ "dispatch" \in held
    \/ action = "open-address" /\ "navigate" \in held
    \/ action = "summon-pane" /\ "panes" \in held

\* What an install confers: its own world, the read face, the default rings.
InstallCaps == {"world", "read", "navigate", "panes", "dispatch"}
OldCaps == {"world", "navigate"}

-----------------------------------------------------------------------------
(***************************************************************************)
(* Residency.                                                              *)
(***************************************************************************)
Empty == [there |-> FALSE, of |-> NoPack, bound |-> FALSE]
Residents(n) == {b \in Bearer : n[b].there /\ n[b].bound}
Bound(n, p) == \E b \in Residents(n) : n[b].of = p

Verifies(file, r) == file # <<>> /\ file[1].root = r
Projected(file) == IF file = <<>> THEN {} ELSE file[1]

\* rebuild, for the nodes n, the worlds w and the root r: a bound pack whose
\* stored chain does not verify gets a new one from its world's projections.
\* Mutant: a file that is there is taken for a chain that holds.
HealedIfAbsent(n, w, r) ==
    [p \in Pack |->
        IF Bound(n, p) /\ certs[p] = <<>> /\ Projected(w[p]) # {}
        THEN <<[caps |-> Projected(w[p]), root |-> r]>> ELSE certs[p]]
Healed(n, w, r) ==
    [p \in Pack |->
        IF Bound(n, p) /\ ~Verifies(certs[p], r) /\ Projected(w[p]) # {}
        THEN <<[caps |-> Projected(w[p]), root |-> r]>> ELSE certs[p]]
Rebuild(n, w, r) ==
    /\ certs' = Healed(n, w, r)
    /\ authority' = [p \in Pack |->
        IF Bound(n, p) /\ Verifies(certs'[p], r) THEN certs'[p][1].caps ELSE {}]

Idle == ~owed /\ unsigned = NoPack

\* Of the packs torn, those whose chain a step leaves as it is.
StillTorn(packs) == {p \in packs : certs[p] # <<>> /\ certs'[p] = certs[p]}

InstallDenizen(p) ==
    /\ Idle
    /\ staged' = p
    /\ UNCHANGED <<node, stored, records, files, authority, identity, owed, installing, confirmed, ran>>

CancelInstallDenizen ==
    /\ Idle /\ staged # NoPack
    /\ staged' = NoPack
    /\ UNCHANGED <<node, stored, records, files, authority, identity, owed, installing, confirmed, ran>>

\* Visit finds the node at the subject's address, or mints one.
Visited(p) ==
    LET found == {b \in Bearer : node[b].there /\ node[b].of = p} IN
    IF found # {} THEN found ELSE {b \in Bearer : node[b].of = NoPack}

\* install: node and binding, and a fresh world with the grants projected ...
ConfirmInstallDenizen ==
    LET p == staged IN
    /\ Idle /\ p # NoPack
    /\ \E b \in Visited(p) :
           node' = [node EXCEPT ![b] = [there |-> TRUE, of |-> p, bound |-> TRUE]]
    /\ world' = [world EXCEPT ![p] = <<InstallCaps>>]
    /\ confirmed' = [confirmed EXCEPT ![p] = @ \cup InstallCaps]
    /\ staged' = NoPack
    /\ unsigned' = p
    /\ UNCHANGED <<stored, records, archive, certs, authority, identity, owed, torn, ran>>

\* ... then the certificates for what the review named, and the authority.
CertifyDenizen ==
    LET p == unsigned IN
    /\ p # NoPack
    /\ certs' = [certs EXCEPT ![p] = <<[caps |-> InstallCaps, root |-> root]>>]
    /\ authority' = [authority EXCEPT ![p] = @ \cup InstallCaps]
    /\ unsigned' = NoPack
    /\ torn' = torn \ {p}
    /\ owed' = TRUE
    /\ UNCHANGED <<staged, node, stored, records, world, archive, identity, confirmed, ran>>

\* Mutant: the certificates of an uninstalled helper are left in the table.
UninstallCovered(b) ==
    /\ Idle /\ b \in Residents(node)
    /\ node' = [node EXCEPT ![b].bound = FALSE]
    /\ certs' = [certs EXCEPT ![node[b].of] = <<>>]
    /\ owed' = TRUE
    /\ UNCHANGED <<staged, stored, records, world, archive, authority, identity, installing, confirmed, ran>>

\* The node and its world stay; the certificates go.
UninstallDenizen(b) ==
    LET p == node[b].of IN
    /\ Idle /\ b \in Residents(node)
    /\ node' = [node EXCEPT ![b].bound = FALSE]
    /\ authority' = [authority EXCEPT ![p] = {}]
    /\ certs' = [certs EXCEPT ![p] = <<>>]
    /\ torn' = torn \ {p}
    /\ owed' = TRUE
    /\ UNCHANGED <<staged, stored, records, world, archive, identity, unsigned, confirmed, ran>>

\* archive_world, then the node; a resident's entry goes with it.
DeleteFocusedNode(b) ==
    LET p == node[b].of
        left == [node EXCEPT ![b].there = FALSE]
    IN
    /\ Idle /\ node[b].there
    /\ records' = [records EXCEPT ![b] = <<node[b]>>]
    /\ node' = left
    /\ IF world[p] = <<>> THEN UNCHANGED <<world, archive>>
       ELSE world' = [world EXCEPT ![p] = <<>>] /\ archive' = [archive EXCEPT ![p] = world[p]]
    /\ IF b \in Residents(node) THEN Rebuild(left, world', root)
       ELSE UNCHANGED <<certs, authority>>
    /\ torn' = StillTorn(torn)
    /\ owed' = TRUE
    /\ UNCHANGED <<staged, stored, identity, unsigned, confirmed, ran>>

\* The row is offered while the node is away: its facets, its world, its residency.
RecoverDeletedNode(b) ==
    LET p == node[b].of IN
    /\ Idle /\ ~node[b].there /\ records[b] # <<>>
    /\ node' = [node EXCEPT ![b] = records[b][1]]
    /\ IF archive[p] = <<>> THEN UNCHANGED <<world, archive>>
       ELSE world' = [world EXCEPT ![p] = archive[p]] /\ archive' = [archive EXCEPT ![p] = <<>>]
    /\ Rebuild(node', world', root)
    /\ torn' = StillTorn(torn)
    /\ owed' = TRUE
    /\ UNCHANGED <<staged, stored, records, identity, unsigned, confirmed, ran>>

\* Every forget takes the archived world with it.
EmptyRecycleBin ==
    LET forgotten == {node[b].of : b \in {c \in Bearer : records[c] # <<>>}} IN
    /\ Idle /\ \E b \in Bearer : records[b] # <<>>
    /\ records' = [b \in Bearer |-> <<>>]
    /\ archive' = [p \in Pack |-> IF p \in forgotten THEN <<>> ELSE archive[p]]
    /\ UNCHANGED <<staged, node, stored, world, certs, authority, identity, owed, installing, confirmed, ran>>

\* One emission of a run: a script's functions, a component's envelope.  What
\* the action then does is its own arm's; the run ends with a save.
RunDenizen(b, action) ==
    LET held == authority[node[b].of] IN
    /\ Idle /\ b \in Residents(node)
    /\ \/ "lua" \in Lane[node[b].of] /\ ScriptAccepts(held, action)
       \/ "wasm" \in Lane[node[b].of] /\ SinkAccepts(held, action)
    /\ ran' = <<[action |-> action, held |-> held]>>
    /\ owed' = TRUE
    /\ UNCHANGED <<staged, node, stored, records, files, authority, identity, installing, confirmed>>

SaveSession ==
    /\ owed
    /\ stored' = node
    /\ owed' = FALSE
    /\ ran' = <<>>
    /\ UNCHANGED <<staged, node, records, files, authority, identity, installing, confirmed>>

-----------------------------------------------------------------------------
(***************************************************************************)
(* The identity, and the next start.                                       *)
(***************************************************************************)
\* load_or_create_root: the vault's key, which retires the seed file, or the
\* seed, or a key minted for the file.  The file may refuse the key.
OpenVault == root' = VaultRoot /\ seed' = NoRoot
UnsealedFallback ==
    IF seed # NoRoot THEN root' = seed /\ UNCHANGED seed
    ELSE root' \in Root \ {VaultRoot} /\ seed' \in {root', NoRoot}

\* The process ends, owing a save or a chain or not, and the session is adopted again.
Restart ==
    /\ OpenVault \/ UnsealedFallback
    /\ node' = stored
    /\ staged' = NoPack
    /\ owed' = FALSE
    /\ ran' = <<>>
    /\ Rebuild(stored, world, root')
    /\ unsigned' = NoPack
    /\ torn' = StillTorn(torn \cup ({unsigned} \ {NoPack}))
    /\ UNCHANGED <<stored, records, world, archive, confirmed>>

\* A profile of an older build may hold a resident with a world, no chain.
DenizensInit ==
    /\ staged = NoPack /\ owed = FALSE /\ ran = <<>>
    /\ unsigned = NoPack /\ torn = {}
    /\ \E old \in SUBSET Old, first \in [Old -> Bearer] :
        /\ \A p, q \in old : p # q => first[p] # first[q]
        /\ node = [b \in Bearer |->
               IF \E p \in old : first[p] = b
               THEN [there |-> TRUE, of |-> CHOOSE p \in old : first[p] = b, bound |-> TRUE]
               ELSE Empty]
        /\ world = [p \in Pack |-> IF p \in old THEN <<OldCaps>> ELSE <<>>]
        /\ confirmed = [p \in Pack |-> IF p \in old THEN OldCaps ELSE {}]
    /\ stored = node
    /\ records = [b \in Bearer |-> <<>>]
    /\ archive = [p \in Pack |-> <<>>]
    /\ certs = [p \in Pack |-> <<>>] /\ authority = [p \in Pack |-> {}]
    /\ root \in Root \ {VaultRoot} /\ seed \in {root, NoRoot}

DenizensNext ==
    \/ CancelInstallDenizen \/ ConfirmInstallDenizen \/ CertifyDenizen
    \/ EmptyRecycleBin \/ SaveSession \/ Restart
    \/ \E p \in Pack : InstallDenizen(p)
    \/ \E b \in Bearer : UninstallDenizen(b) \/ DeleteFocusedNode(b) \/ RecoverDeletedNode(b)
    \/ \E b \in Bearer, action \in Commands \cup Decodable \cup {"summon-pane"} :
           RunDenizen(b, action)

DenizensSpec == DenizensInit /\ [][DenizensNext]_denizenVars

-----------------------------------------------------------------------------
(***************************************************************************)
(* Properties.                                                             *)
(***************************************************************************)
\* A subject is covered for no more than a review of its pack named, and only
\* while a node it is bound to is in the session: a root that changed, a
\* recovery, a second install and a crash widen nothing, and a deleted or
\* uninstalled helper keeps nothing in memory.  Nor does what a run emits, by
\* either lane, install, run or remove a helper.
AuthorityWasReviewed ==
    /\ \A p \in Pack : authority[p] # {} => authority[p] \subseteq confirmed[p] /\ Bound(node, p)
    /\ ran # <<>> => RingOf(ran[1].action) # "host-only"

\* After a start every resident is covered for all that its world's projections
\* record, whatever root the profile opens with and whatever build installed it:
\* a root that changed orphans the chains, and each is issued again.  Excepted is
\* a pack whose install ended between the world and the chain, over an older chain
\* that verifies: rebuild keeps that.
GrantsSurviveRestart ==
    \A p \in Pack \ torn' :
        Bound(node', p) => Projected(world'[p]) \subseteq authority'[p]
StartsKeepGrants == [][Restart => GrantsSurviveRestart]_denizenVars

=============================================================================
