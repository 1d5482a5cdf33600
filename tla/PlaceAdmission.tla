--------------------------- MODULE PlaceAdmission ---------------------------
(***************************************************************************)
(* How a profile comes to be admitted to a shared place, step by durable   *)
(* step (place/worker.rs: prepare_group_identity, found_place_group,       *)
(* author_invitation, admit_invitation, admit_inner).                      *)
(*                                                                         *)
(* A host and some guests, each with one session directory.  A guest       *)
(* draws a group identity and publishes its pre-key; the host, whose Moot  *)
(* governs who is a member, welcomes that identity into the key group and  *)
(* hands out an invitation; the guest checks it and writes place.json.     *)
(* Each function runs alone in its own process, which may die between any  *)
(* two writes, and any of its checks and writes may fail.                  *)
(*                                                                         *)
(* The Moot is external: a history of rosters, of which a version stands   *)
(* for both the evidence up to it and the membership heads it converges    *)
(* to.  So is the key group: an epoch is a number, a welcome the identity  *)
(* it is addressed to.  What a tampered envelope could carry is left out:  *)
(* refusals for it are in Refuse, which needs no reason.  Reading the      *)
(* group a welcome was just processed into (members) is taken to succeed.  *)
(***************************************************************************)
EXTENDS Naturals, Sequences

CONSTANTS
    Guests,
    None,
    MaxRosters,   \* bound: rosters the Moot goes through
    MaxIds,       \* bound: group identities drawn
    MaxEpochs     \* bound: epochs the host mints

ASSUME PlaceAdmissionAssumption == {MaxRosters, MaxIds, MaxEpochs} \subseteq Nat \ {0}

VARIABLES
    history,    \* rosters of the Moot, oldest first
    ids,        \* group identities drawn so far
    group,      \* the host's sealed group session: members and current epoch
    authoring,  \* the invitation the host has minted and not handed out
    invites,    \* invitations handed out
    expired,    \* ... of which the time bound has passed
    sealed,     \* a guest's sealed group session: its identity, its epoch
    prekey,     \* a guest's sealed pre-key record
    drawing,    \* the identity prepare_group_identity is sealing
    published,  \* identities whose pre-key was returned for publication
    store,      \* the version of the Moot in place/, None when there is no store
    bound,      \* place.json
    attempt     \* the admission under way

host  == <<group, authoring, invites, expired>>
own   == <<ids, sealed, prekey, drawing, published>>
place == <<store, bound, attempt>>
vars  == <<history, host, own, place>>

Id == 1..MaxIds
Version == 1..MaxRosters
Roster(v) == history[v]
Heads == Len(history)

Invitation == [to : Guests, id : Id, epoch : 1..MaxEpochs, heads : Version]
Steps == {"valid", "opened", "imported", "processed", "saved"}
Attempt == [step : Steps, invite : Invitation, existed : BOOLEAN, epoch : 0..MaxEpochs]
Sealed == [id : Id, epoch : 0..MaxEpochs]

ASSUME NothingAssumption ==
    None \notin 0..MaxRosters \cup 1..MaxIds \cup Sealed \cup Invitation \cup Attempt

TypeOK ==
    /\ history \in Seq(SUBSET Guests) /\ Heads \in Version
    /\ ids \in 0..MaxIds
    /\ group \in [members : SUBSET Id, epoch : 0..MaxEpochs, founded : BOOLEAN]
    /\ authoring \in Invitation \cup {None}
    /\ invites \subseteq Invitation
    /\ expired \subseteq invites
    /\ sealed \in [Guests -> Sealed \cup {None}]
    /\ prekey \in [Guests -> Id \cup {None}]
    /\ drawing \in [Guests -> Id \cup {None}]
    /\ published \in [Guests -> SUBSET Id]
    /\ store \in [Guests -> 0..MaxRosters \cup {None}]
    /\ bound \in [Guests -> BOOLEAN]
    /\ attempt \in [Guests -> Attempt \cup {None}]

-----------------------------------------------------------------------------
(* The Moot, external: its founder admits and removes members, time passes.  *)

ChangeRoster ==
    /\ Heads < MaxRosters
    /\ \E roster \in SUBSET Guests :
          /\ roster # Roster(Heads)
          /\ history' = Append(history, roster)
    /\ UNCHANGED <<host, own, place>>

Expire ==
    /\ \E i \in invites \ expired : expired' = expired \cup {i}
    /\ UNCHANGED <<history, group, authoring, invites, own, place>>

-----------------------------------------------------------------------------
(* The host.                                                                 *)

FoundPlaceGroup ==
    /\ ~ group.founded
    /\ group' = [members |-> {}, epoch |-> 1, founded |-> TRUE]
    /\ UNCHANGED <<history, authoring, invites, expired, own, place>>

\* Only a governed member is welcomed, under the heads of the same snapshot.
Author(g) ==
    /\ authoring = None
    /\ group.founded /\ group.epoch < MaxEpochs
    /\ g \in Roster(Heads)
    /\ \E id \in published[g] :
          authoring' = [to |-> g, id |-> id, epoch |-> group.epoch + 1, heads |-> Heads]
    /\ UNCHANGED <<history, group, invites, expired, own, place>>

\* Mutant: the invitation is handed out and the session saved after it.
AuthorUnsaved ==
    /\ authoring # None
    /\ invites' = invites \cup {authoring}
    /\ UNCHANGED <<history, group, authoring, expired, own, place>>

AuthorSave ==
    /\ authoring # None
    /\ group.epoch < authoring.epoch
    /\ group' = [group EXCEPT !.epoch = authoring.epoch, !.members = @ \cup {authoring.id}]
    /\ UNCHANGED <<history, authoring, invites, expired, own, place>>

AuthorReturn ==
    /\ authoring # None
    /\ group.epoch = authoring.epoch
    /\ invites' = invites \cup {authoring}
    /\ authoring' = None
    /\ UNCHANGED <<history, group, expired, own, place>>

\* A failed write or a crash: what was minted in memory is gone.
AuthorDies ==
    /\ authoring # None
    /\ authoring' = None
    /\ UNCHANGED <<history, group, invites, expired, own, place>>

-----------------------------------------------------------------------------
(* A guest prepares its identity.                                            *)

\* prepare_group_identity: an earlier pre-key is returned, else an identity is
\* drawn ...
Prepare(g) ==
    /\ attempt[g] = None /\ drawing[g] = None
    /\ \/ /\ prekey[g] # None
          /\ published' = [published EXCEPT ![g] = @ \cup {prekey[g]}]
          /\ UNCHANGED <<ids, drawing>>
       \/ /\ prekey[g] = None
          /\ ids < MaxIds
          /\ ids' = ids + 1
          /\ drawing' = [drawing EXCEPT ![g] = ids + 1]
          /\ UNCHANGED published
    /\ UNCHANGED <<history, host, sealed, prekey, place>>

\* ... and sealed, the session before the pre-key.
PrepareSession(g) ==
    /\ drawing[g] # None
    /\ sealed' = [sealed EXCEPT ![g] = [id |-> drawing[g], epoch |-> 0]]
    /\ UNCHANGED <<history, host, ids, prekey, drawing, published, place>>

\* Mutant: the pre-key is sealed and returned first.
PrekeyFirst(g) ==
    /\ drawing[g] # None
    /\ prekey' = [prekey EXCEPT ![g] = drawing[g]]
    /\ published' = [published EXCEPT ![g] = @ \cup {drawing[g]}]
    /\ drawing' = [drawing EXCEPT ![g] = None]
    /\ UNCHANGED <<history, host, ids, sealed, place>>

PreparePrekey(g) ==
    /\ drawing[g] # None
    /\ sealed[g] # None /\ sealed[g].id = drawing[g]
    /\ prekey' = [prekey EXCEPT ![g] = drawing[g]]
    /\ published' = [published EXCEPT ![g] = @ \cup {drawing[g]}]
    /\ drawing' = [drawing EXCEPT ![g] = None]
    /\ UNCHANGED <<history, host, ids, sealed, place>>

PrepareDies(g) ==
    /\ drawing[g] # None
    /\ drawing' = [drawing EXCEPT ![g] = None]
    /\ UNCHANGED <<history, host, ids, sealed, prekey, published, place>>

-----------------------------------------------------------------------------
(* A guest is admitted.                                                      *)

\* Checks that need nothing on disk: the envelope, its time bound, its scopes.
Begin(g) ==
    /\ attempt[g] = None /\ drawing[g] = None
    /\ \E i \in invites \ expired :
          /\ i.to = g
          /\ attempt' = [attempt EXCEPT ![g] =
               [step |-> "valid", invite |-> i, existed |-> store[g] # None, epoch |-> 0]]
    /\ UNCHANGED <<history, host, own, store, bound>>

At(g, step) == attempt[g] # None /\ attempt[g].step = step
GoOn(g, step) == attempt' = [attempt EXCEPT ![g].step = step]

\* The store is made, empty, unless there is one.
OpenStore(g) ==
    /\ At(g, "valid")
    /\ store' = [store EXCEPT ![g] = IF @ = None THEN 0 ELSE @]
    /\ GoOn(g, "opened")
    /\ UNCHANGED <<history, host, own, bound>>

\* Evidence is merged into what the store holds.
Import(g) ==
    /\ At(g, "opened")
    /\ store' = [store EXCEPT ![g] = IF @ < attempt[g].invite.heads THEN attempt[g].invite.heads ELSE @]
    /\ GoOn(g, "imported")
    /\ UNCHANGED <<history, host, own, bound>>

\* Mutant: the heads the evidence converged to are not compared.
ProcessAnyHeads(g) ==
    LET i == attempt[g].invite IN
    /\ At(g, "imported")
    /\ g \in Roster(i.heads)
    /\ sealed[g] # None /\ sealed[g].id = i.id
    /\ sealed[g].epoch <= i.epoch
    /\ attempt' = [attempt EXCEPT ![g].step = "processed", ![g].epoch = i.epoch]
    /\ UNCHANGED <<history, host, own, store, bound>>

\* The fold of the store has this profile as a member and the heads the
\* invitation pins; the welcome is for the sealed identity, and processing it
\* leaves the epoch the invitation names, which an older one cannot.
Process(g) ==
    LET i == attempt[g].invite IN
    /\ At(g, "imported")
    /\ g \in Roster(store[g])
    /\ sealed[g] # None /\ sealed[g].id = i.id
    /\ sealed[g].epoch <= i.epoch
    /\ store[g] = i.heads
    /\ attempt' = [attempt EXCEPT ![g].step = "processed", ![g].epoch = i.epoch]
    /\ UNCHANGED <<history, host, own, store, bound>>

\* Mutant: place.json is written before the group session.
BindFirst(g) ==
    /\ At(g, "processed")
    /\ bound' = [bound EXCEPT ![g] = TRUE]
    /\ GoOn(g, "saved")
    /\ UNCHANGED <<history, host, own, store>>

SaveGroup(g) ==
    /\ At(g, "processed")
    /\ sealed' = [sealed EXCEPT ![g].epoch = attempt[g].epoch]
    /\ GoOn(g, "saved")
    /\ UNCHANGED <<history, host, ids, prekey, drawing, published, store, bound>>

SaveBinding(g) ==
    /\ At(g, "saved")
    /\ bound' = [bound EXCEPT ![g] = TRUE]
    /\ attempt' = [attempt EXCEPT ![g] = None]
    /\ UNCHANGED <<history, host, own, store>>

\* Any check or write on the way fails: only what this attempt created goes.
Refuse(g) ==
    /\ attempt[g] # None
    /\ store' = [store EXCEPT ![g] = IF attempt[g].existed THEN @ ELSE None]
    /\ attempt' = [attempt EXCEPT ![g] = None]
    /\ UNCHANGED <<history, host, own, bound>>

AdmitDies(g) ==
    /\ attempt[g] # None
    /\ attempt' = [attempt EXCEPT ![g] = None]
    /\ UNCHANGED <<history, host, own, store, bound>>

-----------------------------------------------------------------------------
Init ==
    /\ history = <<{}>>
    /\ ids = 0
    /\ group = [members |-> {}, epoch |-> 0, founded |-> FALSE]
    /\ authoring = None
    /\ invites = {}
    /\ expired = {}
    /\ sealed = [g \in Guests |-> None]
    /\ prekey = [g \in Guests |-> None]
    /\ drawing = [g \in Guests |-> None]
    /\ published = [g \in Guests |-> {}]
    /\ store = [g \in Guests |-> None]
    /\ bound = [g \in Guests |-> FALSE]
    /\ attempt = [g \in Guests |-> None]

Hosts ==
    \/ FoundPlaceGroup
    \/ \E g \in Guests : Author(g)
    \/ AuthorSave
    \/ AuthorReturn
    \/ AuthorDies

Prepares(g) == Prepare(g) \/ PrepareSession(g) \/ PreparePrekey(g) \/ PrepareDies(g)

Admits(g) ==
    \/ Begin(g)
    \/ OpenStore(g)
    \/ Import(g)
    \/ Process(g)
    \/ SaveGroup(g)
    \/ SaveBinding(g)
    \/ Refuse(g)
    \/ AdmitDies(g)

Next ==
    \/ ChangeRoster
    \/ Expire
    \/ Hosts
    \/ \E g \in Guests : Prepares(g)
    \/ \E g \in Guests : Admits(g)

Spec == Init /\ [][Next]_vars

-----------------------------------------------------------------------------
\* A welcome addressed to a published pre-key can be read: the identity behind
\* every pre-key ever returned is the one sealed in the session directory,
\* however preparing and refused admissions were interrupted.
PublishedIdentityKept ==
    \A g \in Guests : \A id \in published[g] : sealed[g] # None /\ sealed[g].id = id

\* The host can follow every welcome it handed out: the epoch an invitation
\* names and the identity it welcomes are in the session it reopens.  Types hold.
InvitationsFollowed ==
    /\ TypeOK
    /\ \A i \in invites : i.epoch <= group.epoch /\ i.id \in group.members

\* place.json stands for a place that reopens: an admitted guest has the
\* governance store, with a roster it is a member of at the time, and an epoch
\* to read with; later attempts, refused or interrupted, take neither away.
AdmittedCanReopen ==
    \A g \in Guests : bound[g] => store[g] \notin {None, 0} /\ sealed[g].epoch > 0

\* An invitation the roster has outlived does not admit: when place.json is
\* written, the guest's epoch and the newest evidence in its own store, which
\* may be from another invitation or an interrupted attempt, are those of one
\* and the same invitation.
AdmittedOnNewestEvidence ==
    [][\A g \in Guests : bound'[g] /\ ~ bound[g] =>
         \E i \in invites : /\ i.to = g
                            /\ i.epoch = sealed[g].epoch
                            /\ i.heads = store[g]]_vars

=============================================================================
