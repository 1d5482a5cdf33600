--------------------------- MODULE AdmissionProofs ---------------------------
(***************************************************************************)
(* PlaceAdmission, for any number of guests, rosters, identities and       *)
(* epochs: a pre-key published stays answerable, an invitation handed out  *)
(* can be followed, and a place admitted to can be reopened.               *)
(*                                                                         *)
(* The argument is about what is on disk between two writes.  A guest's    *)
(* identity is drawn only while there is no sealed pre-key, so once one is *)
(* published the sealed session is never replaced, only moved to a later   *)
(* epoch (Identity).  The host's session is saved before the invitation    *)
(* minted from it is handed out (Hosting).  And an admission, whose steps  *)
(* have nobody between them, has in its store and its sealed session what  *)
(* the checks it passed looked at (Admitting).                             *)
(***************************************************************************)
EXTENDS PlaceAdmission, TLAPS

Identity ==
    \A g \in Guests :
        /\ published[g] \subseteq {prekey[g]} \ {None}
        /\ prekey[g] # None => sealed[g] # None /\ sealed[g].id = prekey[g]
        /\ drawing[g] # None => prekey[g] = None

Minted == invites \cup ({authoring} \ {None})

Hosting ==
    /\ ~ group.founded => Minted = {}
    /\ \A i \in Minted : i.id \in published[i.to]
    /\ \A i \in invites : i.epoch <= group.epoch /\ i.id \in group.members
    /\ authoring # None /\ authoring.epoch <= group.epoch => authoring.id \in group.members

Checked == {"processed", "saved"}

Admitting ==
    \A g \in Guests : attempt[g] # None =>
        /\ drawing[g] = None
        /\ attempt[g].invite \in invites /\ attempt[g].invite.to = g
        /\ attempt[g].step # "valid" => store[g] # None
        /\ bound[g] => attempt[g].existed
        /\ attempt[g].step \in Checked =>
             /\ sealed[g] # None /\ sealed[g].id = attempt[g].invite.id
             /\ attempt[g].epoch = attempt[g].invite.epoch
             /\ store[g] = attempt[g].invite.heads
        /\ attempt[g].step = "saved" => sealed[g].epoch = attempt[g].epoch

Admitted ==
    \A g \in Guests : bound[g] =>
        /\ store[g] \notin {None, 0}
        /\ prekey[g] # None
        /\ sealed[g].epoch > 0

IInv == TypeOK /\ Identity /\ Hosting /\ Admitting /\ Admitted

-----------------------------------------------------------------------------
(* What the steps are made of.                                               *)

USE PlaceAdmissionAssumption, NothingAssumption

\* The first state: nobody has drawn, minted or admitted anything.
LEMMA Start == Init => IInv
  BY DEF Init, IInv, TypeOK, Identity, Hosting, Minted, Admitting, Admitted, Heads, Version

\* What an admission under way is about.
LEMMA UnderWay ==
    ASSUME IInv, NEW g \in Guests, attempt[g] # None
    PROVE  /\ attempt[g] \in Attempt
           /\ attempt[g].invite \in Invitation /\ attempt[g].invite \in invites
           /\ attempt[g].invite.id \in published[g]
           /\ prekey[g] = attempt[g].invite.id /\ prekey[g] # None
           /\ drawing[g] = None
<1>1. attempt[g] \in Attempt
    BY DEF IInv, TypeOK
<1>2. attempt[g].invite \in Invitation
    BY <1>1 DEF Attempt
<1>3. /\ attempt[g].invite \in invites /\ attempt[g].invite.to = g
      /\ drawing[g] = None
    BY DEF IInv, Admitting
<1>4. attempt[g].invite.id \in published[g]
    BY <1>3 DEF IInv, Hosting, Minted
<1> QED
    BY <1>1, <1>2, <1>3, <1>4 DEF IInv, Identity

\* A step of an admission goes on with the same invitation.
LEMMA GoOnFacts ==
    ASSUME IInv, NEW g \in Guests, attempt[g] # None, NEW step \in Steps, GoOn(g, step)
    PROVE  /\ attempt' \in [Guests -> Attempt \cup {None}]
           /\ \A h \in Guests : h # g => attempt'[h] = attempt[h]
           /\ attempt'[g] # None /\ attempt'[g].step = step
           /\ attempt'[g].invite = attempt[g].invite
           /\ attempt'[g].existed = attempt[g].existed
           /\ attempt'[g].epoch = attempt[g].epoch
<1> DEFINE a == [attempt[g] EXCEPT !.step = step]
<1>1. attempt[g] \in Attempt
    BY UnderWay
<1>2. /\ a \in Attempt /\ a.step = step /\ a.invite = attempt[g].invite
      /\ a.existed = attempt[g].existed /\ a.epoch = attempt[g].epoch
    BY <1>1 DEF Attempt
<1>3. attempt' = [attempt EXCEPT ![g] = a]
    BY DEF GoOn
<1> HIDE DEF a
<1> QED
    BY <1>2, <1>3 DEF IInv, TypeOK

\* The checks passed: the admission has the epoch of its invitation.
LEMMA ProcessFacts ==
    ASSUME IInv, NEW g \in Guests, Process(g)
    PROVE  /\ attempt[g] # None /\ attempt[g].step = "imported"
           /\ attempt' \in [Guests -> Attempt \cup {None}]
           /\ \A h \in Guests : h # g => attempt'[h] = attempt[h]
           /\ attempt'[g] # None /\ attempt'[g].step = "processed"
           /\ attempt'[g].invite = attempt[g].invite
           /\ attempt'[g].existed = attempt[g].existed
           /\ attempt'[g].epoch = attempt[g].invite.epoch
           /\ sealed[g] # None /\ sealed[g].id = attempt[g].invite.id
           /\ store[g] = attempt[g].invite.heads
           /\ UNCHANGED <<history, host, own, store, bound>>
<1> DEFINE a == [attempt[g] EXCEPT !.step = "processed", !.epoch = attempt[g].invite.epoch]
<1>1. attempt[g] # None /\ attempt[g].step = "imported"
    BY DEF Process, At
<1>2. attempt[g] \in Attempt /\ attempt[g].invite \in Invitation
    BY <1>1, UnderWay
<1>3. attempt[g].invite.epoch \in 0..MaxEpochs
    BY <1>2 DEF Invitation
<1>4. /\ a \in Attempt /\ a.step = "processed" /\ a.invite = attempt[g].invite
      /\ a.existed = attempt[g].existed /\ a.epoch = attempt[g].invite.epoch
    BY <1>2, <1>3 DEF Attempt, Steps
<1>5. attempt' = [attempt EXCEPT ![g] = a]
    BY DEF Process
<1>6. /\ sealed[g] # None /\ sealed[g].id = attempt[g].invite.id
      /\ store[g] = attempt[g].invite.heads
      /\ UNCHANGED <<history, host, own, store, bound>>
    BY DEF Process
<1> HIDE DEF a
<1> QED
    BY <1>1, <1>4, <1>5, <1>6 DEF IInv, TypeOK

\* Saving the group session moves it to the epoch of the invitation.
LEMMA SaveGroupFacts ==
    ASSUME IInv, NEW g \in Guests, SaveGroup(g)
    PROVE  /\ attempt[g] # None /\ attempt[g].step = "processed" /\ sealed[g] # None
           /\ sealed' \in [Guests -> Sealed \cup {None}]
           /\ \A h \in Guests : h # g => sealed'[h] = sealed[h]
           /\ sealed'[g] # None /\ sealed'[g].id = sealed[g].id
           /\ sealed'[g].epoch = attempt[g].invite.epoch
           /\ sealed'[g].epoch > 0
<1> DEFINE s == [sealed[g] EXCEPT !.epoch = attempt[g].epoch]
<1>1. attempt[g] # None /\ attempt[g].step = "processed"
    BY DEF SaveGroup, At
<1>2. sealed[g] # None /\ attempt[g].epoch = attempt[g].invite.epoch
    BY <1>1 DEF IInv, Admitting, Checked
<1>3. attempt[g].invite \in Invitation
    BY <1>1, UnderWay
<1>4. attempt[g].invite.epoch \in 0..MaxEpochs /\ attempt[g].invite.epoch > 0
    BY <1>3 DEF Invitation
<1>5. sealed[g] \in Sealed
    BY <1>2 DEF IInv, TypeOK
<1>6. s \in Sealed /\ s.id = sealed[g].id /\ s.epoch = attempt[g].invite.epoch
    BY <1>2, <1>4, <1>5 DEF Sealed
<1>7. sealed' = [sealed EXCEPT ![g] = s]
    BY DEF SaveGroup
<1> HIDE DEF s
<1> QED
    BY <1>1, <1>2, <1>4, <1>6, <1>7 DEF IInv, TypeOK

-----------------------------------------------------------------------------
(* What every step keeps, part by part.                                      *)

\* Types: a version is of a roster there is, an epoch of one the host minted.
LEMMA TypeKept == IInv /\ [Next]_vars => TypeOK'
<1> SUFFICES ASSUME IInv, [Next]_vars PROVE TypeOK'
    OBVIOUS
<1> USE DEF IInv, TypeOK, Heads
<1>1. CASE ChangeRoster
    <2>1. PICK roster \in SUBSET Guests : history' = Append(history, roster)
        BY <1>1 DEF ChangeRoster
    <2>2. history' \in Seq(SUBSET Guests) /\ Len(history') = Len(history) + 1
        BY <2>1
    <2> QED
        BY <1>1, <2>2 DEF ChangeRoster, Version, host, own, place
<1>2. CASE Expire
    BY <1>2 DEF Expire, host, own, place
<1>3. CASE FoundPlaceGroup
    BY <1>3 DEF FoundPlaceGroup, host, own, place
<1>4. ASSUME NEW g \in Guests, Author(g) PROVE TypeOK'
    <2>1. PICK id \in published[g] :
             authoring' = [to |-> g, id |-> id, epoch |-> group.epoch + 1, heads |-> Heads]
        BY <1>4 DEF Author
    <2>2. id \in Id
        OBVIOUS
    <2>3. group.epoch + 1 \in 1..MaxEpochs
        BY <1>4 DEF Author
    <2>4. authoring' \in Invitation
        BY <2>1, <2>2, <2>3 DEF Invitation
    <2> QED
        BY <1>4, <2>4 DEF Author, own, place
<1>5. CASE AuthorSave
    <2>1. authoring \in Invitation
        BY <1>5 DEF AuthorSave
    <2>2. authoring.epoch \in 0..MaxEpochs /\ authoring.id \in Id
        BY <2>1 DEF Invitation
    <2> QED
        BY <1>5, <2>2 DEF AuthorSave, own, place
<1>6. CASE AuthorReturn
    BY <1>6 DEF AuthorReturn, host, own, place
<1>7. CASE AuthorDies
    BY <1>7 DEF AuthorDies, host, own, place
<1>8. ASSUME NEW g \in Guests, Prepare(g) PROVE TypeOK'
    <2>1. CASE prekey[g] # None
        BY <1>8, <2>1 DEF Prepare, host, place
    <2>2. CASE prekey[g] = None
        <3>1. ids + 1 \in 1..MaxIds
            BY <1>8, <2>2 DEF Prepare
        <3> QED
            BY <1>8, <2>2, <3>1 DEF Prepare, Id, host, place
    <2> QED
        BY <2>1, <2>2
<1>9. ASSUME NEW g \in Guests, PrepareSession(g) PROVE TypeOK'
    <2>1. [id |-> drawing[g], epoch |-> 0] \in Sealed
        BY <1>9 DEF PrepareSession, Sealed
    <2> QED
        BY <1>9, <2>1 DEF PrepareSession, host, place
<1>10. ASSUME NEW g \in Guests, PreparePrekey(g) PROVE TypeOK'
    BY <1>10 DEF PreparePrekey, host, own, place
<1>11. ASSUME NEW g \in Guests, PrepareDies(g) PROVE TypeOK'
    BY <1>11 DEF PrepareDies, host, own, place
<1>12. ASSUME NEW g \in Guests, Begin(g) PROVE TypeOK'
    <2>1. PICK i \in invites : i.to = g /\
             attempt' = [attempt EXCEPT ![g] =
               [step |-> "valid", invite |-> i, existed |-> store[g] # None, epoch |-> 0]]
        BY <1>12 DEF Begin
    <2>2. [step |-> "valid", invite |-> i, existed |-> store[g] # None, epoch |-> 0] \in Attempt
        BY DEF Attempt, Steps
    <2> QED
        BY <1>12, <2>1, <2>2 DEF Begin, host, own
<1>13. ASSUME NEW g \in Guests, OpenStore(g) PROVE TypeOK'
    <2>1. attempt[g] # None /\ GoOn(g, "opened") /\ "opened" \in Steps
        BY <1>13 DEF OpenStore, At, Steps
    <2>2. attempt' \in [Guests -> Attempt \cup {None}]
        BY <2>1, GoOnFacts
    <2>3. store' \in [Guests -> 0..MaxRosters \cup {None}]
        BY <1>13 DEF OpenStore
    <2> QED
        BY <1>13, <2>2, <2>3 DEF OpenStore, host, own
<1>14. ASSUME NEW g \in Guests, Import(g) PROVE TypeOK'
    <2>1. attempt[g] # None /\ GoOn(g, "imported") /\ "imported" \in Steps
        BY <1>14 DEF Import, At, Steps
    <2>2. attempt' \in [Guests -> Attempt \cup {None}]
        BY <2>1, GoOnFacts
    <2>3. attempt[g].invite \in Invitation
        BY <2>1, UnderWay
    <2>4. attempt[g].invite.heads \in 0..MaxRosters
        BY <2>3 DEF Invitation, Version
    <2> QED
        BY <1>14, <2>2, <2>4 DEF Import, host, own
<1>15. ASSUME NEW g \in Guests, Process(g) PROVE TypeOK'
    BY <1>15, ProcessFacts DEF host, own
<1>16. ASSUME NEW g \in Guests, SaveGroup(g) PROVE TypeOK'
    <2>1. attempt[g] # None /\ GoOn(g, "saved") /\ "saved" \in Steps
        BY <1>16 DEF SaveGroup, At, Steps
    <2>2. attempt' \in [Guests -> Attempt \cup {None}]
        BY <2>1, GoOnFacts
    <2> QED
        BY <1>16, <2>2, SaveGroupFacts DEF SaveGroup, host
<1>17. ASSUME NEW g \in Guests, SaveBinding(g) PROVE TypeOK'
    BY <1>17 DEF SaveBinding, host, own, place
<1>18. ASSUME NEW g \in Guests, Refuse(g) PROVE TypeOK'
    BY <1>18 DEF Refuse, host, own, place
<1>19. ASSUME NEW g \in Guests, AdmitDies(g) PROVE TypeOK'
    BY <1>19 DEF AdmitDies, host, own, place
<1>20. CASE UNCHANGED vars
    BY <1>20 DEF vars, host, own, place
<1> QED
    BY <1>1, <1>2, <1>3, <1>4, <1>5, <1>6, <1>7, <1>8, <1>9, <1>10,
       <1>11, <1>12, <1>13, <1>14, <1>15, <1>16, <1>17, <1>18, <1>19, <1>20
    DEF Next, Hosts, Prepares, Admits

\* A sealed session is replaced only while there is no pre-key, and no pre-key
\* is published but the sealed one.
LEMMA IdentityKept == IInv /\ [Next]_vars => Identity'
<1> SUFFICES ASSUME IInv, [Next]_vars PROVE Identity'
    OBVIOUS
<1> USE DEF IInv, TypeOK, Identity
<1>1. CASE ChangeRoster
    BY <1>1 DEF ChangeRoster, host, own, place
<1>2. CASE Expire
    BY <1>2 DEF Expire, host, own, place
<1>3. CASE FoundPlaceGroup
    BY <1>3 DEF FoundPlaceGroup, host, own, place
<1>4. ASSUME NEW g \in Guests, Author(g) PROVE Identity'
    BY <1>4 DEF Author, host, own, place
<1>5. CASE AuthorSave
    BY <1>5 DEF AuthorSave, host, own, place
<1>6. CASE AuthorReturn
    BY <1>6 DEF AuthorReturn, host, own, place
<1>7. CASE AuthorDies
    BY <1>7 DEF AuthorDies, host, own, place
<1>8. ASSUME NEW g \in Guests, Prepare(g) PROVE Identity'
    BY <1>8 DEF Prepare, Id, host, place
<1>9. ASSUME NEW g \in Guests, PrepareSession(g) PROVE Identity'
    BY <1>9 DEF PrepareSession, host, own, place
<1>10. ASSUME NEW g \in Guests, PreparePrekey(g) PROVE Identity'
    BY <1>10 DEF PreparePrekey, host, own, place
<1>11. ASSUME NEW g \in Guests, PrepareDies(g) PROVE Identity'
    BY <1>11 DEF PrepareDies, host, own, place
<1>12. ASSUME NEW g \in Guests, Begin(g) PROVE Identity'
    BY <1>12 DEF Begin, host, own, place
<1>13. ASSUME NEW g \in Guests, OpenStore(g) PROVE Identity'
    BY <1>13 DEF OpenStore, host, own, place
<1>14. ASSUME NEW g \in Guests, Import(g) PROVE Identity'
    BY <1>14 DEF Import, host, own, place
<1>15. ASSUME NEW g \in Guests, Process(g) PROVE Identity'
    BY <1>15 DEF Process, host, own, place
<1>16. ASSUME NEW g \in Guests, SaveGroup(g) PROVE Identity'
    <2> HIDE DEF IInv, TypeOK
    <2>1. Identity
        BY DEF IInv
    <2>2. prekey' = prekey /\ drawing' = drawing /\ published' = published
        BY <1>16 DEF SaveGroup
    <2>3. /\ \A h \in Guests : h # g => sealed'[h] = sealed[h]
          /\ sealed[g] # None /\ sealed'[g] # None /\ sealed'[g].id = sealed[g].id
        BY <1>16, SaveGroupFacts
    <2>4. ASSUME NEW h \in Guests, prekey[h] # None
          PROVE  sealed'[h] # None /\ sealed'[h].id = prekey[h]
        BY <2>1, <2>3, <2>4
    <2> QED
        BY <2>1, <2>2, <2>4
<1>17. ASSUME NEW g \in Guests, SaveBinding(g) PROVE Identity'
    BY <1>17 DEF SaveBinding, host, own, place
<1>18. ASSUME NEW g \in Guests, Refuse(g) PROVE Identity'
    BY <1>18 DEF Refuse, host, own, place
<1>19. ASSUME NEW g \in Guests, AdmitDies(g) PROVE Identity'
    BY <1>19 DEF AdmitDies, host, own, place
<1>20. CASE UNCHANGED vars
    BY <1>20 DEF vars, host, own, place
<1> QED
    BY <1>1, <1>2, <1>3, <1>4, <1>5, <1>6, <1>7, <1>8, <1>9, <1>10,
       <1>11, <1>12, <1>13, <1>14, <1>15, <1>16, <1>17, <1>18, <1>19, <1>20
    DEF Next, Hosts, Prepares, Admits

\* The host hands out what its saved session can follow, to published pre-keys.
LEMMA HostingKept == IInv /\ [Next]_vars => Hosting'
<1> SUFFICES ASSUME IInv, [Next]_vars PROVE Hosting'
    OBVIOUS
<1> USE DEF IInv, TypeOK, Hosting, Minted
<1>1. CASE ChangeRoster
    BY <1>1 DEF ChangeRoster, host, own, place
<1>2. CASE Expire
    BY <1>2 DEF Expire, host, own, place
<1>3. CASE FoundPlaceGroup
    BY <1>3 DEF FoundPlaceGroup, host, own, place
<1>4. ASSUME NEW g \in Guests, Author(g) PROVE Hosting'
    BY <1>4 DEF Author, host, own, place
<1>5. CASE AuthorSave
    <2>1. authoring \in Invitation
        BY <1>5 DEF AuthorSave
    <2>2. authoring.epoch \in 0..MaxEpochs
        BY <2>1 DEF Invitation
    <2>3. /\ group'.epoch = authoring.epoch /\ group'.founded = group.founded
          /\ group'.members = group.members \cup {authoring.id}
          /\ group'.epoch >= group.epoch
        BY <1>5, <2>2 DEF AuthorSave
    <2>4. \A i \in invites : i.epoch \in Nat
        BY DEF Invitation
    <2> QED
        BY <1>5, <2>2, <2>3, <2>4 DEF AuthorSave, own, place
<1>6. CASE AuthorReturn
    BY <1>6 DEF AuthorReturn, host, own, place
<1>7. CASE AuthorDies
    BY <1>7 DEF AuthorDies, host, own, place
<1>8. ASSUME NEW g \in Guests, Prepare(g) PROVE Hosting'
    <2>1. \A h \in Guests : published[h] \subseteq published'[h]
        BY <1>8 DEF Prepare
    <2>2. \A i \in Minted : i.to \in Guests
        BY DEF Invitation
    <2> QED
        BY <1>8, <2>1, <2>2 DEF Prepare, host, place
<1>9. ASSUME NEW g \in Guests, PrepareSession(g) PROVE Hosting'
    BY <1>9 DEF PrepareSession, host, own, place
<1>10. ASSUME NEW g \in Guests, PreparePrekey(g) PROVE Hosting'
    BY <1>10 DEF PreparePrekey, host, own, place
<1>11. ASSUME NEW g \in Guests, PrepareDies(g) PROVE Hosting'
    BY <1>11 DEF PrepareDies, host, own, place
<1>12. ASSUME NEW g \in Guests, Begin(g) PROVE Hosting'
    BY <1>12 DEF Begin, host, own, place
<1>13. ASSUME NEW g \in Guests, OpenStore(g) PROVE Hosting'
    BY <1>13 DEF OpenStore, host, own, place
<1>14. ASSUME NEW g \in Guests, Import(g) PROVE Hosting'
    BY <1>14 DEF Import, host, own, place
<1>15. ASSUME NEW g \in Guests, Process(g) PROVE Hosting'
    BY <1>15 DEF Process, host, own, place
<1>16. ASSUME NEW g \in Guests, SaveGroup(g) PROVE Hosting'
    BY <1>16 DEF SaveGroup, host, own, place
<1>17. ASSUME NEW g \in Guests, SaveBinding(g) PROVE Hosting'
    BY <1>17 DEF SaveBinding, host, own, place
<1>18. ASSUME NEW g \in Guests, Refuse(g) PROVE Hosting'
    BY <1>18 DEF Refuse, host, own, place
<1>19. ASSUME NEW g \in Guests, AdmitDies(g) PROVE Hosting'
    BY <1>19 DEF AdmitDies, host, own, place
<1>20. CASE UNCHANGED vars
    BY <1>20 DEF vars, host, own, place
<1> QED
    BY <1>1, <1>2, <1>3, <1>4, <1>5, <1>6, <1>7, <1>8, <1>9, <1>10,
       <1>11, <1>12, <1>13, <1>14, <1>15, <1>16, <1>17, <1>18, <1>19, <1>20
    DEF Next, Hosts, Prepares, Admits

\* Nobody is between the steps of an admission: what its checks saw is still so.
LEMMA AdmittingKept == IInv /\ [Next]_vars => Admitting'
<1> SUFFICES ASSUME IInv, [Next]_vars PROVE Admitting'
    OBVIOUS
<1> USE DEF IInv, TypeOK, Admitting, Checked, At
<1>1. CASE ChangeRoster
    BY <1>1 DEF ChangeRoster, host, own, place
<1>2. CASE Expire
    BY <1>2 DEF Expire, host, own, place
<1>3. CASE FoundPlaceGroup
    BY <1>3 DEF FoundPlaceGroup, host, own, place
<1>4. ASSUME NEW g \in Guests, Author(g) PROVE Admitting'
    BY <1>4 DEF Author, host, own, place
<1>5. CASE AuthorSave
    BY <1>5 DEF AuthorSave, host, own, place
<1>6. CASE AuthorReturn
    BY <1>6 DEF AuthorReturn, host, own, place
<1>7. CASE AuthorDies
    BY <1>7 DEF AuthorDies, host, own, place
<1>8. ASSUME NEW g \in Guests, Prepare(g) PROVE Admitting'
    BY <1>8 DEF Prepare, host, own, place
<1>9. ASSUME NEW g \in Guests, PrepareSession(g) PROVE Admitting'
    BY <1>9 DEF PrepareSession, host, place
<1>10. ASSUME NEW g \in Guests, PreparePrekey(g) PROVE Admitting'
    BY <1>10 DEF PreparePrekey, host, own, place
<1>11. ASSUME NEW g \in Guests, PrepareDies(g) PROVE Admitting'
    BY <1>11 DEF PrepareDies, host, own, place
<1>12. ASSUME NEW g \in Guests, Begin(g) PROVE Admitting'
    <2>1. PICK i \in invites : i.to = g /\
             attempt' = [attempt EXCEPT ![g] =
               [step |-> "valid", invite |-> i, existed |-> store[g] # None, epoch |-> 0]]
        BY <1>12 DEF Begin
    <2>2. bound[g] => store[g] # None
        BY DEF Admitted
    <2> QED
        BY <1>12, <2>1, <2>2 DEF Begin, host, own
<1>13. ASSUME NEW g \in Guests, OpenStore(g) PROVE Admitting'
    <2>1. attempt[g] # None /\ GoOn(g, "opened") /\ "opened" \in Steps
        BY <1>13 DEF OpenStore, At, Steps
    <2>2. /\ \A h \in Guests : h # g => attempt'[h] = attempt[h]
          /\ attempt'[g].step = "opened" /\ attempt'[g].invite = attempt[g].invite
          /\ attempt'[g].existed = attempt[g].existed
          /\ attempt'[g].epoch = attempt[g].epoch
        BY <2>1, GoOnFacts
    <2> QED
        BY <1>13, <2>1, <2>2 DEF OpenStore, host, own
<1>14. ASSUME NEW g \in Guests, Import(g) PROVE Admitting'
    <2>1. attempt[g] # None /\ GoOn(g, "imported") /\ "imported" \in Steps
        BY <1>14 DEF Import, At, Steps
    <2>2. /\ \A h \in Guests : h # g => attempt'[h] = attempt[h]
          /\ attempt'[g].step = "imported" /\ attempt'[g].invite = attempt[g].invite
          /\ attempt'[g].existed = attempt[g].existed
          /\ attempt'[g].epoch = attempt[g].epoch
        BY <2>1, GoOnFacts
    <2>3. attempt[g].invite \in Invitation
        BY <2>1, UnderWay
    <2>4. attempt[g].invite.heads # None
        BY <2>3 DEF Invitation, Version
    <2> QED
        BY <1>14, <2>1, <2>2, <2>4 DEF Import, At, host, own
<1>15. ASSUME NEW g \in Guests, Process(g) PROVE Admitting'
    BY <1>15, ProcessFacts DEF host, own
<1>16. ASSUME NEW g \in Guests, SaveGroup(g) PROVE Admitting'
    <2>1. attempt[g] # None /\ GoOn(g, "saved") /\ "saved" \in Steps
        BY <1>16 DEF SaveGroup, At, Steps
    <2>2. /\ \A h \in Guests : h # g => attempt'[h] = attempt[h]
          /\ attempt'[g].step = "saved" /\ attempt'[g].invite = attempt[g].invite
          /\ attempt'[g].existed = attempt[g].existed
          /\ attempt'[g].epoch = attempt[g].epoch
        BY <2>1, GoOnFacts
    <2>3. /\ attempt[g].step = "processed"
          /\ \A h \in Guests : h # g => sealed'[h] = sealed[h]
          /\ sealed'[g] # None /\ sealed'[g].id = sealed[g].id
          /\ sealed'[g].epoch = attempt[g].invite.epoch
        BY <1>16, SaveGroupFacts
    <2>4. UNCHANGED <<invites, drawing, store, bound>>
        BY <1>16 DEF SaveGroup, host
    <2> QED
        BY <2>1, <2>2, <2>3, <2>4
<1>17. ASSUME NEW g \in Guests, SaveBinding(g) PROVE Admitting'
    BY <1>17 DEF SaveBinding, host, own, place
<1>18. ASSUME NEW g \in Guests, Refuse(g) PROVE Admitting'
    BY <1>18 DEF Refuse, host, own, place
<1>19. ASSUME NEW g \in Guests, AdmitDies(g) PROVE Admitting'
    BY <1>19 DEF AdmitDies, host, own, place
<1>20. CASE UNCHANGED vars
    BY <1>20 DEF vars, host, own, place
<1> QED
    BY <1>1, <1>2, <1>3, <1>4, <1>5, <1>6, <1>7, <1>8, <1>9, <1>10,
       <1>11, <1>12, <1>13, <1>14, <1>15, <1>16, <1>17, <1>18, <1>19, <1>20
    DEF Next, Hosts, Prepares, Admits

\* A later attempt takes from an admitted place neither store, identity nor epoch.
LEMMA AdmittedKept == IInv /\ [Next]_vars => Admitted'
<1> SUFFICES ASSUME IInv, [Next]_vars PROVE Admitted'
    OBVIOUS
<1> USE DEF IInv, TypeOK, Admitted
<1>1. CASE ChangeRoster
    BY <1>1 DEF ChangeRoster, host, own, place
<1>2. CASE Expire
    BY <1>2 DEF Expire, host, own, place
<1>3. CASE FoundPlaceGroup
    BY <1>3 DEF FoundPlaceGroup, host, own, place
<1>4. ASSUME NEW g \in Guests, Author(g) PROVE Admitted'
    BY <1>4 DEF Author, host, own, place
<1>5. CASE AuthorSave
    BY <1>5 DEF AuthorSave, host, own, place
<1>6. CASE AuthorReturn
    BY <1>6 DEF AuthorReturn, host, own, place
<1>7. CASE AuthorDies
    BY <1>7 DEF AuthorDies, host, own, place
<1>8. ASSUME NEW g \in Guests, Prepare(g) PROVE Admitted'
    BY <1>8 DEF Prepare, host, own, place
<1>9. ASSUME NEW g \in Guests, PrepareSession(g) PROVE Admitted'
    BY <1>9 DEF PrepareSession, Identity, host, place
<1>10. ASSUME NEW g \in Guests, PreparePrekey(g) PROVE Admitted'
    BY <1>10 DEF PreparePrekey, host, own, place
<1>11. ASSUME NEW g \in Guests, PrepareDies(g) PROVE Admitted'
    BY <1>11 DEF PrepareDies, host, own, place
<1>12. ASSUME NEW g \in Guests, Begin(g) PROVE Admitted'
    BY <1>12 DEF Begin, host, own, place
<1>13. ASSUME NEW g \in Guests, OpenStore(g) PROVE Admitted'
    BY <1>13 DEF OpenStore, host, own, place
<1>14. ASSUME NEW g \in Guests, Import(g) PROVE Admitted'
    <2>1. attempt[g] # None
        BY <1>14 DEF Import, At
    <2>2. attempt[g].invite \in Invitation
        BY <2>1, UnderWay
    <2>3. attempt[g].invite.heads \in 1..MaxRosters
        BY <2>2 DEF Invitation, Version
    <2> QED
        BY <1>14, <2>3 DEF Import, host, own
<1>15. ASSUME NEW g \in Guests, Process(g) PROVE Admitted'
    BY <1>15 DEF Process, host, own, place
<1>16. ASSUME NEW g \in Guests, SaveGroup(g) PROVE Admitted'
    BY <1>16, SaveGroupFacts DEF SaveGroup, host
<1>17. ASSUME NEW g \in Guests, SaveBinding(g) PROVE Admitted'
    <2>1. attempt[g] # None /\ attempt[g].step = "saved"
        BY <1>17 DEF SaveBinding, At
    <2>2. attempt[g].invite \in Invitation /\ prekey[g] # None
        BY <2>1, UnderWay
    <2>3. attempt[g].invite.heads \in 1..MaxRosters /\ attempt[g].invite.epoch \in 1..MaxEpochs
        BY <2>2 DEF Invitation, Version
    <2>4. store[g] = attempt[g].invite.heads /\ sealed[g].epoch = attempt[g].invite.epoch
        BY <2>1 DEF Admitting, Checked
    <2> QED
        BY <1>17, <2>2, <2>3, <2>4 DEF SaveBinding, host, own
<1>18. ASSUME NEW g \in Guests, Refuse(g) PROVE Admitted'
    BY <1>18 DEF Refuse, Admitting, host, own
<1>19. ASSUME NEW g \in Guests, AdmitDies(g) PROVE Admitted'
    BY <1>19 DEF AdmitDies, host, own, place
<1>20. CASE UNCHANGED vars
    BY <1>20 DEF vars, host, own, place
<1> QED
    BY <1>1, <1>2, <1>3, <1>4, <1>5, <1>6, <1>7, <1>8, <1>9, <1>10,
       <1>11, <1>12, <1>13, <1>14, <1>15, <1>16, <1>17, <1>18, <1>19, <1>20
    DEF Next, Hosts, Prepares, Admits

\* The invariant is inductive.
LEMMA IInvKept == IInv /\ [Next]_vars => IInv'
  BY TypeKept, IdentityKept, HostingKept, AdmittingKept, AdmittedKept DEF IInv

\* The invariant holds of every state.
LEMMA Inductive == Spec => []IInv
<1> QED
    BY Start, IInvKept, PTL DEF Spec

-----------------------------------------------------------------------------
\* The identity behind every pre-key a guest ever published is the one sealed in
\* its session directory, however often preparing (prepare_group_identity) or an
\* admission was interrupted.
THEOREM PublishedIsKept == Spec => []PublishedIdentityKept
<1>1. IInv => PublishedIdentityKept
    BY DEF IInv, Identity, PublishedIdentityKept
<1> QED
    BY <1>1, Inductive, PTL

\* The session the host reopens has the epoch and the identity of every
\* invitation author_invitation ever returned.  Types hold.
THEOREM InvitationsAreFollowed == Spec => []InvitationsFollowed
<1>1. IInv => InvitationsFollowed
    BY DEF IInv, Hosting, InvitationsFollowed
<1> QED
    BY <1>1, Inductive, PTL

\* place.json, once written by admit_inner, stands for a store with a roster in
\* it and an epoch to read with, whatever later attempts did.
THEOREM AdmittedReopens == Spec => []AdmittedCanReopen
<1>1. IInv => AdmittedCanReopen
    BY DEF IInv, Admitted, AdmittedCanReopen
<1> QED
    BY <1>1, Inductive, PTL

\* Only the last step of admit_inner admits, and then the guest's epoch and its
\* newest evidence are those of one invitation.
THEOREM NewestEvidenceAdmits == Spec => AdmittedOnNewestEvidence
<1> DEFINE Newest(g) == bound'[g] /\ ~ bound[g] =>
                          \E i \in invites : /\ i.to = g
                                             /\ i.epoch = sealed[g].epoch
                                             /\ i.heads = store[g]
<1>1. ASSUME IInv, [Next]_vars, NEW g \in Guests, bound'[g], ~ bound[g]
      PROVE  \E i \in invites : i.to = g /\ i.epoch = sealed[g].epoch /\ i.heads = store[g]
    <2>1. SaveBinding(g)
        <3>1. ~ UNCHANGED bound
            BY <1>1
        <3>2. PICK h \in Guests : SaveBinding(h)
            BY <1>1, <3>1
            DEF Next, vars, Hosts, Prepares, Admits, host, own, place, ChangeRoster, Expire,
                FoundPlaceGroup, Author, AuthorSave, AuthorReturn, AuthorDies, Prepare,
                PrepareSession, PreparePrekey, PrepareDies, Begin, OpenStore, Import, Process,
                SaveGroup, Refuse, AdmitDies
        <3> QED
            BY <1>1, <3>2 DEF SaveBinding, IInv, TypeOK
    <2>2. attempt[g] # None /\ attempt[g].step = "saved"
        BY <2>1 DEF SaveBinding, At
    <2> QED
        BY <1>1, <2>2 DEF IInv, Admitting, Checked
<1>2. IInv /\ [Next]_vars => [\A g \in Guests : Newest(g)]_vars
    BY <1>1
<1> QED
    BY <1>2, Inductive, PTL DEF Spec, AdmittedOnNewestEvidence

=============================================================================
