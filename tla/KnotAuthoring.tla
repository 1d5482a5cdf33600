--------------------------- MODULE KnotAuthoring ---------------------------
(***************************************************************************)
(* Knot documents edited over an endpoint (knot_authoring.rs): the UI      *)
(* thread with its editors and the Inspector's clip handle, the hub thread *)
(* that owns all traffic with the endpoint, and the endpoint, which other  *)
(* programs write to as well.                                              *)
(*                                                                         *)
(* A text is the set of edits it contains, and its own base token: an edit *)
(* that is stored and later missing was overwritten.  The hub takes one    *)
(* command at a time and blocks in the endpoint; a command that is         *)
(* accepted and then folded again is two steps, for the endpoint may move  *)
(* in between.  The endpoint, the carrier and the editor widget are        *)
(* outside this repository.                                                *)
(***************************************************************************)
EXTENDS Naturals, Sequences, Functions

CONSTANTS
    Doc,          \* addresses of documents
    Editor,       \* registrations: an editor opened once, and dropped for good
    ClipTarget,   \* TURNSTONE_KNOT_CLIP_TARGET, one of Doc
    NoDoc,        \* what is not there: a document, a binding
    Environments, \* the settings turnstone may be started with
    MaxEdits,     \* bound: edits made by anyone
    MaxCommands,  \* bound: commands the hub has not taken yet
    MaxEvents     \* bound: events an editor has not drained when the hub goes on

VARIABLES
    conf,      \* what from_env made of the settings
    store,     \* endpoint: the text of each document, NoDoc when withdrawn
    moved,     \* endpoint: changed since the hub last looked
    edits,     \* edits made so far
    kept,      \* history: every text a document ever had
    seen,      \* hub: the mounted projection, NoDoc when not disclosed
    mounted,   \* hub: whether there is a projection
    bindings,  \* hub: the binding cached per address, here its token
    subs,      \* hub: registered editors
    hub,       \* hub: idle, a job accepted and not yet folded, or ended
    cmds,      \* commands on their way to the hub
    events,    \* events on their way to each editor
    ed,        \* the editors
    clip,      \* status of the clip handle
    fresh      \* history: the clip target changed since a clip was last refused

knotVars == <<conf, store, moved, edits, kept, seen, mounted, bindings, subs,
              hub, cmds, events, ed, clip, fresh>>
endpoint == <<store, moved, edits, kept>>
hubState == <<seen, mounted, bindings, subs, hub>>

Text == SUBSET (1..MaxEdits)
Busy == {"saving", "resolving", "running", "reloading"}
Status == Busy \cup {"current", "stale", "rejected", "revoked"}
Effect == {"resolve", "run"}

-----------------------------------------------------------------------------
(***************************************************************************)
(* Settings, with a bound: the editors opened under them.                  *)
(***************************************************************************)
EffectMode == {"auto", "ask", "never"}
Settings == [mode : {"directory-write", "persona-vault"}, program : BOOLEAN,
             resolve : EffectMode, run : EffectMode, file : BOOLEAN,
             target : BOOLEAN, opened : SUBSET Editor]

EffectsEnabled(e) == e.resolve # "never" \/ e.run # "never"

\* A vault never admits effects that read files past it, hosted or spawned.
Admitted(e) == ~(e.mode = "persona-vault" /\ EffectsEnabled(e) /\ e.file)

\* A hosted directory is opened writable only when it is granted effects; a
\* spawned one is told to be writable, and a vault always is.
Writable(e) == e.program \/ e.mode = "persona-vault" \/ EffectsEnabled(e)

FromEnv == {[writable |-> Writable(e), resolve |-> e.resolve, run |-> e.run,
             target |-> e.target, opened |-> e.opened] : e \in {s \in Environments : Admitted(s)}}

Available(k) == conf[k] # "never"

-----------------------------------------------------------------------------
(***************************************************************************)
(* The editors.  Every entry point first drains the editor's events.       *)
(***************************************************************************)
Closed == [open |-> FALSE, doc |-> NoDoc, text |-> {}, saved |-> {},
           base |-> {}, status |-> "current"]
Dropped(e) == [Closed EXCEPT !.doc = e.doc]
Fresh(d, t) == [open |-> TRUE, doc |-> d, text |-> t, saved |-> t, base |-> t,
                status |-> "current"]
Dirty(e) == e.text # e.saved

OnRemote(e, t) ==
    CASE t = e.base /\ ~Dirty(e) -> [e EXCEPT !.status = "current"]
      [] t = e.base /\ Dirty(e)  -> e
      [] t # e.base /\ Dirty(e)  -> [e EXCEPT !.status = "stale"]
      [] OTHER                   -> Fresh(e.doc, t)

\* Mutant: what was typed while the save was on its way counts as saved.
OnEventAccepting(e, v) ==
    CASE v.kind = "remote"   -> OnRemote(e, v.token)
      [] v.kind = "reloaded" -> Fresh(e.doc, v.token)
      [] v.kind = "saved"    -> [e EXCEPT !.saved = e.text, !.base = v.token,
                                          !.status = "current"]
      [] v.kind = "revoked"  -> [Fresh(e.doc, {}) EXCEPT !.status = "revoked"]
      [] OTHER               -> [e EXCEPT !.status = v.kind]

OnEvent(e, v) ==
    CASE v.kind = "remote"   -> OnRemote(e, v.token)
      [] v.kind = "reloaded" -> Fresh(e.doc, v.token)
      [] v.kind = "saved"    -> [e EXCEPT !.saved = v.source, !.base = v.token,
                                          !.status = "current"]
      [] v.kind = "revoked"  -> [Fresh(e.doc, {}) EXCEPT !.status = "revoked"]
      [] OTHER               -> [e EXCEPT !.status = v.kind]

\* The editor i is left as e.
Becomes(i, e) == ed[i].open /\ ed' = [ed EXCEPT ![i] = e]

Command(kind, i, token, source) ==
    [kind |-> kind, editor |-> i, token |-> token, source |-> source]

\* Sends command c for editor i; a hub that ended takes none.
Request(i, c, status) ==
    IF hub.at = "ended"
    THEN Becomes(i, [ed[i] EXCEPT !.status = "rejected"]) /\ UNCHANGED cmds
    ELSE /\ Becomes(i, [ed[i] EXCEPT !.status = status])
         /\ Len(cmds) < MaxCommands
         /\ cmds' = Append(cmds, c)

MayAsk(i) == ed[i].status \notin Busy \cup {"revoked"}

\* Frames, keys and clicks drain first; an event can still come between the
\* drain and what the key asks for, so the two are steps of their own.  The hub
\* sends its events one by one: a drain may find the first and not the next.
Drain(i) ==
    /\ events[i] # <<>>
    /\ Becomes(i, OnEvent(ed[i], Head(events[i])))
    /\ events' = [events EXCEPT ![i] = Tail(@)]
    /\ UNCHANGED <<conf, endpoint, hubState, cmds, clip, fresh>>

Type(i) ==
    /\ edits < MaxEdits
    /\ edits' = edits + 1
    /\ Becomes(i, [ed[i] EXCEPT !.text = @ \cup {edits + 1}])
    /\ UNCHANGED <<conf, store, moved, kept, hubState, cmds, events, clip, fresh>>

Save(i) ==
    /\ MayAsk(i) /\ Dirty(ed[i])
    /\ Request(i, Command("save", i, ed[i].base, ed[i].text), "saving")
    /\ UNCHANGED <<conf, endpoint, hubState, events, clip, fresh>>

Reload(i) ==
    /\ MayAsk(i)
    /\ Request(i, Command("reload", i, {}, {}), "reloading")
    /\ UNCHANGED <<conf, endpoint, hubState, events, clip, fresh>>

InvokeEffect(i, k) ==
    /\ Available(k) /\ MayAsk(i) /\ ~Dirty(ed[i])
    /\ Request(i, Command(k, i, {}, {}),
               IF k = "resolve" THEN "resolving" ELSE "running")
    /\ UNCHANGED <<conf, endpoint, hubState, events, clip, fresh>>

Drop(i) ==
    /\ Len(cmds) < MaxCommands
    /\ Becomes(i, Dropped(ed[i]))
    /\ events' = [events EXCEPT ![i] = <<>>]
    /\ cmds' = IF hub.at = "ended" THEN cmds
                ELSE Append(cmds, Command("unregister", i, {}, {}))
    /\ UNCHANGED <<conf, endpoint, hubState, clip, fresh>>

\* The Inspector's button: the status says "clipping" whether or not the
\* command can be sent.
InsertClip ==
    /\ conf.target
    /\ clip' = "sending"
    /\ Len(cmds) < MaxCommands
    /\ cmds' = IF hub.at = "ended" THEN cmds
                                ELSE Append(cmds, Command("clip", NoDoc, {}, {}))
    /\ UNCHANGED <<conf, endpoint, hubState, events, ed, fresh>>

\* Opening blocks the UI thread until the hub answers, behind whatever it was
\* already sent: UiWaits disables every other step of the UI.
UiWaits == \E c \in Range(cmds) : c.kind = "open"

AskOpen(i, d) ==
    /\ i \in conf.opened /\ ed[i] = Closed
    /\ hub.at # "ended" /\ Len(cmds) < MaxCommands
    /\ cmds' = Append(cmds, [Command("open", i, {}, {}) EXCEPT !.token = d])
    /\ UNCHANGED <<conf, endpoint, hubState, events, ed, clip, fresh>>

Ui ==
    /\ ~UiWaits
    /\ \/ \E i \in Editor : Drain(i) \/ Type(i) \/ Save(i) \/ Reload(i) \/ Drop(i)
       \/ \E i \in Editor, k \in Effect : InvokeEffect(i, k)
       \/ \E i \in Editor, d \in Doc : AskOpen(i, d)
       \/ InsertClip

-----------------------------------------------------------------------------
(***************************************************************************)
(* The hub.                                                                *)
(***************************************************************************)
\* Looking at the endpoint: a poll, or the wait after an accepted intent.
Look == seen' = store /\ moved' = FALSE

\* A document is bound when the projection discloses it with its actions.
Resolves(view, d) == conf.writable /\ view[d] # NoDoc

Event(kind, token, source) == [kind |-> kind, token |-> token, source |-> source]
Refused(kind) == Event(kind, {}, {})

\* An event for an editor that was dropped has nobody to go to.
Post(i, v) == [events EXCEPT ![i] = IF ed[i].open THEN Append(@, v) ELSE @]

\* refresh_subscribers: every address somebody is registered for, no other.
RefreshedEvents(view, before) ==
    [i \in Editor |->
        IF i \notin subs \/ ~ed[i].open THEN before[i]
        ELSE Append(before[i], IF Resolves(view, ed[i].doc)
                               THEN Event("remote", view[ed[i].doc], {})
                               ELSE Refused("revoked"))]
RefreshedBindings(view, before) ==
    [d \in Doc |-> IF \A i \in subs : ed[i].doc # d THEN before[d]
                   ELSE IF Resolves(view, d) THEN view[d] ELSE NoDoc]

Idle == [at |-> "idle", editor |-> NoDoc, source |-> {}]

Take(kind) ==
    /\ hub = Idle /\ cmds # <<>> /\ Head(cmds).kind = kind
    /\ cmds' = Tail(cmds)
Asker == Head(cmds).editor

\* ensure_binding: the cached one, else from the projection, mounted if need be.
Ensure(d) ==
    LET view == IF mounted THEN seen ELSE store IN
    /\ seen' = view
    /\ mounted' = TRUE
    /\ moved' = (mounted /\ moved)
    /\ bindings' = IF bindings[d] = NoDoc /\ Resolves(view, d)
                   THEN [bindings EXCEPT ![d] = view[d]] ELSE bindings

\* A document that opens sends its automatic effects at once.  Nothing else
\* is queued then: the UI thread was waiting.
AutoOf(k, i) == IF conf[k] = "auto" THEN <<Command(k, i, {}, {})>> ELSE <<>>
Auto(i) == AutoOf("resolve", i) \o AutoOf("run", i)

Open ==
    /\ hub = Idle /\ cmds # <<>> /\ Head(cmds).kind = "open"
    /\ LET d == Head(cmds).token IN
       /\ Ensure(d)
       /\ IF bindings'[d] # NoDoc
          THEN /\ subs' = subs \cup {Asker}
               /\ ed' = [ed EXCEPT ![Asker] = Fresh(d, bindings'[d])]
               /\ cmds' = Tail(cmds) \o Auto(Asker)
          ELSE /\ ed' = [ed EXCEPT ![Asker] = [Closed EXCEPT !.doc = d]]
               /\ cmds' = Tail(cmds) /\ UNCHANGED subs
    /\ UNCHANGED <<conf, store, edits, kept, hub, events, clip, fresh>>

Writes(d, t) ==
    /\ store' = [store EXCEPT ![d] = t]
    /\ kept' = [kept EXCEPT ![d] = @ \cup {t}]
    /\ moved' = TRUE
    /\ fresh' = (fresh \/ d = ClipTarget)

\* The endpoint accepts a text for the base it holds, and may still reject it.
InvokeSave ==
    /\ Take("save")
    /\ LET d == ed[Asker].doc
           c == Head(cmds)
       IN \/ /\ Asker \in subs /\ bindings[d] # NoDoc /\ store[d] = c.token
             /\ Writes(d, c.source)
             /\ hub' = [at |-> "saved", editor |-> Asker, source |-> c.source]
             /\ UNCHANGED events
          \/ /\ Asker \in subs
             /\ \/ /\ bindings[d] # NoDoc /\ store[d] # c.token
                   /\ events' = Post(Asker, Refused("stale"))
                \/ events' = Post(Asker, Refused("rejected"))
             /\ UNCHANGED <<store, moved, kept, hub, fresh>>
    /\ UNCHANGED <<conf, edits, seen, mounted, bindings, subs, ed, clip>>

\* Mutant: an editor whose text was stored and not folded again is not told.
FinishSaveSilent ==
    /\ hub.at = "saved"
    /\ hub' = Idle
    /\ LET i == hub.editor
           d == ed[i].doc
           done == Post(i, Event("saved", store[d], hub.source))
       IN \/ /\ Look /\ Resolves(store, d)
             /\ events' = RefreshedEvents(store, done)
             /\ bindings' = RefreshedBindings(store, bindings)
          \/ /\ UNCHANGED <<seen, moved, events, bindings>>
    /\ UNCHANGED <<conf, store, edits, kept, mounted, subs, cmds, ed, clip, fresh>>

\* Looking again fails, or does not find the document any more.
FinishSave ==
    /\ hub.at = "saved"
    /\ hub' = Idle
    /\ LET i == hub.editor
           d == ed[i].doc
           done == Post(i, Event("saved", store[d], hub.source))
       IN \/ /\ Look /\ Resolves(store, d)
             /\ events' = RefreshedEvents(store, done)
             /\ bindings' = RefreshedBindings(store, bindings)
          \/ /\ \/ UNCHANGED <<seen, moved>>
                \/ Look /\ ~Resolves(store, d)
             /\ events' = Post(i, Refused("rejected"))
             /\ UNCHANGED bindings
    /\ UNCHANGED <<conf, store, edits, kept, mounted, subs, cmds, ed, clip, fresh>>

\* A clip is sent with the base token of the cached binding.
InvokeClip ==
    /\ Take("clip")
    /\ LET d == ClipTarget
           view == IF mounted THEN seen ELSE store
           bound == IF bindings[d] # NoDoc THEN bindings[d]
                    ELSE IF Resolves(view, d) THEN view[d] ELSE NoDoc
       IN /\ bindings' = [bindings EXCEPT ![d] = bound]
          /\ mounted' = TRUE
          /\ seen' = view
          /\ \/ /\ bound # NoDoc /\ store[d] = bound /\ edits < MaxEdits
                /\ edits' = edits + 1
                /\ Writes(d, bound \cup {edits + 1})
                /\ hub' = [Idle EXCEPT !.at = "clipped"]
                /\ UNCHANGED clip
             \/ /\ bound # NoDoc /\ store[d] # bound
                /\ clip' = "stale"
                /\ fresh' = FALSE
                /\ moved' = (mounted /\ moved)
                /\ UNCHANGED <<store, edits, kept, hub>>
             \/ /\ clip' = "rejected"
                /\ moved' = (mounted /\ moved)
                /\ UNCHANGED <<store, edits, kept, hub, fresh>>
    /\ UNCHANGED <<conf, subs, events, ed>>

FinishClip ==
    /\ hub.at = "clipped"
    /\ hub' = Idle
    /\ \/ /\ Look /\ Resolves(store, ClipTarget)
          /\ clip' = "saved"
          /\ events' = RefreshedEvents(store, events)
          /\ bindings' = RefreshedBindings(store, [bindings EXCEPT
                                                    ![ClipTarget] = store[ClipTarget]])
       \/ /\ \/ UNCHANGED <<seen, moved>>
             \/ Look /\ ~Resolves(store, ClipTarget)
          /\ clip' = "rejected"
          /\ UNCHANGED <<bindings, events>>
    /\ UNCHANGED <<conf, store, edits, kept, mounted, subs, cmds, ed, fresh>>

InvokeEffectNow(k) ==
    /\ Take(k)
    /\ LET d == ed[Asker].doc IN
       \/ /\ Asker \in subs /\ bindings[d] # NoDoc /\ Available(k)
          /\ store[d] = bindings[d]
          /\ moved' = TRUE
          /\ hub' = [Idle EXCEPT !.at = "effected", !.editor = Asker]
          /\ UNCHANGED events
       \/ /\ Asker \in subs
          /\ \/ /\ bindings[d] # NoDoc /\ Available(k) /\ store[d] # bindings[d]
                /\ events' = Post(Asker, Refused("stale"))
             \/ events' = Post(Asker, Refused("rejected"))
          /\ UNCHANGED <<moved, hub>>
    /\ UNCHANGED <<conf, store, edits, kept, seen, mounted, bindings, subs, ed, clip, fresh>>

FinishEffect ==
    /\ hub.at = "effected"
    /\ hub' = Idle
    /\ \/ /\ Look
          /\ events' = RefreshedEvents(store, events)
          /\ bindings' = RefreshedBindings(store, bindings)
       \/ /\ events' = Post(hub.editor, Refused("rejected"))
          /\ UNCHANGED <<seen, moved, bindings>>
    /\ UNCHANGED <<conf, store, edits, kept, mounted, subs, cmds, ed, clip, fresh>>

ReloadNow ==
    /\ Take("reload")
    /\ Asker \in subs
    /\ LET d == ed[Asker].doc IN
       IF Resolves(seen, d)
       THEN /\ bindings' = [bindings EXCEPT ![d] = seen[d]]
            /\ events' = Post(Asker, Event("reloaded", seen[d], {}))
       ELSE events' = Post(Asker, Refused("revoked")) /\ UNCHANGED bindings
    /\ UNCHANGED <<conf, endpoint, seen, mounted, subs, hub, ed, clip, fresh>>

\* The last one to leave takes the projection and every binding along.
Unregister ==
    /\ Take("unregister")
    /\ subs' = subs \ {Asker}
    /\ IF subs' = {}
       THEN mounted' = FALSE /\ bindings' = [d \in Doc |-> NoDoc]
       ELSE UNCHANGED <<mounted, bindings>>
    /\ UNCHANGED <<conf, endpoint, seen, hub, events, ed, clip, fresh>>

\* Nothing came within POLL_INTERVAL.
Poll ==
    /\ hub = Idle /\ cmds = <<>> /\ mounted /\ moved
    /\ Look
    /\ events' = RefreshedEvents(store, events)
    /\ bindings' = RefreshedBindings(store, bindings)
    /\ UNCHANGED <<conf, store, edits, kept, mounted, subs, hub, cmds, ed, clip, fresh>>

\* The poll itself fails: everyone registered hears of it, the hub ends, and
\* what was queued is gone, with the answer an opening UI waits for.
PollFails ==
    /\ hub = Idle /\ mounted
    /\ hub' = [Idle EXCEPT !.at = "ended"]
    /\ cmds' = <<>>
    /\ events' = [i \in Editor |-> IF i \in subs /\ ed[i].open
                                   THEN Append(events[i], Refused("revoked"))
                                   ELSE events[i]]
    /\ UNCHANGED <<conf, endpoint, seen, mounted, bindings, subs, ed, clip, fresh>>

Hub ==
    /\ UiWaits \/ \A i \in Editor : Len(events[i]) <= MaxEvents
    /\ \/ Open \/ InvokeSave \/ FinishSave \/ InvokeClip \/ FinishClip
       \/ (\E k \in Effect : InvokeEffectNow(k)) \/ FinishEffect
       \/ ReloadNow \/ Unregister \/ Poll

-----------------------------------------------------------------------------
(***************************************************************************)
(* Other programs at the endpoint's documents.                             *)
(***************************************************************************)
External ==
    /\ \E d \in Doc :
        /\ store[d] # NoDoc
        /\ \/ /\ edits < MaxEdits
              /\ edits' = edits + 1
              /\ Writes(d, store[d] \cup {edits + 1})
           \/ /\ store' = [store EXCEPT ![d] = NoDoc]
              /\ moved' = TRUE
              /\ fresh' = (fresh \/ d = ClipTarget)
              /\ UNCHANGED <<edits, kept>>
    /\ UNCHANGED <<conf, hubState, cmds, events, ed, clip>>

-----------------------------------------------------------------------------
KnotInit ==
    /\ conf \in FromEnv
    /\ store = [d \in Doc |-> {}]
    /\ kept = [d \in Doc |-> {{}}]
    /\ moved = FALSE /\ edits = 0
    /\ seen = store /\ mounted = FALSE
    /\ bindings = [d \in Doc |-> NoDoc]
    /\ subs = {} /\ hub = Idle /\ cmds = <<>>
    /\ events = [i \in Editor |-> <<>>]
    /\ ed = [i \in Editor |-> Closed]
    /\ clip = "ready" /\ fresh = TRUE

KnotNext == Ui \/ Hub \/ PollFails \/ External

\* The hub takes what is queued and polls; every frame drains the editors.
KnotFairness ==
    /\ WF_knotVars(Hub)
    /\ \A i \in Editor : WF_knotVars(~UiWaits /\ Drain(i))

KnotSpec == KnotInit /\ [][KnotNext]_knotVars /\ KnotFairness

KnotTypeOK ==
    /\ store \in [Doc -> Text \cup {NoDoc}]
    /\ moved \in BOOLEAN /\ mounted \in BOOLEAN /\ fresh \in BOOLEAN
    /\ edits \in 0..MaxEdits
    /\ kept \in [Doc -> SUBSET Text]
    /\ seen \in [Doc -> Text \cup {NoDoc}]
    /\ bindings \in [Doc -> Text \cup {NoDoc}]
    /\ subs \subseteq Editor
    /\ hub.at \in {"idle", "saved", "clipped", "effected", "ended"}
    /\ \A i \in Editor : ed[i].status \in Status
    /\ clip \in {"ready", "sending", "saved", "stale", "rejected"}

\* What an editor calls saved is a text the document really had, whatever was
\* typed while the save was on its way and whichever answers overtook it
\* (accept_saved_source in KnotDocumentSession::drain_events).
SavedWasStored ==
    \A i \in Editor :
        ed[i].open /\ ed[i].status # "revoked" => ed[i].saved \in kept[ed[i].doc]

\* An editor waiting for the hub: one with an effect under way stops counting
\* when it is typed into, for a Remote event leaves a dirty editor's status be.
Waiting(i) == \/ ed[i].status \in {"saving", "reloading"}
              \/ ed[i].status \in {"resolving", "running"} /\ ~Dirty(ed[i])

\* Whatever is asked of the hub is answered, and a clip is as long as the hub
\* lives (run_hub, drain_events, insert_clip).
AuthoringSettles ==
    /\ \A i \in Editor : Waiting(i) ~> ~Waiting(i)
    /\ clip = "sending" ~> (clip # "sending" \/ hub.at = "ended")

\* "clip target changed; retry" (KnotClipStatus::label): a clip refused as
\* stale is not refused again when the target did not change since.
RetryMayWork == [][clip = "sending" /\ clip' = "stale" => fresh]_knotVars

=============================================================================
