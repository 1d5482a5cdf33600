# A verification of turnstone

Turnstone (crate and repository `merecat`) is a local-first browser: a graph of
nodes shown on a canvas, kept in sessions under a profile directory, some of the
sessions bound to *shared places* that several peers write to. This directory
holds TLA+ models of the parts of it that keep state across threads, messages,
failures and restarts; TLC configurations that check them; and proofs, checked
by TLAPS, of what matters most about them.

Paths below are relative to the repository root (`src/...` is the crate).

1. [The system](#1-the-system): inventory of the components
2. [Plan](#2-plan): modules, order, what is done and what is next
3. [The modules](#3-the-modules): state and actions against the code
4. [The runs](#4-the-runs): what each one asks, its bounds, why they are enough
5. [Fairness](#5-fairness)
6. [The proofs](#6-the-proofs)
7. [What the code does and its comments deny](#7-what-the-code-does-and-its-comments-deny)
8. [What is not modelled](#8-what-is-not-modelled)

To check: `tlc -config X.cfg M` for the pairs of section 4 (the modules named
`MC...` are the ones to run), `tlapm` on
`PlaceProofs.tla`, `AdmissionProofs.tla`, `BinProofs.tla`, `StoreProofs.tla`,
`ContentProofs.tla`, `DeskProofs.tla`, `EndpointProofs.tla` and
`ServicesProofs.tla`.

## 1. The system

One process. The **UI thread** runs the windowing library's event loop: the
*shell* (`src/shell/`) turns input into `Action`s, the *app* (`src/app/`) is a
state machine that applies an action and returns `Effect`s, and the shell runs
them. Slow work is done by **actors**, each a thread (or task) with a command
channel and an answer channel; an answer is an `Update` the app folds, one at a
time, after the shell was woken. Sessions, places, bins and documents are
directories and files under the profile; no database is shared.

```
            Action                Effect                 command channel
  user ───────────▶ app (UI thread) ──▶ shell ──┬───────────────▶ place worker ──▶ lanes
                     ▲                          ├───────────────▶ bin actor         │
                     │                          ├───────────────▶ fetch actor
                     │                          └── editors ────▶ knot hub ──▶ endpoint
                     └───── Update, one at a time after a wake ◀── answers, nudges ─┘
                                        shell also writes session files itself
```

| Component | Source | State | Operations | Meets others by |
|---|---|---|---|---|
| Shared place lifecycle | `place.rs`, `place/worker.rs`, `app/updates.rs`, `app/session_lifecycle.rs`, `shell/effects.rs` | `App.place` (personal, joining, opening, offline with a snapshot, degraded, failed), the place *generation*; the worker's one open place; the session directories | join, open, resync, author, release; switch, mint, close, recover | command and answer channel of the worker; a bounded wait of the UI thread for a release |
| Place admission | `place/worker.rs`, `place/invite.rs` | sealed group session and pre-key record, governance store, `place.json`; the host's group | prepare an identity, found, author an invitation, admit | invitation files, out of band |
| Place lanes and watcher | `place/lanes.rs` | counters of drained operations, the watcher's baseline | drain, sample, nudge | the answer channel of the worker |
| Place projection | `place/projection.rs` | none (a fold) | fold presence and conversation | called by the worker |
| Session sidecar files | `session.rs`, `panes/store.rs` | `place.json`, `projection-score.json`, `frame.json`, `windows.json` | save, update, load | file system |
| Recycle bin and world archive | `recycle.rs`, `app/node_arms.rs`, `denizen.rs` | tombstones per session (actor), the app's mirror of them, world files in a live and an archive slot | delete, recover, empty, retire, reopen, release | a channel each way, and the archive slot both threads move files in |
| Session store | `session.rs`, `app/session_lifecycle.rs` | manifests, `current_session`, `graph.json`, image blobs, session trash, an older flat layout | boot, mint, fork, switch, close, recover, save, sweep, migrate | file system |
| Content lane | `content.rs`, `app/node_arms.rs`, `shell/effects.rs` | per node: absent, requested, live, failed, twice with the shell's engine sessions; the pinned viewer and content-on facets | toggle, pin, reload, open in the workbench, adopt | effects and updates, on one thread |
| Page fetching and faces | `browse.rs`, `app/updates.rs` | table of requesters by address; what of a page a node shows | fetch, chase the icon, answer, attribute | the fetch actor, in any order |
| Publishing service | `publish_service.rs`, `publish_pane.rs` | retained publications, the selection, tickets | refresh; the others cannot be reached (section 8) | a Graphshell endpoint |
| Denizens, rings, envelope | `denizen.rs`, `ring.rs`, `component.rs`, `script.rs`, `app/denizen_arms.rs` | staged review, residency of nodes, worlds, certificates, the delegation table | review, install, run, uninstall, rebuild | the action envelope; the bin's archive |
| Profile identity | `identity.rs` | root key, sealed in the vault or in a seed file | load, create, retire | file system |
| Actions, effects, updates | `action.rs`, `app/mod.rs`, `app/updates.rs`, `shell/events.rs` | the vocabulary | apply, run, fold | all of the above |
| Panes, tear-out, lenses | `panes/`, `shell/lens.rs`, `app/pane_arms.rs` | a tree of splits and leaves per window; which windows there are; the seams held | summon, close, tear out, open and close windows, drag a seam | the app; `frame.json`, `windows.json` |
| Workbench tiling, surfaces | `workbench_tiling.rs`, `workbench_pane.rs`, `surface.rs`, `pane.rs` | the tiled nodes and those in front; rectangles | tile, raise, untile; layout, hit test | the app |
| Knot authoring | `knot_authoring.rs` | editors with drafts and base tokens; the hub's projection, bindings and subscribers | open, type, save, reload, effect, clip, drop | the hub's thread; an endpoint other programs write to |
| Remote projection | `remote_projection.rs`, `bin/graphshell_endpoint.rs` | the snapshot handed out, the resources it binds, the audit log | snapshot, resource, invoke | standard input and output |
| Scenario runner | `scenario.rs`, `observe.rs`, `shell/drive.rs` | script position, settledness | step, wait, assert | the app |
| Omnibar, palette, focus, keys | `ui.rs`, `app/omnibar_arms.rs`, `app/palette.rs`, `shell/keys.rs`, `shell/input.rs`, `shell/gestures.rs` | the line (text, caret, rows, highlight), the focus, the capture, the drags | edit, commit; press, move, release | the app; the pending review of denizens |
| Rendering and accessibility | `shell/render.rs`, `chrome_view.rs`, the `*_view.rs` and `*_pane.rs` files | none that outlives a frame | draw | the app, read only |
| Settings, swatches | `settings_*.rs`, `swatch_pane/` | values | edit | files |
| Process entry | `main.rs`, `lib.rs`, `shell/mod.rs` | none | boot | all |

### Which behaviours are hard, and what correctness is

**Shared place lifecycle.** The app never waits for the worker, except for a
release and then for 1500 ms at most, so that answers to joins, opens, resyncs
and authored commands of earlier sessions, or of earlier visits to this one,
arrive whenever they please. Everything hangs on two numbers carried by every
command: session and generation. Correct is: what is shown under a binding was
folded from that binding's place; a binding is only shown where admission wrote
one; the view does not go back in time; joins and opens end; a directory is not
moved away under the worker, nor made anew behind the app's back.

**Place admission.** Four functions of a dozen durable steps each, any of which
may fail and between any of which the process may die. Correct is: a published
pre-key can always be read with the sealed identity; the host follows what it
handed out; `place.json` means the place reopens; a stale invitation does not
admit.

**Lanes and watcher.** Sampling, debouncing and asking again: a lost wake-up is
a message nobody sees. Correct is: arrivals are shown in the end.

**Sidecar files.** Correct is: never half a file, and, where the file is renamed
over, never a moment without one.

**Recycle bin.** The app moves world files on its own thread while the actor
purges the same slot by its own, later, view of the tombstones; switches and
closes change the store below queued commands. Correct is: a tombstone lands in
its own session's bin; a world outlives the tombstone that brings it back; the
mirror settles on the truth; the directory of a closed session stays away.

**Session store.** Many small durable steps, each failing softly (logged, no
more). Correct is: no graph is saved over another session's, none becomes
unreachable, no image goes that a saved graph refers to, a crash takes no more
than what was never to be saved, and a restart returns to where the user was.

**Content and fetches.** What is shown is kept twice, as the app's lifecycle of a
node and as the shell's engine session; a close and a spawn are two effects of
which one may fail; a session comes back from facets that were saved at another
time. Fetch answers carry an address and no node, and come in any order, after
the node or the session is gone. Correct is: no session composes nowhere or by
an old route, the table of requesters is what the actor holds, and a crash costs
no enrichment.

**Knots.** Local edits against a document that changes below them, through a hub
that takes one command at a time, blocks in the endpoint, and caches a binding
per address; the UI thread waits for it when an editor opens. Correct is: what
an editor calls saved is a text the document had, and whatever is asked is
answered, by a hub that lives or one that has ended.

**Panes and windows.** One counter mints pane ids for all trees, a lens is named
by the place of its tree in a list, windows come later than the trees they show
and may not come at all, and a seam is held by a path while the tree changes
below it. Correct is: a pane is in one place, every window keeps its graph, no
tree has two windows, and only a drag in progress is not on disk.

**Denizens and identity.** The authority of a helper is in three places (the
world's projections, the certificate file, the delegation table) that are
written at different times from a node that is saved at another; the key the
certificates descend from may change from one start to the next. Correct is: no
subject is covered for more than a review of it named, and none loses at a start
what its world records, unless its install was cut short.

**Line, focus and pointer.** Rows are computed at an edit, drawn at a frame and
taken at a key, while drops, switches and answers change what they are about;
presses, moves and releases go to different surfaces, with a line opening in
between. Correct is: what is confirmed is what was shown, the caret stays on the
text, and no drag outlives the buttons.

**Remote projection.** A viewer acts on what it saw, which is older than what
is. Correct is: whatever it invokes, it curates and nothing else, and it can
resolve what it has mounted.

The hazards this amounts to are listed in `PROJECT.json`, each at its line with
the properties that would catch it.

## 2. Plan

Modules in order of importance; all are done.

| # | Module | Composes | State |
|---|---|---|---|
| 1 | `PlaceLifecycle` (with `PlaceInvariant`, `MCPlaceLifecycle`, `PlaceProofs`) | app, shell, worker, watcher, directories | checked; every safety property proved |
| 2 | `PlaceAdmission` | refines the steps `AdmitChecked`, `AdmitCommit` and `AdmitRefused` of 1 | checked; every property proved |
| 3 | `LaneWatcher` | refines `Arrive`, `Nudge`, `FoldAdvanced` and `WorkResync` of 1 | checked, with liveness; types proved |
| 4 | `SidecarFile` over the abstract `AtomicFile` | how `place.json` of 1 and 2 and the arrangement of 9 reach the disk | checked; safety and refinement proved |
| 5 | `RecycleBin` | app, bin actor, world files; the close path it shares with 1 | checked; every property of the run `bin` proved |
| 6 | `SessionStore` | the session directories of 1 and 5, file by file | checked; every property proved |
| 7 | `KnotAuthoring` | editors and clip handle, hub thread, endpoint | checked, with liveness; types and `SavedWasStored` proved |
| 8 | `ContentLane` | app's content states, the shell's engine sessions, fetch table and fetch actor; what deletions of 5 and adoptions of 6 do to them | checked; every property of the run `desk` proved |
| 9 | `Panes` | trees, windows, seams, and what of them is saved | checked; both properties proved |
| 10 | `Denizens` | reviews, residency, worlds (as 5 moves them), certificates, identity | checked; both properties proved |
| 11 | `Input` | line, focus, pointer; the review of 10 and the session of 6 as they see them | checked; every property proved |
| 12 | `Endpoint` | the disclosed projection and its viewer | checked; its invariant proved |
| 13 | `MCServices`, `MCDesk` | instances of 3, 4, 7 and of 8 to 12 | runs, and theorems about 7 and 9 to 11 |

Theorems still worth proving are those that relate modules: that the steps
`AdmitChecked`, `AdmitCommit` and `AdmitRefused` of 1 are what 2 does between them,
and that `Arrive`, `Nudge` and `FoldAdvanced` of 1 are what 3 does.

An abstract specification still worth stating: a *bag of tombstones* that
`RecycleBin` implements for a user who waits.

## 3. The modules

Two conventions. A definition whose comment begins with *Mutant* is no part of a
specification: it is an action or helper as a plausible bug would have it, and
replaces the genuine one to show that a property can fail. Comments name the
source; the exact lines of each definition are in `PROJECT.json` under `map`.

### PlaceLifecycle

The contents of a place are a count of the operations its stores retain; a
snapshot is the place and the count at the time of the fold. The admission's
checks have an outcome and no reason, its durable write is one step. A write of
`place.json` by a save (`SavedSidecar`) has the outcomes of `save_place_binding`
(`Written`): the new binding, the file as it was, or, since the target is removed
before the rename, no file at all. The last is `Lost`, which the model tells apart
from a session that was never given one; no action does.

| Variables | In the code |
|---|---|
| `sess`, `place`, `nextGen` | `App.session_id`, `App.place`, `App.next_place_generation` |
| `ui` | where the UI thread is inside `release_place_worker`: waiting before a switch, a trash, or for a `ClosePlace` |
| `cmds`, `upd` | the worker's command channel; the answer channel, which the watcher shares |
| `live`, `job` | the worker's open place; the command it is in the middle of |
| `listed`, `trash`, `dir`, `sidecar`, `facts` | manifests, trash, `sessions/<id>/`, `place.json`, operations in `place/` |

| Actions | In the code |
|---|---|
| `JoinPlace`, `RunPlaceCommand`, `ResyncPlace`, `SaveSession` | the intents in `session_lifecycle.rs` and the effects that send the command or save |
| `SwitchSession`, `NewSession`, `RecoverSession`, `CloseSession`, then `FinishSwitch`, `FinishTrash`, `FinishClose` | the effects in `effects.rs`, cut in two at the release wait; `Adopt` is `adopt_session` with all it sends |
| `FoldOpened`, `FoldJoined`, `FoldDone`, `FoldAdvanced`, `FoldStale` | the arms of `updates.rs`; `Current` is the guard they all pass first |
| `OpenCached`, `BeginJoin` ... `JoinDone`/`JoinFails`, `WorkResync`, `BeginAuthor` ... `AuthorDone`, `WorkRelease` | the arms of the worker's loop; a join and an authored command are several steps, since the UI thread runs between them |
| `Arrive`, `Nudge` | a lane's drain and the watcher, in as much detail as the app can tell; see `LaneWatcher` |
| `Restart` | the process dies and boots: channels, worker and app are new, the disk is kept |

Two things the code has no field for are annotated: `wrote` in an answer says
whether something durable came of the command, and `dir[s] = "zombie"` that a
directory was made anew after it was moved to the trash. No action tests them
for more than the absence of the sealed session they stand for.

`AckTimeouts` says whether the release wait may end before the worker has taken
the release up, `Crashes` whether the process may die. `PlaceInvariant` states
the inductive invariant of section 6 so that TLC can check it as well.

### PlaceAdmission

A host and guests, each with a session directory. `Prepare`, `PrepareSession`,
`PreparePrekey` are `prepare_group_identity`; `Author`, `AuthorSave`,
`AuthorReturn` are `author_invitation`; `Begin`, `OpenStore`, `Import`,
`Process`, `SaveGroup`, `SaveBinding` are `admit_invitation` and `admit_inner`,
one action per durable step or group of checks that depend on the same reads.
`...Dies` is a crash or a failed write, `Refuse` any check that says no together
with the clean-up of `admit_invitation`, which removes the store only when this
attempt made it. External, modelled from how they are used: the Moot, a growing
sequence of rosters of which a version stands for its evidence and its heads;
the key group, of which a session is an identity and an epoch. A tampered
invitation is one that `Refuse` takes.

### LaneWatcher

One place, joined and left open. `Reopen` folds the snapshot the join will
answer with *before* `JoinLive` starts lanes and watcher, as `worker.rs` does.
`FirstLook`, `Look`, `Settle` are the three sampling points of the watcher task
in `lanes.rs`; the 250 ms between them are the interleaving with `Arrive`. `Resync`
answers with a snapshot or, when the stores cannot be folded, with a refusal;
`shown` is what the app made of the last answer, an offline place with a snapshot
or a degraded one. A refusal comes after the watcher has settled, so that what
arrived is then on the screen only as a place that could not be read.

### SidecarFile and AtomicFile

A file, its temporary neighbour and one writer. `file` picks the protocol for a
whole behaviour: `frame.json` (and `windows.json`) is written to the side and
renamed over; `place.json` and `projection-score.json` have the old target
removed first. `OpenTmp`, `FillTmp`, `RemoveTarget`, `Rename` are the calls in
order, `Fail` any of them failing with the clean-up its code does, `Crash`
the end of the process in between. `Update` is `update_place_binding`, the
routine save that leaves a missing file missing. `AtomicFile` is what a sidecar is meant
to be; `File1` instantiates it with `value <- target` and what the writer holds
as `pending`.

### RecycleBin

| Variables | In the code |
|---|---|
| `graph`, `saved`, `removed`, `told`, `ui` | the app's nodes, the graph files, `App.removed`, the last word of the bin, and the UI thread's place in a save or close |
| `live`, `archive` | world files in the two slots of `denizen.rs` |
| `cmds`, `answers` | `BinCommand`s, and `Update::BinListed`/`BinFailed` |
| `store`, `bin`, `oven` | the actor's open store, the tombstones on disk, and those it is about to forget with their worlds purged |
| `trash`, `zombies` | session directories, and those the actor made anew |
| `env` | what may go wrong in this behaviour (below) |

Deleting and recovering are the app's actions in `node_arms.rs`: the world moves
at once, the tombstone is staged or, at a recovery, stays. The actor's are the
arms of its loop. Emptying, and retiring at a reopen, take two steps (`Purge`
with the tombstones looked up, then `Forget`), since the app archives on its own
thread between them. `env` fixes, for the length of a behaviour, what may fail,
whether the user waits for the bin's answers, whether the close path gets its
acknowledgement in time, and how many nodes there are: one run covers all
environments, and each property says in which it speaks.

### SessionStore

What the user does sets a program of durable steps going (`todo`), in the order
of the code: `SaveSession` is graph, sweep, manifests; `SwitchSession` saves and
then adopts; `Fork` mints, copies, switches; `Close` trashes and adopts. The
steps are the actions. Any may fail softly, as the code logs and goes on, that of
an image and that of a fork's graph included; `spoilt` records, for the
properties alone, which write is not made good yet. A graph is a set of nodes,
told apart by the image they refer to, if any, and each named with its session,
so that a graph saved over another is seen.

Not everything that changes the graph saves it. `Visit` is opening an address,
going back or forward and taking in a shared graph, which leave the save to
something else; `opened` records, for the properties alone, what came in that way
since the last save. `ApplyFavicon`, `RemoveNode`, `AddNode` (a recovery, an
install) and `Save` end in a save.

### KnotAuthoring

| Variables | In the code |
|---|---|
| `conf` | what `from_env` makes of the settings: writable or not, the two effect modes, a clip target |
| `store`, `moved`, `edits` | the endpoint's documents and whether the hub has looked since they changed |
| `seen`, `mounted`, `bindings`, `subs`, `hub` | the hub thread's projection, its cache of bindings, its subscribers, and the command it is in the middle of |
| `cmds`, `events` | the channel to the hub, and one back to each editor |
| `ed`, `clip` | `KnotDocumentSession`s (text, saved text, base token, status), and the Inspector's clip status |
| `kept`, `fresh` | history, for the properties: texts a document had, and whether the clip target changed since it was last refused |

A text is the set of edits in it and is its own token, so that an overwritten
edit is seen. `Type`, `Save`, `Reload`, `InvokeEffect`, `Drop`, `InsertClip` and
`AskOpen` are what the UI thread does; `Drain` folds an editor's events, as every
frame and every entry point does first: one at a time, for the hub sends them one
by one, and a drain may find the first of two and not yet the second. An open
waits on the answer, so nothing else of the UI runs until it is there
(`UiWaits`). The hub's commands are
`Open`, `InvokeSave`/`FinishSave`, `InvokeClip`/`FinishClip`,
`InvokeEffectNow`/`FinishEffect`, `ReloadNow`, `Unregister`: the ones that invoke
and then look again are cut in two, since other programs (`External`) write in
between. `Poll` is the hub with nothing to do, `PollFails` its end.

### ContentLane

An action is an arm of the app with all the effects it returns, since they run
on the same thread before the next event; within it a spawn succeeds or fails
(`Spawned` chooses which nodes come up). `content` and `facts` are the app's
`ContentStates`, `engines` the sessions the shell holds, `browser` and `facets`
the two stages at which content-on and the pinned viewer are kept, `disk` the
saved graph and facets of each session, `binned` the bin's records.
`Respawn` is the close and spawn behind a changed viewer and a reload.
`waiting` and `chasing` are the requesters per address, `askedPages` and
`askedIcons` what the actor has not answered; `PageFetched` and `FaviconFetched`
answer any of them in any order, to the last requester, whoever it was. A
switch keeps the table, a `Restart` loses it.

### Panes

A tree is a function from the paths of its leaves, so that `CloseLeaf` and
`SummonLeaf` are maps on paths; a ratio is told apart by whether it was moved.
`layout` holds the primary's tree and one slot per lens, a closed lens leaving
its slot behind as in the code. `pending` and `windows` are lens windows asked
for and made (`DrainPendingWindow`, which may fail); `seam` and `lensSeam` are the
path and slot a drag holds. The actions are the arms of `pane_arms.rs`, the
presses and moves of a seam in `input.rs` and `lens.rs`, and adopting a session
at a switch or restart. `Saved` is part of every arm that returns `SaveSession`.

### Denizens

`staged` is the pending review, `node`/`stored` the bearers in memory and in the
saved graph, `world`/`archive`/`certs` the files of a pack, `authority` the
delegation table, `root` and `seed` the identity. An arm and the save it returns
are two actions (`owed`), since the process can end between them. So are the two
writes of an install: `ConfirmInstallDenizen` ends with the world on disk, and
`CertifyDenizen` writes the certificates (`unsigned` is the pack in between).
`torn` records, for the property alone, the packs whose install ended there and
left an older chain, until something replaces or removes that. `Rebuild` is
the pass over residents at a start, a deletion and a recovery, with the healing
of chains that do not verify. `RingOf` and `Decodable`, `Commands` give each
action its ring and say which lane can name it; `RunDenizen` is one emission in
either lane. `Restart` opens the vault or falls back to the seed file.

### Input

`line` is the omnibar (text, caret in bytes, rows, highlight), over an alphabet
of three characters chosen for what they do: one opens the actions lane, one is
two bytes wide and matches, one makes an address. `Catalog`, `Rows` and `Lowered`
are the palette, `recompute_suggestions` and the arms of what is committed.
`LineKey`, `LineIme`, `PageKey`, `CanvasKey` are the lanes of a key in their order;
`PressLine` to `PressLens` and `Release` say which surface a button goes to and
what it captures. `granted` is the confirmation just made, for the property.

### Endpoint

`Disclose` is a snapshot, `Resolve` a resource request, `Invoke` an intent, with
the answers of `Answer` in the order the code checks: no snapshot, another
revision, not advertised, not covered. Viewers invoke anything: cards gone or
never there, old revisions, payloads that do not fit. `Carried` is what an
admitted intent does.

### MCServices and MCDesk

Each instantiates several modules for one run. A variable `part` picks, for the
whole behaviour, the one that moves; the variables of the others are `"off"` or
stay as they begin. The state spaces add up instead of multiplying, and nothing is lost: where two of
these parts meet (a press that adopts a session, a pane that opens content),
each has the step as it sees it. The properties are the modules' own, said of
the part they belong to.

## 4. The runs

Twelve: seven that hold, five that show where code and comments part
(section 7). Every property of a run that holds has a mutant of the code that
breaks it.

| Run | Module, config | Instance | What it shows |
|---|---|---|---|
| `place_slow` | `MCPlaceLifecycle`, `PlaceSlow` | 2 sessions, 2 places; timeouts and crashes; 3 generations, 1 operation, 2 messages under way; symmetric; 1.0 million states | Against a worker slower than every wait, and a process that may die anywhere: `SnapshotMatchesBinding`, `BoundMeansAdmitted`, `SnapshotNeverRegresses`, and the proofs' `IInv` |
| `place_prompt` | `MCPlaceLifecycle`, `PlacePrompt` | 2 sessions, 2 places; every release acknowledged, no crash; 4 generations, 1 operation; fair; 0.5 million | `BindingIsSidecar`, `NoZombieDirectory`; and live: `PlaceSettles`, `ReleaseReturns` |
| `place_zombie` | `MCPlaceLifecycle`, `PlaceZombie` | as `place_slow` without crashes | `NoZombieDirectory` fails once a wait may time out |
| `place_refused` | `MCPlaceLifecycle`, `PlaceRefused` | as `place_prompt` | `RefusedCommandDidNotHappen` fails |
| `admission` | `MCPlaceAdmission`, `Admission` | 1 host, 2 guests; 3 rosters, 3 identities, 3 epochs | `PublishedIdentityKept`, `InvitationsFollowed`, `AdmittedCanReopen`, `AdmittedOnNewestEvidence` |
| `bin` | `MCRecycleBin`, `Bin` | 2 sessions, up to 3 nodes, 2 messages each way, four environments; 1.3 million | `MirrorSettles`, `MirrorIsOwn`, `StagedInItsOwnBin`, `ArchivedHasTombstone`, `PromptKeepsWorld`, `NoZombieBin` |
| `bin_race` | `MCRecycleBin`, `BinRace` | 2 nodes, nothing fails, the user does not wait; 3 messages | `TombstoneKeepsWorld` fails |
| `store` | `MCSessionStore`, `Store` | 3 sessions, 1 image, every call may fail, one write spoilt at a time; 0.8 million | `OwnGraph`, `ImagesKept`, `NoGraphForgotten`, `CrashLosesNothing`, `RestartReturns` |
| `services` | `MCServices`, `Services` | sidecars with 3 contents; lanes with 4 operations; knots with 2 editors, 5 settings, 2 edits; fair; 0.1 million | `TypesHold`, `NeverTorn`, `RenamesAtomically`, `SavedWasStored`; and live: `WatchedArrivalsAreShown`, `AuthoringSettles` |
| `knot_clip` | `MCServices`, `KnotClip` | the knots of `services` | `RetryMayWork` fails |
| `desk` | `MCDesk`, `Desk` | the five parts that live on the UI thread; 0.7 million (panes 288,000, input 152,000, denizens 145,000, content 113,000, endpoint 33) | `ArrangementSound`, `OnlyDragsUnsaved`; `SessionsAreShown`, `AnswersMeetRequesters`, `EnrichmentIsStored`; `AuthorityWasReviewed`, `StartsKeepGrants`; `LineSound`, `ReviewedIsConfirmed`, `DragsEnd`; `ViewersOnlyCurate` |
| `desk_live` | `MCDesk`, `DeskLive` | the content of `desk` | `LiveHasSession` fails |

### Bounds, and why they are enough

- **Two sessions and two places** are what it takes to take one for the other.
  Closing the last session mints another, and a trashed one can be recovered, so
  two ids also cover a session that goes and comes back. The theorems hold for
  any number.
- `MaxGen` counts the joins and adoptions of one process. Three allow a join
  answered under a generation that was superseded by a switch and that again by
  a return; `place_prompt`, with fewer operations, takes four.
- `MaxFacts`: an operation in a store tells a newer snapshot from an older one.
  With two (3.2 million states) the properties of `place_slow` were found to hold
  as well. `MaxPending` bounds what is under way *when a user or the
  watcher adds to it*; what an adoption, a fold or the worker adds comes on top,
  so that channels reach four or five messages.
- `admission`: three rosters are joined, removed and joined again; three
  identities let one guest draw twice, and three epochs make an invitation older
  than another of the same guest.
- `services`: three contents (`Values`) tell a sidecar's old value, the new one
  and the one a dead save left in the temporary file. `MaxOps` = 4 arrivals make
  two bursts that each grow while they are watched. The five
  `KnotEnvironments` are the settings that differ in what the hub does: effects
  automatic, on request or never, with a clip target or without, one editor or
  two at one document. Two edits (`MaxEdits`) are a local one against a foreign
  one. `MaxCommands` = 1 bounds what the user adds to the hub's channel; automatic
  effects come on top. `MaxEvents` = 0 lets the hub go on only when the editors
  have drained, or the UI thread waits for it; one command still posts several
  events, which are folded one by one.
- `bin`: the environments are sized to what they are about. *Faulty* (every call
  fails, crashes, nobody waits) needs one node, since its properties follow one
  tombstone across two bins. *Slow* (nothing fails, nobody waits) needs two for
  one to be staged while the other is purged. *Awaited* (nothing fails, the user
  waits) has three. *Refused* (stores do not open and tombstones are not recorded,
  the user waits, a close does not) has two.
- `store`: three sessions (one shown, one closed, one fresh) are what it takes to
  switch, close and restart past one another. A graph is then none, a node with
  an image, one without, or both. An image that is removed, stored again, swept
  and referred to by a graph of another time needs one image. What one write that
  is not made good yet can do to the others is what the properties say; with two
  (6.0 million states) they were found to hold as well, and so was `ImagesKept`
  with two images, one replaced by the other (two sessions, 1.9 million).
- `desk`, panes: `MaxPaneId` = 3 mints three panes beside the first, enough to
  close a leaf whose sibling is a split and to tear out behind another one;
  `MaxLens` = 2 makes one lens close below another's number. Sections are edited
  (`MaxEdited`) in the first panes only, as they meet nothing else; a seam is
  pressed (`MaxDragged`) when at most two panes were minted, and stays held while
  any other comes and goes.
- `desk`, content: two nodes at different addresses, one that can be fetched and
  one that cannot, two requests in flight (`MaxAsked`), two sessions. `Managed`
  limits pins and deletions to one node. Two requests of one address come from
  opening it twice.
- `desk`, denizens: one pack whose body both lanes may run, two nodes to bear it
  (the one deleted and the one a second install finds), two roots, with and
  without an installation of an older build, whose chain a torn install leaves.
- `desk`, input: two sessions, an editor's page, two helpers; texts of two
  characters (`MaxText`), which put a caret between characters of different
  width. `desk_live` has one, as its part is another.
- `desk`, endpoint: three cards, and four entries of the log (`MaxAudit`), so
  that intents older than the scene are invoked after accepted ones.

`CHECK_DEADLOCK FALSE` stands where the bounds, and not the system, bring a run
to its end: used-up generations, operations, epochs, edits, ids or log entries. `SessionStore` can
always crash, and its run checks for deadlock. Symmetry is used where sessions,
places, nodes, guests and images are only compared, and never with liveness.

## 5. Fairness

Only `PlaceLifecycle` and `MCServices` (for `LaneWatcher` and `KnotAuthoring`)
state any, and only weak fairness:

- **The worker** (`WorkerStep`, `Worker`): a thread in a loop over a blocking
  `recv` with nothing to wait for but the file system and the lanes.
- **Folding** (`Folds`, `Fold`): every sender of an answer wakes the event loop
  after it sent, and the shell drains the channel when woken.
- **The release wait** (`Resume`): the wait ends with the acknowledgement. It
  also ends by timeout, but `ReleaseReturns` is checked without: the fairness of
  the worker alone must bring the acknowledgement about.
- **The watcher** (`Nudge`, `Watcher`): a task on a timer.
- **The knot hub** (`Hub`): a loop over a `recv` with a timeout, which serves
  what is queued or polls. `PollFails` has no fairness and cannot be relied on.
- **The editors** (`Drain`): every frame drains every editor, unless the UI
  thread waits for the hub to answer an open.

`MCDesk` states none: what is on one thread there needs no help to go on, and its
properties are of safety.

Nobody makes the user act, a peer send, or the process die or stay alive. A join
is not assumed to succeed; `PlaceSettles` says that it ends.

## 6. The proofs

Every safety property and every action property that a run which holds checks
is proved, for every value of the constants that the assumptions below admit;
so is the refinement of `AtomicFile`.

**How a proof is laid out.** Each proof module names an inductive invariant,
its parts one idea each, then has lemmas about data (channels, trees, texts),
then one lemma per action or group of actions, then the step and the theorems.
For the modules that share a run the specification proved about is the run's
own, `MCDesk!Spec` or `MCServices!Spec`: the invariant is *while this part
moves, this holds*, and the step of any other part leaves it alone.

**What is assumed.** Each model names its assumptions, and TLC evaluates them in
the runs: values that stand for nothing (`None`, `NoPage`, `NoPack`, `NoDoc`,
`Torn`) are no sessions, places, pages or contents; bounds are natural numbers,
and positive where one command must fit. In `RecycleBin` an environment is a
set of faults, two Booleans and a number of nodes; in `KnotAuthoring` the clip
target is a document. In `MCDesk` no pane kind that can be summoned is the graph
(`PaneKind` in `action.rs` has no such member), sessions are finitely many, and
no page has the name of the canvas. Nothing bounds how many there are of
anything, how long a channel is or how many things have failed.

### PlaceProofs: the shared place

| Theorem | States |
|---|---|
| `TypeCorrect` | `Spec => []TypeOK` |
| `SnapshotSafety` | `Spec => []SnapshotMatchesBinding` |
| `AdmissionSafety` | `Spec => []BoundMeansAdmitted` |
| `ViewsMoveOn` | `Spec => SnapshotNeverRegresses` |
| `BindingsAreSaved`, `TrashedStayAway` | `Spec => []BindingIsSidecar`, `Spec => []NoZombieDirectory`, while no release times out |
| `Invariance` | `Spec => []IInv`, the inductive invariant of all of them |

`BoundMeansAdmitted` and `BindingIsSidecar` are about where a binding comes from:
admission wrote it, and no save puts another over it. That its file is there is
more, and not so (section 7); both allow for `Lost`, which a session gets from
a failing write of a binding it was given and from nothing else.

`SnapshotMatchesBinding` is not inductive: a fold puts on screen what an answer
says, so one must know about answers; an answer says what the worker had open,
so one must know about that, and about the commands that opened it. The
invariant comes in five layers.

1. `TypeInv`: the types, and `JobHasPlace`: authoring works on an open place,
   joining on none.
2. `AnswerInv`, *whose answer is whose*. Every open or join under way, every
   answer with a snapshot, the worker's open place and job and the binding shown
   make a claim: generation, session, place. `ClaimsAgree` says that a generation
   is about one session and one place; `GenerationsBounded` that the app's
   counter is ahead of them all, so that a new generation is about nothing yet.
   A resync or an authored command carries no place: it is answered from
   whatever is open when it is served. `CommandsFindTheirPlace` says what that
   will be (the last open or join before it in the channel, else what the worker
   holds), and `JobsPlaceIsLive` that a job is about the place that is open.
3. `AdmissionInv`, *what the directories hold*. `ListedAreKept`: sessions offered
   have their directory, the one in use and the one to come among them.
   `AdmittedKeepSidecar`: a session whose join is in, as far as the worker has
   answered or is about to, has its `place.json` or lost it to a failing write, or
   its directory was moved away in the meantime. With both, a fold that shows a
   binding finds the directory of an admission.
4. `ViewInv`, *in which order*. `InOrder`: generations go through channel, job and
   answers without overtaking, so that an answer the app takes up has no opening
   behind it (`ShownIsOpen`). `SnapshotsGrow`: the snapshots under way stand in the
   order they were read in, from stores that only grow. Hence a fold shows no
   less than what was shown before.
5. `PromptInv`, *while releases are acknowledged*. The worker works for the
   session in use only (`OwnWork`), a bound session joins nothing
   (`BoundJoinsNothing`), and the place admitted last is the one on disk
   (`JoinedIsSaved`) unless it was lost, so that the routine save of a binding
   writes what is there. Without the hypothesis `place_zombie` shows that it fails.

Each layer has one lemma per thread (`Intent...`, `Resume...`, `Fold...`,
`Worker...`, `Lanes...`, `Restart...`), one step per action in it, and uses the
layers before it. The second rests on lemmas about channels: what sending,
taking and answering do to the claims (`SendClaims`, `PopClaims`, `FoldClaims`,
`ReplyClaims`) and to what a queued command will find (`CommandsKept`,
`CommandsSent`, `CommandsTaken`).

### AdmissionProofs: preparing, inviting, admitting

`PublishedIsKept`, `InvitationsAreFollowed`, `AdmittedReopens` and
`NewestEvidenceAdmits` prove the four properties of the run `admission`, deaths
between any two writes included. `Identity`: an identity is drawn only while
there is no sealed pre-key, so the sealed session of one that was published is
never replaced, only moved to a later epoch. `Hosting`: the host's session is
saved before the invitation minted from it is handed out. `Admitting`: from one
step of an admission to the next, store and sealed session are what its checks
looked at; `Admitted` is what is left of that when `place.json` is written.

### BinProofs: bin and worlds

`MirrorsSettle`, `ArchivesAreReachable`, `WaitingKeepsWorlds`, `MirrorsAreOwn`,
`TrashStaysTrash` and `TombstonesLandAtHome` prove the six properties of the run
`bin`, for channels of any length. What keeps two bins apart is that the channel
is in order: `Channel` says that a command which needs the store comes right
after one of the same session, `Ends` that the last is of the session shown or a
release. `LastWord` relates the answers under way to the tombstones, which gives
`MirrorSettles`; `Archived` and `Forgetting` follow a world to its tombstone, the
one staged anew while the older is being forgotten included. For a user who
waits, `OneAtATime` leaves one thing under way, `Mirrors` makes the list shown the
bin, and `WorldsKept` the worlds follow. This is proved of environments in which
stores may fail to open and tombstones to be recorded; for a failing listing,
`Empty`'s failing clear and crashes it is not true (section 7).

### StoreProofs: sessions on disk

`GraphsStayApart`, `ImagesOutliveCrashes`, `GraphsAreFound`, `NothingIsLost` and
`RestartsReturn` prove the five properties of the run `store`, for any set of
calls that fail and any number of failures. The invariant says of what is still
to be done what is not yet so. `todo` is a *program*: `Follows` says of each of
its steps what may come after it, and a tail of a program is one (`Program`).
While no save is among the steps to come, the graph on disk holds nothing the
graph in memory does not, and lacks only what was opened since (`Saved`); while
no flush is next, every session listed has its manifest (`Listed`); only between
the adoption and the load of a session is the graph in memory another's
(`Loading`, `Own`); an image referred to is stored, but for the one being stored
and those whose write failed (`Stored`).

### ContentProofs: documents and fetches

`AnswersAreExpected` proves that every address has as many requesters as
questions, without a bound on what is in flight. It is inductive once the table
is known to hold sequences; that is what `NodeTypes` is for, since the requester
of an icon is looked up among the nodes, which a switch or a restart takes from
what a session stored. `TakeOneKeeps` and `AddOneKeeps` are the lemmas about the
table, used by every action that asks or answers.

`SessionsFollowNodes` and `EnrichmentOutlivesCrashes` prove the other two
invariants. What keeps an engine session with its node is that a spawn comes
after a close or where there was none (`Shows` is what every arm hands on), and
that refreshing the sidecar reroutes nothing. What keeps a face on disk is that a
node is new or saved whenever it comes into the graph: `MadeFirst` says that
nothing is in a graph, a session on disk or a bin before it was made.

### DeskProofs: helpers, line and pointer, panes

`HelpersWereReviewed` and `StartsCoverResidents`: what is kept of a pack in any
place (world, archive, certificate) was named by a review of it
(`KeptWasReviewed`), and a chain covers the world of its pack in either slot
(`ChainsCover`), so that a start which issues chains again, under whatever root,
gives what the world records and no more. A pack between its two writes
(`Signing`) and one that was torn are excepted from `ChainsCover`, and the latter
from `StartsKeepGrants`: section 7 says why.

`LinesAreSound`, `ConfirmsWhatIsShown` and `DragsEndWithButtons`: the caret is on a
boundary between characters of different width (`Wide` counts bytes), the rows
are those of the install staged (`RowsFor`), for any number of packs, pages and
sessions. `DragsHeld` says which drags which buttons hold, one less when a page
has captured one of them; a release wherever it is delivered then leaves at most
what the other button holds.

`ArrangementsAreSound` and `OnlyDragsAreLost`: a tree is a function from the paths
of its leaves, and closing one lifts its sibling, whole tree or leaf, to the
place of their parent. That no pane is lost thereby needs that no path of a leaf
is a prefix of another (`Apart`), which lifting and summoning keep (`LiftApart`
and its neighbours). Besides, ids stay below the next one (`Below`), so that a pane
minted is a new one; every tree keeps one graph (`OneGraph`), which is never the
active pane, so that no close or tear-out takes it; and a window is asked for at
most once, only for a tree that is there and has none (`WindowsFit`). The
arrangement on disk satisfies the same (`Orchard(saved.layout)`), which is what a
switch and a restart need, since they adopt it.

### EndpointProofs: the viewer

`CurationOnly` proves `ViewersOnlyCurate`. The invariant adds to it that the scene
the viewer has mounted is the one handed out last, and that its resources are
exactly that scene's. A card to be added need not differ from those there are:
the proof is that no intent is carried out that would add one, because the
scope it needs is not among those delegated.

### ServicesProofs: sidecars and knots

`ReadersFindWholeFiles` (`Spec => []NeverTorn`) and `RenameIsAtomic` (`Spec =>
RenamesAtomically`): each step of the rename-over protocol is a step of
`AtomicFile` or a stutter. The invariant behind both is `TmpComplete`: from the
moment the temporary file is closed until it is renamed, it holds what the save
is about, and this in spite of what an earlier, dead save left there.

`SavedIsStored` proves `SavedWasStored`, for any number of editors, documents and
messages. It needs to follow a text from the document to the editor: the hub's
views are of texts the documents had (`Had`), so is every event on its way
(`Sent`), and the source of a save that was accepted and not yet reported
(`Registered`). An editor's document changes only when it is opened, when
nothing of an older one is on its way to it (`Fits`, `EventsFit`).
`ServicesTyped` is the type invariant of the three services, `L!TypeOK` of the
watcher among them.

### Only model-checked

Liveness is out of reach of the proof system, and stays with TLC:
`PlaceSettles` and `ReleaseReturns` (`place_prompt`), `WatchedArrivalsAreShown` and
`AuthoringSettles` (`services`). Where the table of section 2 says that a module
refines the steps of another, that is said of the code they both model; no run
and no theorem relates them, except for `SidecarFile` and `AtomicFile`.

## 7. What the code does and its comments deny

Five runs end in a counterexample, each against a sentence of the repository.

- **A zombie directory** (`place_zombie`). `admit_inner` makes the place store,
  and the session directory above it, whether or not the session is still there.
  A join that outlasts the release wait makes the directory of a session anew
  that was just moved to the trash. `shell/effects.rs` orders the close path so
  that no save can "resurrect the closed session as a zombie directory". With
  prompt acknowledgements it does not happen (`place_prompt`).
- **A refusal that happened** (`place_refused`). An authored command is stored,
  published, folded; when one of the latter two fails the answer is a refusal.
  `app/updates.rs`: "the command simply did not happen".
- **A purged world** (`bin_race`). A node deleted, recovered and deleted again
  still has its first tombstone; an `Empty`, or a retirement, under way by that
  one purges the world the second deletion has just archived.
- **A retry in vain** (`knot_clip`). A clip is sent with the binding cached for
  its target; refused as stale, it stays in the cache, and only a subscribed
  editor's refresh renews it. Once another program wrote the target, every clip
  is refused until the document is opened. `KnotClipStatus::label`: "clip target
  changed; retry".
- **Live without a session** (`desk_live`). Deleting a node closes its engine
  session and leaves its content state; recovered under the same id, the node
  says it is live, and the first toggle turns off what is not on. `content.rs`:
  "A live session exists shell-side; frames compose into the node".

Met while modelling and recorded with the hazards or as exceptions the
properties name, with no run of their own:

- what arrives after the join's fold and before the watcher's first look is in
  the watcher's baseline and in no snapshot; it shows with the next operation,
  resync or command (`WatchedArrivalsAreShown` speaks of what comes later);
- `save_projection_score`, "Persist a score atomically", removes the old file
  before the rename (`RenamesAtomically` speaks of the files of the arrangement);
- so does `save_place_binding`. When the rename fails, the shell warns, the app
  keeps showing its binding, and no later save brings the file back, since
  routine saves leave a missing one missing; the next start opens a personal
  session, as it does when the process dies in between. The comment at that save
  has another reason: "app state holding a binding with no admitted sidecar means
  something bound a place without going through admission" (`Lost` in
  `BoundMeansAdmitted` and `BindingIsSidecar`);
- an install writes the world with its projections and then the certificates.
  Over a resident of an older build, a crash in between leaves new projections
  beside an old chain that verifies, and `rebuild`, of which `denizen.rs` says that
  "authority derives from the **grant projections**", keeps a chain that verifies:
  the resident is covered for less than its world records until it is installed
  again or the root changes (`torn` in `StartsKeepGrants`);
- a resync whose fold fails makes the place degraded after the watcher has
  settled: what arrived is shown with the next operation, resync or command
  (`WatchedArrivalsAreShown` counts a degraded place as an answer);
- the write of an image is best-effort: the graph is saved with a reference to a
  file that is not there until the image is fetched again (`"blob"` in
  `ImagesKept`);
- opening an address, going back or forward and taking in a shared graph change
  the graph and save nothing: a crash loses those nodes (`opened` in
  `CrashLosesNothing`);
- an editor typed into while an effect is under way keeps the status of the
  effect when its answer comes, and can then neither save nor reload
  (`Waiting` leaves it out);
- a save the endpoint accepted is reported as rejected when looking again fails;
- an uninstall that dies before its save is undone by the next start, which
  issues the certificates again from the world's record;
- the dispatch bit of a script lets through actions of the navigate, panes and
  session rings that a component would be asked about one by one;
- the slot of a lens whose window could not be made stays without one, and the
  lens windows `NewWindow` opened are not saved until something else is
  (`OnlyDragsUnsaved` excepts them);
- a press on a row of the line takes the row that has its number by then, not
  the one drawn; `ReviewedIsConfirmed` speaks of the return key;
- a second button pressed during a drag takes the capture over; the drag ends
  with its release all the same (`DragsEnd`);
- a join that was admitted and could not be reopened or dialed leaves
  `place.json` behind and the session shown as failed until it is opened again;
- `Empty` purges worlds before it clears the tombstones, so that a failing clear
  leaves tombstones without a world (`PromptKeepsWorld` speaks of environments in
  which opening and recording may fail, but no crash, listing or clearing);
- a `BinListed` of the session before may be folded after a switch, for it says
  not whose it is (`MirrorIsOwn` speaks of a user who waits; `MirrorSettles` shows
  that the mirror is put right);
- the migration of a flat layout moves the graph before its session has a
  manifest, and a crash in between hides it (`moved` in `NoGraphForgotten`);
- the sweep of images goes by the graph in memory even when saving it has just
  failed (`"gc"` in `ImagesKept`).

## 8. What is not modelled

- The retained publishing service: the text fields of its pane get no keys, so
  that its select and issue buttons always find an empty field, and of the
  worker's commands only a refresh is ever sent. The rest of it are no states
  the program can be in.
- The scenario runner: a test driver that calls the arms modelled here and reads
  the state they keep.
- Rendering, views, accessibility, settings: functions from the app's state to
  widgets and pixels, with nothing to interleave. That rows are drawn a frame
  late is in `Input`.
- In `Panes`: the geometry over floating-point rectangles, platen's tree of cells
  within a workbench, the order of a pane's sections, and the reparenting and
  retagging of leaves that no action calls.
- In `Input`: hover and wheel, and what the canvas makes of the presses it gets.
  The arms that only turn a setting of the canvas appear in `Denizens` by name,
  as what a helper may emit.
- Below the models: cryptography, the Moot and its convergence, lane transport,
  the tombstone store, the knot endpoint, engines, fetches, the delegation table
  and the file system, all in libraries outside the repository. They are taken
  as the code uses them; what may fail in them fails in the models. The file
  system is taken to keep what a call that returned has done: the code calls no
  `fsync`, and a loss of power is not modelled.
- In `Denizens`, writes to the session's directory succeed; what a failing one
  does to a session is in `SessionStore`.
- In `SessionStore`: renaming a session, the healing of nil graph ids, the
  externalizing of inline images; two processes on one profile.
- In `PlaceLifecycle`: the wrap-around of generations (2^64), and the two threads
  writing `place.json` through one temporary file at once, which takes a release
  that timed out and the very same session.
