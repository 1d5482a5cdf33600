------------------------------ MODULE MCServices ------------------------------
(***************************************************************************)
(* Instances for TLC of the protocols turnstone has with threads and files *)
(* it does not own: the sidecar files, the watcher of a live place's lanes *)
(* and the hub of the knot documents.                                      *)
(*                                                                         *)
(* One behaviour is of one part; the variables of the others stay as they  *)
(* begin (the sidecars) or off.                                            *)
(***************************************************************************)
EXTENDS SidecarFile, Naturals, Sequences

CONSTANTS
    Part,     \* the parts a run looks at
    e1, e2    \* the editors
CONSTANT MaxOps
CONSTANTS Doc, Editor, ClipTarget, NoDoc, Environments, MaxEdits, MaxCommands,
          MaxEvents

VARIABLES
    part,     \* the part this behaviour is of
    phase, stored, joined, watcher, updates, resyncs, shown,
    conf, store, moved, edits, kept, seen, mounted, bindings, subs, hub,
    cmds, events, ed, clip, fresh

L == INSTANCE LaneWatcher
K == INSTANCE KnotAuthoring

\* A clip goes to one of the documents.
ASSUME ServicesAssumption ==
    /\ MaxOps \in Nat /\ MaxEdits \in Nat
    /\ ClipTarget \in Doc
    /\ Environments \subseteq K!Settings

laneVars == <<phase, stored, joined, watcher, updates, resyncs, shown>>
knotVars == <<conf, store, moved, edits, kept, seen, mounted, bindings, subs,
              hub, cmds, events, ed, clip, fresh>>

Off == "off"
LanesOff ==
    /\ phase = Off /\ stored = Off /\ joined = Off /\ watcher = Off
    /\ updates = Off /\ resyncs = Off /\ shown = Off
KnotOff ==
    /\ conf = Off /\ store = Off /\ moved = Off /\ edits = Off /\ kept = Off
    /\ seen = Off /\ mounted = Off /\ bindings = Off /\ subs = Off /\ hub = Off
    /\ cmds = Off /\ events = Off /\ ed = Off /\ clip = Off /\ fresh = Off

ServicesInit ==
    /\ part \in Part
    /\ Init /\ (part = "sidecar" \/ file = "frame.json")
    /\ IF part = "lanes" THEN L!Init ELSE LanesOff
    /\ IF part = "knot" THEN K!KnotInit ELSE KnotOff

ServicesNext ==
    /\ UNCHANGED part
    /\ IF part = "sidecar" THEN Next ELSE UNCHANGED vars
    /\ IF part = "lanes" THEN L!Next ELSE UNCHANGED laneVars
    /\ IF part = "knot" THEN K!KnotNext ELSE UNCHANGED knotVars

servicesVars == <<part, vars, laneVars, knotVars>>

Lanes(A) == part = "lanes" /\ A /\ UNCHANGED <<part, vars, knotVars>>
Knot(A) == part = "knot" /\ A /\ UNCHANGED <<part, vars, laneVars>>

\* LaneWatcher!Fairness and KnotAuthoring!KnotFairness, each of its part: what
\* is not of the part under way is never enabled.
ServicesFairness ==
    /\ WF_servicesVars(Lanes(L!Worker))
    /\ WF_servicesVars(Lanes(L!Watcher))
    /\ WF_servicesVars(Lanes(L!Fold))
    /\ WF_servicesVars(Knot(K!Hub))
    /\ \A i \in Editor : WF_servicesVars(Knot(~K!UiWaits /\ K!Drain(i)))

ServicesSpec ==
    ServicesInit /\ [][ServicesNext]_servicesVars /\ ServicesFairness

\* A setting of turnstone, and the editors opened under it: a hosted directory
\* with a clip target, a program, a vault that resolves by itself, one with a
\* clip target, and one with two editors at work.
Setting(mode, program, resolve, run, clips, opened) ==
    [mode |-> mode, program |-> program, resolve |-> resolve, run |-> run,
     file |-> FALSE, target |-> clips, opened |-> opened]
KnotEnvironments ==
    {Setting("directory-write", FALSE, "never", "never", TRUE, {e1}),
     Setting("directory-write", TRUE, "never", "ask", FALSE, {e1}),
     Setting("persona-vault", FALSE, "auto", "never", FALSE, {e1}),
     Setting("persona-vault", FALSE, "never", "never", TRUE, {e1}),
     Setting("persona-vault", FALSE, "never", "never", FALSE, {e1, e2})}

-----------------------------------------------------------------------------
(***************************************************************************)
(* The properties of each part, stated and explained in its module;        *)
(* NeverTorn and RenamesAtomically are SidecarFile's own.                  *)
(***************************************************************************)
\* Every part keeps its types.
TypesHold ==
    /\ TypeOK
    /\ part = "lanes" => L!TypeOK
    /\ part = "knot" => K!KnotTypeOK

\* LaneWatcher: what arrives on the watcher's watch is shown, or the failure to
\* fold it is.
WatchedArrivalsAreShown ==
    \A n \in 1..MaxOps :
        (/\ part = "lanes" /\ watcher.at \in {"tick", "burst"}
         /\ watcher.settled < n /\ stored >= n)
            ~> (part = "lanes" => shown.count >= n)

\* KnotAuthoring: what an editor calls saved is a text the document had.
SavedWasStored == part = "knot" => K!SavedWasStored

\* KnotAuthoring: whatever is asked of the hub is answered.
AuthoringSettles ==
    /\ \A i \in Editor :
        (part = "knot" /\ K!Waiting(i)) ~> (part = "knot" => ~K!Waiting(i))
    /\ (part = "knot" /\ clip = "sending")
        ~> (part = "knot" => clip # "sending" \/ hub.at = "ended")

\* KnotAuthoring: a clip refused as stale is not refused again at once.
RetryMayWork ==
    [][part = "knot" /\ clip = "sending" /\ clip' = "stale" => fresh]_servicesVars

=============================================================================
