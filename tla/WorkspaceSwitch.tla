--------------------------- MODULE WorkspaceSwitch ---------------------------
(***************************************************************************)
(* One window and the router of its core: the selection of a worktree      *)
(* (switchWorkspace of app/renderer/App.tsx), the opening with which the   *)
(* window attaches to every new core (its recovery effect), the identity   *)
(* refreshes, and the commands the window stamps with the worktree it      *)
(* shows (workspace-bridge.ts).  A core may be replaced at any moment.     *)
(***************************************************************************)
EXTENDS WorkspaceRouter

CONSTANTS
    MaxSwitches,   \* selections by the user
    MaxCommands,   \* identity refreshes and commands
    MaxRestarts,   \* replacements of the core
    Wander         \* whether the user navigates while a selection is under way

ASSUME WindowAssumption ==
    /\ MaxSwitches \in Nat /\ MaxCommands \in Nat /\ MaxRestarts \in Nat /\ Wander \in BOOLEAN

VARIABLES
    window,     \* what it shows, the session it selected
    attach,     \* the recovery effect's opening
    switch,     \* the selection under way
    left,       \* history: the window left a worktree the core has selected
    switches, commands, restarts

vars == <<registry, core, reqs, failures, moves, window, attach, switch, left, switches, commands, restarts>>

NoAttach == [sent |-> FALSE, req |-> 0, for |-> None, fresh |-> TRUE]
NoSwitch == [at |-> "none", req |-> 0, session |-> None, moved |-> FALSE]

Init ==
    /\ RouterInit
    /\ window = [shown |-> None, session |-> None, root |-> None]
    /\ attach = NoAttach /\ switch = NoSwitch /\ left = FALSE
    /\ switches = 0 /\ commands = 0 /\ restarts = 0

SessionOf(s) == IF s = None THEN Null ELSE s
Next1 == Len(reqs) + 1

\* A new core, or a new window: open what was selected.
Attach ==
    /\ ~attach.sent
    /\ Receive("open", SessionOf(window.session), None)
    /\ attach' = [sent |-> TRUE, req |-> Next1, for |-> window.root, fresh |-> TRUE]
    /\ UNCHANGED <<window, switch, left, switches, commands, restarts>>

\* Its answer: ignored after a switch, and when the registration names another worktree.
Attached ==
    /\ attach.req # 0 /\ reqs[attach.req].step = "done"
    /\ LET r == reqs[attach.req]
           taken == attach.fresh /\ r.answer = "ok"
           same == attach.for \in {None, r.found}
       IN  /\ window' = IF taken /\ same THEN [shown |-> r.found, session |-> r.session, root |-> r.found] ELSE window
           /\ left' = (left \/ (taken /\ ~same))
    /\ attach' = [attach EXCEPT !.req = 0]
    /\ UNCHANGED <<registry, core, reqs, failures, moves, switch, switches, commands, restarts>>

\* switchWorkspace: first the launch worktree, if none is known yet.
Switch(s) ==
    /\ attach.sent /\ switch = NoSwitch /\ switches < MaxSwitches /\ switches' = switches + 1
    /\ LET first == window.session = None
       IN  /\ Receive("open", IF first THEN Null ELSE s, None)
           /\ switch' = [at |-> IF first THEN "launch" ELSE "destination", req |-> Next1,
                         session |-> s, moved |-> FALSE]
    /\ UNCHANGED <<window, attach, left, commands, restarts>>

LaunchKnown ==
    /\ switch.at = "launch" /\ reqs[switch.req].step = "done"
    /\ IF reqs[switch.req].answer = "ok"
       THEN /\ window' = [window EXCEPT !.session = Null, !.root = reqs[switch.req].found]
            /\ Receive("open", switch.session, None)
            /\ switch' = [switch EXCEPT !.at = "destination", !.req = Next1]
       ELSE /\ switch' = NoSwitch
            /\ UNCHANGED <<window, registry, core, reqs, failures, moves>>
    /\ UNCHANGED <<attach, left, switches, commands, restarts>>

\* The destination's answer: shown, unless the user went elsewhere meanwhile.
Switched ==
    /\ switch.at = "destination" /\ reqs[switch.req].step = "done"
    /\ LET r == reqs[switch.req]
           shows == r.answer = "ok" /\ ~switch.moved
       IN  /\ window' = IF shows THEN [shown |-> r.found, session |-> r.session, root |-> r.found] ELSE window
           /\ attach' = IF shows /\ r.found # window.shown THEN [attach EXCEPT !.fresh = FALSE] ELSE attach
           /\ left' = (left \/ (r.answer = "ok" /\ switch.moved))
    /\ switch' = NoSwitch
    /\ UNCHANGED <<registry, core, reqs, failures, moves, switches, commands, restarts>>

\* Another document, another file: navigationIntent moves on.
Navigate ==
    /\ Wander /\ switch # NoSwitch /\ switch' = [switch EXCEPT !.moved = TRUE]
    /\ UNCHANGED <<registry, core, reqs, failures, moves, window, attach, left, switches, commands, restarts>>

Refresh ==
    /\ window.session # None /\ switch = NoSwitch
    /\ commands < MaxCommands /\ commands' = commands + 1
    /\ Receive("identity", window.session, None)
    /\ UNCHANGED <<window, attach, switch, left, switches, restarts>>

Command(kind) ==
    /\ window.shown # None /\ commands < MaxCommands /\ commands' = commands + 1
    /\ Receive(kind, None, window.shown)
    /\ UNCHANGED <<window, attach, switch, left, switches, restarts>>

\* The core is replaced; what it had taken is answered by the supervisor, and a
\* selection under way ends ("Current workspace retained.").
Restart ==
    /\ restarts < MaxRestarts /\ restarts' = restarts + 1
    /\ core' = FreshCore /\ reqs' = <<>> /\ attach' = NoAttach /\ switch' = NoSwitch /\ left' = FALSE
    /\ UNCHANGED <<registry, failures, moves, window, switches, commands>>

Step == RouterStep /\ UNCHANGED <<window, attach, switch, left, switches, commands, restarts>>

Next ==
    \/ Step \/ Attach \/ Attached \/ LaunchKnown \/ Switched \/ Navigate \/ Refresh \/ Restart
    \/ \E s \in Sessions \cup {Null} : Switch(s)
    \/ \E kind \in {"file", "start", "prepare"} : Command(kind)

Spec == Init /\ [][Next]_vars

-----------------------------------------------------------------------------
(* Fairness: Git and the file system answer or fail (every read has a        *)
(* deadline), a runtime becomes ready or fails, and the window takes every   *)
(* answer.  The user, the registry and failures are not obliged to act.      *)

Unmoved == <<window, attach, switch, left, switches, commands, restarts>>

FairSpec ==
    /\ Spec
    /\ WF_vars(PrimaryResolved /\ UNCHANGED Unmoved) /\ WF_vars(Report /\ UNCHANGED Unmoved)
    /\ \A w \in Roots : WF_vars((Ready(w) \/ ShutRuntime(w)) /\ UNCHANGED Unmoved)
    /\ \A i \in 1..(2 * MaxSwitches + MaxCommands + 1) :
         WF_vars(i \in DOMAIN reqs /\ (Opened(i) \/ Checked(i) \/ Unresolved(i)) /\ UNCHANGED Unmoved)
    /\ WF_vars(Attach) /\ WF_vars(Attached) /\ WF_vars(LaunchKnown) /\ WF_vars(Switched)

-----------------------------------------------------------------------------
(* Properties of the two together.                                           *)

TypeOK ==
    /\ registry \in [Sessions -> Roots \cup {None}]
    /\ core.primary \in {"resolving", "opening", "ready", "failed"}
    /\ core.runtime \in [Roots -> {"none", "opening", "ready", "shut"}]
    /\ core.selected \in [Roots -> Sessions \cup {Null, None}]
    /\ core.interest \subseteq Roots /\ core.active \in Roots \cup {None}
    /\ \A i \in DOMAIN reqs : reqs[i].step \in {"primary", "resolving", "opening", "context", "done"}
    /\ window.shown \in Roots \cup {None}

\* When nothing is under way, the worktree the window shows is the one the core
\* observes: no late answer brings back a worktree that was left, on either side
\* (visit, intent and generation of App.tsx:797-808, 947; selectionGeneration).
\* It is not claimed when the newest selection failed or its answer was let go.
ShownIsObserved ==
    /\ attach.sent /\ attach.req = 0 /\ switch = NoSwitch /\ ~core.stopping /\ ~left
    /\ \E i \in Selections : reqs[i].gen = core.newest /\ reqs[i].answer = "ok"
    => core.interest = {window.shown}

\* The three together.
ObservationFollows == OneObserved /\ NewestObserved /\ ShownIsObserved

\* Every request is answered or handed to a runtime, also while the core stops.
AllAnswered == []<>(\A i \in DOMAIN reqs : reqs[i].step = "done")

\* A shutdown is reported, unless a runtime failed to open during it.
StopReports == []<>(~core.stopping \/ core.reported \/ core.late)

\* The two together.
RequestsAndStopsEnd == AllAnswered /\ StopReports
=============================================================================
