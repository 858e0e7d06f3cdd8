--------------------------- MODULE WorkspaceRouter ---------------------------
(***************************************************************************)
(* The router of one core (WorkspaceContextRouter of                       *)
(* core/workspace-context.ts): every worktree that was selected has a      *)
(* runtime of its own, a request names the worktree it is for, and only    *)
(* one runtime's working-world observer runs, the one of the worktree      *)
(* selected last.                                                          *)
(*                                                                         *)
(* What a continuation does without waiting again is one step: a request   *)
(* stops at the primary runtime, at the resolution of a registration and   *)
(* at a runtime that is not ready, and nowhere else.                       *)
(***************************************************************************)
EXTENDS Naturals, Sequences

CONSTANTS
    Roots, Launch,   \* worktrees, and the one the program was started in
    Sessions, Null,  \* registered agents, and the absent session of the launch worktree
    None,
    MaxFailures,     \* runtimes and resolutions that fail
    MaxMoves         \* registrations that are changed or removed

ASSUME RouterAssumption ==
    /\ Launch \in Roots /\ Null \notin Sessions /\ None \notin Roots \cup Sessions \cup {Null}
    /\ MaxFailures \in Nat /\ MaxMoves \in Nat

VARIABLES
    registry,    \* where each session is registered
    core,        \* the router: primary, runtimes, selections, the active one, its counters
    reqs,        \* the requests it has taken, in order
    failures, moves

router == <<registry, core, reqs, failures, moves>>

Selecting(r) == r.kind = "open"
Opening(r) == r.kind \in {"open", "identity"}

FreshCore ==
    [primary  |-> "resolving",
     runtime  |-> [w \in Roots |-> "none"],     \* contexts and the runtimes in them
     selected |-> [w \in Roots |-> None],       \* selections: the session it was opened for
     interest |-> {},                           \* runtimes whose observer runs
     active   |-> None,
     newest   |-> 0,                            \* selectionGeneration
     stopping |-> FALSE, late |-> FALSE, reported |-> FALSE]

RouterInit ==
    /\ registry \in [Sessions -> Roots]
    /\ core = FreshCore /\ reqs = <<>> /\ failures = 0 /\ moves = 0

Fails == failures < MaxFailures /\ failures' = failures + 1
Answer(r, a) == [r EXCEPT !.step = "done", !.answer = a]

-----------------------------------------------------------------------------
(* How far a request gets before it waits.                                   *)

\* A command for worktree r.root; trusted.start remembers the session that the
\* worktree was opened for and resolves it anew.
Routed(c, r) ==
    IF (r.kind = "prepare" /\ r.root # Launch) \/ c.runtime[r.root] = "none" THEN Answer(r, "error")
    ELSE LET named == IF r.kind = "start" THEN [r EXCEPT !.session = c.selected[r.root]] ELSE r
         IN  IF c.runtime[r.root] = "opening" THEN [named EXCEPT !.step = "context"]
             ELSE IF r.kind = "start" THEN [named EXCEPT !.step = "resolving"]
             ELSE Answer(r, "sent")

\* Past the primary runtime.
Admitted(c, r) ==
    IF c.stopping \/ c.primary = "failed" THEN Answer(r, "error")
    ELSE IF c.primary # "ready" THEN [r EXCEPT !.step = "primary"]
    ELSE IF Opening(r) THEN [r EXCEPT !.step = "resolving"]
    ELSE Routed(c, r)

\* A request arrives; a selection takes the next generation at once.
Receive(kind, session, root) ==
    LET gen == IF kind = "open" /\ ~core.stopping THEN core.newest + 1 ELSE 0
        r == [kind |-> kind, session |-> session, root |-> root, gen |-> gen, found |-> None,
              step |-> "primary", answer |-> "none"]
    IN  /\ core' = [core EXCEPT !.newest = IF gen = 0 THEN @ ELSE gen]
        /\ reqs' = Append(reqs, Admitted(core, r))
        /\ UNCHANGED <<registry, failures, moves>>

\* Behind a runtime that is ready: the newest selection moves the interest, and
\* the snapshot is posted; a command goes to the runtime.
Seen(c, r) == IF c.stopping THEN Answer(r, "error")
              ELSE IF Opening(r) THEN Answer(r, "ok")
              ELSE IF r.kind = "start" THEN [r EXCEPT !.step = "resolving"]
              ELSE Answer(r, "sent")

\* Mutant: every selection moves it, in the order in which they resolve.
SelectedBug(c, w, rs) ==
    IF (\E r \in rs : Selecting(r)) /\ c.active # w
    THEN [c EXCEPT !.interest = (@ \ {c.active}) \cup {w}, !.active = w]
    ELSE c

Selected(c, w, rs) ==
    IF (\E r \in rs : Selecting(r) /\ r.gen = c.newest) /\ c.active # w
    THEN [c EXCEPT !.interest = (@ \ {c.active}) \cup {w}, !.active = w]
    ELSE c

-----------------------------------------------------------------------------
(* Steps of the router.                                                      *)

\* The launch worktree is registered, and its runtime created.
PrimaryResolved ==
    /\ core.primary = "resolving"
    /\ IF core.stopping
       THEN /\ core' = [core EXCEPT !.primary = "failed"]
            /\ reqs' = [i \in DOMAIN reqs |-> IF reqs[i].step = "primary" THEN Answer(reqs[i], "error") ELSE reqs[i]]
       ELSE /\ core' = [core EXCEPT !.primary = "opening", !.runtime[Launch] = "opening",
                                    !.selected[Launch] = Null, !.interest = {Launch}]
            /\ UNCHANGED reqs
    /\ UNCHANGED <<registry, failures, moves>>

\* resolveWorkspaceSelection: where the session is registered.
Found(r) == IF r.session = Null THEN Launch ELSE registry[r.session]

\* What is asked again after the resolution was awaited.
\* Mutant: it is not asked again.
ServingBug == TRUE

Serving == ~core.stopping

\* An opening is resolved: the worktree's runtime is used or created.
Opened(i) ==
    LET r == [reqs[i] EXCEPT !.found = Found(reqs[i])]
        w == r.found
        c == IF core.runtime[w] = "none" THEN [core EXCEPT !.runtime[w] = "opening"] ELSE core
        d == [c EXCEPT !.selected[w] = r.session]
        isReady == core.runtime[w] = "ready"
    IN  /\ reqs[i].step = "resolving" /\ Opening(r) /\ w # None /\ Serving
        /\ core' = IF isReady THEN Selected(d, w, {r}) ELSE d
        /\ reqs' = [reqs EXCEPT ![i] = IF isReady THEN Seen(d, r) ELSE [r EXCEPT !.step = "opening"]]
        /\ UNCHANGED <<registry, failures, moves>>

\* The same for a trusted.start: sent with the worktree that was found, if that
\* is still the one the request names.
Checked(i) ==
    LET r == reqs[i] IN
    /\ r.step = "resolving" /\ r.kind = "start" /\ Found(r) = r.root /\ Serving
    /\ reqs' = [reqs EXCEPT ![i] = Answer([r EXCEPT !.found = Found(r)], "sent")]
    /\ UNCHANGED <<registry, core, failures, moves>>

\* No worktree, another one, an error of Git, or the end of the router.
Unresolved(i) ==
    LET r == reqs[i] IN
    /\ r.step = "resolving"
    /\ \/ (Found(r) = None \/ core.stopping \/ (r.kind = "start" /\ Found(r) # r.root)) /\ UNCHANGED failures
       \/ Fails
    /\ reqs' = [reqs EXCEPT ![i] = Answer(r, "error")]
    /\ UNCHANGED <<registry, core, moves>>

WaitsFor(r, w) == \/ r.step = "opening" /\ r.found = w
                  \/ r.step = "context" /\ r.root = w

Waiting(w) == {r \in {reqs[i] : i \in DOMAIN reqs} : WaitsFor(r, w)}

\* A runtime is ready: what waits for it goes on; after the primary one, everything.
Ready(w) ==
    /\ core.runtime[w] = "opening"
    /\ LET c == [core EXCEPT !.runtime[w] = "ready",
                             !.primary = IF w = Launch THEN "ready" ELSE @,
                             !.active = IF w = Launch /\ core.primary = "opening" THEN Launch ELSE @]
       IN  /\ core' = Selected(c, w, Waiting(w))
           /\ reqs' = [i \in DOMAIN reqs |->
                         IF WaitsFor(reqs[i], w) THEN Seen(c, reqs[i])
                         ELSE IF reqs[i].step = "primary" /\ w = Launch THEN Admitted(c, reqs[i])
                         ELSE reqs[i]]
    /\ UNCHANGED <<registry, failures, moves>>

\* A runtime that cannot start is closed and forgotten.  A shutdown that waits
\* for it ends there (Promise.all), and is never reported.
ReadyFails(w) ==
    /\ core.runtime[w] = "opening" /\ Fails
    /\ core' = [core EXCEPT !.runtime[w] = "none", !.selected[w] = None, !.interest = @ \ {w},
                            !.primary = IF w = Launch THEN "failed" ELSE @,
                            !.late = @ \/ (core.stopping /\ w # Launch)]
    /\ reqs' = [i \in DOMAIN reqs |->
                  IF WaitsFor(reqs[i], w) \/ (reqs[i].step = "primary" /\ w = Launch)
                  THEN Answer(reqs[i], "error") ELSE reqs[i]]
    /\ UNCHANGED <<registry, moves>>

-----------------------------------------------------------------------------
(* Shutdown, and the registry outside.                                       *)

Stop ==
    /\ ~core.stopping /\ core' = [core EXCEPT !.stopping = TRUE]
    /\ UNCHANGED <<registry, reqs, failures, moves>>

\* shutdown() awaits the primary runtime, whether it opened or not.
\* Mutant: its failure is not caught.
SettledBug == core.primary = "ready"

Settled == core.primary \in {"ready", "failed"}

ShutRuntime(w) ==
    /\ core.stopping /\ Settled /\ core.runtime[w] = "ready"
    /\ core' = [core EXCEPT !.runtime[w] = "shut", !.interest = @ \ {w}]
    /\ UNCHANGED <<registry, reqs, failures, moves>>

Report ==
    /\ core.stopping /\ Settled /\ ~core.late /\ ~core.reported
    /\ \A w \in Roots : core.runtime[w] \in {"none", "shut"}
    /\ core' = [core EXCEPT !.reported = TRUE]
    /\ UNCHANGED <<registry, reqs, failures, moves>>

\* An agent is registered elsewhere, or its registration removed.
MoveRegistration ==
    /\ moves < MaxMoves /\ moves' = moves + 1
    /\ \E s \in Sessions, w \in Roots \cup {None} : w # registry[s] /\ registry' = [registry EXCEPT ![s] = w]
    /\ UNCHANGED <<core, reqs, failures>>

RouterStep ==
    \/ PrimaryResolved \/ Report \/ Stop \/ MoveRegistration
    \/ \E w \in Roots : Ready(w) \/ ReadyFails(w) \/ ShutRuntime(w)
    \/ \E i \in DOMAIN reqs : Opened(i) \/ Checked(i) \/ Unresolved(i)

-----------------------------------------------------------------------------
(* Properties of the router.                                                 *)

Selections == {i \in DOMAIN reqs : Selecting(reqs[i])}

\* At most one observer samples its tree, and while the core serves it is the
\* active runtime's (lines 113-117; setObservationInterest, worker-runtime.ts:93-99).
OneObserved ==
    /\ \A v, w \in core.interest : v = w
    /\ core.active # None /\ ~core.stopping => core.interest = {core.active}

\* The newest selection, once answered, is the observed one, in whatever order
\* the selections before it resolve; an identity refresh never takes it over.
NewestObserved ==
    \A i \in Selections :
        reqs[i].answer = "ok" /\ reqs[i].gen = core.newest /\ ~core.stopping => core.interest = {reqs[i].found}

\* When the shutdown is reported no runtime is left, opening or open.
ReportedMeansClosed ==
    core.reported => \A w \in Roots : core.runtime[w] \in {"none", "shut"} /\ core.interest = {}
=============================================================================
