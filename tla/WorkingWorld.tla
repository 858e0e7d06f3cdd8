---------------------------- MODULE WorkingWorld ----------------------------
(***************************************************************************)
(* How one workspace runtime knows its working tree: the observer          *)
(* (core/working-world-observer.ts) samples a fingerprint of the tree, the *)
(* provider (core/provider.ts) keeps the published snapshot and reads the  *)
(* service declarations, and core/worker-runtime.ts wires the two with     *)
(* saves, with the user's reconciliation and with the interest of the      *)
(* workspace router.                                                       *)
(*                                                                         *)
(* A fingerprint is the number of the world it is a fingerprint of.  The   *)
(* generations of the code only tell whether something newer was asked for *)
(* since a read began: that is the flag "fresh" of a read.                 *)
(***************************************************************************)
EXTENDS Naturals

CONSTANTS
    MaxWorlds,     \* how many states the tree goes through
    MaxFailures,   \* fingerprints and declaration reads that fail
    MaxToggles     \* how often the interest in the workspace changes

ASSUME WorldBounds == MaxWorlds \in Nat \ {0} /\ MaxFailures \in Nat /\ MaxToggles \in Nat

VARIABLES
    world,      \* the working tree
    observer,   \* WorkingWorldObserver
    sample,     \* the fingerprint its drain waits for
    provider,   \* the snapshot: fingerprint, evidence, gap, status, topology
    discovery,  \* readDeclarations under way
    refresh,    \* when the next one is due, and whose publisher it has
    savedWorld,       \* the fingerprint a save brings back, or 0
    revoked,    \* history: a discovery the provider scheduled has lost the evidence
    interest, closed, failures, toggles

worldVars == <<world, observer, sample, provider, discovery, refresh, savedWorld,
          revoked, interest, closed, failures, toggles>>

None == 0
Failed == MaxWorlds + 1
NoRead == [on |-> FALSE, fresh |-> FALSE, value |-> None]
NoDiscovery == [stage |-> "none", fresh |-> FALSE, user |-> FALSE, before |-> None, read |-> None, after |-> None]

WorldInit ==
    /\ world = 1
    /\ observer = [paused |-> FALSE, last |-> None, failed |-> FALSE, must |-> FALSE]
    /\ sample = [NoRead EXCEPT !.on = TRUE, !.fresh = TRUE]
    /\ provider = [working |-> None, observed |-> FALSE, gap |-> "unavailable",
                   status |-> "gray", topology |-> None]
    /\ discovery = NoDiscovery
    /\ refresh = [timer |-> FALSE, again |-> FALSE, user |-> FALSE]
    /\ savedWorld = None /\ revoked = FALSE /\ interest = TRUE /\ closed = FALSE /\ failures = 0 /\ toggles = 0

-----------------------------------------------------------------------------
(* The observer.                                                             *)

\* request(): a read under way is outdated; without one, a new one begins.
\* Mutant: a read under way counts.
RequestedBug(s) ==
    IF observer.paused \/ closed \/ s.on THEN s ELSE [NoRead EXCEPT !.on = TRUE, !.fresh = TRUE]

Requested(s) ==
    IF observer.paused \/ closed THEN s
    ELSE IF s.on THEN [s EXCEPT !.fresh = FALSE] ELSE [NoRead EXCEPT !.on = TRUE, !.fresh = TRUE]

\* The end of a read: the drain begins again when it was outdated.
Drained == IF sample.fresh \/ observer.paused \/ closed THEN NoRead
           ELSE [NoRead EXCEPT !.on = TRUE, !.fresh = TRUE]

Fails == failures < MaxFailures /\ failures' = failures + 1

\* An aborted computation may still come back with a fingerprint.
TakeSample ==
    /\ sample.on /\ sample.value = None
    /\ \/ sample' = [sample EXCEPT !.value = world] /\ UNCHANGED failures
       \/ sample' = [sample EXCEPT !.value = Failed]
          /\ IF observer.paused \/ closed THEN UNCHANGED failures ELSE Fails
    /\ UNCHANGED <<world, observer, provider, discovery, refresh, savedWorld, revoked, interest, closed, toggles>>

\* The poll finds no read under way.
Poll ==
    /\ ~closed /\ ~observer.paused /\ ~sample.on
    /\ sample' = Requested(sample)
    /\ UNCHANGED <<world, observer, provider, discovery, refresh, savedWorld, revoked, interest, closed, failures, toggles>>

-----------------------------------------------------------------------------
(* The provider.                                                             *)

\* scheduleDiscovery: the publisher given last is the one used.
Scheduled(user) == [timer |-> TRUE, again |-> TRUE, user |-> user]

\* markWorkingWorldChanged(f): unless f is known, or only confirms what a
\* declaration read under way started from, the topology is read again.
\* Mutant: the gap of the evidence is forgotten.
KnownAlreadyBug(f) == f = provider.working

KnownAlready(f) == f = provider.working /\ provider.gap = "none"
OwnedByDiscovery(f) ==
    f = provider.working /\ provider.gap = "idle" /\ discovery.stage # "none" /\ discovery.fresh
WorkingChanged(f, user) ==
    IF closed \/ KnownAlready(f) THEN UNCHANGED <<provider, discovery, refresh>>
    ELSE IF OwnedByDiscovery(f)
    THEN /\ provider' = [provider EXCEPT !.gap = "none", !.observed = TRUE]
         /\ UNCHANGED <<discovery, refresh>>
    ELSE /\ provider' = [provider EXCEPT !.working = f, !.observed = TRUE, !.gap = "none", !.status = "yellow"]
         /\ discovery' = [discovery EXCEPT !.fresh = FALSE]
         /\ refresh' = Scheduled(user)

WorkingUnknown ==
    /\ provider' = IF closed THEN provider
                   ELSE [provider EXCEPT !.gap = "unavailable", !.observed = FALSE, !.status = "red"]
    /\ discovery' = IF closed THEN discovery ELSE [discovery EXCEPT !.fresh = FALSE]
    /\ UNCHANGED refresh

WorkingUnobserved ==
    [provider EXCEPT !.gap = IF @ = "none" THEN "idle" ELSE @, !.observed = FALSE,
                     !.status = IF @ = "red" THEN "red" ELSE "yellow"]

\* A read that ended is applied unless something newer was asked for.
PublishSample ==
    /\ sample.on /\ sample.value # None
    /\ sample' = Drained
    /\ LET authority == sample.fresh /\ ~closed /\ ~observer.paused
           news == sample.value # observer.last \/ observer.failed \/ observer.must IN
       \/ /\ ~authority
          /\ UNCHANGED <<observer, provider, discovery, refresh>>
       \/ /\ authority /\ sample.value # Failed
          /\ observer' = [observer EXCEPT !.last = sample.value, !.failed = FALSE, !.must = FALSE]
          /\ IF news THEN WorkingChanged(sample.value, FALSE) ELSE UNCHANGED <<provider, discovery, refresh>>
       \/ /\ authority /\ sample.value = Failed
          /\ observer' = [observer EXCEPT !.failed = TRUE]
          /\ IF observer.failed THEN UNCHANGED <<provider, discovery, refresh>> ELSE WorkingUnknown
    /\ UNCHANGED <<world, savedWorld, revoked, interest, closed, failures, toggles>>

\* The declarations are read between two fingerprints that have to agree.
Began(user) == [NoDiscovery EXCEPT !.stage = "before", !.fresh = TRUE, !.user = user]
StartDiscovery ==
    /\ ~closed /\ refresh.timer
    /\ IF discovery.stage # "none"
       THEN refresh' = [refresh EXCEPT !.timer = FALSE, !.again = TRUE] /\ UNCHANGED discovery
       ELSE refresh' = [timer |-> FALSE, again |-> FALSE, user |-> FALSE] /\ discovery' = Began(refresh.user)
    /\ UNCHANGED <<world, observer, sample, provider, savedWorld, revoked, interest, closed, failures, toggles>>

\* reconciliation.start of the user: its publisher tells the observer when the
\* evidence is gone.
Reconcile ==
    /\ ~closed
    /\ IF discovery.stage # "none"
       THEN refresh' = [refresh EXCEPT !.again = TRUE] /\ UNCHANGED discovery
       ELSE refresh' = [timer |-> FALSE, again |-> FALSE, user |-> FALSE] /\ discovery' = Began(TRUE)
    /\ UNCHANGED <<world, observer, sample, provider, savedWorld, revoked, interest, closed, failures, toggles>>

\* The end of a discovery: what was asked for meanwhile is scheduled, with the
\* publisher of this one.
DiscoveryEnds ==
    /\ discovery' = NoDiscovery
    /\ refresh' = IF refresh.again /\ ~closed THEN Scheduled(discovery.user) ELSE refresh
Dropped == closed \/ ~discovery.fresh
\* Publishing a snapshot without evidence through the user's publisher.
Announce(observed) ==
    IF discovery.user /\ ~observed
    THEN observer' = [observer EXCEPT !.must = TRUE] /\ sample' = Requested(sample)
    ELSE UNCHANGED <<observer, sample>>

ReadFails ==
    /\ discovery.stage \in {"before", "declare", "after"} /\ (Fails \/ (Dropped /\ UNCHANGED failures))
    /\ DiscoveryEnds
    /\ LET lost == ~Dropped /\ discovery.stage # "declare" IN
       /\ revoked' = (revoked \/ (lost /\ ~discovery.user))
       /\ IF Dropped THEN UNCHANGED <<provider, observer, sample>>
          ELSE /\ provider' = [provider EXCEPT !.status = "red", !.observed = @ /\ ~lost,
                                               !.gap = IF lost THEN "unavailable" ELSE @]
               /\ Announce(provider.observed /\ ~lost)
    /\ UNCHANGED <<world, savedWorld, interest, closed, toggles>>

ReadBefore ==
    /\ discovery.stage = "before" /\ discovery.before = None
    /\ discovery' = [discovery EXCEPT !.before = world]
    /\ UNCHANGED <<world, observer, sample, provider, refresh, savedWorld, revoked, interest, closed, failures, toggles>>
TakeBefore ==
    /\ discovery.stage = "before" /\ discovery.before # None
    /\ IF Dropped THEN DiscoveryEnds /\ UNCHANGED provider
       ELSE /\ discovery' = [discovery EXCEPT !.stage = "declare"]
            /\ provider' = [provider EXCEPT !.working = discovery.before, !.observed = TRUE,
                                            !.gap = "none", !.status = "yellow"]
            /\ UNCHANGED refresh
    /\ UNCHANGED <<world, observer, sample, savedWorld, revoked, interest, closed, failures, toggles>>
ReadDeclarations ==
    /\ discovery.stage = "declare"
    /\ IF Dropped THEN DiscoveryEnds
       ELSE discovery' = [discovery EXCEPT !.stage = "after", !.read = world] /\ UNCHANGED refresh
    /\ UNCHANGED <<world, observer, sample, provider, savedWorld, revoked, interest, closed, failures, toggles>>
ReadAfter ==
    /\ discovery.stage = "after" /\ discovery.after = None
    /\ discovery' = [discovery EXCEPT !.after = world]
    /\ UNCHANGED <<world, observer, sample, provider, refresh, savedWorld, revoked, interest, closed, failures, toggles>>
\* Mutant: the two fingerprints are not compared.
AgreeBug == TRUE

Agree == discovery.after = discovery.before

TakeAfter ==
    /\ discovery.stage = "after" /\ discovery.after # None
    /\ discovery' = NoDiscovery
    /\ IF Dropped
       THEN UNCHANGED provider /\ refresh' = IF refresh.again /\ ~closed THEN Scheduled(discovery.user) ELSE refresh
       ELSE IF ~Agree
       THEN /\ provider' = [provider EXCEPT !.working = discovery.after, !.observed = TRUE, !.gap = "none", !.status = "yellow"]
            /\ refresh' = Scheduled(discovery.user)
       ELSE /\ provider' = [working |-> discovery.after, observed |-> TRUE, gap |-> "none",
                            status |-> "green", topology |-> discovery.read]
            /\ refresh' = IF refresh.again THEN Scheduled(discovery.user) ELSE refresh
    /\ UNCHANGED <<world, observer, sample, savedWorld, revoked, interest, closed, failures, toggles>>

-----------------------------------------------------------------------------
(* The runtime around them.                                                  *)

OutsideChange ==
    /\ world < MaxWorlds /\ world' = world + 1
    /\ UNCHANGED <<observer, sample, provider, discovery, refresh, savedWorld, revoked, interest, closed, failures, toggles>>

\* file.write changes the tree and takes a fingerprint of it, or fails to.
SaveWrites ==
    /\ ~closed /\ savedWorld = None /\ world < MaxWorlds
    /\ world' = world + 1
    /\ \/ savedWorld' = world' /\ UNCHANGED failures
       \/ savedWorld' = Failed /\ Fails
    /\ UNCHANGED <<observer, sample, provider, discovery, refresh, revoked, interest, closed, toggles>>
SaveReturns ==
    /\ savedWorld # None
    /\ savedWorld' = None
    /\ sample' = Requested(sample)
    /\ IF savedWorld = Failed
       THEN observer' = [observer EXCEPT !.must = TRUE] /\ WorkingUnknown
       ELSE /\ observer' = [observer EXCEPT !.last = savedWorld, !.failed = FALSE, !.must = FALSE]
            /\ WorkingChanged(savedWorld, FALSE)
    /\ UNCHANGED <<world, revoked, interest, closed, failures, toggles>>

\* setObservationInterest: what is shown loses its evidence both ways.
LoseInterest ==
    /\ ~closed /\ interest /\ toggles < MaxToggles
    /\ interest' = FALSE /\ toggles' = toggles + 1
    /\ provider' = WorkingUnobserved
    /\ observer' = [observer EXCEPT !.paused = TRUE]
    /\ sample' = [sample EXCEPT !.fresh = FALSE]
    /\ UNCHANGED <<world, discovery, refresh, savedWorld, revoked, closed, failures>>
GainInterest ==
    /\ ~closed /\ ~interest /\ toggles < MaxToggles
    /\ interest' = TRUE /\ toggles' = toggles + 1
    /\ provider' = WorkingUnobserved
    /\ observer' = [observer EXCEPT !.paused = FALSE, !.must = TRUE]
    /\ sample' = IF sample.on THEN [sample EXCEPT !.fresh = FALSE] ELSE [NoRead EXCEPT !.on = TRUE, !.fresh = TRUE]
    /\ UNCHANGED <<world, discovery, refresh, savedWorld, revoked, closed, failures>>

\* shutdown: the observer is closed and the provider disposed.
Close ==
    /\ ~closed /\ closed' = TRUE
    /\ refresh' = [timer |-> FALSE, again |-> refresh.again, user |-> FALSE]
    /\ UNCHANGED <<world, observer, sample, provider, discovery, savedWorld, revoked, interest, failures, toggles>>

Sampling == TakeSample \/ Poll \/ PublishSample
Discovering == ReadBefore \/ TakeBefore \/ ReadDeclarations \/ ReadAfter \/ TakeAfter
WorldNext ==
    \/ Sampling \/ Discovering \/ ReadFails \/ StartDiscovery \/ Reconcile
    \/ OutsideChange \/ SaveWrites \/ SaveReturns \/ LoseInterest \/ GainInterest \/ Close

WorldSpec == WorldInit /\ [][WorldNext]_worldVars

\* Reads end, timers run out and results are taken; nobody has to change the
\* tree, to save, to reconcile or to look.
FairWorldSpec ==
    /\ WorldSpec
    /\ WF_worldVars(Sampling) /\ WF_worldVars(Discovering) /\ WF_worldVars(StartDiscovery) /\ WF_worldVars(SaveReturns)

-----------------------------------------------------------------------------
\* A topology shown as consistent was read from exactly the world whose
\* fingerprint stands beside it, whatever changed while it was being read.
GreenIsConsistent ==
    provider.status = "green" =>
        provider.observed /\ provider.topology = provider.working

\* Late answers do not count.  Nobody's world goes back to an older one: the
\* observer drops the reads that crossed a pause, a save or a newer request, a
\* declaration read those that crossed an observation.  Only a save may bring the
\* fingerprint it took itself, which the reconciliation after it replaces, and a
\* sample one older than a declaration read's, which the next poll replaces.
NeverBack ==
    /\ observer'.last >= observer.last \/ SaveReturns
    /\ provider'.working >= provider.working \/ SaveReturns \/ PublishSample

\* And after the shutdown none changes or publishes the snapshot
\* (working-world-observer.ts:106, provider.ts:391, 402, 404).
LateIsNothing == [][NeverBack /\ (closed => UNCHANGED <<provider, refresh>>)]_worldVars

\* While somebody looks at the workspace, its snapshot comes to show the world
\* as it is, with evidence, also after failures, saves and an idle time, unless a
\* declaration read that the provider scheduled itself took the evidence away.
Behind == interest /\ ~closed /\ ~(provider.observed /\ provider.working = world)
CatchesUp == []<>(~Behind \/ revoked)

\* A topology that waits for its declarations gets an answer.
Waiting == interest /\ ~closed /\ provider.status = "yellow"
Reconciles == []<>~Waiting

\* The two together.
ShowsTheWorld == CatchesUp /\ Reconciles
=============================================================================
