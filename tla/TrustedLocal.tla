---------------------------- MODULE TrustedLocal ----------------------------
(***************************************************************************)
(* The owner of trusted Codex conversations: TrustedLocalService of        *)
(* core/agents/trusted-local.ts, with the private history file it writes   *)
(* (core/agents/trusted-local-store.ts) and the crashes of the process.    *)
(*                                                                         *)
(* The service is single-threaded JavaScript: an action below is the code  *)
(* that runs from one await to the next, so every interleaving of its      *)
(* pending operations is a behaviour.  A conversation is its token.  What  *)
(* is said in it (text, model, activities) is abstracted; its status, what *)
(* the history file holds of it and the position of its launch are kept.   *)
(***************************************************************************)
EXTENDS Integers, FiniteSets

CONSTANTS
    ClientToken,   \* identities minted by the renderer (trusted.start, trusted.fork)
    LaunchToken,   \* identities minted by trusted.prepare for trusted.launch
    Purpose,       \* what a client token may be asked for, a subset of AllPurpose
    RequestId,     \* request identities of the commands
    MaxLive,       \* MAX_LIVE: conversations live or awaiting cleanup
    MaxRetained,   \* MAX_RETAINED: conversations the history retains
    MaxCommands,   \* commands one process accepts (512 in the code)
    MaxCrash       \* bound: crashes in a behaviour

Token == ClientToken \cup LaunchToken
AllPurpose == {"start", "plan", "fork"}

ASSUME TokensAssumption == ClientToken \cap LaunchToken = {} /\ IsFiniteSet(Token)
ASSUME TokenNames == "none" \notin Token
ASSUME PurposeAssumption == Purpose \subseteq AllPurpose
ASSUME LimitsAssumption ==
    /\ MaxLive \in Nat \ {0} /\ MaxRetained \in Nat
    /\ MaxLive <= MaxRetained
    /\ MaxCommands \in Nat /\ MaxCrash \in Nat

VARIABLES
    \* Memory of the process.
    saved,         \* Token -> what the run's summary says (NoRun: not retained)
    sess,          \* Token -> status of the run's session ("none": no session)
    cleanup,       \* Token -> whether the session's close() has settled, and how
    stopped,       \* Token -> run.stopped
    pc,            \* Token -> the await at which the run's launch stands
    purpose,       \* Token -> what the launch was asked for
    admitted,      \* admittedTokens
    commands,      \* request identities already accepted
    preparation,   \* the prepared token awaiting launch, or "none"
    preparing,     \* a trusted.prepare is in progress
    storageError,  \* the sticky storage failure
    unreadable,    \* unreadableHistory
    init,          \* the initialization promise: "loading", "saving" or "done"
    drain,         \* position of shutdown(); "none" until it is called
    savePending,   \* a writer loop is pending
    dirty,         \* an observation is not yet captured by the writer
    inflight,      \* the snapshot store.save is writing, or NoSave
    \* Outside the process.
    disk,          \* the history file
    minted,        \* prepared tokens ever minted (randomUUID never repeats)
    started,       \* Token -> times a provider session was started for it
    delivered,     \* command -> times this send or decision reached a provider
    crashes

runVars     == <<saved, sess, cleanup, stopped, pc, purpose>>
prepareVars == <<preparation, preparing>>
faultVars   == <<storageError, unreadable>>
saveVars    == <<savePending, dirty, inflight, disk>>
worldVars   == <<minted, started, delivered, crashes>>
vars == <<runVars, prepareVars, faultVars, saveVars, worldVars,
          admitted, commands, init, drain>>

-----------------------------------------------------------------------------
Active  == {"starting", "ready", "running"}
Status  == Active \cup {"stopping", "closed", "failed"}
Awaits  == {"plan", "barrier", "saved", "context", "create", "abort", "report",
            "rejected", "cleanup"}

NoRun == [status |-> "absent", archived |-> TRUE]
NoSave == [runs |-> [t \in Token |-> NoRun], tokens |-> {}, active |-> FALSE]

Retained == {t \in Token : saved[t] # NoRun}
Launching(t) == pc[t] \in Awaits
Closed == drain # "none"
\* The runs that reserveCapacity counts, and those it may evict.
Live == {t \in Retained : Launching(t) \/ ~saved[t].archived}
Evictable == {t \in Retained : saved[t].archived /\ ~Launching(t)}

\* refresh: the summary of a run follows its session.
Observed(status) == [status |-> status, archived |-> status = "closed"]

\* The snapshot persist() hands to store.save.
CapturedBug == [runs |-> saved, tokens |-> {}, active |-> TRUE]
Captured == [runs |-> saved, tokens |-> admitted, active |-> TRUE]

\* Mutant: an observation made while the writer is busy is taken as captured.
PersistBug ==
    /\ IF unreadable THEN UNCHANGED <<dirty, savePending>>
                     ELSE dirty' = (dirty \/ ~savePending) /\ savePending' = TRUE
    /\ UNCHANGED <<inflight, disk>>

\* persist(): record the observation and make sure a writer loop is pending.
Persist ==
    /\ IF unreadable THEN UNCHANGED <<dirty, savePending>>
                     ELSE dirty' = TRUE /\ savePending' = TRUE
    /\ UNCHANGED <<inflight, disk>>

\* A session publishes status s: changed(run) refreshes the run and persists.
Publish(t, s) ==
    /\ sess' = [sess EXCEPT ![t] = s]
    /\ saved' = [saved EXCEPT ![t] = Observed(s)]
    /\ Persist

Idle == [t \in Token |-> FALSE]

Init ==
    /\ saved = [t \in Token |-> NoRun]
    /\ sess = [t \in Token |-> "none"]
    /\ cleanup = [t \in Token |-> "open"]
    /\ stopped = Idle
    /\ pc = [t \in Token |-> "none"]
    /\ purpose = [t \in Token |-> "none"]
    /\ admitted = {} /\ commands = {}
    /\ preparation = "none" /\ preparing = FALSE
    /\ storageError = FALSE /\ unreadable = FALSE
    /\ init = "loading" /\ drain = "none"
    /\ savePending = FALSE /\ dirty = FALSE /\ inflight = NoSave
    /\ disk = [NoSave EXCEPT !.active = TRUE]
    /\ minted = {}
    /\ started = [t \in Token |-> 0]
    /\ delivered = [c \in Token \X RequestId |-> 0]
    /\ crashes = 0

-----------------------------------------------------------------------------
(* restore(): a run that was live when the process ended is archived as     *)
(* failed; nothing is resumed.  load() may fail, and so may the first save.  *)

\* Mutants: an interrupted run comes back under a status of its own; the
\* retired tokens are not saved; a command identity is not consumed.
RestoredBug(run) == IF run.archived THEN run ELSE [status |-> "interrupted", archived |-> TRUE]

Restored(run) ==
    IF run = NoRun \/ (run.archived /\ run.status \in {"closed", "failed"}) THEN run
    ELSE [status |-> "failed", archived |-> TRUE]

Load ==
    /\ init = "loading"
    /\ saved' = [t \in Token |-> Restored(disk.runs[t])]
    /\ stopped' = [t \in Token |-> disk.runs[t] # NoRun]
    /\ admitted' = disk.tokens \cup {t \in Token : disk.runs[t] # NoRun}
    /\ IF \E t \in Token : disk.runs[t] # NoRun
       THEN init' = "saving" /\ Persist
       ELSE init' = "done" /\ UNCHANGED saveVars
    /\ UNCHANGED <<sess, cleanup, pc, purpose, prepareVars, faultVars, worldVars,
                   commands, drain>>

LoadFails ==
    /\ init = "loading"
    /\ unreadable' = TRUE /\ storageError' = TRUE
    /\ init' = "done"
    /\ UNCHANGED <<runVars, prepareVars, saveVars, worldVars, admitted, commands, drain>>

-----------------------------------------------------------------------------
(* persist(): one writer loop saves until no observation is left.  Every     *)
(* operation that awaits it resumes when the loop ends.                      *)

\* Where the operations awaiting the writer go when it settles.
Resumed(ok) ==
    [t \in Token |->
        CASE pc[t] = "barrier" -> IF ok THEN "saved" ELSE "rejected"
          [] pc[t] = "report"  -> IF ok THEN "settled" ELSE "rejected"
          [] pc[t] = "cleanup" -> "settled"
          [] OTHER             -> pc[t]]

SettleWriter(ok) ==
    /\ savePending' = FALSE /\ inflight' = NoSave
    /\ pc' = Resumed(ok)
    /\ drain' = IF drain = "save" THEN "close" ELSE drain

SaveBegins ==
    /\ savePending /\ ~inflight.active /\ dirty
    /\ dirty' = FALSE /\ inflight' = Captured
    /\ UNCHANGED <<runVars, prepareVars, faultVars, worldVars, admitted, commands,
                   init, drain, savePending, disk>>

\* store.save validates before it writes, and refuses once it is closed.
Writable == drain # "done" /\ Cardinality({t \in Token : inflight.runs[t] # NoRun}) <= MaxRetained

SaveSucceeds ==
    /\ inflight.active /\ Writable
    /\ disk' = inflight
    /\ IF dirty
       THEN /\ dirty' = FALSE /\ inflight' = Captured
            /\ UNCHANGED <<savePending, pc, drain, init>>
       ELSE /\ SettleWriter(TRUE)
            /\ init' = IF init = "saving" THEN "done" ELSE init
            /\ UNCHANGED dirty
    /\ UNCHANGED <<saved, sess, cleanup, stopped, purpose, prepareVars, faultVars,
                   worldVars, admitted, commands>>

\* A failed save leaves the old file, or the new one when only the directory
\* sync failed.
SaveFails ==
    /\ inflight.active
    /\ disk' \in {disk} \cup {d \in {inflight} : Writable}
    /\ storageError' = TRUE
    /\ SettleWriter(FALSE)
    /\ IF init = "saving" THEN unreadable' = TRUE /\ init' = "done"
                          ELSE UNCHANGED <<unreadable, init>>
    /\ UNCHANGED <<saved, sess, cleanup, stopped, purpose, prepareVars, worldVars,
                   admitted, commands, dirty>>

-----------------------------------------------------------------------------
(* request(): the commands.  Each one but Stop burns its request identity    *)
(* before it looks at its target.                                            *)

AcceptBug(r) ==
    /\ init = "done" /\ ~Closed /\ ~storageError
    /\ commands' = commands \cup {r}

Accept(r) ==
    /\ init = "done" /\ ~Closed /\ ~storageError
    /\ r \notin commands /\ Cardinality(commands) < MaxCommands
    /\ commands' = commands \cup {r}

\* reserveCapacity(): refuse, or evict archived runs until there is room.
HasCapacityBug == Cardinality({t \in Retained : ~saved[t].archived}) < MaxLive
HasCapacity == Cardinality(Live) < MaxLive
Evictions ==
    IF Cardinality(Retained) < MaxRetained THEN {{}}
    ELSE {gone \in SUBSET Evictable :
            \/ Cardinality(Retained \ gone) = MaxRetained - 1
            \/ gone = Evictable /\ Cardinality(Retained \ gone) >= MaxRetained}

\* The part of a launch before its first await: evict, then consume the token.
Reserve(t, why, gone, at) ==
    /\ saved' = [u \in Token |->
                    IF u = t THEN Observed("starting")
                    ELSE IF u \in gone THEN NoRun ELSE saved[u]]
    /\ sess' = [u \in Token |-> IF u \in gone THEN "none" ELSE sess[u]]
    /\ stopped' = [stopped EXCEPT ![t] = FALSE]
    /\ purpose' = [purpose EXCEPT ![t] = why]
    /\ pc' = [pc EXCEPT ![t] = at]
    /\ admitted' = admitted \cup {t}
    /\ IF at = "plan" THEN UNCHANGED saveVars ELSE Persist
    /\ UNCHANGED cleanup

\* start(): a second design agent is refused while one works in the worktree.
PlanAgentBusy ==
    \E u \in Retained :
        /\ purpose[u] = "plan"
        /\ \/ Launching(u)
           \/ saved[u].status \in {"starting", "running", "stopping"}
           \/ saved[u].status = "failed" /\ sess[u] # "none" /\ cleanup[u] # "confirmed"

\* fork(): the parent is live, unstopped and ready after a completed turn.
Forkable(parent) ==
    /\ parent \in Retained /\ ~stopped[parent] /\ ~Launching(parent)
    /\ ~saved[parent].archived /\ sess[parent] = "ready"

\* Mutant: a token is looked up among the retained runs only.
AdmissibleBug(t, why) ==
    t \notin Retained /\ (why = "plan" => ~PlanAgentBusy) /\ HasCapacity

Admissible(t, why) ==
    /\ t \notin admitted
    /\ why = "plan" => ~PlanAgentBusy
    /\ why = "fork" => t \notin Retained /\ \E parent \in Token : Forkable(parent)
    /\ HasCapacity

StartOrFork(t, why, r) ==
    /\ Accept(r)
    /\ IF Admissible(t, why)
       THEN \E gone \in Evictions :
                Reserve(t, why, gone, IF why = "plan" THEN "plan" ELSE "barrier")
       ELSE UNCHANGED <<runVars, saveVars, admitted>>
    /\ UNCHANGED <<prepareVars, faultVars, worldVars, init, drain>>

PrepareBegins(r) ==
    /\ Accept(r)
    /\ IF preparing THEN UNCHANGED prepareVars
       ELSE preparing' = TRUE /\ preparation' = "none"
    /\ UNCHANGED <<runVars, faultVars, saveVars, worldVars, admitted, init, drain>>

\* The materialized context arrives; shutdown in between discards it.
PrepareEnds ==
    /\ preparing
    /\ preparing' = FALSE
    /\ \/ UNCHANGED <<preparation, minted>>
       \/ /\ ~Closed
          /\ \E t \in LaunchToken \ minted :
                preparation' = t /\ minted' = minted \cup {t}
    /\ UNCHANGED <<runVars, faultVars, saveVars, started, delivered, crashes,
                   admitted, commands, init, drain>>

\* A launch consumes its preparation before any await.
ConsumeBug == UNCHANGED preparation   \* mutant: it is consumed once the launch settled
Consume == preparation' = "none"

\* The preparation may be stale: its deadline passed, its context changed.
Launch(t, r) ==
    /\ Accept(r)
    /\ IF preparation = t /\ HasCapacity
       THEN \/ Consume /\ \E gone \in Evictions : Reserve(t, "launch", gone, "barrier")
            \/ UNCHANGED <<runVars, preparation, saveVars, admitted>>
       ELSE UNCHANGED <<runVars, preparation, saveVars, admitted>>
    /\ UNCHANGED <<preparing, faultVars, worldVars, init, drain>>

\* trusted.send and trusted.decide: the session delivers at most the one
\* message, or refuses it (a stale turn, an unanswered approval, busy).
Deliver(t, r) ==
    /\ Accept(r)
    /\ \/ /\ t \in Retained /\ sess[t] \in {"ready", "running"}
          /\ ~stopped[t] /\ ~saved[t].archived
          /\ delivered' = [delivered EXCEPT ![<<t, r>>] = @ + 1]
          /\ Publish(t, "running")
       \/ UNCHANGED <<sess, saved, saveVars, delivered>>
    /\ UNCHANGED <<cleanup, stopped, pc, purpose, prepareVars, faultVars, minted, started,
                   crashes, admitted, init, drain>>

\* trusted.stop works after a storage failure and is never deduplicated.
Stop(t) ==
    /\ init = "done" /\ ~Closed /\ t \in Retained
    /\ stopped' = [stopped EXCEPT ![t] = TRUE]
    /\ IF sess[t] # "none"
       THEN Publish(t, IF sess[t] \in Active THEN "stopping" ELSE sess[t])
       ELSE /\ saved' = IF saved[t].archived THEN saved
                        ELSE [saved EXCEPT ![t] = Observed("closed")]
            /\ Persist /\ UNCHANGED sess
    /\ UNCHANGED <<cleanup, pc, purpose, prepareVars, faultVars, worldVars, admitted,
                   commands, init, drain>>

-----------------------------------------------------------------------------
(* execute(), start() and fork() after their admission.                      *)

\* componentPlanMissing answers.
PlanChecked(t) ==
    /\ pc[t] = "plan"
    /\ \/ pc' = [pc EXCEPT ![t] = "barrier"] /\ Persist
       \/ pc' = [pc EXCEPT ![t] = "rejected"] /\ UNCHANGED saveVars
    /\ UNCHANGED <<saved, sess, cleanup, stopped, purpose, prepareVars, faultVars, worldVars,
                   admitted, commands, init, drain>>

CancelledBug(t) == Closed   \* mutant: the launch forgets a Stop it awaited through
Cancelled(t) == Closed \/ stopped[t]

\* The token is durable.  A launch revalidates its context; the others go on
\* to open the session.
AfterBarrier(t) ==
    /\ pc[t] = "saved"
    /\ pc' = [pc EXCEPT ![t] =
                IF purpose[t] = "launch" THEN "context"
                ELSE IF Cancelled(t) THEN "rejected" ELSE "create"]
    /\ UNCHANGED <<saved, sess, cleanup, stopped, purpose, prepareVars, faultVars, saveVars,
                   worldVars, admitted, commands, init, drain>>

ContextRevalidated(t) ==
    /\ pc[t] = "context"
    /\ \/ pc' = [pc EXCEPT ![t] = "rejected"]
       \/ ~Cancelled(t) /\ pc' = [pc EXCEPT ![t] = "create"]
    /\ UNCHANGED <<saved, sess, cleanup, stopped, purpose, prepareVars, faultVars, saveVars,
                   worldVars, admitted, commands, init, drain>>

\* createSession resolves: start the session, or stop the unopened one when the
\* run was cancelled meanwhile.
SessionCreated(t) ==
    /\ pc[t] = "create"
    /\ IF Cancelled(t)
       THEN /\ Publish(t, "stopping")
            /\ pc' = [pc EXCEPT ![t] = "abort"]
            /\ UNCHANGED started
       ELSE /\ Publish(t, "starting")
            /\ pc' = [pc EXCEPT ![t] = "report"]
            /\ started' = [started EXCEPT ![t] = @ + 1]
    /\ UNCHANGED <<cleanup, stopped, purpose, prepareVars, faultVars, minted, delivered,
                   crashes, admitted, commands, init, drain>>

CreateFails(t) ==
    /\ pc[t] = "create"
    /\ pc' = [pc EXCEPT ![t] = "rejected"]
    /\ UNCHANGED <<saved, sess, cleanup, stopped, purpose, prepareVars, faultVars, saveVars,
                   worldVars, admitted, commands, init, drain>>

AbortSettles(t) ==
    /\ pc[t] = "abort" /\ cleanup[t] # "open"
    /\ pc' = [pc EXCEPT ![t] = "rejected"]
    /\ UNCHANGED <<saved, sess, cleanup, stopped, purpose, prepareVars, faultVars, saveVars,
                   worldVars, admitted, commands, init, drain>>

\* The catch block: archive a run that never opened a session, then save.
LaunchCaught(t) ==
    /\ pc[t] = "rejected"
    /\ saved' = [saved EXCEPT ![t] =
                    IF sess[t] # "none" THEN Observed(sess[t])
                    ELSE [status |-> IF stopped[t] THEN "closed" ELSE "failed", archived |-> TRUE]]
    /\ pc' = [pc EXCEPT ![t] = IF unreadable THEN "settled" ELSE "cleanup"]
    /\ Persist
    /\ UNCHANGED <<sess, cleanup, stopped, purpose, prepareVars, faultVars, worldVars, admitted,
                   commands, init, drain>>

-----------------------------------------------------------------------------
(* What a session tells its owner (TrustedSession.tla is the detailed one).  *)

SessionMoves(t) ==
    /\ sess[t] # "none" /\ pc[t] # "abort"
    /\ \/ sess[t] = "starting" /\ Publish(t, "running")
       \/ sess[t] = "running" /\ Publish(t, "ready")
       \/ sess[t] \in Active \cup {"stopping"} /\ cleanup[t] = "open"
            /\ Publish(t, "failed")
       \/ sess[t] = "running" /\ Publish(t, "running")   \* output
    /\ UNCHANGED <<cleanup, stopped, pc, purpose, prepareVars, faultVars, minted, started,
                   delivered, crashes, admitted, commands, init, drain>>

\* close() settles; a session that never opened a transport needs no cleanup.
SessionCloses(t, outcome) ==
    /\ sess[t] \in {"stopping", "failed"} /\ cleanup[t] = "open"
    /\ pc[t] = "abort" => outcome = "confirmed"
    /\ cleanup' = [cleanup EXCEPT ![t] = outcome]
    /\ Publish(t, IF sess[t] = "stopping" /\ outcome = "confirmed" THEN "closed" ELSE "failed")
    /\ UNCHANGED <<stopped, pc, purpose, prepareVars, faultVars, worldVars, admitted, commands,
                   init, drain>>

-----------------------------------------------------------------------------
(* shutdown() and drain().                                                   *)

ShutdownBegins ==
    /\ drain = "none"
    /\ drain' = "init" /\ preparation' = "none"
    /\ UNCHANGED <<runVars, preparing, faultVars, saveVars, worldVars, admitted, commands, init>>

StopSessions ==
    /\ sess' = [t \in Token |-> IF sess[t] \in Active THEN "stopping" ELSE sess[t]]
    /\ saved' = [t \in Token |-> IF sess[t] \in Active THEN Observed("stopping") ELSE saved[t]]
    /\ IF \E t \in Token : sess[t] # "none" THEN Persist ELSE UNCHANGED saveVars

DrainStops ==
    /\ drain = "init" /\ init = "done"
    /\ drain' = "first"
    /\ stopped' = [t \in Token |-> stopped[t] \/ t \in Retained]
    /\ StopSessions
    /\ UNCHANGED <<cleanup, pc, purpose, prepareVars, faultVars, worldVars, admitted, commands,
                   init>>

\* Every stop() has settled: the sessions of these runs are closed.
StopsSettledBug == \A t \in Token : sess[t] # "none" => cleanup[t] = "confirmed"
StopsSettled == \A t \in Token : sess[t] # "none" => cleanup[t] # "open"

DrainFirstStops ==
    /\ drain = "first"
    /\ \A t \in Token : sess[t] # "none" /\ pc[t] # "abort" => cleanup[t] # "open"
    /\ drain' = "pending"
    /\ UNCHANGED <<runVars, prepareVars, faultVars, saveVars, worldVars, admitted, commands, init>>

\* Every pending launch and preparation has settled: stop all sessions again.
PendingSettledBug == ~preparing   \* mutant: a launch is not awaited
PendingSettled == ~preparing /\ \A t \in Token : ~Launching(t)

DrainPending ==
    /\ drain = "pending" /\ PendingSettled
    /\ drain' = "last"
    /\ StopSessions
    /\ UNCHANGED <<cleanup, stopped, pc, purpose, prepareVars, faultVars, worldVars, admitted,
                   commands, init>>

DrainLastStops ==
    /\ drain = "last" /\ StopsSettled
    /\ drain' = IF unreadable THEN "close" ELSE "save"
    /\ Persist
    /\ UNCHANGED <<runVars, prepareVars, faultVars, worldVars, admitted, commands, init>>

\* store.close() runs after the saves queued before it.
DrainCloses ==
    /\ drain = "close" /\ ~inflight.active
    /\ drain' = "done"
    /\ UNCHANGED <<runVars, prepareVars, faultVars, saveVars, worldVars, admitted, commands, init>>

-----------------------------------------------------------------------------
\* The process ends at any point.  Its sessions end with it (owner-process.mjs
\* reaps them); a save in flight did or did not replace the file.
Crash ==
    /\ crashes < MaxCrash
    /\ crashes' = crashes + 1
    /\ disk' \in {disk} \cup {d \in {inflight} : inflight.active /\ Writable}
    /\ saved' = [t \in Token |-> NoRun]
    /\ sess' = [t \in Token |-> "none"]
    /\ cleanup' = [t \in Token |-> "open"]
    /\ stopped' = Idle
    /\ pc' = [t \in Token |-> "none"]
    /\ purpose' = [t \in Token |-> "none"]
    /\ admitted' = {} /\ commands' = {}
    /\ preparation' = "none" /\ preparing' = FALSE
    /\ storageError' = FALSE /\ unreadable' = FALSE
    /\ init' = "loading" /\ drain' = "none"
    /\ savePending' = FALSE /\ dirty' = FALSE /\ inflight' = NoSave
    /\ UNCHANGED <<minted, started, delivered>>

\* After shutdown the process only waits to be ended.
Ended == drain = "done" /\ UNCHANGED vars

-----------------------------------------------------------------------------
LaunchSteps(t) ==
    \/ PlanChecked(t) \/ AfterBarrier(t) \/ ContextRevalidated(t)
    \/ SessionCreated(t) \/ CreateFails(t) \/ AbortSettles(t) \/ LaunchCaught(t)

SaveSteps == SaveBegins \/ SaveSucceeds \/ SaveFails

DrainSteps == DrainStops \/ DrainFirstStops \/ DrainPending \/ DrainLastStops \/ DrainCloses

Requests ==
    \/ \E r \in RequestId :
        \/ PrepareBegins(r)
        \/ \E t \in ClientToken, why \in Purpose : StartOrFork(t, why, r)
        \/ \E t \in LaunchToken : Launch(t, r)
        \/ \E t \in Token : Deliver(t, r)
    \/ \E t \in Token : Stop(t)

Next ==
    \/ Load \/ LoadFails
    \/ SaveSteps
    \/ Requests
    \/ PrepareEnds
    \/ \E t \in Token : LaunchSteps(t)
    \/ \E t \in Token : SessionMoves(t)
    \/ \E t \in Token, outcome \in {"confirmed", "unknown"} : SessionCloses(t, outcome)
    \/ ShutdownBegins \/ DrainSteps \/ Ended
    \/ Crash

Spec == Init /\ [][Next]_vars
-----------------------------------------------------------------------------
(* Fairness: the steps the event loop, the file system and a process's end   *)
(* owe the service.  Clients, the provider and crashes owe it nothing.       *)

\* The writer loop ends only when no observation arrived during its last save.
\* The code does not enforce that it ever does; a stream of output that keeps
\* pace with the disk would hold every operation that awaits the writer.
WriterCatchesUp == SF_vars(~dirty /\ (SaveSucceeds \/ SaveFails))

Fairness ==
    /\ WF_vars(Load) /\ WF_vars(SaveBegins) /\ WF_vars(SaveSucceeds \/ SaveFails)
    /\ WF_vars(PrepareEnds) /\ WF_vars(DrainSteps)
    /\ \A t \in Token :
        /\ WF_vars(LaunchSteps(t))
        /\ WF_vars(\E outcome \in {"confirmed", "unknown"} : SessionCloses(t, outcome))

FairSpec == Spec /\ Fairness /\ WriterCatchesUp

-----------------------------------------------------------------------------
Run == [status : Status \cup {"absent"}, archived : BOOLEAN]
Snapshot == [runs : [Token -> Run], tokens : SUBSET Token, active : BOOLEAN]

\* The types of the variables.
TypeOK ==
    /\ saved \in [Token -> Run]
    /\ sess \in [Token -> Status \cup {"none"}]
    /\ cleanup \in [Token -> {"open", "confirmed", "unknown"}]
    /\ stopped \in [Token -> BOOLEAN]
    /\ pc \in [Token -> Awaits \cup {"none", "settled"}]
    /\ purpose \in [Token -> AllPurpose \cup {"none", "launch"}]
    /\ admitted \subseteq Token /\ commands \subseteq RequestId
    /\ preparation \in LaunchToken \cup {"none"} /\ preparing \in BOOLEAN
    /\ storageError \in BOOLEAN /\ unreadable \in BOOLEAN
    /\ init \in {"loading", "saving", "done"}
    /\ drain \in {"none", "init", "first", "pending", "last", "save", "close", "done"}
    /\ savePending \in BOOLEAN /\ dirty \in BOOLEAN
    /\ inflight \in Snapshot /\ disk \in Snapshot
    /\ minted \subseteq LaunchToken
    /\ started \in [Token -> Nat] /\ delivered \in [Token \X RequestId -> Nat]
    /\ crashes \in Nat

\* A conversation identity opens at most one provider session, whatever is
\* repeated, lost or retried, and however often the process restarts.
ProviderOnce == \A t \in Token : started[t] <= 1

\* A provider session is started only for a token the history file holds, so
\* that no restart can admit the token again.
DurableBeforeProvider == \A t \in Token : started[t] > 0 => t \in disk.tokens

\* The strengthening of the two above that every step preserves.  The file's
\* tokens are never lost from memory or from the save in flight; a launch that
\* waits at its save barrier is in a snapshot that is or will be written; one
\* that passed it is in the file and not yet started.
WriterInv ==
    /\ init = "loading" => ~savePending /\ ~inflight.active
    /\ init # "done" => drain \in {"none", "init"} /\ \A t \in Token : pc[t] = "none" /\ sess[t] = "none"
    /\ unreadable => storageError /\ ~savePending /\ ~inflight.active /\ \A t \in Token : pc[t] = "none"
    /\ inflight.active => savePending /\ disk.tokens \subseteq inflight.tokens /\ inflight.tokens \subseteq admitted
    /\ init # "loading" /\ ~unreadable => disk.tokens \subseteq admitted

BarrierInv ==
    \A t \in Token :
        /\ pc[t] \in Awaits => t \in admitted
        /\ pc[t] = "barrier" => savePending /\ (dirty \/ t \in inflight.tokens)
        /\ pc[t] \in {"plan", "barrier", "saved", "context", "create"} => started[t] = 0
        /\ pc[t] \in {"saved", "context", "create"} => t \in disk.tokens

MintedInv ==
    /\ \A t \in LaunchToken : t \notin minted => started[t] = 0 /\ pc[t] = "none"
    /\ preparation # "none" =>
         preparation \in minted /\ started[preparation] = 0 /\ pc[preparation] = "none"

IdentityInv == WriterInv /\ BarrierInv /\ MintedInv /\ ProviderOnce /\ DurableBeforeProvider

\* A command (its target and identity) reaches a provider at most once, restarts included: the
\* in-memory identities are lost, but so is every target.
DeliveredOnce == \A t \in Token, r \in RequestId : delivered[<<t, r>>] <= 1

\* Conversations live or awaiting cleanup stay within MAX_LIVE and the history
\* within MAX_RETAINED; a larger history could not be saved at all.
CapacityHolds ==
    /\ Cardinality(Live) <= MaxLive
    /\ Cardinality(Retained) <= MaxRetained

\* When the writer is quiet nothing observed is missing from the file: the
\* coalescing loop loses no last observation.
QuietMeansSaved ==
    (/\ init = "done" /\ ~savePending /\ ~storageError
     /\ \A t \in Token : pc[t] \notin {"plan", "rejected"})
        => disk.runs = saved /\ disk.tokens = admitted

\* A completed shutdown leaves no operation and no session that is not closed
\* behind, also when the session was being created while shutdown began.
NothingOutlivesShutdown ==
    drain \in {"save", "close", "done"} =>
        \A t \in Token : ~Launching(t) /\ (sess[t] # "none" => cleanup[t] # "open")

\* A cancelled run is never started, across every await of its launch: nothing
\* starts once Stop was accepted or shutdown began.
NoStartOnceCancelled ==
    [][\A t \in Token : started'[t] > started[t] => ~stopped[t] /\ drain = "none"]_vars

\* Stop ends a conversation, in whatever await of its launch it arrives.
StopEnds ==
    \A t \in Token :
        stopped[t] ~> (~Launching(t) /\ (sess[t] # "none" => cleanup[t] # "open"))

\* shutdown() completes (a crash in between ends the process instead).
ShutdownCompletes == (drain = "init") ~> (drain \in {"done", "none"})

\* The two together: what was asked to end does.
EndsWhenAsked == StopEnds /\ ShutdownCompletes
=============================================================================
