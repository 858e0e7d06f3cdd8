--------------------------- MODULE CoreSupervisor ---------------------------
(***************************************************************************)
(* Electron main's supervision of the utility process that runs the core   *)
(* (app/electron/core-supervisor.ts), with the core process as its         *)
(* environment: how it opens, serves, shuts down, hangs, crashes           *)
(* (core/worker-runtime.ts, core/workspace-context.ts).                    *)
(*                                                                         *)
(* Every handler of the supervisor runs to its end before another starts,  *)
(* so each is one action over the record sup.  Timers fire at any time     *)
(* once armed.  Requests that are refused at once (not ready, duplicate    *)
(* id) and forwarded events change no state of the supervisor and have no  *)
(* action.                                                                 *)
(***************************************************************************)
EXTENDS Integers, Sequences, FiniteSets

CONSTANTS
    Reads,         \* requests that change nothing
    Saves,         \* file.write
    Agents,        \* trusted.* and agent.* commands
    Commands,      \* other requests with an effect: build.start, externalAgents.send ...
    Faults,        \* a subset of {"crash", "launch", "transport", "garbage", "broken"}
    MaxLaunches, MaxRestarts   \* bounds on the environment, for TLC

Requests == Reads \cup Saves \cup Agents \cup Commands
ASSUME KindsAreDisjoint ==
    /\ Reads \cap (Saves \cup Agents \cup Commands) = {}
    /\ Saves \cap (Agents \cup Commands) = {} /\ Agents \cap Commands = {}
ASSUME BoundsAreNaturals == MaxLaunches \in Nat \ {0} /\ MaxRestarts \in Nat
ASSUME FaultsAreKnown == Faults \subseteq {"crash", "launch", "transport", "garbage", "broken"}

VARIABLES
    sup,       \* the supervisor
    core,      \* the core process it holds, and what that has written
    alive,     \* generations whose process exists
    executed,  \* requests whose effect took place
    restarts,  \* calls of restart(), for its bound
    streak     \* launches since a process was stable or a restart() was asked

vars == <<sup, core, alive, executed, restarts, streak>>

None == 0      \* this.process === null
Silent == [stage |-> "none", working |-> {}, outbox |-> <<>>, ready |-> FALSE, broken |-> FALSE]
Opening == [Silent EXCEPT !.stage = "opening"]

Init ==
    /\ sup = [phase |-> "stopped", generation |-> 0, process |-> None, closing |-> FALSE,
              replace |-> FALSE, attempts |-> 0, timers |-> {}, pending |-> {},
              answer |-> [r \in Requests |-> "none"], shutdownRequested |-> FALSE,
              killRequested |-> FALSE, inbox |-> <<>>, dying |-> FALSE]
    /\ core = Silent /\ alive = {} /\ executed = {} /\ restarts = 0 /\ streak = 0

-----------------------------------------------------------------------------
(* The supervisor's helpers, from a state of it to the next one.             *)

UncertainMutationCode(r) ==
    CASE r \in Agents -> "AGENT_OUTCOME_UNKNOWN"
      [] r \in Saves -> "WRITE_OUTCOME_UNKNOWN"
      [] OTHER -> "none"
Uncertain(r) == UncertainMutationCode(r) # "none"

FailureCode(r, otherwise) == IF Uncertain(r) THEN UncertainMutationCode(r) ELSE otherwise

\* "RETRY" stands for the two failures that ask to retry the read.
Settle(s, these, otherwise) ==
    LET settled == these \cap s.pending
    IN  [s EXCEPT !.pending = @ \ settled,
                  !.answer = [r \in Requests |-> IF r \in settled THEN FailureCode(r, otherwise) ELSE @[r]]]
SettleAll(s) == Settle(s, s.pending, "CORE_UNAVAILABLE")

Kill(s) == [s EXCEPT !.dying = @ \/ s.process # None]
ReplacementTimers == {"agentDrain", "shutdown"}
KillReplacement(s) ==
    [Kill(s) EXCEPT !.timers = @ \ ReplacementTimers, !.killRequested = @ \/ s.process # None]

\* A failed process is held until it exits.
FailProcess(s) ==
    [Kill(SettleAll(s)) EXCEPT !.phase = "unavailable",
                               !.timers = @ \ (ReplacementTimers \cup {"readiness"})]

Delays == 3    \* [100, 500, 1_500]
Retry(s) ==
    IF s.closing THEN s
    ELSE IF s.attempts >= Delays THEN [s EXCEPT !.phase = "failed", !.attempts = @ + 1]
    ELSE [s EXCEPT !.phase = "unavailable", !.attempts = @ + 1, !.timers = @ \cup {"retry"}]

MayStart(s) == ~s.closing /\ s.process = None /\ "retry" \notin s.timers
Starting(s) == [s EXCEPT !.generation = @ + 1, !.phase = "starting"]
Started(s) ==
    [s EXCEPT !.process = s.generation, !.timers = @ \cup {"readiness"}, !.inbox = <<>>, !.dying = FALSE]

\* start() from the supervisor s, after so many launches in a row.
Start(s, launches) ==
    IF ~MayStart(s) THEN sup' = s /\ streak' = launches /\ UNCHANGED <<core, alive>>
    ELSE /\ streak' = launches + 1
         /\ \/ /\ sup' = Started(Starting(s))
               /\ core' = Opening /\ alive' = alive \cup {s.generation + 1}
            \/ /\ "launch" \in Faults /\ sup' = Retry(Starting(s))
               /\ core' = Silent /\ UNCHANGED alive

HasAgentMutations(s) == s.pending \cap Agents # {}
\* What the replacement waits for.  Mutant: saves are left to the shutdown.
SavesInFlightBug(s) == FALSE
SavesInFlight(s) == s.pending \cap Saves # {}
\* The timer that bounds the wait for core.shutdown.ready.  Mutant: none.
ShutdownTimerBug == {}
ShutdownTimer == {"shutdown"}

\* finishDrain(): the possible results, by whether postMessage throws.
FinishDrain(s) ==
    IF ~s.replace \/ s.closing \/ HasAgentMutations(s) THEN {s}
    ELSE LET drained == [s EXCEPT !.timers = @ \ {"agentDrain"}]
             asking == [drained EXCEPT !.timers = (@ \ {"readiness"}) \cup ShutdownTimer,
                                       !.shutdownRequested = TRUE]
         IN  IF SavesInFlight(s) \/ s.process = None \/ s.shutdownRequested THEN {drained}
             ELSE {[asking EXCEPT !.inbox = Append(@, "shutdown")]} \cup
                  (IF "transport" \in Faults
                   THEN {KillReplacement([asking EXCEPT !.phase = "unavailable"])} ELSE {})

-----------------------------------------------------------------------------
(* The handlers of the supervisor.                                           *)

\* The application starts the supervisor once.
Begin ==
    /\ sup.phase = "stopped" /\ ~sup.closing
    /\ Start(sup, streak) /\ UNCHANGED <<executed, restarts>>

RetryFires ==
    /\ "retry" \in sup.timers
    /\ Start([sup EXCEPT !.timers = @ \ {"retry"}], streak) /\ UNCHANGED <<executed, restarts>>

StableFires ==
    /\ "stable" \in sup.timers /\ sup.generation < MaxLaunches
    /\ sup' = [sup EXCEPT !.attempts = 0, !.timers = @ \ {"stable"}]
    /\ streak' = IF sup.process # None THEN 0 ELSE streak
    /\ UNCHANGED <<core, alive, executed, restarts>>

ReadinessFires ==
    /\ "readiness" \in sup.timers
    /\ sup' = FailProcess(sup)
    /\ UNCHANGED <<core, alive, executed, restarts, streak>>

\* The exit event of the process.  Mutant: the stable timer outlives it.
TimersOfProcessBug == ReplacementTimers \cup {"readiness"}
TimersOfProcess == ReplacementTimers \cup {"readiness", "stable"}
Exit ==
    /\ sup.process # None /\ sup.process \notin alive
    /\ LET gone == SettleAll([sup EXCEPT !.process = None, !.timers = @ \ TimersOfProcess,
                                !.shutdownRequested = FALSE, !.killRequested = FALSE,
                                !.inbox = <<>>, !.dying = FALSE])
       IN  \/ gone.closing /\ sup' = gone /\ core' = Silent /\ UNCHANGED <<alive, streak>>
           \/ /\ ~gone.closing /\ gone.replace
              /\ Start([gone EXCEPT !.replace = FALSE], streak)
           \/ /\ ~gone.closing /\ ~gone.replace
              /\ sup' = Retry(gone) /\ core' = Silent /\ UNCHANGED <<alive, streak>>
    /\ UNCHANGED <<executed, restarts>>

Restart ==
    /\ sup.phase # "stopped" /\ restarts < MaxRestarts /\ sup.generation < MaxLaunches
    /\ ~sup.closing /\ ~sup.replace
    /\ restarts' = restarts + 1
    /\ LET forgiven == [sup EXCEPT !.attempts = 0, !.timers = @ \ {"retry"}]
           reads == {r \in sup.pending : ~Uncertain(r)}
           draining == Settle([forgiven EXCEPT !.replace = TRUE, !.phase = "draining"], reads, "RETRY")
           bounded == IF HasAgentMutations(draining)
                      THEN [draining EXCEPT !.timers = @ \cup {"agentDrain"}] ELSE draining
       IN  \/ sup.process = None /\ Start(forgiven, 0)
           \/ /\ sup.process # None
              /\ sup' \in FinishDrain(bounded) /\ streak' = 0
              /\ UNCHANGED <<core, alive>>
    /\ UNCHANGED executed

AgentDrainFires ==
    /\ "agentDrain" \in sup.timers
    /\ sup' \in FinishDrain(Settle([sup EXCEPT !.timers = @ \ {"agentDrain"}], Agents, "RETRY"))
    /\ UNCHANGED <<core, alive, executed, restarts, streak>>

ShutdownFires ==
    /\ "shutdown" \in sup.timers
    /\ sup' = KillReplacement([sup EXCEPT !.phase = "unavailable"])
    /\ UNCHANGED <<core, alive, executed, restarts, streak>>

Admits == sup.phase = "ready"
Request(r) ==
    /\ Admits /\ sup.process # None /\ ~sup.closing
    /\ r \notin sup.pending /\ sup.answer[r] = "none"
    /\ LET waiting == [sup EXCEPT !.pending = @ \cup {r}]
       IN  \/ sup' = [waiting EXCEPT !.inbox = Append(@, r)]
           \/ "transport" \in Faults /\ sup' = Settle(waiting, {r}, "CORE_UNAVAILABLE")
    /\ UNCHANGED <<core, alive, executed, restarts, streak>>

\* The deadline of a request.
HasDeadline(r) == r \notin Saves
Deadline(r) ==
    /\ r \in sup.pending /\ HasDeadline(r)
    /\ sup' \in FinishDrain(Settle(sup, {r}, "RETRY"))
    /\ UNCHANGED <<core, alive, executed, restarts, streak>>

\* A message of the process that is still held.
Message ==
    /\ sup.process # None /\ core.outbox # <<>>
    /\ core' = [core EXCEPT !.outbox = Tail(@)]
    /\ LET m == Head(core.outbox)
       IN  \/ sup.closing /\ UNCHANGED sup
           \/ /\ ~sup.closing /\ m.type = "shutdown.ready"
              /\ sup' = IF sup.replace /\ sup.shutdownRequested THEN KillReplacement(sup) ELSE sup
           \/ /\ ~sup.closing /\ m.type = "ready"
              /\ sup' = IF sup.phase # "starting" THEN sup
                        ELSE [sup EXCEPT !.phase = "ready",
                                         !.timers = (@ \ {"readiness"}) \cup {"stable"}]
           \/ /\ ~sup.closing /\ m.type = "failed" /\ sup' = FailProcess(sup)
           \/ /\ ~sup.closing /\ m.type = "response" /\ m.body # "garbage"
              /\ sup' \in FinishDrain(IF m.id \in sup.pending
                                      THEN [sup EXCEPT !.pending = @ \ {m.id}, !.answer[m.id] = m.body]
                                      ELSE sup)
           \/ /\ ~sup.closing /\ m.type = "response" /\ m.body = "garbage"
              /\ sup' \in FinishDrain(Settle(sup, {m.id}, "INVALID_CORE_MESSAGE"))
    /\ UNCHANGED <<alive, executed, restarts, streak>>

Stop ==
    /\ ~sup.closing
    /\ sup' = Kill(SettleAll([sup EXCEPT !.closing = TRUE, !.replace = FALSE,
                                        !.phase = "stopped", !.timers = {}]))
    /\ UNCHANGED <<core, alive, executed, restarts, streak>>

-----------------------------------------------------------------------------
(* The core process.                                                         *)

Running == sup.process \in alive
Say(m) == [core EXCEPT !.outbox = Append(@, m)]

\* The workspace opens, or fails to; a shutdown meanwhile may make it fail.
CoreOpens ==
    /\ Running /\ core.stage \in {"opening", "stopping"} /\ ~core.ready /\ ~core.broken
    /\ core' = [Say([type |-> "ready"]) EXCEPT !.ready = TRUE,
                  !.stage = IF @ = "opening" THEN "open" ELSE @]
    /\ UNCHANGED <<sup, alive, executed, restarts, streak>>
CoreBreaks ==
    /\ Running /\ ~core.broken
    /\ "broken" \in Faults \/ (core.stage = "stopping" /\ ~core.ready)
    /\ core' = [Say([type |-> "failed"]) EXCEPT !.broken = TRUE]
    /\ UNCHANGED <<sup, alive, executed, restarts, streak>>

\* The router takes a message: after core.shutdown it turns requests away.
CoreTakes ==
    /\ Running /\ sup.inbox # <<>>
    /\ sup' = [sup EXCEPT !.inbox = Tail(@)]
    /\ LET m == Head(sup.inbox)
       IN  core' = IF m = "shutdown" THEN [core EXCEPT !.stage = "stopping"]
                   ELSE IF core.stage \in {"stopping", "closed"}
                   THEN Say([type |-> "response", id |-> m, body |-> "error"])
                   ELSE [core EXCEPT !.working = @ \cup {m}]
    /\ UNCHANGED <<alive, executed, restarts, streak>>

CoreActs(r) ==
    /\ Running /\ r \in core.working /\ r \notin executed /\ r \notin Reads
    /\ executed' = executed \cup {r}
    /\ UNCHANGED <<sup, core, alive, restarts, streak>>

\* The answer to a request: done, an error of its own before any effect, or a
\* message that does not parse as the answer to it.
CoreAnswers(r) ==
    /\ Running /\ r \in core.working
    /\ \E body \in {"done", "error", "garbage"} :
         /\ body = "done" => r \in executed \cup Reads
         /\ body = "error" => r \notin executed
         /\ body = "garbage" => "garbage" \in Faults
         /\ core' = [Say([type |-> "response", id |-> r, body |-> body]) EXCEPT !.working = @ \ {r}]
    /\ UNCHANGED <<sup, alive, executed, restarts, streak>>

CoreConfirmsShutdown ==
    /\ Running /\ core.stage = "stopping" /\ (core.ready \/ core.broken)
    /\ core' = [Say([type |-> "shutdown.ready"]) EXCEPT !.stage = "closed"]
    /\ UNCHANGED <<sup, alive, executed, restarts, streak>>

CoreKilled(g) ==
    /\ g \in alive /\ g = sup.process => sup.dying
    /\ alive' = alive \ {g}
    /\ UNCHANGED <<sup, core, executed, restarts, streak>>
CoreCrashes ==
    /\ "crash" \in Faults /\ Running /\ ~sup.dying
    /\ alive' = alive \ {sup.process}
    /\ UNCHANGED <<sup, core, executed, restarts, streak>>

-----------------------------------------------------------------------------
Timers == RetryFires \/ StableFires \/ ReadinessFires \/ AgentDrainFires \/ ShutdownFires
Next ==
    \/ Begin \/ Timers \/ Exit \/ Restart \/ Message \/ Stop
    \/ \E r \in Requests : Request(r) \/ Deadline(r)
    \/ CoreOpens \/ CoreBreaks \/ CoreTakes \/ CoreConfirmsShutdown \/ CoreCrashes
    \/ \E r \in Requests : CoreActs(r) \/ CoreAnswers(r)
    \/ \E g \in alive : CoreKilled(g)
Spec == Init /\ [][Next]_vars

\* Timers fire, an exit is reported, and a killed process ends.  Nothing is
\* assumed of a core that was not killed: it may hang in any stage.
Fairness ==
    /\ WF_vars(Exit) /\ WF_vars(ReadinessFires)
    /\ WF_vars(AgentDrainFires) /\ WF_vars(ShutdownFires)
    /\ \A r \in Requests : WF_vars(Deadline(r))
    /\ WF_vars(\E g \in alive : CoreKilled(g))
FairSpec == Spec /\ Fairness

-----------------------------------------------------------------------------
(* Properties.                                                               *)

Answers == {"none", "done", "error", "RETRY", "CORE_UNAVAILABLE", "INVALID_CORE_MESSAGE",
            "AGENT_OUTCOME_UNKNOWN", "WRITE_OUTCOME_UNKNOWN"}
Generations == 0..(MaxLaunches + Delays + 1)

\* The types, and that only an unanswered request is pending.
TypeOK ==
    /\ sup \in [phase : {"stopped", "starting", "ready", "unavailable", "draining", "failed"},
                generation : Generations, process : Generations, closing : BOOLEAN,
                replace : BOOLEAN, attempts : 0..(Delays + 1),
                timers : SUBSET {"retry", "stable", "readiness", "agentDrain", "shutdown"},
                pending : SUBSET Requests, answer : [Requests -> Answers],
                shutdownRequested : BOOLEAN, killRequested : BOOLEAN,
                inbox : Seq(Requests \cup {"shutdown"}), dying : BOOLEAN]
    /\ \A r \in sup.pending : sup.answer[r] = "none"
    /\ alive \subseteq Generations /\ executed \subseteq Requests
    /\ core.working \subseteq Requests

\* A replacement is never launched until the previous process exited: every
\* core process alive is the one the supervisor holds.
OneCore == alive \subseteq {sup.process}

\* Recovery never gets lost: without a process, and unless the application is
\* stopping, a retry is armed or the supervisor has declared itself failed.
RecoveryScheduled ==
    sup.process = None /\ sup.phase # "stopped" =>
        (sup.phase = "failed") # ("retry" \in sup.timers)

\* A core that keeps dying is launched at most four times in a row, whether or
\* not each of them got as far as core.ready.
CrashLoopBounded == streak <= Delays + 1

\* A core that fails is replaced by one and only one, within bounds (and the types hold).
RecoveryHolds == TypeOK /\ OneCore /\ RecoveryScheduled /\ CrashLoopBounded

\* While a save or an agent command awaits its answer the replacement neither
\* asks the core to shut down nor kills it.
MutationsHoldReplacement ==
    sup.shutdownRequested \/ sup.killRequested => sup.pending \cap (Saves \cup Agents) = {}

\* A mutation that reached the core, or may have, is never answered with a code
\* that reads as "it did not happen": its answer is the core's own or unknown.
MutationsStayUncertain ==
    \A r \in Saves \cup Agents :
        sup.answer[r] \in {"none", "done", "error", UncertainMutationCode(r)}

\* A mutation in flight is waited for, and where that fails nobody is told it did not happen.
MutationsAreSafe == MutationsHoldReplacement /\ MutationsStayUncertain

\* What was told to retry "the read" (core-supervisor.ts:102, 205) had no effect.
RetryIsForReads == \A r \in Requests : sup.answer[r] = "RETRY" => r \notin executed

\* A rebuild that waits for no save replaces the core, also one that hangs.
RestartEnds == sup.replace /\ sup.pending \cap Saves = {} ~> ~sup.replace

\* No core process outlives the application's stop.
StopEnds == sup.closing ~> alive = {}

\* The two together: a core that was asked to go goes.
CoresEnd == RestartEnds /\ StopEnds
=============================================================================
