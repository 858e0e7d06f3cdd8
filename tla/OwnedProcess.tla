---------------------------- MODULE OwnedProcess ----------------------------
(***************************************************************************)
(* The lifetime boundary of a provider process: the transport in the core  *)
(* (core/agents/owner.ts), the guardian process beside it and the init of  *)
(* a private PID namespace (both core/agents/owner-process.mjs).  Between  *)
(* guardian and init stands the unshare wrapper, with the kernel's rules   *)
(* for parent-death signals and for the end of a PID namespace.            *)
(*                                                                         *)
(*   core --control--> guardian --inner--> init --> provider               *)
(*   core <--status--- guardian <--report-- init                           *)
(*                                                                         *)
(* Timers fire at any time once armed: no property rests on their lengths. *)
(***************************************************************************)
EXTENDS Sequences

CONSTANT Faults   \* the failures that may happen, a subset of AllFaults
AllFaults == {"core", "guardian", "init", "guardianHangs", "initHangs", "signal", "tool"}
ASSUME FaultsAssumption == Faults \subseteq AllFaults

VARIABLES
    core,       \* the transport: the state of createOwnedCodexTransport
    guardian,   \* the guardian: running or its exit code, and its flags
    wrapper,    \* "unborn", "fresh", "armed" (PDEATHSIG set) or its exit code
    init,       \* "unborn", "waiting", "serving", "stopping" or its exit code
    provider,   \* "none", "running", "ended" or "reported" (its exit seen by init)
    others,     \* descendants of the provider are alive
    hung,       \* processes that no longer respond
    control, status, inner, report   \* the pipes

pipes == <<control, status, inner, report>>
ownedVars == <<core, guardian, wrapper, init, provider, others, hung, pipes>>

Codes == {"zero", "other"}     \* exit codes: success, or failure or signal
Family == provider = "running" \/ others
Running(process) == process \notin Codes

OwnedInit ==
    /\ core = [alive |-> TRUE, ready |-> FALSE, closing |-> FALSE, invalid |-> FALSE,
               sentExit |-> FALSE, cleanup |-> "none", result |-> "pending"]
    /\ guardian = [state |-> "running", ready |-> FALSE, stopping |-> FALSE,
                   invalid |-> FALSE, exited |-> FALSE, timer |-> "off"]
    /\ wrapper = "unborn" /\ init = "unborn" /\ provider = "none"
    /\ others = FALSE /\ hung = {}
    /\ control = <<>> /\ status = <<>> /\ inner = <<>> /\ report = <<>>

-----------------------------------------------------------------------------
(* The core.                                                                 *)

\* close(): end the control pipe once; do not kill the guardian.
Closing(c) == [c EXCEPT !.closing = TRUE]
EndControl == control' = IF core.closing THEN control ELSE Append(control, "end")
TransportFault(c) == Closing([c EXCEPT !.invalid = TRUE])

\* Mutant: the first verdict does not settle the promise for good.
SettledBug(c, verdict) == [c EXCEPT !.result = verdict]
Settled(c, verdict) == IF c.result = "pending" THEN [c EXCEPT !.result = verdict] ELSE c

CoreCloses ==
    /\ core.alive /\ ~core.closing
    /\ core' = Closing(core) /\ EndControl
    /\ UNCHANGED <<guardian, wrapper, init, provider, others, hung, status, inner, report>>

\* A status message is the one expected, or a fault.
CoreReceives ==
    /\ core.alive /\ status # <<>>
    /\ status' = Tail(status)
    /\ LET m == Head(status)
       IN \/ /\ m = "ready" /\ ~core.ready /\ ~core.invalid
             /\ core' = [core EXCEPT !.ready = TRUE]
             /\ control' = IF core.closing THEN control ELSE Append(control, "start")
          \/ /\ m = "exit" /\ core.ready /\ ~core.sentExit /\ ~core.invalid
             /\ core' = [core EXCEPT !.sentExit = TRUE] /\ UNCHANGED control
          \/ /\ m \in {"confirmed", "unknown"} /\ core.cleanup = "none" /\ ~core.invalid
             /\ m = "confirmed" => core.ready
             /\ core' = [core EXCEPT !.cleanup = m] /\ UNCHANGED control
          \/ /\ \/ core.invalid
                \/ m = "ready" /\ core.ready
                \/ m = "exit" /\ (~core.ready \/ core.sentExit)
                \/ m \in {"confirmed", "unknown"} /\ core.cleanup # "none"
                \/ m = "confirmed" /\ ~core.ready
             /\ core' = TransportFault(core) /\ EndControl
    /\ UNCHANGED <<guardian, wrapper, init, provider, others, hung, inner, report>>

\* A pipe whose other end is gone reports an error.
CoreStreamFails ==
    /\ core.alive /\ ~Running(guardian.state)
    /\ ~core.invalid
    /\ core' = TransportFault(core) /\ EndControl
    /\ UNCHANGED <<guardian, wrapper, init, provider, others, hung, status, inner, report>>

Overdue == core.closing

CoreTimesOut ==
    /\ core.alive /\ Overdue /\ core.result = "pending"
    /\ core' = Settled(core, "unknown")
    /\ UNCHANGED <<guardian, wrapper, init, provider, others, hung, pipes>>

\* The verdict of the transport on the guardian's end.
Verdict ==
    IF ~core.invalid /\ guardian.state = "zero" /\ core.cleanup = "confirmed"
    THEN "confirmed" ELSE "unknown"

\* The guardian's end, once no process holds its output pipes and all of its
\* status was read.
PipesReleased == ~Running(guardian.state) /\ wrapper \in Codes \cup {"unborn"} /\ status = <<>>
CoreSeesGuardianEnd ==
    /\ core.alive /\ PipesReleased
    /\ core.result = "pending" \/ ~core.sentExit
    /\ core' = Settled([core EXCEPT !.sentExit = TRUE], Verdict)
    /\ UNCHANGED <<guardian, wrapper, init, provider, others, hung, pipes>>

CoreDies ==
    /\ "core" \in Faults /\ core.alive
    /\ core' = [core EXCEPT !.alive = FALSE] /\ EndControl
    /\ UNCHANGED <<guardian, wrapper, init, provider, others, hung, status, inner, report>>

-----------------------------------------------------------------------------
(* The guardian.                                                             *)

Guarding == guardian.state = "running" /\ wrapper # "unborn" /\ "guardian" \notin hung

Stopping(g) ==
    IF g.stopping THEN g ELSE [g EXCEPT !.stopping = TRUE, !.timer = "grace"]
EndInner == inner' = IF guardian.stopping THEN inner ELSE Append(inner, "end")
Tell(m) == status' = IF core.alive THEN Append(status, m) ELSE status

\* SIGKILL to the wrapper: an armed one takes init with it.  Mutant: unshare
\* without --kill-child.
WrapperKilledBug == wrapper' = (IF wrapper = "zero" THEN "zero" ELSE "other") /\ UNCHANGED init
WrapperKilled ==
    /\ wrapper' = IF wrapper = "zero" THEN "zero" ELSE "other"
    /\ init' = IF wrapper = "armed" /\ Running(init) /\ init # "unborn" THEN "other" ELSE init

\* The guardian spawns the wrapper, or ends at once on a bad configuration.
GuardianBegins ==
    /\ guardian.state = "running" /\ wrapper = "unborn" /\ "guardian" \notin hung
    /\ \/ wrapper' = "fresh" /\ UNCHANGED <<guardian, inner>>
       \/ "tool" \in Faults /\ wrapper' = "other"
            /\ guardian' = Stopping([guardian EXCEPT !.invalid = TRUE]) /\ EndInner
       \/ "tool" \in Faults /\ guardian' = [guardian EXCEPT !.state = "other"]
            /\ UNCHANGED <<wrapper, inner>>
    /\ UNCHANGED <<core, init, provider, others, hung, control, status, report>>

GuardianObeys ==
    /\ Guarding /\ control # <<>>
    /\ control' = Tail(control)
    /\ \/ /\ Head(control) = "start" /\ guardian.ready /\ ~guardian.stopping
          /\ inner' = Append(inner, "start") /\ UNCHANGED guardian
       \/ /\ Head(control) = "start" /\ (~guardian.ready \/ guardian.stopping)
          /\ guardian' = Stopping([guardian EXCEPT !.invalid = TRUE]) /\ EndInner
       \/ /\ Head(control) = "end"
          /\ guardian' = Stopping(guardian) /\ EndInner
    /\ UNCHANGED <<core, wrapper, init, provider, others, hung, status, report>>

\* SIGTERM to the guardian, or an error of the pipe to a dead init.
GuardianSignalled ==
    /\ Guarding
    /\ \/ "signal" \in Faults /\ ~guardian.stopping /\ guardian' = Stopping(guardian)
       \/ wrapper \in Codes /\ ~guardian.invalid
            /\ guardian' = Stopping([guardian EXCEPT !.invalid = TRUE])
    /\ EndInner
    /\ UNCHANGED <<core, wrapper, init, provider, others, hung, control, status, report>>

\* Mutant: readiness of the namespace starts the provider without the core.
AtReadyBug == inner' = Append(inner, "start")
AtReady == UNCHANGED inner

GuardianHears ==
    /\ Guarding /\ report # <<>>
    /\ report' = Tail(report)
    /\ LET m == Head(report)
       IN \/ /\ m = "ready" /\ ~guardian.ready /\ ~guardian.invalid
             /\ guardian' = [guardian EXCEPT !.ready = TRUE] /\ Tell("ready") /\ AtReady
          \/ /\ m = "exit" /\ guardian.ready /\ ~guardian.exited /\ ~guardian.invalid
             /\ guardian' = [guardian EXCEPT !.exited = TRUE] /\ Tell("exit")
             /\ UNCHANGED inner
          \/ /\ \/ guardian.invalid \/ m = "junk"
                \/ m = "ready" /\ guardian.ready
                \/ m = "exit" /\ (~guardian.ready \/ guardian.exited)
             /\ guardian' = Stopping([guardian EXCEPT !.invalid = TRUE]) /\ EndInner
             /\ UNCHANGED status
    /\ UNCHANGED <<core, wrapper, init, provider, others, hung, control>>

\* The grace passed: kill the wrapper.  Then give up.
GuardianKills ==
    /\ Guarding /\ guardian.timer = "grace"
    /\ guardian' = [guardian EXCEPT !.invalid = TRUE, !.timer = "final"]
    /\ WrapperKilled
    /\ UNCHANGED <<core, provider, others, hung, pipes>>

GuardianGivesUp ==
    /\ Guarding /\ guardian.timer = "final"
    /\ guardian' = [guardian EXCEPT !.state = "other", !.timer = "off"]
    /\ Tell("unknown")
    /\ UNCHANGED <<core, wrapper, init, provider, others, hung, control, inner, report>>

\* The wrapper's normal end is the proof of cleanup; a forced one is not.
Proof == guardian.ready /\ ~guardian.invalid /\ wrapper = "zero"

GuardianReports ==
    /\ Guarding /\ wrapper \in Codes /\ report = <<>>
    /\ Tell(IF Proof THEN "confirmed" ELSE "unknown")
    /\ guardian' = [guardian EXCEPT !.state = "zero", !.timer = "off"]
    /\ UNCHANGED <<core, wrapper, init, provider, others, hung, control, inner, report>>

\* The kernel closes the guardian's pipes and signals an armed wrapper.
GuardianDies ==
    /\ "guardian" \in Faults /\ guardian.state = "running"
    /\ guardian' = [guardian EXCEPT !.state = "other", !.timer = "off"]
    /\ EndInner
    /\ IF wrapper = "armed" THEN WrapperKilled ELSE UNCHANGED <<wrapper, init>>
    /\ UNCHANGED <<core, provider, others, hung, control, status, report>>

Hangs ==
    /\ \/ "guardianHangs" \in Faults /\ guardian.state = "running" /\ hung' = hung \cup {"guardian"}
       \/ "initHangs" \in Faults /\ Running(init) /\ init # "unborn" /\ hung' = hung \cup {"init"}
    /\ UNCHANGED <<core, guardian, wrapper, init, provider, others, pipes>>

-----------------------------------------------------------------------------
(* The wrapper: setpriv sets the parent-death signal, unshare forks init and *)
(* waits for it.                                                             *)

WrapperArms ==
    /\ wrapper = "fresh" /\ wrapper' = "armed"
    /\ UNCHANGED <<core, guardian, init, provider, others, hung, pipes>>

\* The tool fails, or is not the tool it should be.
WrapperFails ==
    /\ "tool" \in Faults /\ wrapper \in {"fresh", "armed"} /\ init = "unborn"
    /\ \/ wrapper' \in Codes /\ UNCHANGED report
       \/ report = <<>> /\ \E m \in {"exit", "junk"} : report' = <<m>> /\ UNCHANGED wrapper
    /\ UNCHANGED <<core, guardian, init, provider, others, hung, control, status, inner>>

WrapperReaps ==
    /\ wrapper = "armed" /\ init \in Codes /\ ~Family
    /\ wrapper' = init
    /\ UNCHANGED <<core, guardian, init, provider, others, hung, pipes>>

-----------------------------------------------------------------------------
(* The init of the namespace and what runs in it.                            *)

InitBegins ==
    /\ wrapper = "armed" /\ init = "unborn"
    /\ init' = "waiting" /\ report' = Append(report, "ready")
    /\ UNCHANGED <<core, guardian, wrapper, provider, others, hung, control, status, inner>>

\* start spawns the provider, unless init stops already; the end of the pipe
\* stops it, at once when there is no child.
InitObeys ==
    /\ init \in {"waiting", "serving", "stopping"} /\ "init" \notin hung /\ inner # <<>>
    /\ inner' = Tail(inner)
    /\ \/ /\ Head(inner) = "start" /\ init = "waiting"
          /\ \/ init' = "serving" /\ provider' = "running" /\ UNCHANGED report
             \/ init' = "stopping" /\ provider' = "reported" /\ report' = Append(report, "exit")
       \/ /\ Head(inner) = "end" \/ init # "waiting"
          /\ init' = IF init = "waiting" THEN "zero" ELSE "stopping"
          /\ UNCHANGED <<provider, report>>
    /\ UNCHANGED <<core, guardian, wrapper, others, hung, control, status>>

InitSeesExit ==
    /\ init \in {"serving", "stopping"} /\ "init" \notin hung /\ provider = "ended"
    /\ provider' = "reported" /\ report' = Append(report, "exit") /\ init' = "stopping"
    /\ UNCHANGED <<core, guardian, wrapper, others, hung, control, status, inner>>

\* The grace passed, or the broadcast of SIGTERM failed.
InitExits ==
    /\ init = "stopping" /\ "init" \notin hung
    /\ init' \in Codes
    /\ UNCHANGED <<core, guardian, wrapper, provider, others, hung, pipes>>

InitDies ==
    /\ "init" \in Faults /\ init \in {"waiting", "serving", "stopping"}
    /\ init' = "other"
    /\ UNCHANGED <<core, guardian, wrapper, provider, others, hung, pipes>>

\* The provider spawns, and the family ends: by itself, by SIGTERM, or with init.
ProviderMoves ==
    /\ Family
    /\ \/ provider = "running" /\ init \notin Codes /\ others' = TRUE /\ UNCHANGED provider
       \/ provider = "running" /\ provider' = "ended" /\ UNCHANGED others
       \/ others' = FALSE /\ UNCHANGED provider
    /\ UNCHANGED <<core, guardian, wrapper, init, hung, pipes>>

KernelKills ==
    /\ init \in Codes /\ Family
    /\ provider' = IF provider = "running" THEN "ended" ELSE provider
    /\ others' = FALSE
    /\ UNCHANGED <<core, guardian, wrapper, init, hung, pipes>>

-----------------------------------------------------------------------------
CoreSteps == CoreReceives \/ CoreTimesOut \/ CoreSeesGuardianEnd
GuardianSteps ==
    \/ GuardianBegins \/ GuardianObeys \/ GuardianHears
    \/ GuardianKills \/ GuardianGivesUp \/ GuardianReports
WrapperSteps == WrapperArms \/ WrapperReaps \/ InitBegins
InitSteps == InitObeys \/ InitSeesExit \/ InitExits

OwnedNext ==
    \/ CoreSteps \/ CoreCloses \/ CoreStreamFails \/ CoreDies
    \/ GuardianSteps \/ GuardianSignalled \/ GuardianDies \/ Hangs
    \/ WrapperSteps \/ WrapperFails
    \/ InitSteps \/ InitDies \/ ProviderMoves \/ KernelKills

OwnedSpec == OwnedInit /\ [][OwnedNext]_ownedVars

\* Every live process and the kernel take the steps they can take; nobody has
\* to close, to fail or to stay up.
FairOwnedSpec ==
    /\ OwnedSpec
    /\ WF_ownedVars(CoreReceives) /\ WF_ownedVars(CoreTimesOut) /\ WF_ownedVars(CoreSeesGuardianEnd)
    /\ WF_ownedVars(GuardianSteps) /\ WF_ownedVars(GuardianObeys) /\ WF_ownedVars(GuardianKills)
    /\ WF_ownedVars(WrapperSteps) /\ WF_ownedVars(InitSteps) /\ WF_ownedVars(KernelKills)
-----------------------------------------------------------------------------
TypeOK ==
    /\ core \in [alive : BOOLEAN, ready : BOOLEAN, closing : BOOLEAN, invalid : BOOLEAN,
                 sentExit : BOOLEAN, cleanup : {"none", "confirmed", "unknown"},
                 result : {"pending", "confirmed", "unknown"}]
    /\ guardian \in [state : {"running"} \cup Codes, ready : BOOLEAN, stopping : BOOLEAN,
                     invalid : BOOLEAN, exited : BOOLEAN, timer : {"off", "grace", "final"}]
    /\ wrapper \in {"unborn", "fresh", "armed"} \cup Codes
    /\ init \in {"unborn", "waiting", "serving", "stopping"} \cup Codes
    /\ provider \in {"none", "running", "ended", "reported"} /\ others \in BOOLEAN
    /\ hung \subseteq {"guardian", "init"}
    /\ control \in Seq({"start", "end"}) /\ inner \in Seq({"start", "end"})
    /\ status \in Seq({"ready", "exit", "confirmed", "unknown"})
    /\ report \in Seq({"ready", "exit", "junk"})

\* owner.ts:31: init cannot launch the provider until the transport received
\* ready and sent start; a transport closed before that never runs it.
ClosedEarlyNeverRuns == [](core.closing /\ ~core.ready => [](provider = "none"))

\* The transport implements the lease its callers rely on: above all, the confirmation that
\* lets another launch go ahead (owner.ts:27) is given only when the family is gone.
Held == IF Family THEN "running"
        ELSE IF provider # "none" \/ init \in Codes \/ wrapper \in Codes THEN "released"
        ELSE "idle"
Lease == INSTANCE ProviderLease WITH held <- Held, verdict <- core.result
ImplementsLease == Lease!Spec /\ []TypeOK

\* When the core or the guardian is gone the family ends, whatever of the two
\* comes first and at whatever point of the start.  A guardian that hangs keeps
\* the pipes open, and nobody else kills the family.
LifetimeBound ==
    ~core.alive \/ guardian.state # "running" ~> ~Family \/ "guardian" \in hung

\* close() is answered, also when guardian or init no longer respond.
CloseSettles == core.closing ~> core.result # "pending" \/ ~core.alive

\* The family ends and its end is answered.
EndsAndAnswers == LifetimeBound /\ CloseSettles
=============================================================================
