---------------------------- MODULE TargetBuilds ----------------------------
(***************************************************************************)
(* Builds and tests of one worktree: the service that admits one job at a  *)
(* time (core/build-jobs.ts), the executor and the collector that run it   *)
(* in an owned process (core/target-build-process.ts), and the window that *)
(* starts, cancels and polls (use-target-builds.ts of the renderer).       *)
(*                                                                         *)
(* The process of a job is a lease of module ProviderLease: held[j] is its *)
(* family, run.verdict its verdict; its owner's other events are an exit   *)
(* code, the end of the output and a fault.                                *)
(***************************************************************************)
EXTENDS Naturals, FiniteSets

CONSTANTS MaxJobs,   \* jobs that are admitted
          MaxLost,   \* replies the window does not get
          MaxClicks  \* starts and cancels by the user
ASSUME BoundsAreNat == MaxJobs \in Nat \ {0} /\ MaxLost \in Nat /\ MaxClicks \in Nat

Jobs == 1..MaxJobs
VARIABLES
    service,   \* TargetBuildService, and the executor's own block
    job,       \* per job: status, cleanup and exit code, as the window is told
    run,       \* the running job: its phase, its abort signal, the collector
    held,      \* per job: its process family, "none" or as in ProviderLease
    window,    \* useTargetBuilds: what it shows, its read, its mutation, its timer
    clicks, lost

vars == <<service, job, run, held, window, clicks, lost>>

Finished == {"succeeded", "failed", "cancelled"}
Idle == [phase |-> "none", aborted |-> FALSE, finishing |-> FALSE, error |-> FALSE,
         closing |-> FALSE, exit |-> "none", eof |-> FALSE, verdict |-> "pending"]
NoRequest == [at |-> "none", answer |-> 0, status |-> "none", fresh |-> TRUE, kind |-> "observe"]

Init ==
    /\ service = [last |-> 0, active |-> FALSE, blocked |-> FALSE, executorBlocked |-> FALSE, disposed |-> "no"]
    /\ job = [j \in Jobs |-> [status |-> "none", cleanup |-> "pending", exit |-> "none"]]
    /\ run = Idle /\ held = [j \in Jobs |-> "none"]
    /\ window = [shown |-> 0, status |-> "none", timer |-> FALSE, again |-> FALSE,
                 read |-> [NoRequest EXCEPT !.at = "sent"], mutation |-> NoRequest]
    /\ clicks = 0 /\ lost = 0

-----------------------------------------------------------------------------
(* The executor: what it checks before a process exists, the collector, what *)
(* it checks after.                                                          *)

Now == service.last
Core == <<service, job>>
Outside == <<window, clicks, lost>>

\* The job is over.  A rejection counts as one from before the launch.
Settle(status, cleanup, exit) ==
    /\ job' = [job EXCEPT ![Now] = [status |-> status, cleanup |-> cleanup, exit |-> exit]]
    /\ service' = [service EXCEPT !.active = FALSE, !.blocked = @ \/ cleanup # "confirmed"]
    /\ run' = Idle

Rejected == Settle(IF run.aborted THEN "cancelled" ELSE "failed", "confirmed", "none")

\* A tool, a runtime or a directory is missing, or an earlier cleanup is unresolved.
PrepareFails ==
    /\ run.phase = "prepare" /\ Rejected
    /\ UNCHANGED <<held, Outside>>

\* The executor refuses while an earlier family may still run.
\* Mutant: it relies on the service, which believed a rejection.
FreeBug == ~service.blocked

Free == ~service.executorBlocked

Connect ==
    /\ run.phase = "prepare" /\ Free
    /\ IF run.aborted
       THEN Settle("cancelled", "confirmed", "none") /\ UNCHANGED held
       ELSE /\ run' = [run EXCEPT !.phase = "collect"]
            /\ held' = [held EXCEPT ![Now] = "idle"]
            /\ UNCHANGED Core
    /\ UNCHANGED Outside

\* What the collector makes of an event: it closes the process once it has
\* exited or must finish, and finishes when the conditions hold.
Collects(r) ==
    LET exited == r.exit # "none"
        ends == r.finishing \/ (exited /\ (r.eof \/ r.verdict = "unknown"))
    IN  /\ run' = [r EXCEPT !.finishing = ends, !.closing = @ \/ exited \/ ends]
        /\ UNCHANGED <<Core, held, Outside>>

\* Mutant: a fault is recorded, and the collector goes on.
FaultBug(r) == [r EXCEPT !.error = TRUE]

Fault(r) == [r EXCEPT !.finishing = TRUE, !.error = TRUE]

Collecting == run.phase = "collect"

ProcessExits(code) ==
    /\ Collecting /\ held[Now] \in {"running", "released"} /\ run.exit = "none" /\ run.verdict = "pending"
    /\ Collects([run EXCEPT !.exit = code])

\* The guardian ends the output only after the control pipe is closed.
OutputEnds ==
    /\ Collecting /\ ~run.eof /\ (run.closing \/ run.verdict # "pending")
    /\ Collects([run EXCEPT !.eof = TRUE])

ProcessFaults == Collecting /\ run.verdict = "pending" /\ Collects(Fault(run))

\* The time limit, or the limit on the output.
Overruns == Collecting /\ Collects(Fault(run))

\* The verdict of the lease: with the end of the guardian, which also reports an
\* exit, or by the transport's own deadline after a close.
GivesVerdict(v) ==
    /\ Collecting /\ run.verdict = "pending"
    /\ v = "confirmed" => held[Now] = "released"
    /\ \/ Collects([run EXCEPT !.verdict = v, !.exit = IF @ = "none" THEN "null" ELSE @])
       \/ v = "unknown" /\ run.closing /\ Collects([run EXCEPT !.verdict = v])

\* A process family runs and ends when it likes, also one that was given up.
FamilyMoves(j) ==
    /\ \/ held[j] = "idle" /\ held' = [held EXCEPT ![j] = "running"]
       \/ held[j] \in {"idle", "running"} /\ held' = [held EXCEPT ![j] = "released"]
    /\ UNCHANGED <<service, job, run, Outside>>

Collected ==
    /\ Collecting /\ run.finishing /\ run.verdict # "pending"
    /\ run' = [run EXCEPT !.phase = "after", !.closing = TRUE, !.eof = TRUE]
    /\ service' = [service EXCEPT !.executorBlocked = run.verdict # "confirmed"]
    /\ UNCHANGED <<job, held, Outside>>

\* The result, to which a look at the project may have added an error.
\* Mutant: the exit code is enough.
OutcomeBug(error) ==
    IF run.aborted THEN "cancelled"
    ELSE IF run.exit = "zero" /\ ~error THEN "succeeded" ELSE "failed"

Outcome(error) ==
    IF run.verdict # "confirmed" THEN "failed"
    ELSE IF run.aborted THEN "cancelled"
    ELSE IF run.exit = "zero" /\ ~error THEN "succeeded" ELSE "failed"

RunEnds ==
    /\ run.phase = "after"
    /\ \E setup \in BOOLEAN : Settle(Outcome(run.error \/ setup), run.verdict, run.exit)
    /\ UNCHANGED <<held, Outside>>

\* That look fails (the stat of pathIs).
RunRejects == run.phase = "after" /\ Rejected /\ UNCHANGED <<held, Outside>>

-----------------------------------------------------------------------------
(* The service: requests of the window, and the end of the core.             *)

Abort(r) ==
    IF r.phase = "collect" /\ ~r.finishing THEN [Fault(r) EXCEPT !.aborted = TRUE, !.closing = TRUE]
    ELSE [r EXCEPT !.aborted = TRUE]

Admit ==
    /\ ~service.active /\ ~service.blocked /\ service.disposed = "no" /\ Now < MaxJobs
    /\ service' = [service EXCEPT !.last = @ + 1, !.active = TRUE]
    /\ job' = [job EXCEPT ![Now + 1] = [status |-> "running", cleanup |-> "pending", exit |-> "none"]]
    /\ run' = [Idle EXCEPT !.phase = "prepare"]
    /\ UNCHANGED held

Cancel ==
    /\ service.active /\ service.disposed = "no"
    /\ job' = [job EXCEPT ![Now].status = "stopping"]
    /\ run' = Abort(run) /\ UNCHANGED <<service, held>>

Dispose ==
    /\ service.disposed = "no"
    /\ service' = [service EXCEPT !.disposed = "waiting"]
    /\ run' = IF service.active THEN Abort(run) ELSE run
    /\ UNCHANGED <<job, held, Outside>>

Disposed ==
    /\ service.disposed = "waiting" /\ ~service.active
    /\ service' = [service EXCEPT !.disposed = IF service.blocked \/ service.executorBlocked THEN "failed" ELSE "done"]
    /\ UNCHANGED <<job, run, held, Outside>>

-----------------------------------------------------------------------------
(* The window.                                                               *)

\* send({ type: "build.observe" })
Observing(w) ==
    IF w.read.at # "none" \/ w.mutation.at # "none" THEN [w EXCEPT !.again = TRUE]
    ELSE [w EXCEPT !.timer = FALSE, !.read = [NoRequest EXCEPT !.at = "sent"]]

Poll == window.timer /\ window' = Observing([window EXCEPT !.timer = FALSE])
        /\ UNCHANGED <<service, job, run, held, clicks, lost>>

Focus == window' = Observing(window) /\ UNCHANGED <<service, job, run, held, clicks, lost>>

Click(kind) ==
    /\ window.mutation.at = "none" /\ clicks < MaxClicks /\ clicks' = clicks + 1
    /\ window' = [window EXCEPT !.timer = FALSE, !.read.fresh = FALSE,
                                !.mutation = [NoRequest EXCEPT !.at = "sent", !.kind = kind]]
    /\ UNCHANGED <<service, job, run, held, lost>>

\* The service answers with the jobs as they then are, or refuses.
Answered(q) ==
    IF service.disposed # "no" THEN [q EXCEPT !.at = "refused"]
    ELSE [q EXCEPT !.at = "answered", !.answer = service'.last,
                   !.status = IF service'.last = 0 THEN "none" ELSE job'[service'.last].status]

ServeRead ==
    /\ window.read.at = "sent" /\ UNCHANGED <<service, job, run, held, clicks, lost>>
    /\ window' = [window EXCEPT !.read = Answered(@)]

\* A start is admitted or refused; a cancel of a job that is over changes nothing.
ServeMutation ==
    LET q == window.mutation IN
    /\ q.at = "sent"
    /\ \/ q.kind = "start" /\ Admit /\ window' = [window EXCEPT !.mutation = Answered(q)]
       \/ q.kind = "start" /\ (service.active \/ service.blocked \/ service.disposed # "no" \/ Now = MaxJobs)
          /\ window' = [window EXCEPT !.mutation.at = "refused"] /\ UNCHANGED <<service, job, run, held>>
       \/ q.kind = "cancel" /\ Cancel /\ window' = [window EXCEPT !.mutation = Answered(q)]
       \/ q.kind = "cancel" /\ (~service.active \/ service.disposed # "no")
          /\ UNCHANGED <<service, job, run, held>> /\ window' = [window EXCEPT !.mutation = Answered(q)]
    /\ UNCHANGED <<clicks, lost>>

\* Mutant: whichever reply comes is shown.
ShownBug(w, q) ==
    IF q.at = "answered"
    THEN [w EXCEPT !.shown = q.answer, !.status = q.status,
                   !.timer = @ \/ q.status \in {"running", "stopping"}]
    ELSE [w EXCEPT !.timer = TRUE]

\* A reply of the newest generation is shown, and polled again while its job runs;
\* a refused or lost one only leads to another observation.
Shown(w, q) ==
    IF ~q.fresh THEN w
    ELSE IF q.at = "answered"
         THEN [w EXCEPT !.shown = q.answer, !.status = q.status,
                        !.timer = @ \/ q.status \in {"running", "stopping"}]
         ELSE [w EXCEPT !.timer = TRUE]

Again(w) == IF w.again /\ w.read.at = "none" /\ w.mutation.at = "none"
            THEN Observing([w EXCEPT !.again = FALSE]) ELSE w

Reply(which) ==
    LET q == window[which] IN
    /\ \/ q.at \in {"answered", "refused"} /\ window' = Again([Shown(window, q) EXCEPT ![which] = NoRequest]) /\ UNCHANGED lost
       \/ /\ q.at # "none" /\ lost < MaxLost /\ lost' = lost + 1
          /\ window' = Again([Shown(window, [q EXCEPT !.at = "refused"]) EXCEPT ![which] = NoRequest])
    /\ UNCHANGED <<service, job, run, held, clicks>>

-----------------------------------------------------------------------------
RunSteps == \/ Connect \/ PrepareFails \/ Collected \/ RunEnds \/ RunRejects
LeaseSteps == OutputEnds \/ \E v \in {"confirmed", "unknown"} : GivesVerdict(v)
WindowSteps == Poll \/ ServeRead \/ ServeMutation \/ \E which \in {"read", "mutation"} : Reply(which)

Next ==
    \/ RunSteps \/ LeaseSteps \/ WindowSteps
    \/ ProcessFaults \/ Overruns \/ \E code \in {"zero", "other"} : ProcessExits(code)
    \/ \E j \in Jobs : FamilyMoves(j)
    \/ Dispose \/ Disposed \/ Focus \/ \E kind \in {"start", "cancel"} : Click(kind)

Spec == Init /\ [][Next]_vars

\* The time limit fires, a closed process is judged within its deadline and its
\* output ends, and every call of the executor, the service and the window is
\* answered.  A process need not exit, nor a user act.
FairSpec ==
    /\ Spec
    /\ WF_vars(RunSteps) /\ WF_vars(Overruns) /\ WF_vars(Disposed)
    /\ WF_vars(OutputEnds) /\ WF_vars(Collecting /\ run.closing /\ LeaseSteps)
    /\ WF_vars(Poll) /\ WF_vars(ServeRead) /\ WF_vars(ServeMutation)
    /\ WF_vars(Reply("read")) /\ WF_vars(Reply("mutation"))

-----------------------------------------------------------------------------
(* Properties.                                                               *)

\* A family that may still run is never joined by another: a job of which the
\* cleanup is not confirmed blocks the next one, in the service or in the
\* executor, also when the run was rejected after its process was launched.
OneFamily == Cardinality({j \in Jobs : held[j] \in {"idle", "running"}}) <= 1

\* A job succeeded only if its process exited with 0, was confirmed gone, and no
\* cancel was accepted before it settled (build-jobs.ts:41-44).
SuccessIsReal ==
    \A j \in Jobs : job[j].status = "succeeded" =>
        job[j].exit = "zero" /\ job[j].cleanup = "confirmed" /\ held[j] = "released"

\* dispose() succeeds only when nothing is left running (docs/design/runtime.md:268-270).
DisposedMeansGone == service.disposed = "done" => \A j \in Jobs : held[j] \in {"none", "released"}

\* The two together: no two builds of one worktree, none after the program.
FamiliesHeld == OneFamily /\ DisposedMeansGone

\* Every job ends, and every dispose: a silent process is stopped by the time
\* limit, a silent owner by its deadline.
JobsEnd == []<>(~service.active /\ service.disposed # "waiting")

\* What was said is not taken back: an accepted cancel is not answered by success,
\* and the window never goes back to an older job nor from its end to its run
\* (build-jobs.ts:44, use-target-builds.ts:32-33).
NothingUnsaid ==
    [][/\ \A j \in Jobs : job[j].status = "stopping" => job'[j].status \in {"stopping", "cancelled", "failed"}
       /\ window'.shown >= window.shown
       /\ window'.shown = window.shown /\ window.status \in Finished => window'.status = window.status]_vars

\* It ends up showing how the last job ended, whatever replies were lost.
WindowCatchesUp ==
    []<>(service.disposed # "no" \/ (window.shown = service.last /\ (Now = 0 \/ window.status = job[Now].status)))

\* The two together.
JobsEndAndAreSeen == JobsEnd /\ WindowCatchesUp
=============================================================================
