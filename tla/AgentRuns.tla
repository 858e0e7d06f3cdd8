----------------------------- MODULE AgentRuns ------------------------------
(***************************************************************************)
(* The agent run service (core/agents/service.ts) over its durable store   *)
(* (core/agents/file-store.ts) and an adapter that may hang, reject, or    *)
(* report anything at any time (core/agents/adapter.ts).                   *)
(*                                                                         *)
(* Operations run one at a time from a queue; an operation that can be     *)
(* overtaken by shutdown() inside puts its continuation back at the head.  *)
(* Timers, adapter callbacks, disposal and shutdown() are not queued: they *)
(* happen between any two of these steps.  A run's text, identities of     *)
(* thread and turn and its transcript are abstracted to whether the turn   *)
(* is known.                                                               *)
(***************************************************************************)
EXTENDS Integers, Sequences, FiniteSets

CONSTANTS
    Runs, Instructions,
    MaxEvents,     \* provider events queued before the queue overflows (256)
    MaxRequests,   \* requests queued at a time (32)
    MaxCrash       \* bound: restarts of the core in a behaviour

TurnEnds == {"completed", "failed", "interrupted"}
Reports == TurnEnds \cup {"turn", "item", "rejected", "lost", "exit"}

ASSUME RunsAssumption == IsFiniteSet(Runs) /\ IsFiniteSet(Instructions) /\ "none" \notin Runs
ASSUME BoundsAssumption == MaxEvents \in Nat /\ MaxRequests \in Nat /\ MaxCrash \in Nat

VARIABLES
    \* The service and its store.
    mem,        \* Run -> its record in memory
    disk,       \* Run -> its record in the store
    fault,      \* storageError
    refused,    \* the schema or the store refused an update of the service
    queue,      \* the operations not yet served
    draft,      \* the prepared run, or "none"
    handles,    \* runs whose adapter handle is registered
    cleaning,   \* Run -> its disposal: "none", "disposing" or "settled"
    timer,      \* Run -> the timer armed for it
    waiting,    \* Run -> the instruction whose acknowledgement is awaited
    overflow,   \* runs whose events are no longer taken
    closing,    \* shutdown(): "no", "closing" or "done"
    drained,    \* shutdownDrained
    \* Outside the service.
    adapter,    \* Run -> the adapter's start(): "none", "starting" or "settled"
    provider,   \* Run -> "none", "live" (a process of it may exist) or "gone"
    starts,     \* Run -> calls of the adapter's start()
    sent,       \* Run, instruction -> calls of the handle's steer()
    crashes

storeVars == <<mem, disk, fault, refused>>
runVars   == <<handles, timer, waiting, overflow>>
lifeVars  == <<closing, drained>>
worldVars == <<adapter, provider, starts, sent, crashes>>
vars == <<storeVars, runVars, lifeVars, worldVars, cleaning, queue, draft>>

-----------------------------------------------------------------------------
Terminal == {"completed", "failed", "cancelled", "unknown"}
Live(run) == run.state \in {"starting", "running", "cancelling"}

NoReceipts == [i \in Instructions |-> "none"]
Absent == [state |-> "absent", process |-> "not-started", cleanup |-> "not-needed",
           turn |-> FALSE, outcome |-> "none", receipts |-> NoReceipts]
Admitted == [Absent EXCEPT !.state = "starting"]

\* canTransitionRun.
Successors(state) ==
    CASE state = "starting"   -> {"running", "cancelling", "failed", "unknown"}
      [] state = "running"    -> {"cancelling"} \cup Terminal
      [] state = "cancelling" -> Terminal
      [] OTHER -> {}
CanTransition(from, to) == from = to \/ to \in Successors(from)

\* RunSchema: the records the service may hold.
Evidence(run) ==
    CASE run.state = "completed" -> run.outcome = "completed"
      [] run.state = "failed"    -> run.outcome \in {"rejected", "failed"}
      [] run.state = "cancelled" ->
            \/ run.outcome = "interrupted"
            \/ run.outcome = "termination" /\ run.cleanup = "confirmed"
            \/ run.outcome = "prevented" /\ run.process = "not-started"
      [] OTHER -> run.outcome = "none"
Valid(run) ==
    /\ run.state = "running" => run.turn /\ run.process = "live"
    /\ run.process = "not-started" => ~run.turn
    /\ run.process = "not-started" <=> run.cleanup = "not-needed"
    /\ run.cleanup = "confirmed" => run.process = "exited"
    /\ run.outcome \in {"completed", "failed", "interrupted"} => run.turn
    /\ Evidence(run)
    /\ Cardinality({i \in Instructions : run.receipts[i] = "pending"}) <= 1

\* FileRunStore.update: what the store lets an update change.
Updates(old, run) ==
    /\ CanTransition(old.state, run.state)
    /\ old.turn => run.turn
    /\ old.state \in Terminal => run.outcome = old.outcome
    /\ old.process \in {"exited", "unknown"} => run.process \in {"exited", "unknown"}
    /\ old.process # "not-started" => run.process # "not-started"
    /\ old.cleanup = "confirmed" => run.cleanup = "confirmed"
    /\ \A i \in Instructions :
         \/ run.receipts[i] = old.receipts[i]
         \/ old.receipts[i] = "pending" /\ run.receipts[i] = "delivery-unknown"

\* uncertain(): what is not established is unknown.
Uncertain(run) ==
    [run EXCEPT !.state = IF Live(run) THEN "unknown" ELSE @,
                !.receipts = [i \in Instructions |-> IF @[i] = "pending" THEN "delivery-unknown" ELSE @[i]]]
AllUncertain == [r \in Runs |-> Uncertain(mem[r])]

\* The store opens: what the previous process left open is unknown.
Recovered(run) ==
    IF Live(run) THEN [Uncertain(run) EXCEPT !.process = "unknown", !.cleanup = "unknown"]
    ELSE IF run.process = "live" \/ run.cleanup = "pending"
    THEN [Uncertain(run) EXCEPT !.process = IF @ = "live" THEN "unknown" ELSE @, !.cleanup = "unknown"]
    ELSE Uncertain(run)

\* blocked(): no launch over a process whose end is not established.  Mutant:
\* only a cleanup that failed blocks.
BlockedBug == fault \/ closing # "no" \/ \E r \in Runs : mem[r].cleanup = "unknown"
Blocked ==
    \/ fault \/ closing # "no"
    \/ \E r \in Runs : \/ mem[r].cleanup = "unknown"
                       \/ mem[r].state \in Terminal /\ mem[r].cleanup = "pending"
Active == \E r \in Runs : Live(mem[r])

Init ==
    /\ mem = [r \in Runs |-> Absent] /\ disk = mem
    /\ fault = FALSE /\ refused = FALSE
    /\ queue = <<>> /\ draft = "none"
    /\ handles = {} /\ overflow = {}
    /\ cleaning = [r \in Runs |-> "none"]
    /\ timer = [r \in Runs |-> "none"]
    /\ waiting = [r \in Runs |-> "none"]
    /\ closing = "no" /\ drained = FALSE
    /\ adapter = [r \in Runs |-> "none"]
    /\ provider = [r \in Runs |-> "none"]
    /\ starts = [r \in Runs |-> 0]
    /\ sent = [r \in Runs |-> [i \in Instructions |-> 0]]
    /\ crashes = 0

-----------------------------------------------------------------------------
(* Helpers of the operations.                                                *)

Operation(type, r, arg) == [type |-> type, run |-> r, arg |-> arg]
Enqueue(op) == queue' = Append(queue, op)
Serving(type, r) == queue # <<>> /\ Head(queue).type = type /\ Head(queue).run = r
Served == queue' = Tail(queue)
Continues(op) == queue' = <<op>> \o Tail(queue)
Queued(types) == Cardinality({k \in DOMAIN queue : queue[k].type \in types})

\* dispose(): begins once for a registered handle.
Dispose(these) ==
    cleaning' = [r \in Runs |-> IF r \in these /\ cleaning[r] = "none" THEN "disposing" ELSE cleaning[r]]

\* A write of the store, which production closes after the shutdown.  One that
\* fails may have replaced the file: storageFault() then latches admission
\* closed, and everything in memory is uncertain.
StoreOpen == closing # "done"
WriteFails(written) ==
    /\ disk' \in {disk} \cup {d \in {written} : StoreOpen}
    /\ fault' = TRUE /\ mem' = AllUncertain
    /\ Dispose(handles)
Write(r, run, disposed) ==
    LET written == [disk EXCEPT ![r] = run]
    IN  \/ /\ StoreOpen /\ disk' = written
           /\ mem' = [mem EXCEPT ![r] = run]
           /\ Dispose(disposed) /\ UNCHANGED fault
        \/ WriteFails(written)
\* persist() of a run; disposed are the handles disposed of afterwards.
Legal(r, run) == Valid(run) /\ Updates(disk[r], run)
Persist(r, run, disposed) ==
    /\ refused' = (refused \/ ~Legal(r, run))
    /\ IF Legal(r, run) THEN Write(r, run, disposed) ELSE WriteFails(disk)

MarkUnknown(r) ==
    /\ timer' = [timer EXCEPT ![r] = "none"]
    /\ IF fault THEN Dispose({r} \cap handles) /\ UNCHANGED storeVars
                ELSE Persist(r, Uncertain(mem[r]), {r} \cap handles)

NoChange == UNCHANGED <<storeVars, cleaning>>

-----------------------------------------------------------------------------
(* request() and the commands.                                               *)

\* A request is sent when it makes sense to its sender, or to an idle queue as a
\* retry (bound); it may make no sense any more when it is served.
Commands == {"prepare", "launch", "cancel", "steer"}
Sensible(type, r) ==
    CASE type = "prepare" -> ~Blocked /\ ~Active
      [] type = "launch"  -> draft = r \/ (mem[r] # Absent /\ queue = <<>>)
      [] type = "cancel"  -> mem[r].state \in {"starting", "running"}
      [] type = "steer"   -> mem[r].state = "running" \/ (mem[r].receipts # NoReceipts /\ queue = <<>>)
Request(type, r, arg) ==
    /\ closing = "no" /\ ~fault /\ Queued(Commands) < MaxRequests /\ Sensible(type, r)
    /\ Enqueue(Operation(type, r, arg))
    /\ UNCHANGED <<storeVars, runVars, lifeVars, worldVars, cleaning, draft>>

Prepare(r) ==
    /\ Serving("prepare", r) /\ Served
    /\ draft' \in IF Blocked \/ Active THEN {draft} ELSE {"none", r}
    /\ NoChange /\ UNCHANGED <<runVars, lifeVars, worldVars>>

\* A launch already admitted is acknowledged again; a draft that is not the
\* one confirmed, or stale, is refused.
Launch(r) ==
    /\ Serving("launch", r)
    /\ \/ Served /\ NoChange /\ UNCHANGED draft
       \/ /\ mem[r] = Absent /\ ~Blocked /\ ~Active /\ draft = r
          /\ Write(r, Admitted, {}) /\ UNCHANGED refused
          /\ IF fault' THEN Served /\ UNCHANGED draft
             ELSE Continues(Operation("admitted", r, "none")) /\ draft' = "none"
    /\ UNCHANGED <<runVars, lifeVars, worldVars>>
LaunchAdmitted(r) ==
    /\ Serving("admitted", r) /\ Served
    /\ timer' = [timer EXCEPT ![r] = "start"]
    /\ NoChange /\ UNCHANGED <<handles, waiting, overflow, lifeVars, worldVars, draft>>

Cancel(r) ==
    /\ Serving("cancel", r)
    /\ IF mem[r].state \in {"starting", "running"} /\ closing = "no" /\ ~fault
       THEN /\ Persist(r, [mem[r] EXCEPT !.state = "cancelling"], {})
            /\ IF fault' THEN Served ELSE Continues(Operation("cancelling", r, "none"))
       ELSE Served /\ NoChange
    /\ UNCHANGED <<runVars, lifeVars, worldVars, draft>>
\* Cancelled before dispatch, or the grace timer takes the deadline's place.
CancelRecorded(r) ==
    /\ Serving("cancelling", r) /\ Served
    /\ IF mem[r].process = "not-started"
       THEN /\ timer' = [timer EXCEPT ![r] = "none"]
            /\ Persist(r, [mem[r] EXCEPT !.state = "cancelled", !.outcome = "prevented"], {})
       ELSE timer' = [timer EXCEPT ![r] = "grace"] /\ NoChange
    /\ UNCHANGED <<handles, waiting, overflow, lifeVars, worldVars, draft>>

\* The intent to steer is durable before the handle is called.  Mutant: a
\* repeated instruction is taken as a new one.
KnownBug(r, i) == FALSE
Known(r, i) == mem[r].receipts[i] # "none"
Steerable(r) ==
    /\ closing = "no" /\ ~fault /\ mem[r].state = "running" /\ r \in handles
    /\ \A i \in Instructions : mem[r].receipts[i] # "pending"
Steer(r, i) ==
    /\ Serving("steer", r) /\ Head(queue).arg = i
    /\ \/ Served /\ NoChange
       \/ /\ ~Known(r, i) /\ Steerable(r)
          /\ Write(r, [mem[r] EXCEPT !.receipts[i] = "pending"], {}) /\ UNCHANGED refused
          /\ IF fault' THEN Served ELSE Continues(Operation("steering", r, i))
    /\ UNCHANGED <<runVars, lifeVars, worldVars, draft>>
Settlement(r, i, reply) == Operation("settle", r, <<i, reply>>)
SteerRecorded(r, i) ==
    /\ Serving("steering", r) /\ Head(queue).arg = i
    /\ IF closing # "no" \/ fault \/ cleaning[r] # "none"
       THEN queue' = Append(Tail(queue), Settlement(r, i, "delivery-unknown")) /\ UNCHANGED <<sent, waiting>>
       ELSE Served /\ sent' = [sent EXCEPT ![r][i] = @ + 1] /\ waiting' = [waiting EXCEPT ![r] = i]
    /\ NoChange
    /\ UNCHANGED <<handles, timer, overflow, lifeVars, adapter, provider, starts, crashes, draft>>
\* The handle answers, unless disposal or shutdown settled the wait before; or
\* five seconds pass.
SteerAnswered(r, reply) ==
    /\ waiting[r] # "none"
    /\ reply # "delivery-unknown" => closing = "no" /\ cleaning[r] = "none"
    /\ Enqueue(Settlement(r, waiting[r], reply))
    /\ waiting' = [waiting EXCEPT ![r] = "none"]
    /\ NoChange /\ UNCHANGED <<handles, timer, overflow, lifeVars, worldVars, draft>>
SteerSettles(r) ==
    /\ Serving("settle", r) /\ Served
    /\ LET i == Head(queue).arg[1]
       IN  IF mem[r].receipts[i] # "pending" THEN NoChange
           ELSE Write(r, [mem[r] EXCEPT !.receipts[i] = Head(queue).arg[2]], {}) /\ UNCHANGED refused
    /\ UNCHANGED <<runVars, lifeVars, worldVars, draft>>

-----------------------------------------------------------------------------
(* start(): dispatch, and what the adapter reports.                          *)

Dispatched(run) == [run EXCEPT !.process = "live", !.cleanup = "pending"]
Dispatch(r) ==
    /\ Serving("dispatch", r)
    /\ IF closing # "no" \/ fault \/ mem[r].state # "starting" THEN Served /\ NoChange
       ELSE Persist(r, Dispatched(mem[r]), {}) /\ Continues(Operation("dispatched", r, "none"))
    /\ UNCHANGED <<runVars, lifeVars, worldVars, draft>>
AdapterStarts(r) ==
    /\ Serving("dispatched", r) /\ Served
    /\ IF closing # "no" \/ fault THEN UNCHANGED <<timer, adapter, provider, starts>>
       ELSE /\ timer' = [timer EXCEPT ![r] = "deadline"]
            /\ adapter' = [adapter EXCEPT ![r] = "starting"]
            /\ provider' = [provider EXCEPT ![r] = "live"]
            /\ starts' = [starts EXCEPT ![r] = @ + 1]
    /\ NoChange
    /\ UNCHANGED <<handles, waiting, overflow, lifeVars, sent, crashes, draft>>
AdapterSettles(r) ==
    /\ adapter[r] = "starting"
    /\ adapter' = [adapter EXCEPT ![r] = "settled"]
    /\ \/ Enqueue(Operation("register", r, "none"))
       \/ Enqueue(Operation("unknown", r, "none"))
    /\ NoChange /\ UNCHANGED <<runVars, lifeVars, provider, starts, sent, crashes, draft>>

\* The handle of a run that no longer wants it is disposed of at once; so is
\* that of a cancelled run whose grace has passed.
Unwanted(r) == closing # "no" \/ fault \/ mem[r].state \in Terminal
Register(r) ==
    /\ Serving("register", r) /\ Served
    /\ handles' = handles \cup {r}
    /\ \/ (Unwanted(r) \/ mem[r].state = "cancelling") /\ Dispose({r})
       \/ ~Unwanted(r) /\ (mem[r].state = "cancelling" => timer[r] = "grace") /\ UNCHANGED cleaning
    /\ UNCHANGED <<storeVars, timer, waiting, overflow, lifeVars, worldVars, draft>>

\* receive(): events queue up to a bound; past it the run is given up.
ProviderReports(r, what) ==
    /\ adapter[r] # "none" /\ closing = "no" /\ ~fault /\ r \notin overflow
    /\ Live(mem[r]) \/ (what = "exit" /\ mem[r].process # "exited")
    /\ IF Queued({"event"}) < MaxEvents
       THEN Enqueue(Operation("event", r, what)) /\ UNCHANGED overflow
       ELSE Enqueue(Operation("unknown", r, "none")) /\ overflow' = overflow \cup {r}
    /\ NoChange /\ UNCHANGED <<handles, timer, waiting, lifeVars, worldVars, draft>>

Ended(run, end) ==
    [run EXCEPT !.outcome = end,
                !.state = IF end = "interrupted" THEN "cancelled"
                          ELSE IF end = "rejected" THEN "failed" ELSE end]
Event(r) ==
    /\ Serving("event", r) /\ Served
    /\ LET run == mem[r]
           what == Head(queue).arg
           mine == {r} \cap handles
       IN  \/ /\ fault \/ (run.state \in Terminal /\ what # "exit")
              /\ NoChange /\ UNCHANGED timer
           \/ /\ ~fault /\ what = "exit"
              /\ Persist(r, [Uncertain(run) EXCEPT !.process = "exited"], mine) /\ UNCHANGED timer
           \/ /\ ~fault /\ Live(run)
              /\ \/ /\ what = "turn" /\ ~run.turn
                    /\ Persist(r, [run EXCEPT !.turn = TRUE,
                                     !.state = IF @ = "cancelling" THEN @ ELSE "running"], {})
                    /\ UNCHANGED timer
                 \/ what = "turn" /\ run.turn /\ NoChange /\ UNCHANGED timer
                 \/ what = "item" /\ Write(r, run, {}) /\ UNCHANGED <<refused, timer>>
                 \/ what \in {"lost", "item"} \cup {e \in TurnEnds : ~run.turn} /\ MarkUnknown(r)
                 \/ /\ what = "rejected" \/ (what \in TurnEnds /\ run.turn)
                    /\ Persist(r, Ended(run, what), mine)
                    /\ timer' = [timer EXCEPT ![r] = "none"]
    /\ UNCHANGED <<handles, waiting, overflow, lifeVars, worldVars, draft>>
Unknown(r) ==
    /\ Serving("unknown", r) /\ Served /\ MarkUnknown(r)
    /\ UNCHANGED <<handles, waiting, overflow, lifeVars, worldVars, draft>>

-----------------------------------------------------------------------------
(* Timers.                                                                   *)

StartFires(r) ==
    /\ timer[r] = "start" /\ timer' = [timer EXCEPT ![r] = "none"]
    /\ Enqueue(Operation("dispatch", r, "none"))
    /\ NoChange /\ UNCHANGED <<handles, waiting, overflow, lifeVars, worldVars, draft>>
DeadlineFires(r) ==
    /\ timer[r] = "deadline" /\ timer' = [timer EXCEPT ![r] = "none"]
    /\ Enqueue(Operation("unknown", r, "none"))
    /\ NoChange /\ UNCHANGED <<handles, waiting, overflow, lifeVars, worldVars, draft>>
WithoutHandle(r) == Enqueue(Operation("unknown", r, "none"))
GraceFires(r) ==
    /\ timer[r] = "grace" /\ timer' = [timer EXCEPT ![r] = "none"]
    /\ IF r \in handles THEN Dispose({r}) /\ UNCHANGED queue
                        ELSE WithoutHandle(r) /\ UNCHANGED cleaning
    /\ UNCHANGED <<storeVars, handles, waiting, overflow, lifeVars, worldVars, draft>>

-----------------------------------------------------------------------------
(* Cleanup and shutdown.                                                     *)

\* The handle's dispose() confirms that the family of processes is gone
\* (ProviderLease), or fails, or two seconds pass.
DisposeSettles(r, outcome) ==
    /\ cleaning[r] = "disposing" /\ cleaning' = [cleaning EXCEPT ![r] = "settled"]
    /\ provider' = IF outcome = "confirmed" THEN [provider EXCEPT ![r] = "gone"] ELSE provider
    /\ Enqueue(Operation("finish", r, outcome))
    /\ UNCHANGED <<storeVars, runVars, lifeVars, adapter, starts, sent, crashes, draft>>

\* A cleanup queued before the shutdown's cutoff yields to the evidence queued
\* before it.  Mutant: also after the cutoff.
YieldsForeverBug == closing # "no"
Yields == closing # "no" /\ ~drained
\* What the end of the owned process says of a run that had no outcome.
Cleaned(run, outcome) ==
    Uncertain(IF closing = "no" /\ run.state = "cancelling" /\ outcome = "confirmed"
              THEN [run EXCEPT !.state = "cancelled", !.outcome = "termination"] ELSE run)
Finish(r) ==
    /\ Serving("finish", r)
    /\ LET outcome == Head(queue).arg
           run == [Cleaned(mem[r], outcome) EXCEPT !.cleanup = outcome,
                      !.process = IF outcome = "confirmed" THEN "exited" ELSE "unknown"]
       IN  IF Yields
           THEN queue' = Append(Tail(queue), Head(queue)) /\ NoChange /\ UNCHANGED <<timer, handles>>
           ELSE /\ Served /\ handles' = handles \ {r}
                /\ timer' = [timer EXCEPT ![r] = "none"]
                /\ IF fault THEN mem' = [mem EXCEPT ![r] = run] /\ UNCHANGED <<disk, fault, refused, cleaning>>
                            ELSE Persist(r, run, {})
    /\ UNCHANGED <<waiting, overflow, lifeVars, worldVars, draft>>

NoTimers == [r \in Runs |-> "none"]
Shutdown ==
    /\ closing = "no" /\ closing' = "closing"
    /\ draft' = "none" /\ timer' = NoTimers
    /\ Enqueue(Operation("drain", "none", "none"))
    /\ Dispose(handles)
    /\ UNCHANGED <<storeVars, handles, waiting, overflow, drained, worldVars>>
\* The cutoff: every run is made uncertain, one write after the other.
Drain ==
    /\ Serving("drain", "none") /\ Served
    /\ drained' = TRUE
    /\ \/ fault /\ NoChange
       \/ /\ ~fault /\ mem' = AllUncertain /\ disk' = mem'
          /\ refused' = (refused \/ \E r \in Runs : mem[r] # Absent /\ ~Legal(r, Uncertain(mem[r])))
          /\ UNCHANGED <<fault, cleaning>>
       \/ /\ ~fault /\ UNCHANGED refused
          /\ \E done \in SUBSET Runs :
                WriteFails([r \in Runs |-> IF r \in done THEN Uncertain(mem[r]) ELSE disk[r]])
    /\ UNCHANGED <<runVars, closing, worldVars, draft>>
\* Every disposal and every registration under way has ended; a start() that
\* never settled is not waited for.
CleanupsEnded == \A r \in Runs : cleaning[r] = "none" \/ (cleaning[r] = "settled" /\ r \notin handles)
\* Mutant: the timers armed during the drain stay.
TimersAtEndBug == timer
TimersAtEnd == NoTimers
ShutdownEnds ==
    /\ closing = "closing" /\ drained /\ CleanupsEnded /\ Queued({"register"}) = 0
    /\ closing' = "done" /\ timer' = TimersAtEnd
    /\ NoChange /\ UNCHANGED <<queue, handles, waiting, overflow, drained, worldVars, draft>>

\* The core ends at any point and opens its store again.  Nothing is assumed
\* of the processes it owned.
Restart ==
    /\ crashes < MaxCrash /\ crashes' = crashes + 1
    /\ disk' = [r \in Runs |-> Recovered(disk[r])] /\ mem' = disk'
    /\ fault' = FALSE /\ UNCHANGED refused
    /\ queue' = <<>> /\ draft' = "none" /\ handles' = {} /\ overflow' = {}
    /\ cleaning' = [r \in Runs |-> "none"] /\ timer' = NoTimers
    /\ waiting' = [r \in Runs |-> "none"]
    /\ closing' = "no" /\ drained' = FALSE
    /\ adapter' = [r \in Runs |-> "none"]
    /\ UNCHANGED <<provider, starts, sent>>

-----------------------------------------------------------------------------
Requests ==
    \E r \in Runs :
        \/ \E type \in {"prepare", "launch", "cancel"} : Request(type, r, "none")
        \/ \E i \in Instructions : Request("steer", r, i)
Serve ==
    \/ \E r \in Runs :
        \/ Prepare(r) \/ Launch(r) \/ LaunchAdmitted(r) \/ Cancel(r) \/ CancelRecorded(r)
        \/ \E i \in Instructions : Steer(r, i) \/ SteerRecorded(r, i)
        \/ SteerSettles(r) \/ Dispatch(r) \/ AdapterStarts(r) \/ Register(r)
        \/ Event(r) \/ Unknown(r) \/ Finish(r)
    \/ Drain
Timers(r) == StartFires(r) \/ DeadlineFires(r) \/ GraceFires(r)
Next ==
    \/ Requests \/ Serve \/ Shutdown \/ ShutdownEnds \/ Restart
    \/ \E r \in Runs :
        \/ Timers(r) \/ AdapterSettles(r)
        \/ \E what \in Reports : ProviderReports(r, what)
        \/ \E outcome \in {"confirmed", "unknown"} : DisposeSettles(r, outcome)
        \/ \E reply \in {"accepted", "rejected", "delivery-unknown"} : SteerAnswered(r, reply)
Spec == Init /\ [][Next]_vars

\* The event loop serves the queue and its timers, those of dispose() and of an
\* acknowledgement included.  The adapter and the provider owe nothing.
Fairness ==
    /\ WF_vars(Serve) /\ WF_vars(ShutdownEnds)
    /\ \A r \in Runs :
        /\ WF_vars(Timers(r))
        /\ WF_vars(\E outcome \in {"confirmed", "unknown"} : DisposeSettles(r, outcome))
        /\ WF_vars(\E reply \in {"accepted", "rejected", "delivery-unknown"} : SteerAnswered(r, reply))
FairSpec == Spec /\ Fairness
-----------------------------------------------------------------------------
RunStates == Terminal \cup {"absent", "starting", "running", "cancelling"}
Records == [state : RunStates, process : {"not-started", "live", "exited", "unknown"},
            cleanup : {"not-needed", "pending", "confirmed", "unknown"}, turn : BOOLEAN,
            outcome : TurnEnds \cup {"none", "rejected", "termination", "prevented"},
            receipts : [Instructions -> {"none", "pending", "accepted", "rejected", "delivery-unknown"}]]
TypeOK ==
    /\ mem \in [Runs -> Records] /\ disk \in [Runs -> Records]
    /\ fault \in BOOLEAN /\ refused \in BOOLEAN
    /\ draft \in Runs \cup {"none"} /\ handles \subseteq Runs /\ overflow \subseteq Runs
    /\ cleaning \in [Runs -> {"none", "disposing", "settled"}]
    /\ timer \in [Runs -> {"none", "start", "deadline", "grace"}]
    /\ waiting \in [Runs -> Instructions \cup {"none"}]
    /\ closing \in {"no", "closing", "done"} /\ drained \in BOOLEAN
    /\ adapter \in [Runs -> {"none", "starting", "settled"}]
    /\ provider \in [Runs -> {"none", "live", "gone"}]
    /\ starts \in [Runs -> Nat] /\ sent \in [Runs -> [Instructions -> Nat]]

\* A run is dispatched at most once, an instruction reaches the provider at most
\* once, retries and restarts included, and neither before the history says that
\* it may have.
EffectsOnRecord ==
    \A r \in Runs :
        /\ starts[r] <= 1 /\ (starts[r] > 0 => disk[r].process # "not-started")
        /\ \A i \in Instructions :
             sent[r][i] <= 1 /\ (sent[r][i] > 0 => disk[r].receipts[i] # "none")

\* A launch waits for the confirmed end of every earlier run's processes, those
\* of a run whose core died included: two runs never have processes at a time.
LaunchNeedsProof == ~Blocked /\ ~Active => \A r \in Runs : provider[r] # "live"

\* In no interleaving does the service form a record its schema or its store
\* refuses: such a refusal would latch the store's failure for no fault of it.
NoRefusedUpdate == ~refused

\* A run the history calls cancelled never ran, was interrupted by its
\* provider, or its processes are gone.
CancelledMeansStopped ==
    \A r \in Runs : disk[r].state = "cancelled" =>
        CASE disk[r].outcome = "prevented"   -> starts[r] = 0
          [] disk[r].outcome = "termination" -> provider[r] = "gone"
          [] OTHER -> starts[r] = 1

\* What the history says of a run is true of its provider, and can always be written down.
RecordIsTrue == TypeOK /\ EffectsOnRecord /\ NoRefusedUpdate /\ CancelledMeansStopped

\* The end of a turn that was queued before shutdown() is not overtaken by the
\* cleanup or by the cutoff that shutdown() begins.
EvidenceBeforeCutoff ==
    \A r \in Runs :
        crashes' = crashes /\ closing # "no" /\ Live(mem[r]) /\ mem'[r].state = "unknown"
            /\ (Serving("finish", r) \/ Serving("drain", "none")) =>
        \A k \in DOMAIN queue :
            ~(queue[k].type = "event" /\ queue[k].run = r /\ queue[k].arg \in TurnEnds)

\* When shutdown() resolves every run has an end on its record and no timer
\* can start anything any more.
ShutdownIsQuiet ==
    closing = "done" => \A r \in Runs : ~Live(mem[r]) /\ timer[r] = "none"

\* shutdown() lets what came before it count and leaves nothing behind.
ShutdownInOrder == [][EvidenceBeforeCutoff /\ ShutdownIsQuiet']_vars

\* Every run ends on the record, also when the adapter's start() never settles
\* or the provider says nothing.
RunsEnd == \A r \in Runs : Live(mem[r]) ~> ~Live(mem[r])

\* shutdown() resolves, also with a provider that cannot be disposed of.
ShutdownResolves == closing = "closing" ~> closing # "closing"

\* The two together: nothing waits for a provider forever.
EverythingEnds == RunsEnd /\ ShutdownResolves
=============================================================================
