----------------------- MODULE CoreSupervisorProofs -----------------------
(***************************************************************************)
(* What the supervisor of the core promises for any requests, faults and   *)
(* number of launches: a failed core is replaced by one and only one, a    *)
(* crash loop ends, and no unanswered mutation is said not to have         *)
(* happened.                                                               *)
(***************************************************************************)
EXTENDS CoreSupervisor, TLAPS

-----------------------------------------------------------------------------
(* The invariant.                                                            *)

Phases == {"stopped", "starting", "ready", "unavailable", "draining", "failed"}
AllTimers == {"retry", "stable", "readiness", "agentDrain", "shutdown"}
Mutations == Saves \cup Agents

Sups == [phase : Phases, generation : Nat, process : Nat, closing : BOOLEAN, replace : BOOLEAN,
         attempts : Nat, timers : SUBSET AllTimers, pending : SUBSET Requests,
         answer : [Requests -> Answers], shutdownRequested : BOOLEAN, killRequested : BOOLEAN,
         inbox : Seq(Requests \cup {"shutdown"}), dying : BOOLEAN]

Messages ==
    {[type |-> "ready"], [type |-> "failed"], [type |-> "shutdown.ready"]}
    \cup [type : {"response"}, id : Requests, body : {"done", "error", "garbage"}]
Cores == [stage : {"none", "opening", "open", "stopping", "closed"}, working : SUBSET Requests,
          outbox : Seq(Messages), ready : BOOLEAN, broken : BOOLEAN]

\* Requests: only an unanswered one waits, and of a mutation nobody is told that
\* it did not happen.
Answered(s) ==
    /\ \A r \in s.pending : s.answer[r] = "none"
    /\ \A r \in Mutations : s.answer[r] \in {"none", "done", "error", UncertainMutationCode(r)}

\* A replacement: what it asked of the core, and that no mutation waits behind it.
Replacing(s) ==
    /\ s.shutdownRequested \/ s.killRequested => s.pending \cap Mutations = {}
    /\ s.replace \/ s.shutdownRequested \/ s.killRequested => s.phase \notin {"starting", "ready"}
    /\ s.replace => s.attempts = 0
    /\ "shutdown" \in s.timers => s.shutdownRequested

\* What is armed with a process, without one, before the start and after the stop.
Holding(s) ==
    /\ s.process = None =>
         s.pending = {} /\ s.timers \subseteq {"retry"} /\ ~s.replace /\ ~s.shutdownRequested /\ ~s.killRequested
    /\ s.process # None => "retry" \notin s.timers /\ s.process = s.generation /\ s.attempts <= Delays
    /\ s.closing => s.phase = "stopped" /\ s.timers = {} /\ s.pending = {} /\ ~s.replace
    /\ s.phase = "stopped" /\ ~s.closing => s.process = None /\ s.attempts = 0 /\ s.timers = {}
    /\ s.attempts <= Delays + 1 /\ ("retry" \in s.timers => s.attempts <= Delays)

Sound(s) == s \in Sups /\ Answered(s) /\ Replacing(s) /\ Holding(s)

\* Without a process the next launch is scheduled, or the supervisor has given up.
Scheduled(s) == s.process = None /\ s.phase # "stopped" => (s.phase = "failed") # ("retry" \in s.timers)

\* Launches in a row are paid for by attempts, and generations by launches.
Counted(s, n) ==
    /\ n \in Nat /\ n <= Delays + 1 /\ s.generation <= MaxLaunches + n
    /\ s.process = None /\ ~s.closing => n <= s.attempts
    /\ s.process # None => n <= s.attempts + 1
    /\ s.replace \/ (s.phase = "stopped" /\ ~s.closing) => n = 0

OneProcess == alive \subseteq {sup.process} \ {None}

IInv ==
    /\ Sound(sup) /\ Scheduled(sup) /\ Counted(sup, streak) /\ OneProcess
    /\ core \in Cores /\ executed \subseteq Requests

-----------------------------------------------------------------------------
(* The helpers keep a sound supervisor sound.                                *)

LEMMA Names ==
    /\ Phases = {"stopped", "starting", "ready", "unavailable", "draining", "failed"}
    /\ Mutations \subseteq Requests /\ None = 0 /\ Delays = 3
BY DEF Phases, Mutations, Requests, None, Delays

LEMMA Codes ==
    /\ \A r \in Requests, code \in Answers : FailureCode(r, code) \in Answers
    /\ \A r \in Mutations, code \in Answers : FailureCode(r, code) = UncertainMutationCode(r)
    /\ {"RETRY", "CORE_UNAVAILABLE", "INVALID_CORE_MESSAGE", "done", "error", "none"} \subseteq Answers
BY DEF FailureCode, Uncertain, UncertainMutationCode, Answers, Mutations

\* The two states differ in their requests at most.
SameButRequests(s, t) ==
    /\ t.phase = s.phase /\ t.generation = s.generation /\ t.process = s.process /\ t.closing = s.closing
    /\ t.replace = s.replace /\ t.attempts = s.attempts /\ t.timers = s.timers
    /\ t.shutdownRequested = s.shutdownRequested /\ t.killRequested = s.killRequested
    /\ t.inbox = s.inbox /\ t.dying = s.dying

LEMMA SettleEffect ==
    ASSUME NEW s \in Sups, NEW these, NEW code \in Answers, Answered(s)
    PROVE  LET t == Settle(s, these, code)
           IN  t \in Sups /\ Answered(t) /\ SameButRequests(s, t) /\ t.pending = s.pending \ these
<1> DEFINE t == Settle(s, these, code)
           answer == [r \in Requests |-> IF r \in these \cap s.pending THEN FailureCode(r, code) ELSE s.answer[r]]
<1>1. t = [s EXCEPT !.pending = s.pending \ (these \cap s.pending), !.answer = answer]
  BY DEF Settle, Sups
<1>2. answer \in [Requests -> Answers]
  BY Codes DEF Sups
<1>3. s.pending \ (these \cap s.pending) = s.pending \ these /\ s.pending \ these \in SUBSET Requests
  BY DEF Sups
<1> HIDE DEF answer
<1>4. t \in Sups /\ SameButRequests(s, t) /\ t.pending = s.pending \ these /\ t.answer = answer
  BY <1>1, <1>2, <1>3 DEF Sups, SameButRequests
<1> HIDE DEF t
<1>5. Answered(t)
  <2>1. \A r \in Requests : answer[r] = IF r \in these \cap s.pending THEN FailureCode(r, code) ELSE s.answer[r]
    BY DEF answer
  <2>2. s.pending \subseteq Requests
    BY DEF Sups
  <2> QED
    BY <1>4, <2>1, <2>2, Codes, Names DEF Answered
<1> QED
  BY <1>4, <1>5 DEF t

LEMMA SettleSound ==
    ASSUME NEW s, Sound(s), NEW these, NEW code \in Answers
    PROVE  LET t == Settle(s, these, code)
           IN  Sound(t) /\ SameButRequests(s, t) /\ t.pending = s.pending \ these
<1> DEFINE t == Settle(s, these, code)
<1>1. t \in Sups /\ Answered(t) /\ SameButRequests(s, t) /\ t.pending = s.pending \ these
  BY SettleEffect DEF Sound
<1> HIDE DEF t
<1>2. Replacing(t)
  BY <1>1 DEF Sound, Replacing, SameButRequests
<1>3. Holding(t)
  BY <1>1 DEF Sound, Holding, SameButRequests
<1> QED
  BY <1>1, <1>2, <1>3 DEF Sound, t

\* What a handler does to a supervisor without launching: the process, what it
\* is counted by, and without a process what is armed, stay.
Steady(s, t) ==
    /\ t.generation = s.generation /\ t.process = s.process /\ t.closing = s.closing
    /\ t.replace = s.replace /\ t.attempts = s.attempts
    /\ t.phase = "stopped" => s.phase = "stopped"
    /\ s.process = None => t.phase = s.phase /\ t.timers = s.timers

LEMMA SteadyKeeps ==
    ASSUME NEW s, NEW t, NEW n, Steady(s, t), Scheduled(s), Counted(s, n)
    PROVE  Scheduled(t) /\ Counted(t, n)
BY DEF Steady, Scheduled, Counted

LEMMA KillEffect ==
    ASSUME NEW s \in Sups
    PROVE  LET t == Kill(s)
           IN  /\ t \in Sups /\ t.pending = s.pending /\ t.answer = s.answer
               /\ t.phase = s.phase /\ t.generation = s.generation /\ t.process = s.process /\ t.closing = s.closing
               /\ t.replace = s.replace /\ t.attempts = s.attempts /\ t.timers = s.timers
               /\ t.shutdownRequested = s.shutdownRequested /\ t.killRequested = s.killRequested
BY DEF Kill, Sups

LEMMA KillReplacementSound ==
    ASSUME NEW s, Sound(s), s.pending \cap Mutations = {}, s.phase \notin {"starting", "ready"}
    PROVE  Sound(KillReplacement(s)) /\ Steady(s, KillReplacement(s))
<1> DEFINE t == KillReplacement(s)
<1>1. s \in Sups
  BY DEF Sound
<1>2. /\ t \in Sups /\ t.pending = s.pending /\ t.answer = s.answer
      /\ t.phase = s.phase /\ t.generation = s.generation /\ t.process = s.process /\ t.closing = s.closing
      /\ t.replace = s.replace /\ t.attempts = s.attempts /\ t.timers = s.timers \ ReplacementTimers
      /\ t.shutdownRequested = s.shutdownRequested /\ (t.killRequested = (s.killRequested \/ s.process # None))
  BY <1>1 DEF KillReplacement, Kill, Sups
<1> HIDE DEF t
<1>3. Answered(t) /\ Replacing(t)
  BY <1>2 DEF Sound, Answered, Replacing
<1>4. Holding(t)
  BY <1>2 DEF Sound, Holding
<1>5. Steady(s, t)
  BY <1>2, Names DEF Steady, Sound, Holding, ReplacementTimers
<1> QED
  BY <1>2, <1>3, <1>4, <1>5 DEF Sound, t

LEMMA FailSound ==
    ASSUME NEW s, Sound(s), s.process # None, ~s.closing
    PROVE  Sound(FailProcess(s)) /\ Steady(s, FailProcess(s))
<1> DEFINE k == SettleAll(s)
           t == FailProcess(s)
<1>1. Sound(k) /\ SameButRequests(s, k) /\ k.pending = {}
  <2>1. Sound(k) /\ SameButRequests(s, k) /\ k.pending = s.pending \ s.pending
    BY SettleSound, Codes DEF SettleAll
  <2> QED
    BY <2>1
<1> HIDE DEF k
<1>2. /\ t \in Sups /\ t.pending = k.pending /\ t.answer = k.answer
      /\ t.phase = "unavailable" /\ t.generation = k.generation /\ t.process = k.process /\ t.closing = k.closing
      /\ t.replace = k.replace /\ t.attempts = k.attempts /\ t.timers = k.timers \ (ReplacementTimers \cup {"readiness"})
      /\ t.shutdownRequested = k.shutdownRequested /\ t.killRequested = k.killRequested
  <2>1. k \in Sups /\ t = [Kill(k) EXCEPT !.phase = "unavailable", !.timers = @ \ (ReplacementTimers \cup {"readiness"})]
    BY <1>1 DEF FailProcess, Sound, k
  <2> QED
    BY <2>1, Names DEF Kill, Sups
<1> HIDE DEF t
<1>3. Answered(t) /\ Replacing(t)
  BY <1>1, <1>2 DEF Sound, Answered, Replacing
<1>4. Holding(t)
  BY <1>1, <1>2 DEF Sound, Holding, SameButRequests
<1>5. Steady(s, t)
  BY <1>1, <1>2 DEF Steady, SameButRequests
<1> QED
  BY <1>2, <1>3, <1>4, <1>5 DEF Sound, t

\* finishDrain() of a sound supervisor, by what it may do.
LEMMA FinishSound ==
    ASSUME NEW s, Sound(s), NEW t \in FinishDrain(s)
    PROVE  Sound(t) /\ Steady(s, t)
<1> DEFINE drained == [s EXCEPT !.timers = @ \ {"agentDrain"}]
           asking == [drained EXCEPT !.timers = (@ \ {"readiness"}) \cup ShutdownTimer, !.shutdownRequested = TRUE]
           asked == [asking EXCEPT !.inbox = Append(@, "shutdown")]
           lost == [asking EXCEPT !.phase = "unavailable"]
<1>0. s \in Sups
  BY DEF Sound
<1>1. CASE t = s
  BY <1>1 DEF Steady
<1>2. CASE t = drained
  <2>1. /\ t \in Sups /\ t.pending = s.pending /\ t.answer = s.answer /\ t.phase = s.phase
        /\ t.generation = s.generation /\ t.process = s.process /\ t.closing = s.closing
        /\ t.replace = s.replace /\ t.attempts = s.attempts /\ t.timers = s.timers \ {"agentDrain"}
        /\ t.shutdownRequested = s.shutdownRequested /\ t.killRequested = s.killRequested
    BY <1>0, <1>2 DEF Sups
  <2> HIDE DEF drained
  <2>2. Answered(t) /\ Replacing(t)
    BY <2>1 DEF Sound, Answered, Replacing
  <2>3. Holding(t)
    BY <2>1 DEF Sound, Holding
  <2>4. Steady(s, t)
    BY <2>1 DEF Steady, Sound, Holding
  <2> QED
    BY <2>1, <2>2, <2>3, <2>4 DEF Sound
<1>3. ASSUME s.replace, ~s.closing, s.pending \cap Mutations = {}, s.process # None, NEW a, a = asked \/ a = lost
      PROVE  Sound(a) /\ Steady(s, a)
  <2>1. /\ a \in Sups /\ a.pending = s.pending /\ a.answer = s.answer /\ (a.phase = s.phase \/ a.phase = "unavailable")
        /\ a.generation = s.generation /\ a.process = s.process /\ a.closing = s.closing
        /\ a.replace = s.replace /\ a.attempts = s.attempts /\ a.timers \subseteq s.timers \cup {"shutdown"}
        /\ a.shutdownRequested /\ a.killRequested = s.killRequested
    <3>1. /\ asking \in Sups /\ asking.timers \subseteq s.timers \cup {"shutdown"} /\ asking.shutdownRequested
          /\ asking.pending = s.pending /\ asking.answer = s.answer /\ asking.phase = s.phase
          /\ asking.generation = s.generation /\ asking.process = s.process /\ asking.closing = s.closing
          /\ asking.replace = s.replace /\ asking.attempts = s.attempts /\ asking.killRequested = s.killRequested
      BY <1>0 DEF Sups, ShutdownTimer, AllTimers
    <3> HIDE DEF asking
    <3>2. Append(asking.inbox, "shutdown") \in Seq(Requests \cup {"shutdown"})
      <4>1. asking.inbox \in Seq(Requests \cup {"shutdown"})
        BY <3>1 DEF Sups
      <4> QED
        BY <4>1
    <3>3. CASE a = asked
      BY <3>1, <3>2, <3>3 DEF Sups
    <3>4. CASE a = lost
      BY <3>1, <3>4, Names DEF Sups
    <3> QED
      BY <1>3, <3>3, <3>4
  <2> HIDE DEF asked, lost
  <2>2. Answered(a) /\ Replacing(a)
    BY <1>3, <2>1 DEF Sound, Answered, Replacing
  <2>3. Holding(a)
    BY <1>3, <2>1 DEF Sound, Holding
  <2>4. Steady(s, a)
    BY <1>3, <2>1 DEF Steady
  <2> QED
    BY <2>1, <2>2, <2>3, <2>4 DEF Sound
<1>4. CASE t = KillReplacement(lost) /\ s.replace /\ ~s.closing /\ s.pending \cap Mutations = {} /\ s.process # None
  <2>1. Sound(lost) /\ Steady(s, lost)
    BY <1>3, <1>4
  <2>2. lost.pending = s.pending /\ lost.phase = "unavailable"
    BY <1>0 DEF Sups
  <2> HIDE DEF lost
  <2>3. Sound(t) /\ Steady(lost, t)
    BY <1>4, <2>1, <2>2, KillReplacementSound
  <2> QED
    BY <1>4, <2>1, <2>3 DEF Steady
<1>5. CASE t = asked /\ s.replace /\ ~s.closing /\ s.pending \cap Mutations = {} /\ s.process # None
  BY <1>3, <1>5
<1> QED
  <2>1. ~HasAgentMutations(s) /\ ~SavesInFlight(s) => s.pending \cap Mutations = {}
    BY DEF HasAgentMutations, SavesInFlight, Mutations
  <2> QED
    BY <1>1, <1>2, <1>4, <1>5, <2>1 DEF FinishDrain

\* A supervisor without a process, and nothing armed, tries again or gives up.
LEMMA RetrySound ==
    ASSUME NEW s, Sound(s), s.process = None, s.attempts <= Delays,
           ~s.closing => "retry" \notin s.timers /\ s.phase # "stopped"
    PROVE  LET t == Retry(s)
           IN  /\ Sound(t) /\ Scheduled(t) /\ t.process = None /\ t.generation = s.generation /\ t.closing = s.closing
               /\ ~t.replace /\ (IF s.closing THEN t = s ELSE t.attempts = s.attempts + 1 /\ t.phase # "stopped")
<1> DEFINE t == Retry(s)
<1>0. s \in Sups
  BY DEF Sound
<1>1. CASE s.closing
  BY <1>1 DEF Retry, Sound, Holding, Scheduled
<1>2. CASE ~s.closing
  <2>1. /\ t \in Sups /\ t.pending = s.pending /\ t.answer = s.answer
        /\ t.generation = s.generation /\ t.process = s.process /\ t.closing = s.closing /\ t.replace = s.replace
        /\ t.attempts = s.attempts + 1 /\ t.shutdownRequested = s.shutdownRequested /\ t.killRequested = s.killRequested
    <3>1. s.attempts + 1 \in Nat /\ s.timers \cup {"retry"} \in SUBSET AllTimers
      BY <1>0 DEF Sups, AllTimers
    <3>2. CASE t = [s EXCEPT !.phase = "failed", !.attempts = s.attempts + 1]
      BY <1>0, <3>1, <3>2, Names DEF Sups
    <3>3. CASE t = [s EXCEPT !.phase = "unavailable", !.attempts = s.attempts + 1, !.timers = s.timers \cup {"retry"}]
      BY <1>0, <3>1, <3>3, Names DEF Sups
    <3> QED
      BY <1>0, <1>2, <3>2, <3>3 DEF Retry, Sups
  <2>2. \/ s.attempts >= Delays /\ t.phase = "failed" /\ t.timers = s.timers
        \/ s.attempts < Delays /\ t.phase = "unavailable" /\ t.timers = s.timers \cup {"retry"}
    BY <1>0, <1>2, Names DEF Retry, Sups
  <2> HIDE DEF t
  <2>3. Answered(t) /\ Replacing(t)
    BY <2>1, <2>2 DEF Sound, Answered, Replacing, Holding
  <2>4. Holding(t) /\ Scheduled(t) /\ ~t.replace
    BY <1>0, <1>2, <2>1, <2>2, Names DEF Sound, Holding, Scheduled, Sups
  <2> QED
    BY <1>2, <2>1, <2>2, <2>3, <2>4 DEF Sound, t
<1> QED
  BY <1>1, <1>2

LEMMA NewCores == Silent \in Cores /\ Opening \in Cores
<1>1. <<>> \in Seq(Messages)
  OBVIOUS
<1>2. Silent \in Cores
  BY <1>1 DEF Silent, Cores
<1> QED
  BY <1>2 DEF Opening, Cores

\* start(): a launch, or a retry when it fails at once.
LEMMA StartSound ==
    ASSUME NEW s, Sound(s), MayStart(s), s.attempts <= Delays, alive = {},
           NEW n \in Nat, n <= s.attempts, s.generation <= MaxLaunches + n, Start(s, n)
    PROVE  /\ Sound(sup') /\ Scheduled(sup') /\ Counted(sup', streak')
           /\ alive' \subseteq {sup'.process} \ {None} /\ core' \in Cores
<1> DEFINE b == Starting(s)
<1>0. s \in Sups /\ ~s.closing /\ s.process = None /\ "retry" \notin s.timers /\ s.timers = {} /\ s.pending = {}
      /\ ~s.replace /\ ~s.shutdownRequested /\ ~s.killRequested
  BY DEF Sound, MayStart, Holding
<1>1. /\ b \in Sups /\ b.pending = {} /\ b.answer = s.answer /\ b.phase = "starting"
      /\ b.generation = s.generation + 1 /\ b.process = None /\ ~b.closing /\ ~b.replace
      /\ b.attempts = s.attempts /\ b.timers = {} /\ ~b.shutdownRequested /\ ~b.killRequested
  <2>1. b = [s EXCEPT !.generation = s.generation + 1, !.phase = "starting"]
    BY <1>0 DEF Starting, Sups
  <2>2. s.generation + 1 \in Nat /\ "starting" \in Phases
    BY <1>0, Names DEF Sups
  <2> HIDE DEF b
  <2> QED
    BY <1>0, <2>1, <2>2 DEF Sups
<1> HIDE DEF b
<1>2. Sound(b)
  <2>1. Answered(b) /\ Replacing(b)
    BY <1>0, <1>1 DEF Sound, Answered, Replacing
  <2>2. Holding(b)
    BY <1>1, Names DEF Holding, Sound, Sups
  <2> QED
    BY <1>1, <2>1, <2>2 DEF Sound
<1>3. MaxLaunches \in Nat /\ s.generation \in Nat /\ s.attempts \in Nat /\ streak' = n + 1
  BY <1>0, BoundsAreNaturals DEF Sups, Start
<1>4. CASE sup' = Started(b) /\ core' = Opening /\ alive' = alive \cup {s.generation + 1}
  <2> DEFINE t == Started(b)
  <2>1. /\ t \in Sups /\ t.pending = {} /\ t.answer = s.answer /\ t.phase = "starting"
        /\ t.generation = s.generation + 1 /\ t.process = s.generation + 1 /\ ~t.closing /\ ~t.replace
        /\ t.attempts = s.attempts /\ t.timers = {"readiness"} /\ ~t.shutdownRequested /\ ~t.killRequested
    <3>1. t = [b EXCEPT !.process = b.generation, !.timers = b.timers \cup {"readiness"}, !.inbox = <<>>, !.dying = FALSE]
      BY <1>1 DEF Started, Sups
    <3>2. <<>> \in Seq(Requests \cup {"shutdown"}) /\ {"readiness"} \in SUBSET AllTimers
          /\ b.timers \cup {"readiness"} = {"readiness"} /\ s.generation + 1 \in Nat
      BY <1>1, <1>3 DEF AllTimers
    <3> HIDE DEF t
    <3> QED
      BY <1>1, <3>1, <3>2 DEF Sups
  <2> HIDE DEF t
  <2>2. Answered(t) /\ Replacing(t)
    BY <1>0, <2>1 DEF Sound, Answered, Replacing
  <2>3. t.process # None
    BY <1>3, <2>1, Names
  <2>4. n + 1 \in Nat /\ n + 1 <= Delays + 1 /\ s.generation + 1 <= MaxLaunches + (n + 1) /\ n + 1 <= s.attempts + 1
    BY <1>3, Names
  <2>5. s.attempts <= Delays + 1
    BY <1>3, Names
  <2>6. Holding(t) /\ Scheduled(t)
    BY <2>1, <2>3, <2>5 DEF Holding, Scheduled
  <2>7. Counted(t, n + 1)
    BY <2>1, <2>3, <2>4 DEF Counted
  <2>8. core' \in Cores
    BY <1>4, NewCores
  <2> QED
    BY <1>3, <1>4, <2>1, <2>2, <2>3, <2>6, <2>7, <2>8 DEF Sound, t
<1>5. CASE sup' = Retry(b) /\ core' = Silent /\ alive' = alive
  <2>1. LET t == Retry(b)
        IN  /\ Sound(t) /\ Scheduled(t) /\ t.process = None /\ t.generation = b.generation /\ t.closing = b.closing
            /\ ~t.replace /\ t.attempts = b.attempts + 1 /\ t.phase # "stopped"
    BY <1>1, <1>2, RetrySound
  <2>2. Counted(sup', n + 1)
    BY <1>1, <1>3, <1>5, <2>1, Names DEF Counted
  <2>3. core' \in Cores
    BY <1>5, NewCores
  <2> QED
    BY <1>3, <1>5, <2>1, <2>2, <2>3
<1> QED
  BY <1>4, <1>5 DEF Start, b

-----------------------------------------------------------------------------
(* Every step preserves the invariant.                                       *)

LEMMA SteadyStep ==
    ASSUME IInv, Sound(sup'), Steady(sup, sup'), alive' \subseteq alive, streak' = streak,
           core' \in Cores, executed' \subseteq Requests
    PROVE  IInv'
<1>1. Scheduled(sup') /\ Counted(sup', streak)
  BY SteadyKeeps DEF IInv
<1> QED
  BY <1>1 DEF IInv, OneProcess, Steady

\* A step that only touches the core, its inbox and what it executed.
LEMMA CoreStep ==
    ASSUME IInv, sup' = sup \/ \E q \in Seq(Requests \cup {"shutdown"}) : sup' = [sup EXCEPT !.inbox = q],
           alive' \subseteq alive, streak' = streak, core' \in Cores, executed' \subseteq Requests
    PROVE  IInv'
<1>1. /\ sup' \in Sups /\ sup'.pending = sup.pending /\ sup'.answer = sup.answer /\ sup'.phase = sup.phase
      /\ sup'.generation = sup.generation /\ sup'.process = sup.process /\ sup'.closing = sup.closing
      /\ sup'.replace = sup.replace /\ sup'.attempts = sup.attempts /\ sup'.timers = sup.timers
      /\ sup'.shutdownRequested = sup.shutdownRequested /\ sup'.killRequested = sup.killRequested
  BY DEF IInv, Sound, Sups
<1>2. Sound(sup)
  BY DEF IInv
<1>3. Answered(sup') /\ Replacing(sup') /\ Holding(sup') /\ Steady(sup, sup')
  BY <1>1, <1>2 DEF Sound, Answered, Replacing, Holding, Steady
<1> QED
  BY <1>1, <1>3, SteadyStep DEF Sound

LEMMA StartStep ==
    ASSUME IInv, NEW s, Sound(s), MayStart(s), s.attempts <= Delays, alive = {},
           NEW n \in Nat, n <= s.attempts, s.generation <= MaxLaunches + n, Start(s, n), executed' = executed
    PROVE  IInv'
BY StartSound DEF IInv, OneProcess

LEMMA BeginStep == IInv /\ (Begin \/ RetryFires) => IInv'
<1> SUFFICES ASSUME IInv, Begin \/ RetryFires PROVE IInv'
  OBVIOUS
<1>0. Sound(sup) /\ sup \in Sups /\ Counted(sup, streak) /\ alive \subseteq {sup.process} \ {None}
  BY DEF IInv, Sound, OneProcess
<1>1. CASE Begin
  <2>1. MayStart(sup) /\ sup.attempts = 0 /\ streak = 0 /\ alive = {}
    BY <1>0, <1>1 DEF Begin, MayStart, Sound, Holding, Counted
  <2> QED
    BY <1>0, <1>1, <2>1, StartStep, Names DEF Begin, Counted
<1>2. CASE RetryFires
  <2> DEFINE s == [sup EXCEPT !.timers = @ \ {"retry"}]
  <2>1. sup.process = None /\ ~sup.closing /\ sup.attempts <= Delays /\ "retry" \in sup.timers
    BY <1>0, <1>2 DEF RetryFires, Sound, Holding
  <2>2. /\ s \in Sups /\ s.pending = sup.pending /\ s.answer = sup.answer /\ s.phase = sup.phase
        /\ s.generation = sup.generation /\ s.process = sup.process /\ s.closing = sup.closing
        /\ s.replace = sup.replace /\ s.attempts = sup.attempts /\ s.timers = sup.timers \ {"retry"}
        /\ s.shutdownRequested = sup.shutdownRequested /\ s.killRequested = sup.killRequested
    BY <1>0 DEF Sups
  <2>3. Start(s, streak) /\ executed' = executed
    BY <1>2 DEF RetryFires
  <2> HIDE DEF s
  <2>4. Answered(s) /\ Replacing(s) /\ Holding(s)
    BY <1>0, <2>1, <2>2 DEF Sound, Answered, Replacing, Holding
  <2>5. MayStart(s) /\ alive = {} /\ streak \in Nat /\ streak <= s.attempts /\ s.generation <= MaxLaunches + streak
    BY <1>0, <2>1, <2>2 DEF MayStart, Counted
  <2> QED
    BY <2>1, <2>2, <2>3, <2>4, <2>5, StartStep DEF Sound
<1> QED
  BY <1>1, <1>2

LEMMA TimerStep == IInv /\ (StableFires \/ ReadinessFires \/ AgentDrainFires \/ ShutdownFires) => IInv'
<1> SUFFICES ASSUME IInv, StableFires \/ ReadinessFires \/ AgentDrainFires \/ ShutdownFires PROVE IInv'
  OBVIOUS
<1>0. Sound(sup) /\ sup \in Sups /\ core \in Cores /\ executed \subseteq Requests
  BY DEF IInv, Sound
<1>1. CASE StableFires
  <2>1. sup.process # None /\ ~sup.closing /\ sup.phase # "stopped"
    BY <1>0, <1>1 DEF StableFires, Sound, Holding
  <2>2. /\ sup' \in Sups /\ sup'.pending = sup.pending /\ sup'.answer = sup.answer /\ sup'.phase = sup.phase
        /\ sup'.generation = sup.generation /\ sup'.process = sup.process /\ sup'.closing = sup.closing
        /\ sup'.replace = sup.replace /\ sup'.attempts = 0 /\ sup'.timers = sup.timers \ {"stable"}
        /\ sup'.shutdownRequested = sup.shutdownRequested /\ sup'.killRequested = sup.killRequested
    BY <1>0, <1>1 DEF StableFires, Sups
  <2>3. Answered(sup') /\ Replacing(sup') /\ Holding(sup') /\ Scheduled(sup')
    BY <1>0, <2>1, <2>2, Names DEF Sound, Answered, Replacing, Holding, Scheduled
  <2>4. Counted(sup', 0)
    <3>1. sup.generation <= MaxLaunches + 0
      BY <1>0, <1>1, BoundsAreNaturals DEF StableFires, Sups
    <3> QED
      BY <2>1, <2>2, <3>1, Names DEF Counted
  <2>5. streak' = 0 /\ UNCHANGED <<core, alive, executed>>
    BY <1>1, <2>1 DEF StableFires
  <2> QED
    BY <1>0, <2>2, <2>3, <2>4, <2>5 DEF IInv, Sound, OneProcess
<1>2. CASE ReadinessFires
  <2>1. sup.process # None /\ ~sup.closing
    BY <1>0, <1>2 DEF ReadinessFires, Sound, Holding
  <2> QED
    BY <1>0, <1>2, <2>1, FailSound, SteadyStep DEF ReadinessFires
<1>3. CASE AgentDrainFires
  <2> DEFINE s == [sup EXCEPT !.timers = @ \ {"agentDrain"}]
             t == Settle(s, Agents, "RETRY")
  <2>1. /\ s \in Sups /\ s.pending = sup.pending /\ s.answer = sup.answer /\ s.phase = sup.phase
        /\ s.generation = sup.generation /\ s.process = sup.process /\ s.closing = sup.closing
        /\ s.replace = sup.replace /\ s.attempts = sup.attempts /\ s.timers = sup.timers \ {"agentDrain"}
        /\ s.shutdownRequested = sup.shutdownRequested /\ s.killRequested = sup.killRequested
    BY <1>0 DEF Sups
  <2>2. sup' \in FinishDrain(t) /\ UNCHANGED <<core, alive, executed, streak>> /\ "agentDrain" \in sup.timers
    BY <1>3 DEF AgentDrainFires
  <2> HIDE DEF s
  <2>3. Sound(s)
    BY <1>0, <2>1 DEF Sound, Answered, Replacing, Holding
  <2>4. Sound(t) /\ SameButRequests(s, t)
    BY <2>3, SettleSound, Codes
  <2> HIDE DEF t
  <2>5. Sound(sup') /\ Steady(t, sup')
    BY <2>2, <2>4, FinishSound
  <2>6. sup.process # None
    BY <1>0, <2>2 DEF Sound, Holding
  <2>7. Steady(sup, sup')
    BY <2>1, <2>4, <2>5, <2>6 DEF Steady, SameButRequests
  <2> QED
    BY <1>0, <2>2, <2>5, <2>7, SteadyStep
<1>4. CASE ShutdownFires
  <2> DEFINE s == [sup EXCEPT !.phase = "unavailable"]
  <2>1. /\ s \in Sups /\ s.pending = sup.pending /\ s.answer = sup.answer /\ s.phase = "unavailable"
        /\ s.generation = sup.generation /\ s.process = sup.process /\ s.closing = sup.closing
        /\ s.replace = sup.replace /\ s.attempts = sup.attempts /\ s.timers = sup.timers
        /\ s.shutdownRequested = sup.shutdownRequested /\ s.killRequested = sup.killRequested
    BY <1>0, Names DEF Sups
  <2>2. sup' = KillReplacement(s) /\ UNCHANGED <<core, alive, executed, streak>> /\ "shutdown" \in sup.timers
    BY <1>4 DEF ShutdownFires
  <2> HIDE DEF s
  <2>3. sup.process # None /\ ~sup.closing /\ sup.pending \cap Mutations = {}
    BY <1>0, <2>2 DEF Sound, Holding, Replacing
  <2>4. Sound(s)
    BY <1>0, <2>1, <2>3 DEF Sound, Answered, Replacing, Holding
  <2>5. Sound(sup') /\ Steady(s, sup')
    BY <2>1, <2>2, <2>3, <2>4, KillReplacementSound
  <2>6. Steady(sup, sup')
    BY <2>1, <2>3, <2>5 DEF Steady
  <2> QED
    BY <1>0, <2>2, <2>5, <2>6, SteadyStep
<1> QED
  BY <1>1, <1>2, <1>3, <1>4

LEMMA ExitStep == IInv /\ Exit => IInv'
<1> SUFFICES ASSUME IInv, Exit PROVE IInv'
  OBVIOUS
<1> DEFINE gone == [sup EXCEPT !.process = None, !.timers = @ \ TimersOfProcess, !.shutdownRequested = FALSE,
                               !.killRequested = FALSE, !.inbox = <<>>, !.dying = FALSE]
           h == SettleAll(gone)
<1>0. Sound(sup) /\ sup \in Sups /\ Counted(sup, streak) /\ sup.process # None /\ alive = {}
      /\ executed' = executed /\ executed \subseteq Requests
  BY DEF IInv, Sound, OneProcess, Exit
<1>1. /\ gone \in Sups /\ gone.pending = sup.pending /\ gone.answer = sup.answer /\ gone.phase = sup.phase
      /\ gone.generation = sup.generation /\ gone.process = None /\ gone.closing = sup.closing
      /\ gone.replace = sup.replace /\ gone.attempts = sup.attempts /\ gone.timers = {}
      /\ ~gone.shutdownRequested /\ ~gone.killRequested
  <2>1. sup.timers \ TimersOfProcess = {}
    BY <1>0 DEF Sound, Holding, Sups, AllTimers, TimersOfProcess, ReplacementTimers
  <2>2. gone = [sup EXCEPT !.process = None, !.timers = {}, !.shutdownRequested = FALSE,
                           !.killRequested = FALSE, !.inbox = <<>>, !.dying = FALSE]
    BY <2>1
  <2>3. <<>> \in Seq(Requests \cup {"shutdown"}) /\ None \in Nat
    BY Names
  <2> HIDE DEF gone
  <2> QED
    BY <1>0, <2>2, <2>3 DEF Sups
<1> HIDE DEF gone
<1>2. /\ h \in Sups /\ Answered(h) /\ SameButRequests(gone, h) /\ h.pending = {}
  <2>1. Answered(gone)
    BY <1>0, <1>1 DEF Sound, Answered
  <2> QED
    BY <1>1, <2>1, SettleEffect, Codes DEF SettleAll
<1> HIDE DEF h
<1>3. Replacing(h)
  BY <1>0, <1>1, <1>2 DEF Sound, Replacing, SameButRequests
<1>4. sup.attempts <= Delays /\ (~sup.closing => sup.phase # "stopped") /\ sup.attempts \in Nat /\ streak \in Nat
      /\ (sup.closing => sup.phase = "stopped")
  BY <1>0 DEF Sound, Holding, Counted, Sups
<1>5. ~sup.replace => Sound(h)
  <2>1. ASSUME ~sup.replace PROVE Holding(h)
    BY <1>0, <1>1, <1>2, <1>4, <2>1, Names DEF Holding, SameButRequests
  <2> QED
    BY <1>2, <1>3, <2>1 DEF Sound
<1>6. CASE sup.closing /\ sup' = h /\ core' = Silent /\ UNCHANGED <<alive, streak>>
  <2>1. ~sup.replace /\ Sound(h)
    BY <1>0, <1>5, <1>6 DEF Sound, Holding
  <2>2. Scheduled(h) /\ Counted(h, streak)
    BY <1>0, <1>1, <1>2, <1>4, <1>6, <2>1 DEF Scheduled, Counted, SameButRequests
  <2> QED
    BY <1>0, <1>6, <2>1, <2>2, NewCores DEF IInv, OneProcess
<1>7. CASE ~sup.closing /\ sup.replace /\ Start([h EXCEPT !.replace = FALSE], streak)
  <2> DEFINE s == [h EXCEPT !.replace = FALSE]
  <2>1. /\ s \in Sups /\ s.pending = {} /\ s.answer = h.answer /\ s.phase = sup.phase
        /\ s.generation = sup.generation /\ s.process = None /\ ~s.closing /\ ~s.replace
        /\ s.attempts = sup.attempts /\ s.timers = {} /\ ~s.shutdownRequested /\ ~s.killRequested
    BY <1>1, <1>2, <1>7 DEF Sups, SameButRequests
  <2> HIDE DEF s
  <2>2. Answered(s) /\ Replacing(s)
    BY <1>2, <2>1 DEF Answered, Replacing
  <2>3. Holding(s)
    BY <1>4, <1>7, <2>1, Names DEF Holding
  <2>4. streak = 0 /\ s.attempts = 0 /\ s.generation <= MaxLaunches + streak
    BY <1>0, <1>7, <2>1 DEF Counted, Sound, Replacing
  <2>5. MayStart(s)
    BY <2>1 DEF MayStart
  <2>6. Start(s, streak)
    BY <1>7 DEF s
  <2>7. Sound(s) /\ s.attempts <= Delays /\ streak <= s.attempts
    BY <2>1, <2>2, <2>3, <2>4, Names DEF Sound
  <2> QED
    BY <1>0, <1>4, <2>4, <2>5, <2>6, <2>7, StartStep
<1>8. CASE ~sup.closing /\ ~sup.replace /\ sup' = Retry(h) /\ core' = Silent /\ UNCHANGED <<alive, streak>>
  <2>1. h.process = None /\ h.attempts <= Delays /\ "retry" \notin h.timers /\ h.phase # "stopped" /\ ~h.closing
    BY <1>1, <1>2, <1>4, <1>8 DEF SameButRequests
  <2>2. Sound(h)
    BY <1>5, <1>8
  <2>3. /\ Sound(sup') /\ Scheduled(sup') /\ sup'.process = None /\ sup'.generation = h.generation
        /\ ~sup'.replace /\ ~sup'.closing /\ sup'.attempts = h.attempts + 1 /\ sup'.phase # "stopped"
    BY <1>8, <2>1, <2>2, RetrySound
  <2>4. Counted(sup', streak)
    <3>1. streak <= sup.attempts + 1 /\ streak <= Delays + 1 /\ sup.generation <= MaxLaunches + streak
      BY <1>0 DEF Counted
    <3>2. sup'.attempts = sup.attempts + 1 /\ sup'.generation = sup.generation
      BY <1>1, <1>2, <2>3 DEF SameButRequests
    <3> QED
      BY <1>4, <2>3, <3>1, <3>2 DEF Counted
  <2> QED
    BY <1>0, <1>8, <2>3, <2>4, NewCores DEF IInv, OneProcess
<1>9. h.closing = sup.closing /\ h.replace = sup.replace
  BY <1>1, <1>2 DEF SameButRequests
<1> QED
  BY <1>6, <1>7, <1>8, <1>9 DEF Exit, h, gone

LEMMA RestartStep == IInv /\ Restart => IInv'
<1> SUFFICES ASSUME IInv, Restart PROVE IInv'
  OBVIOUS
<1> DEFINE forgiven == [sup EXCEPT !.attempts = 0, !.timers = @ \ {"retry"}]
           drained == [forgiven EXCEPT !.replace = TRUE, !.phase = "draining"]
           draining == Settle(drained, {r \in sup.pending : ~Uncertain(r)}, "RETRY")
           bounded == IF HasAgentMutations(draining)
                      THEN [draining EXCEPT !.timers = @ \cup {"agentDrain"}] ELSE draining
<1>0. /\ Sound(sup) /\ sup \in Sups /\ Counted(sup, streak) /\ OneProcess /\ core \in Cores /\ executed \subseteq Requests
      /\ sup.phase # "stopped" /\ sup.generation < MaxLaunches /\ ~sup.closing /\ ~sup.replace /\ executed' = executed
  BY DEF IInv, Sound, Restart
<1>1. /\ forgiven \in Sups /\ forgiven.pending = sup.pending /\ forgiven.answer = sup.answer /\ forgiven.phase = sup.phase
      /\ forgiven.generation = sup.generation /\ forgiven.process = sup.process /\ ~forgiven.closing
      /\ ~forgiven.replace /\ forgiven.attempts = 0 /\ forgiven.timers = sup.timers \ {"retry"}
      /\ forgiven.shutdownRequested = sup.shutdownRequested /\ forgiven.killRequested = sup.killRequested
  BY <1>0 DEF Sups
<1>2. sup.generation \in Nat /\ sup.generation <= MaxLaunches + 0
  BY <1>0, BoundsAreNaturals DEF Sups
<1> HIDE DEF forgiven
<1>3. Sound(forgiven)
  BY <1>0, <1>1, Names DEF Sound, Answered, Replacing, Holding
<1>4. CASE sup.process = None /\ Start(forgiven, 0)
  <2>1. MayStart(forgiven) /\ alive = {} /\ forgiven.attempts <= Delays
    BY <1>0, <1>1, <1>4, Names DEF MayStart, OneProcess
  <2> QED
    BY <1>0, <1>1, <1>2, <1>3, <1>4, <2>1, StartStep
<1>5. CASE sup.process # None /\ sup' \in FinishDrain(bounded) /\ streak' = 0 /\ UNCHANGED <<core, alive>>
  <2>1. /\ drained \in Sups /\ drained.pending = sup.pending /\ drained.answer = sup.answer /\ drained.phase = "draining"
        /\ drained.generation = sup.generation /\ drained.process = sup.process /\ ~drained.closing
        /\ drained.replace /\ drained.attempts = 0 /\ drained.timers = sup.timers \ {"retry"}
        /\ drained.shutdownRequested = sup.shutdownRequested /\ drained.killRequested = sup.killRequested
    BY <1>1, Names DEF Sups
  <2> HIDE DEF drained
  <2>2. Sound(drained)
    BY <1>0, <1>5, <2>1, Names DEF Sound, Answered, Replacing, Holding
  <2>3. Sound(draining) /\ SameButRequests(drained, draining)
    BY <2>2, SettleSound, Codes
  <2> HIDE DEF draining
  <2>4. Sound(bounded) /\ Steady(drained, bounded)
    <3>1. CASE bounded = draining
      BY <2>3, <3>1 DEF Steady, SameButRequests
    <3>2. CASE bounded = [draining EXCEPT !.timers = @ \cup {"agentDrain"}]
      <4>1. /\ bounded \in Sups /\ bounded.pending = draining.pending /\ bounded.answer = draining.answer
            /\ bounded.phase = draining.phase
            /\ bounded.generation = draining.generation /\ bounded.process = draining.process
            /\ bounded.closing = draining.closing /\ bounded.replace = draining.replace
            /\ bounded.attempts = draining.attempts /\ bounded.timers = draining.timers \cup {"agentDrain"}
            /\ bounded.shutdownRequested = draining.shutdownRequested /\ bounded.killRequested = draining.killRequested
        <5>1. draining \in Sups /\ draining.timers \cup {"agentDrain"} \in SUBSET AllTimers
          BY <2>3 DEF Sound, Sups, AllTimers
        <5> HIDE DEF bounded
        <5> QED
          BY <3>2, <5>1 DEF Sups
      <4> HIDE DEF bounded
      <4>2. Sound(bounded)
        BY <1>5, <2>1, <2>3, <4>1 DEF Sound, Answered, Replacing, Holding, SameButRequests
      <4> QED
        BY <1>5, <2>1, <2>3, <4>1, <4>2 DEF Steady, SameButRequests
    <3> QED
      BY <3>1, <3>2
  <2> HIDE DEF bounded
  <2>5. Sound(sup') /\ Steady(bounded, sup')
    BY <1>5, <2>4, FinishSound
  <2>6. /\ sup'.process = sup.process /\ sup'.attempts = 0 /\ sup'.generation = sup.generation /\ sup'.closing = FALSE
        /\ sup'.phase # "stopped"
    BY <2>1, <2>4, <2>5 DEF Steady
  <2>7. Scheduled(sup') /\ Counted(sup', 0)
    BY <1>2, <1>5, <2>6, Names DEF Scheduled, Counted
  <2> QED
    BY <1>0, <1>5, <2>5, <2>6, <2>7 DEF IInv, OneProcess
<1> QED
  BY <1>4, <1>5 DEF Restart, bounded, draining, drained, forgiven

LEMMA RequestStep == ASSUME IInv, NEW r \in Requests, Request(r) \/ Deadline(r) PROVE IInv'
<1>0. Sound(sup) /\ sup \in Sups /\ core \in Cores /\ executed \subseteq Requests
  BY DEF IInv, Sound
<1>1. CASE Request(r)
  <2> DEFINE waiting == [sup EXCEPT !.pending = @ \cup {r}]
             sent == [waiting EXCEPT !.inbox = Append(@, r)]
  <2>1. /\ sup.phase = "ready" /\ sup.process # None /\ ~sup.closing /\ sup.answer[r] = "none"
        /\ UNCHANGED <<core, alive, executed, streak>>
        /\ sup' = sent \/ sup' = Settle(waiting, {r}, "CORE_UNAVAILABLE")
    BY <1>1 DEF Request, Admits
  <2>2. /\ waiting \in Sups /\ waiting.pending = sup.pending \cup {r} /\ waiting.answer = sup.answer
        /\ waiting.phase = sup.phase
        /\ waiting.generation = sup.generation /\ waiting.process = sup.process /\ waiting.closing = sup.closing
        /\ waiting.replace = sup.replace /\ waiting.attempts = sup.attempts /\ waiting.timers = sup.timers
        /\ waiting.shutdownRequested = sup.shutdownRequested /\ waiting.killRequested = sup.killRequested
    BY <1>0 DEF Sups
  <2> HIDE DEF waiting
  <2>3. Sound(waiting) /\ Steady(sup, waiting)
    BY <1>0, <2>1, <2>2 DEF Sound, Answered, Replacing, Holding, Steady
  <2>4. CASE sup' = sent
    <3>1. /\ sent \in Sups /\ sent.pending = waiting.pending /\ sent.answer = waiting.answer
          /\ sent.phase = waiting.phase
          /\ sent.generation = waiting.generation /\ sent.process = waiting.process /\ sent.closing = waiting.closing
          /\ sent.replace = waiting.replace /\ sent.attempts = waiting.attempts /\ sent.timers = waiting.timers
          /\ sent.shutdownRequested = waiting.shutdownRequested /\ sent.killRequested = waiting.killRequested
      <4>1. waiting.inbox \in Seq(Requests \cup {"shutdown"}) /\ r \in Requests \cup {"shutdown"}
        BY <2>2 DEF Sups
      <4>2. Append(waiting.inbox, r) \in Seq(Requests \cup {"shutdown"})
        BY <4>1
      <4> QED
        BY <2>2, <4>2 DEF Sups
    <3> HIDE DEF sent
    <3>2. Sound(sent) /\ Steady(waiting, sent)
      BY <2>3, <3>1 DEF Sound, Answered, Replacing, Holding, Steady
    <3>3. Steady(sup, sent)
      BY <2>1, <2>3, <3>2 DEF Steady
    <3> QED
      BY <1>0, <2>1, <2>4, <3>2, <3>3, SteadyStep
  <2>5. CASE sup' = Settle(waiting, {r}, "CORE_UNAVAILABLE")
    <3>1. Sound(sup') /\ SameButRequests(waiting, sup')
      BY <2>3, <2>5, SettleSound, Codes
    <3>2. Steady(sup, sup')
      BY <2>3, <3>1 DEF Steady, SameButRequests
    <3> QED
      BY <1>0, <2>1, <3>1, <3>2, SteadyStep
  <2> QED
    BY <2>1, <2>4, <2>5
<1>2. CASE Deadline(r)
  <2> DEFINE t == Settle(sup, {r}, "RETRY")
  <2>1. sup' \in FinishDrain(t) /\ UNCHANGED <<core, alive, executed, streak>>
    BY <1>2 DEF Deadline
  <2>2. Sound(t) /\ SameButRequests(sup, t)
    BY <1>0, SettleSound, Codes
  <2> HIDE DEF t
  <2>3. Sound(sup') /\ Steady(t, sup')
    BY <2>1, <2>2, FinishSound
  <2>4. Steady(sup, sup')
    BY <2>2, <2>3 DEF Steady, SameButRequests
  <2> QED
    BY <1>0, <2>1, <2>3, <2>4, SteadyStep
<1> QED
  BY <1>1, <1>2

LEMMA MessageStep == IInv /\ Message => IInv'
<1> SUFFICES ASSUME IInv, Message PROVE IInv'
  OBVIOUS
<1> DEFINE m == Head(core.outbox)
<1>0. Sound(sup) /\ sup \in Sups /\ core \in Cores /\ executed \subseteq Requests /\ sup.process # None
      /\ UNCHANGED <<alive, executed, streak>>
  BY DEF IInv, Sound, Message
<1>1. m \in Messages /\ core' \in Cores
  <2>1. core.outbox \in Seq(Messages) /\ core.outbox # <<>> /\ core' = [core EXCEPT !.outbox = Tail(@)]
    BY <1>0 DEF Cores, Message
  <2>2. Head(core.outbox) \in Messages /\ Tail(core.outbox) \in Seq(Messages)
    BY <2>1
  <2> QED
    BY <1>0, <2>1, <2>2 DEF Cores
<1> HIDE DEF m
<1>2. m.type = "response" => m.id \in Requests /\ m.body \in {"done", "error", "garbage"}
  <2>1. CASE m \in [type : {"response"}, id : Requests, body : {"done", "error", "garbage"}]
    BY <2>1
  <2>2. CASE m \in {[type |-> "ready"], [type |-> "failed"], [type |-> "shutdown.ready"]}
    BY <2>2
  <2> QED
    BY <1>1, <2>1, <2>2 DEF Messages
<1>3. SUFFICES Sound(sup') /\ Steady(sup, sup')
  BY <1>0, <1>1, <1>3, SteadyStep
<1>4. CASE sup' = sup
  BY <1>0, <1>4 DEF Steady
<1>5. CASE ~sup.closing /\ sup.replace /\ sup.shutdownRequested /\ sup' = KillReplacement(sup)
  <2>1. sup.pending \cap Mutations = {} /\ sup.phase \notin {"starting", "ready"}
    BY <1>0, <1>5 DEF Sound, Replacing
  <2> QED
    BY <1>0, <1>5, <2>1, KillReplacementSound
<1>6. CASE ~sup.closing /\ sup.phase = "starting"
           /\ sup' = [sup EXCEPT !.phase = "ready", !.timers = (@ \ {"readiness"}) \cup {"stable"}]
  <2>1. /\ sup' \in Sups /\ sup'.pending = sup.pending /\ sup'.answer = sup.answer /\ sup'.phase = "ready"
        /\ sup'.generation = sup.generation /\ sup'.process = sup.process /\ sup'.closing = sup.closing
        /\ sup'.replace = sup.replace /\ sup'.attempts = sup.attempts
        /\ sup'.timers = (sup.timers \ {"readiness"}) \cup {"stable"}
        /\ sup'.shutdownRequested = sup.shutdownRequested /\ sup'.killRequested = sup.killRequested
    BY <1>0, <1>6, Names DEF Sups, AllTimers
  <2>2. Answered(sup') /\ Replacing(sup') /\ Holding(sup') /\ Steady(sup, sup')
    BY <1>0, <1>6, <2>1 DEF Sound, Answered, Replacing, Holding, Steady
  <2> QED
    BY <2>1, <2>2 DEF Sound
<1>7. CASE ~sup.closing /\ sup' = FailProcess(sup)
  BY <1>0, <1>7, FailSound
<1>8. CASE ~sup.closing /\ m.type = "response"
  <2>1. ASSUME NEW t, Sound(t), SameButRequests(sup, t), sup' \in FinishDrain(t)
        PROVE  Sound(sup') /\ Steady(sup, sup')
    <3>1. Sound(sup') /\ Steady(t, sup')
      BY <2>1, FinishSound
    <3> QED
      BY <2>1, <3>1 DEF Steady, SameButRequests
  <2>2. CASE m.body = "garbage" /\ sup' \in FinishDrain(Settle(sup, {m.id}, "INVALID_CORE_MESSAGE"))
    <3>1. LET t == Settle(sup, {m.id}, "INVALID_CORE_MESSAGE") IN Sound(t) /\ SameButRequests(sup, t)
      BY <1>0, SettleSound, Codes
    <3> QED
      BY <2>1, <2>2, <3>1
  <2>3. CASE sup' \in FinishDrain(sup)
    BY <1>0, <2>1, <2>3 DEF SameButRequests
  <2>4. CASE m.body # "garbage" /\ sup' \in FinishDrain([sup EXCEPT !.pending = @ \ {m.id}, !.answer[m.id] = m.body])
    <3> DEFINE t == [sup EXCEPT !.pending = @ \ {m.id}, !.answer[m.id] = m.body]
    <3>1. m.id \in Requests /\ m.body \in {"done", "error"} /\ m.body \in Answers
      BY <1>2, <1>8, <2>4, Codes
    <3>2. [sup.answer EXCEPT ![m.id] = m.body] \in [Requests -> Answers] /\ sup.pending \ {m.id} \in SUBSET Requests
      BY <1>0, <3>1 DEF Sups
    <3>3. t \in Sups /\ SameButRequests(sup, t) /\ t.pending = sup.pending \ {m.id}
          /\ t.answer = [sup.answer EXCEPT ![m.id] = m.body]
      BY <1>0, <3>2 DEF Sups, SameButRequests
    <3> HIDE DEF t
    <3>4. Answered(t)
      <4>1. \A r \in Requests : t.answer[r] = IF r = m.id THEN m.body ELSE sup.answer[r]
        BY <1>0, <3>1, <3>3 DEF Sups
      <4>2. sup.pending \subseteq Requests /\ Answered(sup)
        BY <1>0 DEF Sups, Sound
      <4> QED
        BY <3>1, <3>3, <4>1, <4>2, Names DEF Answered
    <3>5. Replacing(t) /\ Holding(t)
      BY <1>0, <3>3 DEF Sound, Replacing, Holding, SameButRequests
    <3> QED
      BY <2>1, <2>4, <3>3, <3>4, <3>5 DEF Sound, t
  <2> QED
    BY <1>8, <2>2, <2>3, <2>4 DEF Message, m
<1>9. CASE ~sup.closing /\ m.type # "response"
  BY <1>4, <1>5, <1>6, <1>7, <1>9 DEF Message, m
<1>10. CASE sup.closing
  BY <1>4, <1>10 DEF Message, m
<1> QED
  BY <1>8, <1>9, <1>10

LEMMA StopStep == IInv /\ Stop => IInv'
<1> SUFFICES ASSUME IInv, Stop PROVE IInv'
  OBVIOUS
<1> DEFINE s == [sup EXCEPT !.closing = TRUE, !.replace = FALSE, !.phase = "stopped", !.timers = {}]
           t == SettleAll(s)
<1>0. Sound(sup) /\ sup \in Sups /\ Counted(sup, streak) /\ OneProcess /\ core \in Cores /\ executed \subseteq Requests
      /\ UNCHANGED <<core, alive, executed, streak>> /\ sup' = Kill(t)
  BY DEF IInv, Sound, Stop
<1>1. /\ s \in Sups /\ s.pending = sup.pending /\ s.answer = sup.answer /\ s.phase = "stopped"
      /\ s.generation = sup.generation /\ s.process = sup.process /\ s.closing
      /\ ~s.replace /\ s.attempts = sup.attempts /\ s.timers = {}
      /\ s.shutdownRequested = sup.shutdownRequested /\ s.killRequested = sup.killRequested
  BY <1>0, Names DEF Sups
<1> HIDE DEF s
<1>2. t \in Sups /\ Answered(t) /\ SameButRequests(s, t) /\ t.pending = {}
  <2>1. Answered(s)
    BY <1>0, <1>1 DEF Sound, Answered
  <2> QED
    BY <1>1, <2>1, SettleEffect, Codes DEF SettleAll
<1> HIDE DEF t
<1>3. /\ sup' \in Sups /\ sup'.pending = {} /\ sup'.answer = t.answer /\ sup'.phase = "stopped"
      /\ sup'.generation = sup.generation /\ sup'.process = sup.process /\ sup'.closing
      /\ ~sup'.replace /\ sup'.attempts = sup.attempts /\ sup'.timers = {}
      /\ sup'.shutdownRequested = sup.shutdownRequested /\ sup'.killRequested = sup.killRequested
  BY <1>0, <1>1, <1>2, KillEffect DEF SameButRequests
<1>4. Answered(sup')
  BY <1>2, <1>3 DEF Answered
<1>5. Replacing(sup') /\ Holding(sup')
  BY <1>0, <1>3 DEF Sound, Replacing, Holding
<1>6. Scheduled(sup') /\ Counted(sup', streak)
  BY <1>0, <1>3 DEF Scheduled, Counted
<1> QED
  BY <1>0, <1>3, <1>4, <1>5, <1>6 DEF IInv, Sound, OneProcess

LEMMA SaysCore == ASSUME core \in Cores, NEW m \in Messages PROVE Say(m) \in Cores
<1>1. Append(core.outbox, m) \in Seq(Messages)
  BY DEF Cores
<1> QED
  BY <1>1 DEF Say, Cores

LEMMA ProcessStep ==
    ASSUME IInv,
           \/ CoreOpens \/ CoreBreaks \/ CoreTakes \/ CoreConfirmsShutdown \/ CoreCrashes
           \/ \E r \in Requests : CoreActs(r) \/ CoreAnswers(r)
           \/ \E g \in alive : CoreKilled(g)
    PROVE  IInv'
<1>0. sup \in Sups /\ core \in Cores /\ executed \subseteq Requests
  BY DEF IInv, Sound
<1>1. CASE CoreOpens
  <2>1. Say([type |-> "ready"]) \in Cores
    BY <1>0, SaysCore DEF Messages
  <2>2. core' \in Cores
    BY <1>1, <2>1 DEF CoreOpens, Cores
  <2> QED
    BY <1>0, <1>1, <2>2, CoreStep DEF CoreOpens
<1>2. CASE CoreBreaks
  <2>1. Say([type |-> "failed"]) \in Cores
    BY <1>0, SaysCore DEF Messages
  <2>2. core' \in Cores
    BY <1>2, <2>1 DEF CoreBreaks, Cores
  <2> QED
    BY <1>0, <1>2, <2>2, CoreStep DEF CoreBreaks
<1>3. CASE CoreTakes
  <2>1. sup.inbox \in Seq(Requests \cup {"shutdown"}) /\ sup.inbox # <<>>
    BY <1>0, <1>3 DEF CoreTakes, Sups
  <2>2. Tail(sup.inbox) \in Seq(Requests \cup {"shutdown"}) /\ Head(sup.inbox) \in Requests \cup {"shutdown"}
    BY <2>1
  <2> DEFINE m == Head(sup.inbox)
  <2>3. CASE core' = [core EXCEPT !.stage = "stopping"]
    <3>1. core' \in Cores
      BY <1>0, <2>3 DEF Cores
    <3> QED
      BY <1>0, <1>3, <2>2, <3>1, CoreStep DEF CoreTakes
  <2>4. CASE m # "shutdown" /\ core' = Say([type |-> "response", id |-> m, body |-> "error"])
    <3>1. [type |-> "response", id |-> m, body |-> "error"] \in Messages
      BY <2>2, <2>4 DEF Messages
    <3>2. core' \in Cores
      BY <1>0, <2>4, <3>1, SaysCore
    <3> QED
      BY <1>0, <1>3, <2>2, <3>2, CoreStep DEF CoreTakes
  <2>5. CASE m # "shutdown" /\ core' = [core EXCEPT !.working = @ \cup {m}]
    <3>1. core' \in Cores
      BY <1>0, <2>2, <2>5 DEF Cores
    <3> QED
      BY <1>0, <1>3, <2>2, <3>1, CoreStep DEF CoreTakes
  <2> QED
    BY <1>3, <2>3, <2>4, <2>5 DEF CoreTakes
<1>4. CASE CoreConfirmsShutdown
  <2>1. Say([type |-> "shutdown.ready"]) \in Cores
    BY <1>0, SaysCore DEF Messages
  <2>2. core' \in Cores
    BY <1>4, <2>1 DEF CoreConfirmsShutdown, Cores
  <2> QED
    BY <1>0, <1>4, <2>2, CoreStep DEF CoreConfirmsShutdown
<1>5. CASE CoreCrashes \/ \E g \in alive : CoreKilled(g)
  BY <1>0, <1>5, CoreStep DEF CoreCrashes, CoreKilled
<1>6. ASSUME NEW r \in Requests, CoreActs(r) PROVE IInv'
  BY <1>0, <1>6, CoreStep DEF CoreActs
<1>7. ASSUME NEW r \in Requests, CoreAnswers(r) PROVE IInv'
  <2>1. PICK body \in {"done", "error", "garbage"} :
            core' = [Say([type |-> "response", id |-> r, body |-> body]) EXCEPT !.working = @ \ {r}]
    BY <1>7 DEF CoreAnswers
  <2>2. [type |-> "response", id |-> r, body |-> body] \in Messages
    BY DEF Messages
  <2>3. Say([type |-> "response", id |-> r, body |-> body]) \in Cores
    BY <1>0, <2>2, SaysCore
  <2>4. core' \in Cores
    BY <2>1, <2>3 DEF Cores
  <2> QED
    BY <1>0, <1>7, <2>4, CoreStep DEF CoreAnswers
<1> QED
  BY <1>1, <1>2, <1>3, <1>4, <1>5, <1>6, <1>7

LEMMA StepInv == IInv /\ [Next]_vars => IInv'
<1> SUFFICES ASSUME IInv, [Next]_vars PROVE IInv'
  OBVIOUS
<1>1. CASE UNCHANGED vars
  BY <1>1 DEF vars, IInv, OneProcess
<1>2. CASE Timers
  BY <1>2, BeginStep, TimerStep DEF Timers
<1>3. CASE Begin \/ Exit \/ Restart \/ Message \/ Stop
  BY <1>3, BeginStep, ExitStep, RestartStep, MessageStep, StopStep
<1>4. CASE \E r \in Requests : Request(r) \/ Deadline(r)
  BY <1>4, RequestStep
<1> QED
  BY <1>1, <1>2, <1>3, <1>4, ProcessStep DEF Next

LEMMA InitInv == Init => IInv
<1> SUFFICES ASSUME Init PROVE IInv
  OBVIOUS
<1>1. <<>> \in Seq(Requests \cup {"shutdown"}) /\ [r \in Requests |-> "none"] \in [Requests -> Answers]
  BY Codes
<1>2. /\ sup \in Sups /\ sup.pending = {} /\ sup.answer = [r \in Requests |-> "none"] /\ sup.phase = "stopped"
      /\ sup.generation = 0 /\ sup.process = None /\ ~sup.closing
      /\ ~sup.replace /\ sup.attempts = 0 /\ sup.timers = {}
      /\ ~sup.shutdownRequested /\ ~sup.killRequested
  BY <1>1, Names DEF Init, Sups
<1>3. core \in Cores /\ alive = {} /\ executed = {} /\ streak = 0
  BY NewCores DEF Init
<1>4. Answered(sup) /\ Replacing(sup) /\ Holding(sup) /\ Scheduled(sup)
  BY <1>2, Names DEF Answered, Replacing, Holding, Scheduled
<1>5. Counted(sup, streak)
  BY <1>2, <1>3, BoundsAreNaturals, Names DEF Counted
<1> QED
  BY <1>2, <1>3, <1>4, <1>5 DEF IInv, Sound, OneProcess

-----------------------------------------------------------------------------
(* The theorems.                                                             *)

\* The inductive invariant of the supervisor's handlers holds, whatever the core
\* does and whichever process dies (core-supervisor.ts).
THEOREM InvHolds == Spec => []IInv
BY InitInv, StepInv, PTL DEF Spec

\* A core that failed is replaced once its process has exited and never before,
\* the next launch is always scheduled or given up, and a core that keeps dying
\* is launched at most four times in a row (start, retry and the exit handler).
THEOREM RecoveryHoldsAlways == Spec => []RecoveryHolds
<1>1. IInv => RecoveryHolds
  <2> SUFFICES ASSUME IInv PROVE RecoveryHolds
    OBVIOUS
  <2>1. sup \in Sups /\ Answered(sup) /\ Holding(sup) /\ Counted(sup, streak) /\ Scheduled(sup) /\ OneProcess
        /\ core \in Cores /\ executed \subseteq Requests
    BY DEF IInv, Sound
  <2>2. sup.generation \in Generations /\ sup.process \in Generations /\ sup.attempts \in 0..(Delays + 1)
    BY <2>1, BoundsAreNaturals, Names DEF Sups, Holding, Counted, Generations
  <2>3. sup \in [phase : {"stopped", "starting", "ready", "unavailable", "draining", "failed"},
                 generation : Generations, process : Generations, closing : BOOLEAN,
                 replace : BOOLEAN, attempts : 0..(Delays + 1),
                 timers : SUBSET {"retry", "stable", "readiness", "agentDrain", "shutdown"},
                 pending : SUBSET Requests, answer : [Requests -> Answers],
                 shutdownRequested : BOOLEAN, killRequested : BOOLEAN,
                 inbox : Seq(Requests \cup {"shutdown"}), dying : BOOLEAN]
    BY <2>1, <2>2 DEF Sups, Phases, AllTimers
  <2>4. alive \subseteq Generations /\ core.working \subseteq Requests /\ \A r \in sup.pending : sup.answer[r] = "none"
    BY <2>1, <2>2 DEF OneProcess, Cores, Answered
  <2>5. TypeOK
    BY <2>1, <2>3, <2>4 DEF TypeOK
  <2>6. OneCore /\ RecoveryScheduled /\ CrashLoopBounded
    BY <2>1 DEF OneProcess, OneCore, Scheduled, RecoveryScheduled, Counted, CrashLoopBounded
  <2> QED
    BY <2>5, <2>6 DEF RecoveryHolds
<1> QED
  BY <1>1, InvHolds, PTL

\* Neither a shutdown request nor a kill of the replacement overtakes a save or an
\* agent command in flight, and whatever ends such a request without an answer
\* says that its outcome is unknown (failureCode, finishDrain, killReplacement).
THEOREM MutationsAreSafeAlways == Spec => []MutationsAreSafe
<1>1. IInv => MutationsAreSafe
  BY DEF IInv, Sound, Answered, Replacing, Mutations, MutationsAreSafe, MutationsHoldReplacement, MutationsStayUncertain
<1> QED
  BY <1>1, InvHolds, PTL
=============================================================================
