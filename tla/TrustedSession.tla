--------------------------- MODULE TrustedSession ---------------------------
(***************************************************************************)
(* One trusted conversation: TrustedLocalSession of                        *)
(* core/agents/trusted-local-session.ts, its user and the Codex app-server *)
(* it talks to over two ordered pipes.  The server answers a request when  *)
(* it likes, so notifications may overtake an acknowledgement; it may      *)
(* repeat the completion of a turn.  Turns are numbered by the server; 0   *)
(* stands for none.  Texts, items and activities are abstracted.           *)
(***************************************************************************)
EXTENDS Integers, Sequences, SequencesExt

CONSTANTS
    Forked,      \* the session forks a parent's thread instead of starting one
    MaxTurn,     \* bound: turns the server starts
    Approval,    \* identities of the server's approval requests
    MaxWire      \* bound: messages under way in a pipe

ASSUME ConstantsAssumption == Forked \in BOOLEAN /\ MaxTurn \in Nat /\ MaxWire \in Nat \ {0}

VARIABLES
    \* The session.
    status,      \* state.status
    op,          \* the awaited request of start() or send(); NoOp: not busy
    dispatch,    \* the turn being dispatched: its identity (0: not known) and whether done
    successful,  \* successfulTurn
    completed,   \* completedTurns
    approvals,   \* the approvals shown
    stop,        \* stop(): "none", "grace" (interrupting), "closing" or "done"
    cleanup,     \* "open", "closing", then "confirmed" or "unknown"
    \* The pipes and the server.
    toServer, wire,
    turn,        \* the turn the server runs, 0 for none
    turns,       \* outcomes of the turns the server ended, by number
    owed,        \* responses the server has not yet written
    asked,       \* approvals the server waits for
    answers      \* Approval -> times the session answered it

session == <<status, op, dispatch, successful, completed, approvals, stop, cleanup>>
server  == <<turn, turns, owed, asked>>
vars == <<session, server, toServer, wire, answers>>

Active == {"starting", "ready", "running"}
Dead   == {"closed", "failed"}

\* The answer to a request: awaited, an error, or the turn it names (0: none).
Awaited  == -2
Rejected == -1
NoOp == [kind |-> "none", answer |-> Awaited]
Sent(kind) == [kind |-> kind, answer |-> Awaited]
Busy == op # NoOp
\* No continuation of an answered request is due: timers and callers may run.
Quiet == op.answer = Awaited

Setup == IF Forked THEN <<"initialize", "thread", "clear", "goal">> ELSE <<"initialize", "thread">>

Init ==
    /\ status = "starting" /\ op = NoOp
    /\ dispatch = [id |-> 0, done |-> TRUE] /\ successful = 0 /\ completed = {}
    /\ approvals = {} /\ stop = "none" /\ cleanup = "open"
    /\ toServer = <<>> /\ wire = <<>>
    /\ turn = 0 /\ turns = <<>> /\ owed = {} /\ asked = {}
    /\ answers = [a \in Approval |-> 0]

Write(m) == toServer' = Append(toServer, m)
Request(kind, t) == [kind |-> kind, turn |-> t]

-----------------------------------------------------------------------------
(* fail(), close() and stop().                                               *)

\* The session fails: every pending request is rejected, and it closes.
Failed ==
    /\ status' = "failed" /\ op' = NoOp /\ approvals' = {}
    /\ stop' = IF stop = "grace" THEN "closing" ELSE stop
    /\ cleanup' = IF cleanup = "open" THEN "closing" ELSE cleanup

\* An acknowledgement times out, the stream ends or is invalid, the process
\* exits, or a write fails.
Fails ==
    /\ Quiet /\ status \notin Dead
    /\ Failed
    /\ UNCHANGED <<dispatch, successful, completed, server, toServer, wire, answers>>

\* stop(): interrupt a turn that is known and not done, then close.
Interruptible == status \in Active /\ dispatch.id # 0 /\ ~dispatch.done

Stop ==
    /\ Quiet /\ stop = "none"
    /\ status' = IF status \in Active THEN "stopping" ELSE status
    /\ approvals' = {}
    /\ IF Interruptible
       THEN /\ stop' = "grace" /\ Write(Request("interrupt", dispatch.id))
            /\ UNCHANGED <<op, cleanup>>
       ELSE /\ stop' = "closing" /\ op' = NoOp
            /\ cleanup' = IF cleanup = "open" THEN "closing" ELSE cleanup
            /\ UNCHANGED toServer
    /\ UNCHANGED <<dispatch, successful, completed, server, wire, answers>>

\* The grace of one second passed without a terminal turn.  Mutant: it is not
\* bounded, Stop awaits the end of the turn.
GraceExpiresBug == dispatch.done
GraceExpires == TRUE

GraceEnds ==
    /\ Quiet /\ stop = "grace" /\ GraceExpires
    /\ stop' = "closing" /\ op' = NoOp
    /\ cleanup' = IF cleanup = "open" THEN "closing" ELSE cleanup
    /\ UNCHANGED <<status, dispatch, successful, completed, approvals, server, toServer, wire,
                   answers>>

\* Mutant: cleanup that ran out of time still closes the session.
ClosedAsBug(outcome) == IF status # "failed" THEN "closed" ELSE status
ClosedAs(outcome) == IF status # "failed" /\ outcome = "confirmed" THEN "closed" ELSE "failed"

\* The transport's verdict, or five seconds.
Closes ==
    /\ Quiet /\ cleanup = "closing"
    /\ cleanup' \in {"confirmed", "unknown"}
    /\ status' = ClosedAs(cleanup')
    /\ stop' = IF stop = "closing" THEN "done" ELSE stop
    /\ UNCHANGED <<op, dispatch, successful, completed, approvals, server, toServer, wire, answers>>

\* stop() of a session that closed before resolves at once.
StopResolves ==
    /\ stop = "closing" /\ cleanup \in {"confirmed", "unknown"}
    /\ stop' = "done"
    /\ UNCHANGED <<status, op, dispatch, successful, completed, approvals, cleanup, server,
                   toServer, wire, answers>>

-----------------------------------------------------------------------------
(* start(), send() and decide().                                             *)

Start ==
    /\ Quiet /\ status = "starting" /\ ~Busy /\ toServer = <<>> /\ wire = <<>> /\ owed = {}
    /\ op' = Sent(Setup[1]) /\ Write(Request(Setup[1], 0))
    /\ UNCHANGED <<status, dispatch, successful, completed, approvals, stop, cleanup, server,
                   wire, answers>>

\* begin(): a new dispatch replaces the last one.
Begin ==
    /\ dispatch' = [id |-> 0, done |-> FALSE] /\ successful' = 0 /\ approvals' = {}
    /\ status' = "running"
    /\ op' = Sent("turn") /\ Write(Request("turn", 0))

\* A message to a running turn steers it.  Mutant: it starts a turn of its own.
StartsTurnBug == TRUE
StartsTurn == status = "ready"
Sendable == ~Busy /\ status \in {"ready", "running"} /\ approvals = {}

Send ==
    /\ Quiet /\ Sendable
    /\ Len(toServer) < MaxWire
    /\ \/ StartsTurn /\ Begin
       \/ /\ ~StartsTurn /\ dispatch.id # 0
          /\ op' = Sent("steer") /\ Write(Request("steer", dispatch.id))
          /\ UNCHANGED <<status, dispatch, successful, approvals>>
    /\ UNCHANGED <<completed, stop, cleanup, server, wire, answers>>

Answer(a) ==
    /\ Write([kind |-> "answer", id |-> a])
    /\ answers' = [answers EXCEPT ![a] = @ + 1]

Decided(a) == approvals \ {a}

Decide(a) ==
    /\ Quiet /\ status = "running" /\ a \in approvals
    /\ Len(toServer) < MaxWire
    /\ approvals' = Decided(a) /\ Answer(a)
    /\ UNCHANGED <<status, op, dispatch, successful, completed, stop, cleanup, server, wire>>

-----------------------------------------------------------------------------
(* The continuations of start() and send().                                  *)

\* confirm(): both an acknowledgement and a notification may name the turn.
Confirmable(t) == dispatch.id \in {0, t}

Continue ==
    /\ ~Quiet
    /\ LET rest == SelectInSeq(Setup, LAMBDA k : k = op.kind)
       IN \/ \* A rejected request, or an answer for another turn, fails the session.
             /\ \/ op.answer = Rejected
                \/ op.kind = "turn" /\ ~Confirmable(op.answer)
                \/ op.kind = "steer" /\ op.answer # dispatch.id
             /\ IF status \in Active THEN Failed
                ELSE op' = NoOp /\ UNCHANGED <<status, approvals, stop, cleanup>>
             /\ UNCHANGED <<dispatch, successful, toServer>>
          \/ \* The set-up goes on to its next request, then to the first turn.
             /\ op.answer # Rejected /\ rest > 0 /\ status \in Active
             /\ \/ /\ rest < Len(Setup)
                   /\ op' = Sent(Setup[rest + 1]) /\ Write(Request(Setup[rest + 1], 0))
                   /\ UNCHANGED <<status, dispatch, successful, approvals>>
                \/ rest = Len(Setup) /\ Begin
             /\ UNCHANGED <<stop, cleanup>>
          \/ /\ op.answer # Rejected
             /\ \/ rest > 0 /\ status \notin Active /\ UNCHANGED dispatch
                \/ op.kind = "steer" /\ op.answer = dispatch.id /\ UNCHANGED dispatch
                \/ op.kind = "turn" /\ Confirmable(op.answer) /\ dispatch' = [dispatch EXCEPT !.id = op.answer]
             /\ op' = NoOp
             /\ UNCHANGED <<status, successful, approvals, stop, cleanup, toServer>>
    /\ UNCHANGED <<completed, server, wire, answers>>

-----------------------------------------------------------------------------
(* receive(): a message of the server.                                       *)

\* Which turn notifications the session heeds.
Heeded(t) == ~dispatch.done /\ t \notin completed /\ Confirmable(t)

\* turn/completed.
Succeeded(t, outcome) == IF outcome = "completed" THEN t ELSE 0

TurnEnds(t, outcome) ==
    /\ dispatch' = [id |-> t, done |-> TRUE]
    /\ approvals' = {}
    /\ successful' = Succeeded(t, outcome) /\ completed' = completed \cup {t}
    /\ status' = IF status = "running" THEN "ready" ELSE status
    /\ IF stop = "grace"
       THEN /\ stop' = "closing" /\ op' = NoOp
            /\ cleanup' = IF cleanup = "open" THEN "closing" ELSE cleanup
       ELSE UNCHANGED <<stop, op, cleanup>>
    /\ UNCHANGED <<toServer, answers>>

\* An approval request of the running turn is shown; any other is cancelled.
Showable(t) == status = "running" /\ t \notin completed /\ ~dispatch.done /\ Confirmable(t)

Asked(a, t) ==
    /\ IF Showable(t)
       THEN /\ dispatch' = [dispatch EXCEPT !.id = t]
            /\ approvals' = approvals \cup {a} /\ UNCHANGED <<toServer, answers>>
       ELSE Answer(a) /\ UNCHANGED <<dispatch, approvals>>
    /\ UNCHANGED <<status, op, successful, completed, stop, cleanup>>

\* serverRequest/resolved.  Mutant: it clears every approval shown.
WithdrawnBug(a) == {}
Withdrawn(a) == approvals \ {a}

Receive ==
    /\ wire # <<>> /\ status \notin Dead
    /\ wire' = Tail(wire)
    /\ LET m == Head(wire)
       IN \/ /\ m.type = "response" /\ m.kind = op.kind /\ Quiet
             /\ op' = [op EXCEPT !.answer = m.value]
             /\ UNCHANGED <<status, dispatch, successful, completed, approvals, stop, cleanup,
                            toServer, answers>>
          \/ \* A response nothing waits for, or a notification of no concern.
             /\ \/ m.type = "response" /\ (m.kind # op.kind \/ ~Quiet)
                \/ m.type \in {"started", "ended"} /\ ~Heeded(m.turn)
             /\ UNCHANGED <<session, toServer, answers>>
          \/ /\ m.type = "started" /\ Heeded(m.turn)
             /\ dispatch' = [dispatch EXCEPT !.id = m.turn]
             /\ UNCHANGED <<status, op, successful, completed, approvals, stop, cleanup,
                            toServer, answers>>
          \/ m.type = "ended" /\ Heeded(m.turn) /\ TurnEnds(m.turn, m.outcome)
          \/ m.type = "asked" /\ Asked(m.id, m.turn)
          \/ /\ m.type = "resolved"
             /\ approvals' = Withdrawn(m.id)
             /\ UNCHANGED <<status, op, dispatch, successful, completed, stop, cleanup,
                            toServer, answers>>
    /\ UNCHANGED server

-----------------------------------------------------------------------------
(* The server: it runs one turn at a time, and answers when it likes.        *)

Room == Len(wire) < MaxWire
Tell(m) == wire' = Append(wire, m)
Response(kind, value) == [type |-> "response", kind |-> kind, value |-> value]

ServerTakes ==
    /\ toServer # <<>> /\ Room
    /\ toServer' = Tail(toServer)
    /\ LET m == Head(toServer)
       IN CASE m.kind = "turn" ->
                 /\ Len(turns) < MaxTurn
                 /\ turn' = Len(turns) + 1 /\ owed' = owed \cup {Response("turn", turn')}
                 /\ UNCHANGED <<turns, asked, wire>>
            [] m.kind = "steer" ->
                 /\ owed' = owed \cup {Response("steer", IF turn = m.turn THEN turn ELSE Rejected)}
                 /\ UNCHANGED <<turn, turns, asked, wire>>
            [] m.kind = "interrupt" ->
                 /\ IF turn = m.turn
                    THEN /\ turn' = 0 /\ turns' = Append(turns, "interrupted") /\ asked' = {}
                         /\ Tell([type |-> "ended", turn |-> m.turn, outcome |-> "interrupted"])
                    ELSE UNCHANGED <<turn, turns, asked, wire>>
                 /\ UNCHANGED owed
            [] m.kind = "answer" ->
                 asked' = asked \ {m.id} /\ UNCHANGED <<turn, turns, owed, wire>>
            [] OTHER ->
                 /\ \E value \in {0, Rejected} : owed' = owed \cup {Response(m.kind, value)}
                 /\ UNCHANGED <<turn, turns, asked, wire>>
    /\ UNCHANGED <<session, answers>>

ServerResponds ==
    /\ Room
    /\ \E m \in owed : Tell(m) /\ owed' = owed \ {m}
    /\ UNCHANGED <<session, turn, turns, asked, toServer, answers>>

ServerEnds ==
    /\ turn # 0 /\ Room /\ Len(turns) < MaxTurn
    /\ \E outcome \in {"completed", "failed"} :
          /\ turns' = Append(turns, outcome)
          /\ Tell([type |-> "ended", turn |-> turn, outcome |-> outcome])
    /\ turn' = 0 /\ asked' = {}
    /\ UNCHANGED <<session, owed, toServer, answers>>

\* The server announces a turn, or repeats the end of the last one.
ServerAnnounces ==
    /\ Room
    /\ \/ turn # 0 /\ Tell([type |-> "started", turn |-> turn])
       \/ turns # <<>> /\ Tell([type |-> "ended", turn |-> Len(turns), outcome |-> Last(turns)])
    /\ UNCHANGED <<session, server, toServer, answers>>

ServerAsks(a) ==
    /\ turn # 0 /\ Room /\ a \notin asked /\ answers[a] = 0
    /\ \A i \in DOMAIN wire : wire[i].type \in {"asked", "resolved"} => wire[i].id # a
    /\ a \notin approvals
    /\ asked' = asked \cup {a}
    /\ Tell([type |-> "asked", id |-> a, turn |-> turn])
    /\ UNCHANGED <<session, turn, turns, owed, toServer, answers>>

ServerResolves(a) ==
    /\ a \in asked /\ Room
    /\ asked' = asked \ {a}
    /\ Tell([type |-> "resolved", id |-> a])
    /\ UNCHANGED <<session, turn, turns, owed, toServer, answers>>

-----------------------------------------------------------------------------
Next ==
    \/ Start \/ Send \/ Stop \/ \E a \in Approval : Decide(a)
    \/ Continue \/ Receive
    \/ Fails \/ GraceEnds \/ Closes \/ StopResolves
    \/ ServerTakes \/ ServerResponds \/ ServerEnds \/ ServerAnnounces
    \/ \E a \in Approval : ServerAsks(a) \/ ServerResolves(a)

Spec == Init /\ [][Next]_vars

\* The event loop runs continuations and timers; the server owes nothing.
FairSpec ==
    Spec /\ WF_vars(Continue) /\ WF_vars(GraceEnds) /\ WF_vars(Closes) /\ WF_vars(StopResolves)
-----------------------------------------------------------------------------
TypeOK ==
    /\ status \in Active \cup {"stopping"} \cup Dead
    /\ op.kind \in {"none", "turn", "steer"} \cup {Setup[i] : i \in DOMAIN Setup}
    /\ op.answer \in Awaited..MaxTurn
    /\ dispatch \in [id : 0..MaxTurn, done : BOOLEAN]
    /\ successful \in 0..MaxTurn /\ completed \subseteq 1..MaxTurn
    /\ approvals \subseteq Approval /\ asked \subseteq Approval
    /\ stop \in {"none", "grace", "closing", "done"}
    /\ cleanup \in {"open", "closing", "confirmed", "unknown"}
    /\ turn \in 0..MaxTurn /\ turns \in Seq({"completed", "failed", "interrupted"})
    /\ answers \in [Approval -> Nat]

\* send() starts a turn only when the server runs none, however the
\* acknowledgement, the completion and the next message are ordered.
NoOverlap == \A i \in DOMAIN toServer : toServer[i].kind = "turn" => turn = 0

\* forkPoint(): the point offered to a child is the end of the server's last
\* turn, which succeeded, and no message to it is pending.
ForkPoint == IF ~Busy /\ status = "ready" /\ dispatch.done /\ successful = dispatch.id
             THEN dispatch.id ELSE 0
ForkPointIsSettled ==
    ForkPoint # 0 => turn = 0 /\ ForkPoint = Len(turns) /\ Last(turns) = "completed"

\* Turns are well ordered (and the variables have their types).
TurnsInOrder == TypeOK /\ NoOverlap /\ ForkPointIsSettled

\* decide(): "synchronous transport callbacks cannot answer twice", and an
\* automatic cancellation is the only answer.
AnsweredOnce == \A a \in Approval : answers[a] <= 1

\* An approval the server's turn waits for is under way, shown or answered: a
\* running turn is never blocked by a question nobody can see.
NoLostApproval ==
    \A a \in asked :
        status = "running" =>
            \/ a \in approvals \/ answers[a] > 0
            \/ \E i \in DOMAIN wire : wire[i].type = "asked" /\ wire[i].id = a

\* Every question of the server is answered once or can still be.
ApprovalsAnswered == AnsweredOnce /\ NoLostApproval

\* The session publishes only what its owner relies on.
Life == INSTANCE SessionLife WITH
            cleanup <- IF cleanup = "closing" THEN "open" ELSE cleanup
ImplementsLife == Life!Spec

\* Stop ends, whatever the server does or leaves undone.
StopEnds == (stop # "none") ~> (stop = "done" /\ status \in Dead)
=============================================================================
