---------------------------- MODULE AgentClient -----------------------------
(***************************************************************************)
(* The renderer's client of the agent run service (agents/bridge-client.ts *)
(* and live-state.ts), behind the preload's generation filter              *)
(* (electron/preload.ts).  The supervisor and the core are the             *)
(* environment: they answer late, not at all, or from a generation that    *)
(* is gone.  The window receives status, events and answers in the order   *)
(* main sends them.                                                        *)
(*                                                                         *)
(* The answer of a read that can no longer count (an older epoch or        *)
(* ticket) arrives as "late", for its generation alone; that of a command  *)
(* is never late: the core may still carry it out.  Texts are numbered by  *)
(* the gestures that typed them.                                           *)
(***************************************************************************)
EXTENDS Integers, FiniteSets, SequencesExt

CONSTANTS
    Runs, None,
    MaxOps,        \* commands the user gives
    MaxActs,       \* gestures of the user, commands included
    MaxFaults,     \* failed reads, deadlines, crashes and updates of the core
    MaxGens        \* generations of the core

ASSUME ConstantsAssumption ==
    /\ IsFiniteSet(Runs) /\ {MaxOps, MaxActs, MaxFaults, MaxGens} \subseteq Nat
    /\ None \notin Runs /\ None \notin Nat /\ None \notin [text : Nat, run : Runs \cup {None}, preparing : BOOLEAN]

Ops == 1..MaxOps
ReadKeys == {<<"snap">>, <<"read">>, <<"prep">>} \cup ({"receipt"} \X Ops)

VARIABLES
    \* On disk.
    runs,      \* Run -> "none", "running" or "ended"
    receipts,  \* command -> its instruction receipt
    done,      \* history: the commands that may have taken effect
    \* The core and its supervisor.
    core,      \* generation, phase, sequence, the run a context is prepared for
    texts,     \* history: Run -> the text its context was prepared from
    taken,     \* commands the supervisor has, with the generation of each
    reached,   \* commands that have left the renderer
    faults,
    inbox,     \* status, events and answers on their way to the window
    pgen,      \* the preload's generation
    \* The client.
    view,      \* what it observes
    draft,     \* the launch form, or None
    proposal,  \* a task under review for the form, or None
    ops,       \* the commands given, oldest first
    asking,    \* commands whose receipt is being read
    missed,    \* history: a read failed and nothing has asked again since
    acts

diskVars   == <<runs, receipts, done>>
coreVars   == <<core, texts, taken, reached>>
formVars   == <<draft, proposal>>
clientVars == <<view, formVars, ops, asking, missed>>
vars == <<diskVars, coreVars, faults, inbox, pgen, clientVars, acts>>

-----------------------------------------------------------------------------
Status(g, phase) == [kind |-> "status", gen |-> g, phase |-> phase]
Reply(k, g, out) == [kind |-> "answer", key |-> k, gen |-> g, out |-> out, seq |-> -1, data |-> None]
Found(k, g, seq, data) == [kind |-> "answer", key |-> k, gen |-> g, out |-> "ok", seq |-> seq, data |-> data]
Send(more) == inbox' = inbox \o more

NoDetail == [state |-> "none", receipts |-> [o \in Ops |-> "none"]]
Detail(run) == [state |-> runs[run], receipts |-> receipts]
Form(text) == [text |-> text, run |-> None, preparing |-> FALSE]

\* A window that restores its checkpoint: a run is shown, or a form is open.
Init ==
    /\ runs \in [Runs -> {"none", "running"}] /\ Cardinality({r \in Runs : runs[r] = "running"}) <= 1
    /\ receipts = [o \in Ops |-> "none"] /\ done = {}
    /\ core = [gen |-> 1, phase |-> "ready", seq |-> 0, draft |-> None]
    /\ texts = [r \in Runs |-> None] /\ taken = {} /\ reached = {} /\ faults = 0
    /\ inbox = <<Status(1, "ready")>> /\ pgen = 0
    /\ \E chosen \in {r \in Runs : runs[r] = "running"} \cup {None} :
        /\ view = [connected |-> FALSE, gen |-> -1, mark |-> -1, seq |-> -1, runs |-> <<>>,
                   chosen |-> chosen, detail |-> NoDetail, stale |-> TRUE,
                   reading |-> FALSE, again |-> FALSE, refreshing |-> FALSE]
        /\ draft = IF chosen = None THEN Form(0) ELSE None
    /\ proposal = None /\ ops = <<>> /\ asking = {} /\ missed = FALSE /\ acts = 0

-----------------------------------------------------------------------------
\* Reads.  What the client awaits is what its flags say; one answer is on its way at most.
Awaited == {k \in ReadKeys : \/ k = <<"snap">> /\ view.refreshing
                             \/ k = <<"read">> /\ view.reading
                             \/ k = <<"prep">> /\ draft # None /\ draft.preparing
                             \/ k[1] = "receipt" /\ k[2] \in asking}
Open(k) == k \in Awaited /\ \A i \in DOMAIN inbox : inbox[i].kind = "answer" => inbox[i].key # k

\* Answered by a core that serves; failed by the supervisor of one that does not.
AnswerRead(k) ==
    /\ Open(k) /\ k # <<"prep">>
    /\ LET run == IF k[1] = "receipt" THEN ops[k[2]].run ELSE view.chosen
           found == Found(k, core.gen, core.seq, IF k = <<"snap">> THEN runs ELSE Detail(run))
       IN  Send(<<IF core.phase = "ready" /\ (k = <<"snap">> \/ runs[run] # "none") THEN found ELSE Reply(k, core.gen, "no")>>)
    /\ UNCHANGED <<diskVars, coreVars, faults, pgen, clientVars>>

AnswerPrepare ==
    /\ Open(<<"prep">>)
    /\ \/ \E r \in Runs :
            /\ core.phase = "ready" /\ runs[r] = "none" /\ texts[r] = None
            /\ texts' = [texts EXCEPT ![r] = draft.text]
            /\ core' = [core EXCEPT !.draft = r]
            /\ Send(<<Found(<<"prep">>, core.gen, -1, r)>>)
       \/ Send(<<Reply(<<"prep">>, core.gen, "no")>>) /\ UNCHANGED <<core, texts>>
    /\ UNCHANGED <<diskVars, taken, reached, faults, pgen, clientVars>>

ReadFails(k) ==
    /\ Open(k) /\ k # <<"prep">> /\ faults < MaxFaults
    /\ faults' = faults + 1
    /\ Send(<<Reply(k, core.gen, "no")>>)
    /\ UNCHANGED <<diskVars, coreVars, pgen, clientVars>>

-----------------------------------------------------------------------------
\* Commands: taken by the supervisor if the core is ready.
Take(o) ==
    /\ o \in DOMAIN ops \ reached
    /\ reached' = reached \cup {o}
    /\ IF core.phase = "ready"
       THEN taken' = taken \cup {[op |-> o, gen |-> core.gen, settled |-> FALSE]} /\ UNCHANGED inbox
       ELSE Send(<<Reply(<<"op", o>>, core.gen, "rejected")>>) /\ UNCHANGED taken
    /\ UNCHANGED <<diskVars, core, texts, faults, pgen, clientVars>>

Up == core.phase \in {"ready", "draining"}
Answer(t, out) == IF t.settled THEN <<>> ELSE <<Reply(<<"op", t.op>>, t.gen, out)>>
\* What the supervisor says in the core's stead (uncertainMutationCode).
Unknown(ts) == SetToSeq({Reply(<<"op", t.op>>, t.gen, "delivery-unknown") : t \in {u \in ts : ~u.settled}})

\* publishAgents: an event for every change, forwarded only while the phase is ready; then the answers.
Changed(c, answers) ==
    LET event == [kind |-> "event", gen |-> core.gen, seq |-> core.seq + 1, runs |-> runs']
    IN  /\ core' = [c EXCEPT !.seq = @ + 1]
        /\ Send((IF core.phase = "ready" THEN <<event>> ELSE <<>>) \o answers)

Refuse(t) ==
    /\ Up /\ t \in taken /\ receipts[t.op] = "none"
    /\ taken' = taken \ {t} /\ Send(Answer(t, "rejected"))
    /\ UNCHANGED <<diskVars, core, texts, reached, faults, pgen, clientVars>>

\* Launch, instruction and stop in the core; an instruction is recorded before it is delivered.
CarryOut(t) ==
    /\ Up /\ t \in taken /\ receipts[t.op] = "none"
    /\ \/ /\ ops[t.op].kind = "launch" /\ ops[t.op].run = core.draft /\ \A r \in Runs : runs[r] # "running"
          /\ runs' = [runs EXCEPT ![core.draft] = "running"]
          /\ taken' = taken \ {t} /\ done' = done \cup {t.op}
          /\ Changed([core EXCEPT !.draft = None], Answer(t, "accepted"))
          /\ UNCHANGED receipts
       \/ /\ ops[t.op].kind = "steer" /\ runs[ops[t.op].run] = "running"
          /\ receipts' = [receipts EXCEPT ![t.op] = "pending"]
          /\ runs' = runs /\ Changed(core, <<>>)
          /\ UNCHANGED <<done, taken>>
       \/ /\ ops[t.op].kind = "cancel" /\ runs[ops[t.op].run] = "running"
          /\ taken' = taken \ {t} /\ done' = done \cup {t.op} /\ Send(Answer(t, "accepted"))
          /\ UNCHANGED <<runs, receipts, core>>
    /\ UNCHANGED <<texts, reached, faults, pgen, clientVars>>

\* The provider's answer to an instruction, or its deadline.
Acknowledge(t) ==
    /\ Up /\ t \in taken /\ receipts[t.op] = "pending"
    /\ \E how \in {"accepted", "rejected", "delivery-unknown"} :
        /\ receipts' = [receipts EXCEPT ![t.op] = how]
        /\ done' = IF how = "rejected" THEN done ELSE done \cup {t.op}
        /\ runs' = runs /\ Changed(core, Answer(t, how))
    /\ taken' = taken \ {t}
    /\ UNCHANGED <<texts, reached, faults, pgen, clientVars>>

\* What was pending is unknown once the run is over.
Pending(rs) == {o \in DOMAIN ops : ops[o].run \in rs /\ receipts[o] = "pending"}
Over(rs) == /\ runs' = [r \in Runs |-> IF r \in rs /\ runs[r] = "running" THEN "ended" ELSE runs[r]]
            /\ receipts' = [o \in Ops |-> IF o \in Pending(rs) THEN "delivery-unknown" ELSE receipts[o]]
            /\ done' = done \cup Pending(rs)

RunEnds(r) ==
    /\ Up /\ runs[r] = "running"
    /\ Over({r})
    /\ LET ts == {t \in taken : t.op \in Pending({r})}
       IN  taken' = taken \ ts /\ Changed(core, Unknown(ts))
    /\ UNCHANGED <<texts, reached, faults, pgen, clientVars>>

\* A deadline of the supervisor: the core may still carry the command out.
Deadline(t) ==
    /\ t \in taken /\ ~t.settled /\ faults < MaxFaults
    /\ faults' = faults + 1
    /\ taken' = (taken \ {t}) \cup {[t EXCEPT !.settled = TRUE]}
    /\ Send(Unknown({t}))
    /\ UNCHANGED <<diskVars, core, texts, reached, pgen, clientVars>>

\* A crash: the successor finds the runs of the core interrupted.
Crash ==
    /\ core.phase = "ready" /\ core.gen < MaxGens /\ faults < MaxFaults
    /\ faults' = faults + 1
    /\ core' = [core EXCEPT !.phase = "down", !.draft = None]
    /\ Over(Runs) /\ taken' = {} /\ Send(<<Status(core.gen, "unavailable")>> \o Unknown(taken))
    /\ UNCHANGED <<texts, reached, pgen, clientVars>>

Opening(g) == <<Status(g, "starting"), Status(g, "ready")>>
Successor(c) == [gen |-> c.gen + 1, phase |-> "ready", seq |-> 0, draft |-> None]

Start ==
    /\ core.phase = "down"
    /\ core' = Successor(core) /\ Send(Opening(core.gen + 1))
    /\ UNCHANGED <<diskVars, texts, taken, reached, faults, pgen, clientVars>>

\* restart(): no request is taken any more, commands may still be answered; the exit of
\* the drained core announces its successor before the answers it leaves behind.
Drain ==
    /\ core.phase = "ready" /\ core.gen < MaxGens /\ faults < MaxFaults
    /\ faults' = faults + 1
    /\ core' = [core EXCEPT !.phase = "draining"] /\ Send(<<Status(core.gen, "draining")>>)
    /\ UNCHANGED <<diskVars, texts, taken, reached, pgen, clientVars>>

Replaced ==
    /\ core.phase = "draining"
    /\ core' = Successor(core)
    /\ Over(Runs) /\ taken' = {} /\ Send(Opening(core.gen + 1) \o Unknown(taken))
    /\ UNCHANGED <<texts, reached, faults, pgen, clientVars>>

-----------------------------------------------------------------------------
\* The window.  Answers that can no longer count are dropped on the way.
First(kind) == inbox # <<>> /\ Head(inbox).kind = kind
Outdated(s, keys) ==
    [i \in DOMAIN s |-> IF s[i].kind = "answer" /\ s[i].key \in keys THEN [kind |-> "late", gen |-> s[i].gen] ELSE s[i]]
Arrive(keys) == inbox' = Outdated(Tail(inbox), keys)
Forget(keys) == inbox' = Outdated(inbox, keys)

ReadDetail(v) == IF v.chosen = None \/ ~v.connected THEN v
                 ELSE IF v.reading THEN [v EXCEPT !.again = TRUE] ELSE [v EXCEPT !.reading = TRUE]
Refresh(v) == IF v.connected THEN [v EXCEPT !.refreshing = TRUE] ELSE v
AcceptSnapshot(v, seq, seen) ==
    IF seq < v.mark THEN v
    ELSE ReadDetail([v EXCEPT !.mark = seq, !.runs = seen, !.stale = v.chosen # None /\ seq > v.seq])

\* recoverLiveAgentState
Unresolved(op) == op.status \in {"pending", "delivery-unknown"}
\* Mutant: a command no answer came for is taken as not carried out.
RecoveredBug(op) == [op EXCEPT !.waiting = FALSE, !.status = IF @ = "pending" THEN "rejected" ELSE @]

Recovered(op) == [op EXCEPT !.waiting = FALSE, !.status = IF @ = "pending" THEN "delivery-unknown" ELSE @]
Unprepared(d) == IF d = None THEN None ELSE Form(d.text)

\* A new generation counts its sequence from zero.  Mutant: the old watermark stays.
RenewedBug(v, g) == [v EXCEPT !.gen = g]

Renewed(v, g) == IF g = v.gen THEN v ELSE [v EXCEPT !.gen = g, !.mark = -1, !.seq = -1]

\* acceptStatus: an epoch ends with the generation, and whenever the core is not ready.
OnStatus ==
    /\ First("status")
    /\ LET s == Head(inbox)
           ends == s.gen # view.gen \/ s.phase # "ready"
           v == IF ends THEN [Renewed(view, s.gen) EXCEPT !.connected = FALSE, !.stale = TRUE,
                                          !.reading = FALSE, !.again = FALSE, !.refreshing = FALSE]
                ELSE view
           now == [v EXCEPT !.connected = s.phase = "ready"]
       IN  /\ pgen' = IF s.gen > pgen THEN s.gen ELSE pgen
           /\ view' = IF now.connected /\ ~v.connected THEN Refresh(now) ELSE now
           /\ IF ends
              THEN /\ Arrive(ReadKeys) /\ asking' = {} /\ proposal' = None /\ missed' = FALSE
                   /\ draft' = Unprepared(draft) /\ ops' = [o \in DOMAIN ops |-> Recovered(ops[o])]
              ELSE Arrive({}) /\ UNCHANGED <<formVars, ops, asking, missed>>
    /\ UNCHANGED <<diskVars, coreVars, faults>>

OnEvent ==
    /\ First("event") /\ Arrive({})
    /\ LET e == Head(inbox)
           heard == e.gen >= pgen
           counts == heard /\ view.connected /\ e.seq >= view.mark
       IN  /\ pgen' = IF heard THEN e.gen ELSE pgen
           /\ view' = IF counts THEN AcceptSnapshot(view, e.seq, e.runs) ELSE view
           /\ missed' = (missed /\ ~counts)
    /\ UNCHANGED <<diskVars, coreVars, faults, formVars, ops, asking>>

OnLate ==
    /\ First("late") /\ Arrive({})
    /\ pgen' = IF Head(inbox).gen > pgen THEN Head(inbox).gen ELSE pgen
    /\ UNCHANGED <<diskVars, coreVars, faults, clientVars>>

\* preload: the answer of an older generation is no answer.
Received == LET p == Head(inbox) IN
    IF p.gen >= pgen THEN p ELSE Reply(p.key, p.gen, IF p.key[1] = "op" THEN "delivery-unknown" ELSE "no")
Got(name) ==
    /\ First("answer") /\ Head(inbox).key[1] = name
    /\ pgen' = IF Head(inbox).gen > pgen THEN Head(inbox).gen ELSE pgen
    /\ UNCHANGED <<diskVars, coreVars, faults>>

GotSnapshot ==
    /\ Got("snap") /\ Arrive({})
    /\ LET v == [view EXCEPT !.refreshing = FALSE]
           a == Received
       IN  IF a.out = "ok" THEN view' = AcceptSnapshot(v, a.seq, a.data) /\ missed' = (missed /\ a.seq < v.mark)
                           ELSE view' = v /\ missed' = TRUE
    /\ UNCHANGED <<formVars, ops, asking>>

\* readDetail: what a read shows, the receipts it settles, and whether to read again.
Shown(v, a) ==
    IF v.detail.state = "ended" /\ a.data.state # "ended" THEN [v EXCEPT !.stale = TRUE]
    ELSE [v EXCEPT !.seq = a.seq, !.mark = IF a.seq > @ THEN a.seq ELSE @, !.detail = a.data, !.stale = FALSE]
Settled(op, receipt) == IF receipt = "none" THEN op ELSE [op EXCEPT !.status = receipt]

GotDetail ==
    /\ Got("read") /\ Arrive({})
    /\ LET a == Received
           counts == a.out = "ok" /\ a.seq >= view.mark /\ a.seq >= view.seq
           v == [(IF counts THEN Shown(view, a) ELSE view) EXCEPT !.reading = FALSE, !.again = FALSE]
       IN  /\ view' = IF view.again THEN ReadDetail(v) ELSE v
           /\ ops' = IF counts /\ ~v.stale
                     THEN [o \in DOMAIN ops |-> IF ops[o].run = v.chosen THEN Settled(ops[o], a.data.receipts[o]) ELSE ops[o]]
                     ELSE ops
           /\ missed' = (missed \/ (a.out # "ok" /\ ~view.again))
    /\ UNCHANGED <<formVars, asking>>

GotPrepared ==
    /\ Got("prep") /\ Arrive({})
    /\ draft' = [draft EXCEPT !.preparing = FALSE, !.run = Received.data]
    /\ UNCHANGED <<view, proposal, ops, asking, missed>>

\* A launch that was admitted closes the form it came from, if that is still the form.
\* Mutant: any form.
RetiresBug(op, out) == out = "accepted" /\ op.kind = "launch" /\ draft # None

Retires(op, out) == out = "accepted" /\ op.kind = "launch" /\ draft # None /\ draft.run = op.run

\* mutate: an observed receipt outranks the acknowledgement, an ended epoch silences it.
GotOutcome ==
    /\ Got("op")
    /\ LET a == Received
           o == a.key[2]
           op == ops[o]
           retired == Retires(op, a.out)
       IN  IF ~op.waiting THEN Arrive({}) /\ UNCHANGED <<view, formVars, ops>>
           ELSE /\ ops' = [ops EXCEPT ![o].waiting = FALSE, ![o].status = IF Unresolved(op) THEN a.out ELSE @]
                /\ draft' = IF retired THEN None ELSE draft
                /\ proposal' = IF retired THEN None ELSE proposal
                /\ view' = Refresh(view) /\ Arrive({<<"snap">>})
    /\ UNCHANGED <<asking, missed>>

\* reconcileOperation: read the run of an unresolved command.
GotReceipt ==
    /\ Got("receipt")
    /\ LET a == Received
           o == a.key[2]
           found == IF ops[o].kind = "launch" THEN "accepted" ELSE a.data.receipts[o]
           v == [view EXCEPT !.mark = a.seq, !.stale = view.chosen # None /\ a.seq > view.seq]
       IN  /\ asking' = asking \ {o}
           /\ IF a.out = "ok" /\ a.seq >= view.mark
              THEN /\ ops' = IF Unresolved(ops[o]) THEN [ops EXCEPT ![o] = Settled(@, found)] ELSE ops
                   /\ view' = IF v.stale THEN Refresh(v) ELSE v
                   /\ Arrive(IF v.stale THEN {<<"snap">>} ELSE {})
              ELSE Arrive({}) /\ UNCHANGED <<ops, view>>
    /\ UNCHANGED <<formVars, missed>>

-----------------------------------------------------------------------------
\* The user.
Here == UNCHANGED <<diskVars, coreVars, faults, pgen>>

Reconcile(o) ==
    /\ view.connected /\ o \in DOMAIN ops \ asking
    /\ ops[o].kind # "cancel" /\ Unresolved(ops[o])
    /\ asking' = asking \cup {o}
    /\ Here /\ UNCHANGED <<inbox, view, formVars, ops, missed>>

Choose(r) == [view EXCEPT !.chosen = r, !.detail = NoDetail, !.seq = -1, !.stale = TRUE, !.reading = FALSE, !.again = FALSE]

Select(r) ==
    /\ view.runs # <<>> /\ view.runs[r] # "none" /\ view.chosen # r
    /\ view' = ReadDetail(Choose(r)) /\ Forget({<<"read">>})
    /\ missed' = (missed /\ ~view.connected)
    /\ Here /\ UNCHANGED <<formVars, ops, asking>>

\* The form: any change of it (another text, another model, a task accepted or removed, closing)
\* revokes what was prepared and what is under review.
Change(d) ==
    /\ draft' = d /\ Forget({<<"prep">>})
    /\ Here /\ UNCHANGED <<view, ops, asking, missed>>
Revoked == IF proposal = None THEN None ELSE [proposal EXCEPT !.valid = FALSE]

OpenDraft == draft = None /\ Change(Form(0)) /\ proposal' = Revoked
EditDraft == draft # None /\ (\E t \in {draft.text, acts + 1} : Change(Form(t))) /\ proposal' = Revoked
CloseDraft == draft # None /\ Change(None) /\ proposal' = None

\* proposeTaskAttachment, acceptTaskAttachment("append"): into the form that was reviewed, or not at all.
Propose ==
    /\ view.connected /\ proposal' = [text |-> IF draft = None THEN 0 ELSE draft.text, valid |-> TRUE]
    /\ Here /\ UNCHANGED <<inbox, view, draft, ops, asking, missed>>
AcceptTask ==
    /\ proposal # None /\ proposal' = None
    /\ \/ proposal.valid /\ Change(Form(proposal.text))
       \/ ~proposal.valid /\ Here /\ UNCHANGED <<inbox, view, draft, ops, asking, missed>>

Prepare ==
    /\ draft # None /\ ~draft.preparing /\ view.connected
    /\ draft' = [draft EXCEPT !.run = None, !.preparing = TRUE]
    /\ Here /\ UNCHANGED <<inbox, view, proposal, ops, asking, missed>>

Give(kind, run, text) ==
    /\ Len(ops) < MaxOps
    /\ ops' = Append(ops, [kind |-> kind, run |-> run, text |-> text, status |-> "pending", waiting |-> TRUE])
    /\ Here /\ UNCHANGED <<formVars, asking, missed>>
Given(kind, run) == {o \in DOMAIN ops : ops[o].kind = kind /\ ops[o].run = run}

\* launch of the prepared context, confirmed just before.
Launch ==
    /\ draft # None /\ draft.run # None /\ view.connected
    /\ view.runs # <<>> /\ \A r \in Runs : view.runs[r] # "running"
    /\ \A o \in Given("launch", draft.run) : ops[o].status = "rejected"
    /\ Give("launch", draft.run, draft.text)
    /\ view' = Choose(draft.run) /\ Forget({<<"read">>})

Current == /\ view.connected /\ view.chosen # None /\ ~view.stale
           /\ view.detail.state = "running" /\ view.runs[view.chosen] = "running"
           /\ \A o \in Given("cancel", view.chosen) : ops[o].status = "rejected"
Steer ==
    /\ Current
    /\ \A o \in Ops : view.detail.receipts[o] \notin {"pending", "delivery-unknown"}
    /\ \A o \in Given("steer", view.chosen) : ~Unresolved(ops[o])
    /\ Give("steer", view.chosen, None) /\ UNCHANGED <<inbox, view>>
Stop == Current /\ Give("cancel", view.chosen, None) /\ UNCHANGED <<inbox, view>>

-----------------------------------------------------------------------------
Environment ==
    \/ \E k \in ReadKeys : AnswerRead(k) \/ ReadFails(k)
    \/ AnswerPrepare
    \/ \E o \in Ops : Take(o)
    \/ \E t \in taken : Refuse(t) \/ CarryOut(t) \/ Acknowledge(t) \/ Deadline(t)
    \/ \E r \in Runs : RunEnds(r)
    \/ Crash \/ Start \/ Drain \/ Replaced
Window == OnLate \/ OnStatus \/ OnEvent \/ GotSnapshot \/ GotDetail \/ GotPrepared \/ GotOutcome \/ GotReceipt
User ==
    \/ \E r \in Runs : Select(r)
    \/ OpenDraft \/ EditDraft \/ CloseDraft \/ Propose \/ AcceptTask \/ Prepare
    \/ Launch \/ Steer \/ Stop \/ \E o \in Ops : Reconcile(o)

Next == \/ (Environment \/ Window) /\ acts' = acts
        \/ User /\ acts < MaxActs /\ acts' = acts + 1

Spec == Init /\ [][Next]_vars

-----------------------------------------------------------------------------
\* A command shown as accepted took effect; one shown as rejected did not and never will,
\* whatever was lost, late, or answered by a generation that is gone; and of one run at most
\* one instruction is without a known outcome (mutate, recoverLiveAgentState, steer).
ReceiptsAreHonest ==
    /\ \A o \in DOMAIN ops :
        /\ ops[o].status = "accepted" => o \in done /\ (ops[o].kind = "steer" => receipts[o] = "accepted")
        /\ ops[o].status = "rejected" => o \in reached \ done /\ \A t \in taken : t.op # o
    /\ \A r \in Runs : Cardinality({o \in Given("steer", r) : Unresolved(ops[o])}) <= 1

\* Text leaves the form when the user edits or closes it, or because a launch of exactly that
\* text was admitted; and what is prepared is the context of the text in the form, whichever
\* preparation was overtaken (editDraft, prepare, launch, acceptTaskAttachment).
DraftKept ==
    /\ [][ draft # None /\ (draft' = None \/ draft'.text # draft.text) =>
            \/ EditDraft \/ CloseDraft
            \/ \E o \in DOMAIN ops' : ops'[o].kind = "launch" /\ ops'[o].text = draft.text /\ ops'[o].status = "accepted" ]_vars
    /\ [](draft # None /\ draft.run # None => texts[draft.run] = draft.text)

\* What is shown of a run never goes back while one core serves it; and at rest it is shown
\* as it is, unless a read failed after the last news (acceptStatus, acceptSnapshot, readDetail).
AtRest == inbox = <<>> /\ Awaited = {} /\ taken = {} /\ reached = DOMAIN ops /\ core.phase = "ready"
ViewFollows ==
    /\ [][ view'.chosen = view.chosen /\ view'.gen = view.gen /\ view'.seq # -1
            => /\ view'.seq >= view.seq /\ view'.mark >= view.mark
               /\ view.detail.state = "ended" => view'.detail.state = "ended" ]_vars
    /\ [](AtRest /\ view.connected /\ view.chosen # None /\ ~missed /\ runs[view.chosen] # "none"
          => view.detail = Detail(view.chosen) /\ ~view.stale)
=============================================================================
