------------------------- MODULE AgentClientProofs --------------------------
(***************************************************************************)
(* What the renderer's client promises its user for any number of runs,    *)
(* commands, generations and faults: a command shown as accepted took      *)
(* effect and one shown as rejected never will, the text in the form is    *)
(* kept, and what is shown of a run follows what the core last said.       *)
(***************************************************************************)
EXTENDS AgentClient, FiniteSetTheorems, TLAPS

-----------------------------------------------------------------------------
(* Types.                                                                    *)

RunStates == {"none", "running", "ended"}
Outcomes == {"accepted", "rejected", "delivery-unknown"}
Receipts == Outcomes \cup {"none", "pending"}
Details == [state : RunStates, receipts : [Ops -> Receipts]]
Cores == [gen : Nat \ {0}, phase : {"ready", "draining", "down"}, seq : Nat, draft : Runs \cup {None}]
Commands == [op : Ops, gen : Nat \ {0}, settled : BOOLEAN]
Views == [connected : BOOLEAN, gen : Int, mark : Int, seq : Int, runs : {<<>>} \cup [Runs -> RunStates],
          chosen : Runs \cup {None}, detail : Details, stale : BOOLEAN,
          reading : BOOLEAN, again : BOOLEAN, refreshing : BOOLEAN]
Forms == [text : Nat, run : Runs \cup {None}, preparing : BOOLEAN]
Proposals == [text : Nat, valid : BOOLEAN]
Gestures == [kind : {"launch", "steer", "cancel"}, run : Runs, text : Nat \cup {None},
             status : Outcomes \cup {"pending"}, waiting : BOOLEAN]

\* What travels to the window: status, events, what has become late, and the answers.
ReadingKeys == {<<"read">>} \cup ({"receipt"} \X Ops)
OpKeys == {"op"} \X Ops
Answers == [kind : {"answer"}, key : OpKeys \cup ReadKeys, gen : Nat \ {0}, out : Outcomes \cup {"no", "ok"}, seq : Int,
            data : {None} \cup Runs \cup [Runs -> RunStates] \cup Details]
Statuses == [kind : {"status"}, gen : Nat \ {0}, phase : {"starting", "ready", "draining", "unavailable"}]
Events == [kind : {"event"}, gen : Nat \ {0}, seq : Nat, runs : [Runs -> RunStates]]
Lates == [kind : {"late"}, gen : Nat \ {0}]

\* An outcome answers a command; a read is refused or finds what it was for.
WellFormed(a) ==
    /\ a.key \in OpKeys => a.out \in Outcomes
    /\ a.key \in ReadKeys => a.out \in {"no", "ok"}
    /\ a.out = "no" => a.data = None
    /\ a.out = "ok" => /\ a.key = <<"snap">> => a.seq \in Nat /\ a.data \in [Runs -> RunStates]
                       /\ a.key = <<"prep">> => a.data \in Runs
                       /\ a.key \in ReadingKeys => a.seq \in Nat /\ a.data \in Details
Messages == Statuses \cup Events \cup Lates \cup {a \in Answers : WellFormed(a)}

TypeInv ==
    /\ runs \in [Runs -> RunStates] /\ receipts \in [Ops -> Receipts] /\ done \subseteq Ops
    /\ core \in Cores /\ texts \in [Runs -> Nat \cup {None}]
    /\ taken \subseteq Commands /\ IsFiniteSet(taken) /\ reached \subseteq Ops /\ faults \in Nat
    /\ inbox \in Seq(Messages) /\ pgen \in Nat
    /\ view \in Views /\ (view.reading => view.chosen # None) /\ draft \in Forms \cup {None} /\ proposal \in Proposals \cup {None}
    /\ ops \in Seq(Gestures) /\ Len(ops) <= MaxOps /\ asking \subseteq Ops /\ missed \in BOOLEAN /\ acts \in Nat

\* An answer that still counts, and what it may be an answer to.
Live(m, keys) == m.kind = "answer" /\ m.key \in keys
Tells(m, o) == m.kind = "answer" /\ m.key = <<"op", o>>
Reads(m) == Live(m, ReadingKeys) /\ m.out = "ok"

-----------------------------------------------------------------------------
(* Lemmas: messages and queues.                                              *)

\* The keys of commands and of reads are different things.
LEMMA KeysDiffer ==
    /\ OpKeys \cap ReadKeys = {} /\ ReadingKeys \subseteq ReadKeys
    /\ <<"snap">> \in ReadKeys /\ <<"prep">> \in ReadKeys /\ <<"read">> \in ReadingKeys
    /\ <<"snap">> \notin ReadingKeys /\ <<"prep">> \notin ReadingKeys /\ <<"snap">> # <<"prep">>
    /\ \A o \in Ops : <<"op", o>> \in OpKeys /\ <<"receipt", o>> \in ReadingKeys /\ <<"receipt", o>> # <<"read">>
    /\ \A k \in ReadKeys : k = <<"snap">> \/ k = <<"prep">> \/ k = <<"read">> \/ \E o \in Ops : k = <<"receipt", o>>
    /\ \A k \in OpKeys : \E o \in Ops : k = <<"op", o>>
    /\ \A k \in OpKeys \cup ReadKeys : /\ k[1] = "snap" <=> k = <<"snap">>
                                       /\ k[1] = "prep" <=> k = <<"prep">>
                                       /\ k[1] = "read" <=> k = <<"read">>
                                       /\ k[1] = "op" <=> k \in OpKeys
                                       /\ k[1] = "op" => k[2] \in Ops /\ k = <<"op", k[2]>>
                                       /\ k[1] = "receipt" => k[2] \in Ops /\ k = <<"receipt", k[2]>>
BY DEF ReadKeys, OpKeys, ReadingKeys, Ops

LEMMA MessageKinds ==
    ASSUME NEW m \in Messages
    PROVE  /\ m.kind \in {"status", "event", "late", "answer"} /\ m.gen \in Nat \ {0}
           /\ m.kind = "status" => m \in Statuses
           /\ m.kind = "event" => m \in Events
           /\ m.kind = "answer" => m \in Answers /\ WellFormed(m)
<1>1. CASE m \in Statuses
  BY <1>1 DEF Statuses
<1>2. CASE m \in Events
  BY <1>2 DEF Events
<1>3. CASE m \in Lates
  BY <1>3 DEF Lates
<1>4. CASE m \in {a \in Answers : WellFormed(a)}
  BY <1>4 DEF Answers
<1> QED
  BY <1>1, <1>2, <1>3, <1>4 DEF Messages

LEMMA MessagesMade ==
    ASSUME NEW g \in Nat \ {0}
    PROVE  /\ \A phase \in {"starting", "ready", "draining", "unavailable"} : Status(g, phase) \in Messages
           /\ [kind |-> "late", gen |-> g] \in Messages
           /\ \A k \in ReadKeys : Reply(k, g, "no") \in Messages
           /\ \A o \in Ops, out \in Outcomes : Reply(<<"op", o>>, g, out) \in Messages
           /\ \A r \in Runs : Found(<<"prep">>, g, -1, r) \in Messages
           /\ \A n \in Nat, d \in [Runs -> RunStates] :
                /\ Found(<<"snap">>, g, n, d) \in Messages
                /\ [kind |-> "event", gen |-> g, seq |-> n, runs |-> d] \in Messages
           /\ \A n \in Nat, d \in Details, k \in ReadingKeys : Found(k, g, n, d) \in Messages
<1>1. \A phase \in {"starting", "ready", "draining", "unavailable"} : Status(g, phase) \in Messages
  BY DEF Status, Statuses, Messages
<1>2. [kind |-> "late", gen |-> g] \in Messages
  BY DEF Lates, Messages
<1>3. \A k \in ReadKeys : Reply(k, g, "no") \in Messages
  <2> TAKE k \in ReadKeys
  <2>1. Reply(k, g, "no") \in Answers
    BY DEF Reply, Answers
  <2>2. WellFormed(Reply(k, g, "no"))
    BY KeysDiffer DEF Reply, WellFormed
  <2> QED
    BY <2>1, <2>2 DEF Messages
<1>4. \A o \in Ops, out \in Outcomes : Reply(<<"op", o>>, g, out) \in Messages
  <2> TAKE o \in Ops, out \in Outcomes
  <2>0. <<"op", o>> \in OpKeys
    BY DEF OpKeys
  <2>1. Reply(<<"op", o>>, g, out) \in Answers
    BY <2>0 DEF Reply, Answers
  <2>2. WellFormed(Reply(<<"op", o>>, g, out))
    BY KeysDiffer DEF Reply, WellFormed, Outcomes
  <2> QED
    BY <2>1, <2>2 DEF Messages
<1>5. \A r \in Runs : Found(<<"prep">>, g, -1, r) \in Messages
  <2> TAKE r \in Runs
  <2>1. Found(<<"prep">>, g, -1, r) \in Answers
    BY KeysDiffer DEF Found, Answers
  <2>2. WellFormed(Found(<<"prep">>, g, -1, r))
    BY KeysDiffer DEF Found, WellFormed
  <2> QED
    BY <2>1, <2>2 DEF Messages
<1>6. \A n \in Nat, d \in [Runs -> RunStates] : Found(<<"snap">>, g, n, d) \in Messages
  <2> TAKE n \in Nat, d \in [Runs -> RunStates]
  <2>1. Found(<<"snap">>, g, n, d) \in Answers
    BY KeysDiffer DEF Found, Answers
  <2>2. WellFormed(Found(<<"snap">>, g, n, d))
    BY KeysDiffer DEF Found, WellFormed
  <2> QED
    BY <2>1, <2>2 DEF Messages
<1>7. \A n \in Nat, d \in [Runs -> RunStates] : [kind |-> "event", gen |-> g, seq |-> n, runs |-> d] \in Messages
  BY DEF Events, Messages
<1>8. \A n \in Nat, d \in Details, k \in ReadingKeys : Found(k, g, n, d) \in Messages
  <2> TAKE n \in Nat, d \in Details, k \in ReadingKeys
  <2>1. Found(k, g, n, d) \in Answers
    BY KeysDiffer DEF Found, Answers
  <2>2. WellFormed(Found(k, g, n, d))
    BY KeysDiffer DEF Found, WellFormed
  <2> QED
    BY <2>1, <2>2 DEF Messages
<1> QED
  BY <1>1, <1>2, <1>3, <1>4, <1>5, <1>6, <1>7, <1>8

\* What is sent comes after what was sent before.
LEMMA Joined ==
    ASSUME NEW S, NEW s \in Seq(S), NEW t \in Seq(S)
    PROVE  /\ s \o t \in Seq(S) /\ Len(s \o t) = Len(s) + Len(t)
           /\ \A i \in DOMAIN s : i \in DOMAIN (s \o t) /\ (s \o t)[i] = s[i]
           /\ \A i \in DOMAIN (s \o t) : i \in DOMAIN s \/ (i > Len(s) /\ i - Len(s) \in DOMAIN t /\ (s \o t)[i] = t[i - Len(s)])
           /\ \A j \in DOMAIN t : Len(s) + j \in DOMAIN (s \o t) /\ (s \o t)[Len(s) + j] = t[j]
OBVIOUS

LEMMA TailOf ==
    ASSUME NEW S, NEW s \in Seq(S), s # <<>>
    PROVE  /\ Head(s) \in S /\ Head(s) = s[1] /\ 1 \in DOMAIN s
           /\ Tail(s) \in Seq(S) /\ Len(Tail(s)) = Len(s) - 1
           /\ \A i \in DOMAIN Tail(s) : i + 1 \in DOMAIN s /\ Tail(s)[i] = s[i + 1]
OBVIOUS

\* Answers that can no longer count become late messages, each in its place.
LEMMA OutdatedOf ==
    ASSUME NEW s \in Seq(Messages), NEW keys
    PROVE  /\ Outdated(s, keys) \in Seq(Messages) /\ Len(Outdated(s, keys)) = Len(s)
           /\ \A i \in DOMAIN s : \/ Live(s[i], keys) /\ Outdated(s, keys)[i] = [kind |-> "late", gen |-> s[i].gen]
                                  \/ ~Live(s[i], keys) /\ Outdated(s, keys)[i] = s[i]
<1>1. \A i \in DOMAIN s : s[i] \in Messages /\ [kind |-> "late", gen |-> s[i].gen] \in Messages
  <2> TAKE i \in DOMAIN s
  <2>1. s[i] \in Messages
    OBVIOUS
  <2>2. s[i].gen \in Nat \ {0}
    BY <2>1, MessageKinds
  <2> QED
    BY <2>1, <2>2, MessagesMade
<1>2. DOMAIN s = 1..Len(s) /\ Len(s) \in Nat
  OBVIOUS
<1>3. Outdated(s, keys) \in [1..Len(s) -> Messages]
  BY <1>1, <1>2 DEF Outdated
<1> QED
  BY <1>2, <1>3 DEF Outdated, Live

\* A set of answers is sent as a sequence of them, in whatever order.
LEMMA InSomeOrder ==
    ASSUME NEW S, IsFiniteSet(S)
    PROVE  SetToSeq(S) \in Seq(S) /\ \A i \in DOMAIN SetToSeq(S) : SetToSeq(S)[i] \in S
<1>1. Cardinality(S) \in Nat /\ ExistsBijection(1..Cardinality(S), S)
  BY FS_CardinalityType
<1>2. PICK f \in Bijection(1..Cardinality(S), S) : TRUE
  BY <1>1 DEF ExistsBijection
<1>3. f \in [1..Cardinality(S) -> S] /\ IsInjective(f)
  BY <1>2 DEF Bijection, Injection, IsInjective
<1>4. SetToSeq(S) \in [1..Cardinality(S) -> S]
  BY <1>3 DEF SetToSeq
<1> QED
  BY <1>1, <1>4

LEMMA UnknownAnswers ==
    ASSUME NEW ts \in SUBSET Commands, IsFiniteSet(ts)
    PROVE  /\ Unknown(ts) \in Seq(Messages)
           /\ \A i \in DOMAIN Unknown(ts) :
                \E t \in ts : Unknown(ts)[i] = Reply(<<"op", t.op>>, t.gen, "delivery-unknown")
<1> DEFINE us == {u \in ts : ~u.settled}
           says(t) == Reply(<<"op", t.op>>, t.gen, "delivery-unknown")
           S == {says(t) : t \in us}
           f == [t \in us |-> says(t)]
<1>1. IsFiniteSet(us)
  BY FS_Subset
<1>2. f \in Surjection(us, S)
  BY DEF Surjection
<1>3. IsFiniteSet(S)
  BY <1>1, <1>2, FS_Surjection
<1>4. SetToSeq(S) \in Seq(S) /\ \A i \in DOMAIN SetToSeq(S) : SetToSeq(S)[i] \in S
  BY <1>3, InSomeOrder
<1>5. \A t \in us : says(t) \in Messages
  BY MessagesMade DEF Commands, Outcomes
<1>6. S \subseteq Messages
  BY <1>5
<1>7. Unknown(ts) = SetToSeq(S)
  BY DEF Unknown
<1>8. Unknown(ts) \in Seq(Messages)
  <2> HIDE DEF S
  <2> QED BY <1>4, <1>6, <1>7
<1>9. \A i \in DOMAIN Unknown(ts) : Unknown(ts)[i] \in S
  <2> HIDE DEF S
  <2> QED BY <1>4, <1>7
<1> QED
  BY <1>8, <1>9

-----------------------------------------------------------------------------
(* The core's side of a command.                                             *)

\* A command is taken once, recorded before it is carried out, and gone when it was.
CommandInv ==
    /\ reached \subseteq DOMAIN ops /\ done \subseteq reached /\ asking \subseteq DOMAIN ops
    /\ core.draft # None => runs[core.draft] = "none"
    /\ \A t \in taken : /\ t.op \in reached \ done /\ t.gen <= core.gen /\ receipts[t.op] \in {"none", "pending"}
                        /\ \A u \in taken : u.op = t.op => u = t
    /\ \A o \in Ops :
        /\ receipts[o] # "none" => o \in reached /\ ops[o].kind = "steer"
        /\ receipts[o] = "pending" => \E t \in taken : t.op = o
        /\ receipts[o] \in {"accepted", "delivery-unknown"} => o \in done
        /\ o \in done /\ ops[o].kind = "steer" => receipts[o] \in {"accepted", "delivery-unknown"}

\* What "accepted" and "rejected" say of a command, for good.
Carried(o) == o \in done /\ (ops[o].kind = "steer" => receipts[o] = "accepted")
Never(o) == o \in reached \ done /\ \A t \in taken : t.op # o
Honest(how, o) == (how = "accepted" => Carried(o)) /\ (how = "rejected" => Never(o))

\* What no step of the core takes back.
DiskGrows ==
    /\ done \subseteq done' /\ reached \subseteq reached'
    /\ \A o \in Ops : /\ receipts[o] \in Outcomes => receipts'[o] = receipts[o]
                      /\ receipts[o] # "none" => receipts'[o] # "none"
                      /\ Never(o) => Never(o)'
    /\ \A r \in Runs : /\ runs[r] # "none" => runs'[r] # "none"
                       /\ runs[r] = "ended" => runs'[r] = "ended"
                       /\ texts[r] # None => texts'[r] = texts[r]
    /\ core'.gen \in {core.gen, core.gen + 1}
    /\ core'.gen = core.gen => core.seq <= core'.seq
    /\ core'.gen = core.gen /\ core'.phase # "down" => core.phase # "down"
    /\ core'.gen = core.gen /\ core'.seq = core.seq /\ core'.phase # "down" => runs' = runs /\ receipts' = receipts

\* What it may send: its own status and changes, answers to reads that are open, outcomes that are so.
News(m) ==
    /\ m.gen <= core'.gen
    /\ m.kind \in {"status", "event"} => m.gen = core'.gen
    /\ m.kind = "event" => m.seq = core'.seq
    /\ \A o \in Ops : Tells(m, o) => o \in reached' /\ Honest(m.out, o)'
    /\ Live(m, ReadKeys) => Open(m.key) /\ m.gen = core.gen /\ m.gen = core'.gen /\ core'.seq = core.seq /\ UNCHANGED <<runs, receipts>>
    /\ Live(m, {<<"snap">>}) /\ m.out = "ok" => m.seq = core.seq
    /\ Live(m, {<<"prep">>}) /\ m.out = "ok" => texts'[m.data] = draft.text
    /\ Reads(m) => /\ m.seq = core.seq
                   /\ LET run == IF m.key = <<"read">> THEN view.chosen ELSE ops[m.key[2]].run
                      IN  m.data = Detail(run) /\ runs[run] # "none"
Sends(more) == /\ more \in Seq(Messages) /\ inbox' = inbox \o more
               /\ \A j \in DOMAIN more : News(more[j])
               /\ \A j \in DOMAIN more : Live(more[j], ReadKeys) => Len(more) = 1


\* Every change of a core that is ready is announced, and so is every change of its phase
\* or generation: what was said last is true, and "ready" follows "starting".
IsStatus(m) == m.kind = "status"
Heralds(more) ==
    /\ core'.gen = core.gen /\ core'.seq # core.seq /\ core'.phase = "ready" => \E j \in DOMAIN more : more[j].kind = "event"
    /\ (\A j \in DOMAIN more : ~IsStatus(more[j])) => core'.gen = core.gen /\ core'.phase = core.phase
    /\ \A j \in DOMAIN more : IsStatus(more[j]) /\ (\A k \in DOMAIN more : k > j => ~IsStatus(more[k]))
                            => (more[j].phase = "ready" <=> core'.phase = "ready")
    /\ \A j \in DOMAIN more : IsStatus(more[j]) /\ more[j].phase = "ready"
                            => j - 1 \in DOMAIN more /\ IsStatus(more[j - 1]) /\ more[j - 1].phase # "ready"
Plain(more) == \A j \in DOMAIN more : more[j].kind = "answer"

CoreStep == /\ TypeInv' /\ CommandInv' /\ DiskGrows /\ UNCHANGED <<pgen, clientVars>>
            /\ \E more \in Seq(Messages) : Sends(more) /\ Heralds(more)

LEMMA CommandsInOrder == TypeInv => DOMAIN ops = 1..Len(ops) /\ DOMAIN ops \subseteq Ops /\ Ops \subseteq Nat /\ MaxOps \in Nat
BY ConstantsAssumption DEF TypeInv, Ops

LEMMA OpTypes ==
    TypeInv => \A o \in DOMAIN ops : /\ o \in Ops /\ ops[o] \in Gestures /\ ops[o].run \in Runs
                                     /\ ops[o].status \in Outcomes \cup {"pending"} /\ ops[o].waiting \in BOOLEAN
                                     /\ ops[o].kind \in {"launch", "steer", "cancel"} /\ ops[o].text \in Nat \cup {None}
<1> SUFFICES ASSUME TypeInv, NEW o \in DOMAIN ops PROVE o \in Ops /\ ops[o] \in Gestures
  BY DEF Gestures
<1>1. ops \in Seq(Gestures)
  BY DEF TypeInv
<1> QED
  BY <1>1, CommandsInOrder

LEMMA NoneIsNoRun == None \notin Runs /\ None \notin Nat /\ None \notin Forms
BY ConstantsAssumption DEF Forms

\* The types of what the core keeps; the rest of TypeInv is the client's.
DiskTypes == runs \in [Runs -> RunStates] /\ receipts \in [Ops -> Receipts] /\ done \subseteq Ops
CoreTypes == /\ core \in Cores /\ texts \in [Runs -> Nat \cup {None}]
             /\ taken \subseteq Commands /\ IsFiniteSet(taken) /\ reached \subseteq Ops /\ faults \in Nat

LEMMA CoreTypesStep ==
    ASSUME TypeInv, DiskTypes', CoreTypes', UNCHANGED <<pgen, clientVars>>, acts' \in Nat, NEW more, Sends(more)
    PROVE  TypeInv'
<1>1. inbox' \in Seq(Messages)
  BY Joined DEF Sends, TypeInv
<1> QED
  BY <1>1 DEF TypeInv, DiskTypes, CoreTypes, clientVars, formVars

\* Steps that change nothing on disk and take nothing on.
LEMMA NothingTaken ==
    ASSUME TypeInv, CommandInv, UNCHANGED <<runs, receipts, done, taken, reached, texts>>, UNCHANGED clientVars,
           core' \in Cores, core'.gen \in {core.gen, core.gen + 1}, core'.gen = core.gen => core.seq = core'.seq,
           core'.draft \in {None, core.draft}, core'.gen = core.gen /\ core'.phase # "down" => core.phase # "down"
    PROVE  DiskTypes' /\ CommandInv' /\ DiskGrows /\ (CoreTypes' <=> faults' \in Nat)
<1>1. core.gen \in Nat /\ core.seq \in Nat /\ core'.gen \in Nat
  BY DEF TypeInv, Cores
<1>2. \A t \in taken : t.gen \in Nat
  BY DEF TypeInv, Commands
<1>3. CommandInv'
  BY <1>1, <1>2 DEF CommandInv, clientVars
<1>4. DiskGrows
  BY <1>1 DEF DiskGrows, Never
<1> QED
  BY <1>3, <1>4 DEF TypeInv, DiskTypes, CoreTypes

\* A single message, and a step that sends nothing but answers.
LEMMA SendsOne ==
    ASSUME NEW m \in Messages, inbox' = inbox \o <<m>>, News(m), m.kind = "answer"
    PROVE  Sends(<<m>>) /\ Plain(<<m>>)
<1>1. <<m>> \in Seq(Messages) /\ \A j \in DOMAIN <<m>> : <<m>>[j] = m /\ Len(<<m>>) = 1
  OBVIOUS
<1> QED
  BY <1>1 DEF Sends, Plain

LEMMA PlainStep ==
    ASSUME TypeInv, DiskTypes', CoreTypes', CommandInv', DiskGrows, UNCHANGED <<pgen, clientVars>>, acts' \in Nat,
           core'.gen = core.gen, core'.phase = core.phase, core'.seq = core.seq,
           NEW more, Sends(more), Plain(more)
    PROVE  CoreStep
<1>1. TypeInv'
  BY CoreTypesStep
<1>2. Heralds(more)
  BY DEF Heralds, Plain, IsStatus
<1> QED
  BY <1>1, <1>2 DEF CoreStep, Sends

\* A read that fails, or one that is answered.
LEMMA RefusalIsNews ==
    ASSUME TypeInv, NEW k \in ReadKeys, Open(k), core'.gen = core.gen, core'.seq = core.seq, UNCHANGED <<runs, receipts>>
    PROVE  Reply(k, core.gen, "no") \in Messages /\ News(Reply(k, core.gen, "no")) /\ Reply(k, core.gen, "no").kind = "answer"
<1>1. core.gen \in Nat \ {0}
  BY DEF TypeInv, Cores
<1>2. k \notin OpKeys
  BY KeysDiffer
<1> DEFINE m == Reply(k, core.gen, "no")
<1>3. m.kind = "answer" /\ m.key = k /\ m.gen = core.gen /\ m.out = "no"
  BY DEF Reply
<1>4. m \in Messages
  BY <1>1, MessagesMade
<1> HIDE DEF m
<1>5. \A o \in Ops : ~Tells(m, o)
  BY <1>2, <1>3, KeysDiffer DEF Tells
<1> QED
  BY <1>1, <1>3, <1>4, <1>5 DEF News, Live, Reads, m

LEMMA AnswerReadStep ==
    ASSUME TypeInv, CommandInv, NEW k \in ReadKeys, AnswerRead(k), acts' \in Nat
    PROVE  CoreStep
<1> DEFINE run == IF k[1] = "receipt" THEN ops[k[2]].run ELSE view.chosen
           m == Found(k, core.gen, core.seq, IF k = <<"snap">> THEN runs ELSE Detail(run))
           told == core.phase = "ready" /\ (k = <<"snap">> \/ runs[run] # "none")
<1>1. /\ Open(k) /\ k # <<"prep">> /\ inbox' = inbox \o <<IF told THEN m ELSE Reply(k, core.gen, "no")>>
      /\ UNCHANGED <<runs, receipts, done, core, texts, taken, reached, faults, pgen, clientVars>>
  BY DEF AnswerRead, Send, diskVars, coreVars
<1>2. /\ core \in Cores /\ core' \in Cores /\ core.gen \in Nat \ {0} /\ core.seq \in Nat /\ faults' \in Nat
      /\ runs \in [Runs -> RunStates] /\ receipts \in [Ops -> Receipts]
  BY <1>1 DEF TypeInv, Cores
<1>3. DiskTypes' /\ CommandInv' /\ DiskGrows /\ CoreTypes'
  BY <1>1, <1>2, NothingTaken
<1>4. CASE ~told
  BY <1>1, <1>2, <1>3, <1>4, RefusalIsNews, SendsOne, PlainStep
<1>5. CASE told
  <2>1. m.kind = "answer" /\ m.key = k /\ m.gen = core.gen /\ m.out = "ok" /\ m.seq = core.seq /\ (k = <<"snap">> => m.data = runs) /\ (k # <<"snap">> => m.data = Detail(run))
    BY DEF Found
  <2>2. CASE k = <<"snap">>
    <3>1. m = Found(<<"snap">>, core.gen, core.seq, runs)
      BY <2>2
    <3>2. m \in Messages
      BY <1>2, <3>1, MessagesMade
    <3> HIDE DEF m
    <3>3. ~Live(m, ReadingKeys) /\ ~Live(m, {<<"prep">>}) /\ \A o \in Ops : ~Tells(m, o)
      BY <2>1, <2>2, KeysDiffer DEF Live, Tells
    <3>4. News(m)
      BY <1>1, <1>2, <2>1, <3>3 DEF News, Reads, Live
    <3> QED
      BY <1>1, <1>2, <1>3, <1>5, <2>1, <3>2, <3>4, SendsOne, PlainStep DEF m
  <2>3. CASE k # <<"snap">>
    <3>0. k = <<"read">> \/ (k # <<"read">> /\ k[1] = "receipt" /\ \E o \in Ops : k = <<"receipt", o>>)
      BY <1>1, <2>3, KeysDiffer
    <3>1. k \in ReadingKeys /\ run = IF k = <<"read">> THEN view.chosen ELSE ops[k[2]].run
      BY <3>0, KeysDiffer
    <3>2. run \in Runs
      <4>1. CASE k = <<"read">>
        BY <1>1, <3>1, <4>1, KeysDiffer DEF Open, Awaited, TypeInv, Views
      <4>2. CASE k # <<"read">>
        <5>1. PICK o \in Ops : k = <<"receipt", o>>
          BY <1>1, <2>3, <4>2, KeysDiffer
        <5>2. o \in asking
          BY <1>1, <5>1 DEF Open, Awaited
        <5>3. o \in DOMAIN ops
          BY <5>2 DEF CommandInv
        <5>4. run = ops[o].run
          BY <3>1, <4>2, <5>1
        <5> QED
          BY <5>3, <5>4, OpTypes
      <4> QED
        BY <4>1, <4>2
    <3>3. Detail(run) \in Details
      BY <1>2, <3>2 DEF Detail, Details
    <3>4. m \in Messages
      BY <1>2, <2>3, <3>1, <3>3, MessagesMade
    <3>5. runs[run] # "none"
      BY <1>5, <2>3
    <3> HIDE DEF m, run
    <3>6. ~Live(m, {<<"prep">>}) /\ ~Live(m, {<<"snap">>}) /\ \A o \in Ops : ~Tells(m, o)
      BY <1>1, <2>1, <2>3, KeysDiffer DEF Live, Tells
    <3>7. News(m)
      BY <1>1, <1>2, <2>1, <2>3, <3>1, <3>5, <3>6 DEF News, Reads, Live, run
    <3> QED
      BY <1>1, <1>2, <1>3, <1>5, <2>1, <3>4, <3>7, SendsOne, PlainStep DEF m, run
  <2> QED
    BY <2>2, <2>3
<1> QED
  BY <1>4, <1>5

LEMMA ReadFailsStep ==
    ASSUME TypeInv, CommandInv, NEW k \in ReadKeys, ReadFails(k), acts' \in Nat
    PROVE  CoreStep
<1>1. /\ Open(k) /\ inbox' = inbox \o <<Reply(k, core.gen, "no")>> /\ faults' = faults + 1
      /\ UNCHANGED <<runs, receipts, done, core, texts, taken, reached, pgen, clientVars>>
  BY DEF ReadFails, Send, diskVars, coreVars
<1>2. core' \in Cores /\ faults' \in Nat /\ core.gen \in Nat
  BY <1>1 DEF TypeInv, Cores
<1>3. DiskTypes' /\ CommandInv' /\ DiskGrows /\ CoreTypes'
  BY <1>1, <1>2, NothingTaken
<1> QED
  BY <1>1, <1>2, <1>3, RefusalIsNews, SendsOne, PlainStep

LEMMA AnswerPrepareStep ==
    ASSUME TypeInv, CommandInv, AnswerPrepare, acts' \in Nat, draft # None
    PROVE  CoreStep
<1>1. /\ Open(<<"prep">>) /\ <<"prep">> \in ReadKeys
      /\ UNCHANGED <<runs, receipts, done, taken, reached, faults, pgen, clientVars>>
  BY KeysDiffer DEF AnswerPrepare, diskVars
<1>2. /\ core \in Cores /\ core.gen \in Nat \ {0} /\ core.seq \in Nat /\ faults' \in Nat
      /\ texts \in [Runs -> Nat \cup {None}] /\ draft \in Forms /\ draft.text \in Nat
  BY <1>1 DEF TypeInv, Cores, Forms
<1>3. CASE inbox' = inbox \o <<Reply(<<"prep">>, core.gen, "no")>> /\ UNCHANGED <<core, texts>>
  <2>1. core' \in Cores /\ core'.gen = core.gen /\ core'.seq = core.seq
    BY <1>2, <1>3
  <2>2. DiskTypes' /\ CommandInv' /\ DiskGrows /\ CoreTypes'
    BY <1>1, <1>2, <1>3, <2>1, NothingTaken
  <2> QED
    BY <1>1, <1>2, <1>3, <2>1, <2>2, RefusalIsNews, SendsOne, PlainStep
<1>4. ASSUME NEW r \in Runs, runs[r] = "none", texts[r] = None, texts' = [texts EXCEPT ![r] = draft.text],
             core' = [core EXCEPT !.draft = r], inbox' = inbox \o <<Found(<<"prep">>, core.gen, -1, r)>>
      PROVE  CoreStep
  <2> DEFINE m == Found(<<"prep">>, core.gen, -1, r)
  <2>1. /\ m.kind = "answer" /\ m.key = <<"prep">> /\ m.gen = core.gen /\ m.out = "ok" /\ m.data = r
        /\ m \in Messages
    BY <1>2, MessagesMade DEF Found
  <2>2. core' \in Cores /\ core'.gen = core.gen /\ core'.phase = core.phase /\ core'.seq = core.seq /\ core'.draft = r
    BY <1>2, <1>4 DEF Cores
  <2>3. texts' \in [Runs -> Nat \cup {None}] /\ texts'[r] = draft.text /\ \A q \in Runs : texts[q] # None => texts'[q] = texts[q]
    BY <1>2, <1>4
  <2>4. DiskTypes' /\ CoreTypes'
    BY <1>1, <1>2, <2>2, <2>3 DEF TypeInv, DiskTypes, CoreTypes
  <2>5. CommandInv'
    BY <1>1, <1>4, <2>2 DEF CommandInv, clientVars
  <2>6. DiskGrows
    BY <1>1, <1>2, <2>2, <2>3 DEF DiskGrows, Never
  <2> HIDE DEF m
  <2>7. ~Live(m, ReadingKeys) /\ ~Live(m, {<<"snap">>}) /\ \A o \in Ops : ~Tells(m, o)
    BY <2>1, KeysDiffer DEF Live, Tells
  <2>8. News(m)
    BY <1>1, <1>2, <2>1, <2>2, <2>3, <2>7 DEF News, Reads, Live
  <2> QED
    <3>1. Sends(<<m>>) /\ Plain(<<m>>)
      BY <1>4, <2>1, <2>8, SendsOne DEF m
    <3> QED
      BY <1>1, <1>4, <2>2, <2>4, <2>5, <2>6, <3>1, PlainStep
<1> QED
  BY <1>3, <1>4 DEF AnswerPrepare, Send

\* The outcome of a command.
LEMMA OutcomeIsNews ==
    ASSUME TypeInv, NEW o \in Ops, NEW g \in Nat \ {0}, g <= core'.gen, NEW out \in Outcomes, o \in reached', Honest(out, o)'
    PROVE  /\ Reply(<<"op", o>>, g, out) \in Messages
           /\ News(Reply(<<"op", o>>, g, out)) /\ ~Live(Reply(<<"op", o>>, g, out), ReadKeys)
           /\ Reply(<<"op", o>>, g, out).kind = "answer"
<1> DEFINE m == Reply(<<"op", o>>, g, out)
<1>1. m.kind = "answer" /\ m.key = <<"op", o>> /\ m.gen = g /\ m.out = out
  BY DEF Reply
<1>2. m \in Messages
  BY MessagesMade
<1> HIDE DEF m
<1>3. \A p \in Ops : Tells(m, p) => p = o
  BY <1>1 DEF Tells
<1>4. ~Live(m, ReadKeys) /\ ~Live(m, ReadingKeys) /\ ~Live(m, {<<"snap">>}) /\ ~Live(m, {<<"prep">>})
  BY <1>1, KeysDiffer DEF Live
<1> QED
  BY <1>1, <1>2, <1>3, <1>4 DEF News, Reads, m

LEMMA StatusIsNews ==
    ASSUME TypeInv, NEW g \in Nat \ {0}, g = core'.gen, NEW phase \in {"starting", "ready", "draining", "unavailable"}
    PROVE  /\ Status(g, phase) \in Messages
           /\ News(Status(g, phase)) /\ ~Live(Status(g, phase), ReadKeys)
           /\ IsStatus(Status(g, phase)) /\ Status(g, phase).phase = phase
<1> DEFINE m == Status(g, phase)
<1>1. m.kind = "status" /\ m.gen = g /\ m.phase = phase
  BY DEF Status
<1>2. m \in Messages
  BY MessagesMade
<1> HIDE DEF m
<1> QED
  BY <1>1, <1>2 DEF News, Reads, Live, Tells, m, IsStatus

\* Messages in a row.
LEMMA SendsMany ==
    ASSUME NEW more \in Seq(Messages), inbox' = inbox \o more,
           \A j \in DOMAIN more : News(more[j]) /\ ~Live(more[j], ReadKeys)
    PROVE  Sends(more)
BY DEF Sends

\* A sequence of news, as it is put together.
Told(more) == more \in Seq(Messages) /\ \A j \in DOMAIN more : News(more[j]) /\ ~Live(more[j], ReadKeys)
TellsOutcomes(more) == Told(more) /\ Plain(more)

LEMMA ToldParts ==
    /\ TellsOutcomes(<<>>)
    /\ \A m \in Messages : News(m) /\ ~Live(m, ReadKeys) => Told(<<m>>) /\ (m.kind = "answer" => TellsOutcomes(<<m>>))
    /\ \A s, t : Told(s) /\ Told(t) => Told(s \o t)
    /\ \A more : Told(more) /\ inbox' = inbox \o more => Sends(more)
<1>1. TellsOutcomes(<<>>)
  BY DEF Told, TellsOutcomes, Plain
<1>2. ASSUME NEW m \in Messages, News(m), ~Live(m, ReadKeys) PROVE Told(<<m>>) /\ (m.kind = "answer" => TellsOutcomes(<<m>>))
  <2>1. <<m>> \in Seq(Messages) /\ \A j \in DOMAIN <<m>> : <<m>>[j] = m
    OBVIOUS
  <2> QED
    BY <1>2, <2>1 DEF Told, TellsOutcomes, Plain
<1>3. ASSUME NEW s, NEW t, Told(s), Told(t) PROVE Told(s \o t)
  <2>1. s \in Seq(Messages) /\ t \in Seq(Messages)
    BY <1>3 DEF Told
  <2>2. s \o t \in Seq(Messages)
    BY <2>1, Joined
  <2>3. \A i \in DOMAIN (s \o t) : (\E j \in DOMAIN s : (s \o t)[i] = s[j]) \/ (\E j \in DOMAIN t : (s \o t)[i] = t[j])
    BY <2>1, Joined
  <2> QED
    BY <1>3, <2>2, <2>3 DEF Told
<1>4. ASSUME NEW more, Told(more), inbox' = inbox \o more PROVE Sends(more)
  BY <1>4, SendsMany DEF Told
<1> QED
  BY <1>1, <1>2, <1>3, <1>4

LEMMA TakeStep ==
    ASSUME TypeInv, CommandInv, NEW o \in Ops, Take(o), acts' \in Nat
    PROVE  CoreStep
<1>1. /\ o \in DOMAIN ops \ reached /\ reached' = reached \cup {o}
      /\ UNCHANGED <<runs, receipts, done, core, texts, faults, pgen, clientVars>>
  BY DEF Take, diskVars
<1>2. /\ core \in Cores /\ core.gen \in Nat \ {0} /\ core.seq \in Nat /\ faults' \in Nat /\ receipts \in [Ops -> Receipts]
      /\ o \notin done /\ o \notin {t.op : t \in taken} /\ receipts[o] = "none"
  BY <1>1 DEF TypeInv, Cores, CommandInv
<1> DEFINE t == [op |-> o, gen |-> core.gen, settled |-> FALSE]
<1>3. t \in Commands
  BY <1>2 DEF Commands
<1>4. CASE core.phase = "ready"
  <2>1. taken' = taken \cup {t} /\ inbox' = inbox
    BY <1>4 DEF Take
  <2>2. IsFiniteSet(taken')
    BY <2>1, FS_AddElement DEF TypeInv
  <2>3. DiskTypes' /\ CoreTypes'
    BY <1>1, <1>2, <1>3, <2>1, <2>2 DEF TypeInv, DiskTypes, CoreTypes
  <2>4. CommandInv'
    <3>1. t.op = o /\ t.gen = core.gen
      OBVIOUS
    <3> HIDE DEF t
    <3>2. \A u \in taken' : u = t \/ u \in taken
      BY <2>1
    <3> QED
      BY <1>1, <1>2, <2>1, <3>1, <3>2 DEF CommandInv, clientVars
  <2>5. DiskGrows
    BY <1>1, <1>2, <2>1 DEF DiskGrows, Never
  <2>6. inbox' = inbox \o <<>>
    BY <2>1 DEF TypeInv
  <2>7. Sends(<<>>) /\ Plain(<<>>)
    BY <2>6, ToldParts DEF TellsOutcomes
  <2> QED
    BY <1>1, <2>3, <2>4, <2>5, <2>7, PlainStep
<1>5. CASE core.phase # "ready"
  <2>1. taken' = taken /\ inbox' = inbox \o <<Reply(<<"op", o>>, core.gen, "rejected")>>
    BY <1>5 DEF Take, Send
  <2>3. DiskTypes' /\ CoreTypes'
    BY <1>1, <1>2, <2>1 DEF TypeInv, DiskTypes, CoreTypes
  <2>4. CommandInv'
    BY <1>1, <1>2, <2>1 DEF CommandInv, clientVars
  <2>5. DiskGrows
    BY <1>1, <1>2, <2>1 DEF DiskGrows, Never
  <2>6. Honest("rejected", o)' /\ o \in reached' /\ "rejected" \in Outcomes
    BY <1>1, <1>2, <2>1 DEF Honest, Never, Carried, Outcomes
  <2>7. TellsOutcomes(<<Reply(<<"op", o>>, core.gen, "rejected")>>)
    BY <1>1, <1>2, <2>6, OutcomeIsNews, ToldParts
  <2> QED
    BY <1>1, <2>1, <2>3, <2>4, <2>5, <2>7, ToldParts, PlainStep DEF TellsOutcomes
<1> QED
  BY <1>4, <1>5

\* A command the core has, and what the supervisor answers for it.
LEMMA TakenTypes ==
    ASSUME TypeInv, CommandInv, NEW t \in taken
    PROVE  /\ t \in Commands /\ t.op \in Ops /\ t.op \in DOMAIN ops /\ t.gen \in Nat \ {0} /\ t.gen <= core.gen
           /\ t.op \in reached \ done /\ \A u \in taken : u.op = t.op => u = t
BY OpTypes DEF TypeInv, CommandInv, Commands

LEMMA AnswerTold ==
    ASSUME TypeInv, CommandInv, NEW t \in taken, NEW out \in Outcomes, Honest(out, t.op)', t.op \in reached', core'.gen = core.gen
    PROVE  TellsOutcomes(Answer(t, out))
BY TakenTypes, OutcomeIsNews, ToldParts DEF Answer

LEMMA UnknownTold ==
    ASSUME TypeInv, CommandInv, NEW ts \in SUBSET taken, IsFiniteSet(ts), \A t \in ts : t.op \in reached', core.gen <= core'.gen, core'.gen \in Nat
    PROVE  TellsOutcomes(Unknown(ts))
<1>1. ts \in SUBSET Commands
  BY DEF TypeInv
<1>2. ASSUME NEW t \in ts
      PROVE  /\ News(Reply(<<"op", t.op>>, t.gen, "delivery-unknown")) /\ ~Live(Reply(<<"op", t.op>>, t.gen, "delivery-unknown"), ReadKeys)
             /\ Reply(<<"op", t.op>>, t.gen, "delivery-unknown").kind = "answer"
  <2>1. t.op \in Ops /\ t.gen \in Nat \ {0} /\ t.gen <= core'.gen
    BY TakenTypes DEF TypeInv, Cores
  <2>2. Honest("delivery-unknown", t.op)' /\ "delivery-unknown" \in Outcomes
    BY DEF Honest, Outcomes
  <2> QED
    BY <2>1, <2>2, OutcomeIsNews
<1> QED
  BY <1>1, <1>2, UnknownAnswers DEF TellsOutcomes, Told, Plain

LEMMA RefuseStep ==
    ASSUME TypeInv, CommandInv, NEW t \in taken, Refuse(t), acts' \in Nat
    PROVE  CoreStep
<1>1. /\ receipts[t.op] = "none" /\ taken' = taken \ {t} /\ inbox' = inbox \o Answer(t, "rejected")
      /\ UNCHANGED <<runs, receipts, done, core, texts, reached, faults, pgen, clientVars>>
  BY DEF Refuse, Send, diskVars
<1>2. /\ core \in Cores /\ core.gen \in Nat \ {0} /\ core.seq \in Nat /\ faults' \in Nat /\ receipts \in [Ops -> Receipts]
  BY <1>1 DEF TypeInv, Cores
<1>3. IsFiniteSet(taken')
  BY <1>1, FS_RemoveElement DEF TypeInv
<1>4. DiskTypes' /\ CoreTypes'
  BY <1>1, <1>2, <1>3 DEF TypeInv, DiskTypes, CoreTypes
<1>5. CommandInv'
  BY <1>1, <1>2 DEF CommandInv, clientVars
<1>6. DiskGrows
  BY <1>1, <1>2 DEF DiskGrows, Never
<1>7. Honest("rejected", t.op)' /\ t.op \in reached' /\ "rejected" \in Outcomes
  BY <1>1, TakenTypes DEF Honest, Never, Carried, Outcomes
<1>8. TellsOutcomes(Answer(t, "rejected"))
  BY <1>1, <1>7, AnswerTold
<1> QED
  BY <1>1, <1>4, <1>5, <1>6, <1>8, ToldParts, PlainStep DEF TellsOutcomes

LEMMA DeadlineStep ==
    ASSUME TypeInv, CommandInv, NEW t \in taken, Deadline(t), acts' \in Nat
    PROVE  CoreStep
<1> DEFINE u == [t EXCEPT !.settled = TRUE]
<1>1. /\ taken' = (taken \ {t}) \cup {u} /\ inbox' = inbox \o Unknown({t}) /\ faults' = faults + 1
      /\ UNCHANGED <<runs, receipts, done, core, texts, reached, pgen, clientVars>>
  BY DEF Deadline, Send, diskVars
<1>2. /\ core \in Cores /\ core.gen \in Nat \ {0} /\ core.seq \in Nat /\ faults' \in Nat /\ receipts \in [Ops -> Receipts]
  BY <1>1 DEF TypeInv, Cores
<1>3. u \in Commands /\ u.op = t.op /\ u.gen = t.gen
  BY TakenTypes DEF Commands
<1> HIDE DEF u
<1>4. IsFiniteSet(taken')
  BY <1>1, FS_RemoveElement, FS_AddElement DEF TypeInv
<1>5. DiskTypes' /\ CoreTypes'
  BY <1>1, <1>2, <1>3, <1>4 DEF TypeInv, DiskTypes, CoreTypes
<1>6. \A v \in taken' : v = u \/ (v \in taken /\ v # t)
  BY <1>1
<1>7. \A v \in taken : v.op # t.op => v \in taken'
  BY <1>1
<1>8. CommandInv'
  BY <1>1, <1>2, <1>3, <1>6, <1>7 DEF CommandInv, clientVars
<1>9. DiskGrows
  BY <1>1, <1>2, <1>3, <1>6 DEF DiskGrows, Never
<1>10. TellsOutcomes(Unknown({t}))
  <2>1. t.op \in reached' /\ core.gen <= core'.gen /\ core'.gen \in Nat
    BY <1>1, <1>2, TakenTypes
  <2>2. {t} \in SUBSET taken /\ IsFiniteSet({t})
    BY FS_Singleton
  <2> QED
    BY <2>1, <2>2, UnknownTold
<1> QED
  BY <1>1, <1>5, <1>8, <1>9, <1>10, ToldParts, PlainStep DEF TellsOutcomes

\* A change of the core: the event first, then the answers.
LEMMA ChangedTold ==
    ASSUME TypeInv, NEW c \in Cores, c.gen = core.gen, c.seq = core.seq, c.phase = core.phase,
           runs' \in [Runs -> RunStates], NEW answers, Changed(c, answers),
           core' \in Cores => TellsOutcomes(answers)
    PROVE  /\ core' \in Cores /\ core'.gen = core.gen /\ core'.phase = core.phase /\ core'.seq = core.seq + 1
           /\ core'.draft = c.draft /\ \E more : Sends(more) /\ Heralds(more)
<1>1. core' = [c EXCEPT !.seq = @ + 1] /\ core.gen \in Nat \ {0} /\ core.seq \in Nat
  BY DEF Changed, TypeInv, Cores
<1>2. core' \in Cores /\ core'.gen = core.gen /\ core'.phase = core.phase /\ core'.seq = core.seq + 1 /\ core'.draft = c.draft
  BY <1>1 DEF Cores
<1>3. TellsOutcomes(answers)
  BY <1>2
<1>0. core.gen \in Nat \ {0} /\ core.seq + 1 \in Nat /\ runs' \in [Runs -> RunStates]
  BY <1>1
<1>4. PICK event \in Messages : event = [kind |-> "event", gen |-> core.gen, seq |-> core.seq + 1, runs |-> runs']
  BY <1>0, MessagesMade
<1>5. inbox' = inbox \o ((IF core.phase = "ready" THEN <<event>> ELSE <<>>) \o answers)
  BY <1>4 DEF Changed, Send
<1>6. News(event) /\ ~Live(event, ReadKeys)
  BY <1>1, <1>2, <1>4 DEF News, Live, Tells, Reads
<1>7. Told(<<event>>)
  BY <1>4, <1>6, ToldParts
<1>8. CASE core.phase = "ready"
  <2> DEFINE more == <<event>> \o answers
  <2>1. Sends(more)
    BY <1>3, <1>5, <1>7, <1>8, ToldParts DEF TellsOutcomes
  <2>2. /\ \A i \in DOMAIN more : more[i] = event \/ more[i].kind = "answer"
        /\ \E i \in DOMAIN more : more[i] = event
    <3>1. <<event>> \in Seq(Messages) /\ answers \in Seq(Messages) /\ 1 \in DOMAIN <<event>> /\ \A i \in DOMAIN <<event>> : <<event>>[i] = event
      BY <1>3, <1>7 DEF Told, TellsOutcomes
    <3> QED
      BY <1>3, <3>1, Joined DEF TellsOutcomes, Plain
  <2> HIDE DEF more
  <2>3. Heralds(more)
    BY <1>2, <1>4, <2>2 DEF Heralds, IsStatus
  <2> QED
    BY <1>2, <2>1, <2>3
<1>9. CASE core.phase # "ready"
  <2>1. Sends(<<>> \o answers)
    BY <1>3, <1>5, <1>9, ToldParts DEF TellsOutcomes
  <2>2. <<>> \o answers = answers
    BY <1>3 DEF TellsOutcomes, Told
  <2>3. Heralds(answers)
    BY <1>2, <1>3, <1>9 DEF Heralds, IsStatus, TellsOutcomes, Plain
  <2> QED
    BY <1>2, <2>1, <2>2, <2>3
<1> QED
  BY <1>8, <1>9

\* CoreStep from its parts, for steps that send a whole sequence.
LEMMA CoreStepParts ==
    ASSUME TypeInv, DiskTypes', CoreTypes', CommandInv', DiskGrows, UNCHANGED <<pgen, clientVars>>, acts' \in Nat,
           \E more : Sends(more) /\ Heralds(more)
    PROVE  CoreStep
<1>1. PICK more : Sends(more) /\ Heralds(more)
  OBVIOUS
<1>2. TypeInv'
  BY <1>1, CoreTypesStep
<1>3. more \in Seq(Messages)
  BY <1>1 DEF Sends
<1> QED
  BY <1>1, <1>2, <1>3 DEF CoreStep

LEMMA CarryOutStep ==
    ASSUME TypeInv, CommandInv, NEW t \in taken, CarryOut(t), acts' \in Nat
    PROVE  CoreStep
<1> DEFINE o == t.op
<1>1. /\ receipts[o] = "none" /\ UNCHANGED <<texts, reached, faults, pgen, clientVars>>
      /\ o \in Ops /\ o \in DOMAIN ops /\ o \in reached \ done /\ ops[o].run \in Runs /\ \A u \in taken : u.op = o => u = t
  BY TakenTypes, OpTypes DEF CarryOut
<1>2. /\ core \in Cores /\ core.gen \in Nat \ {0} /\ core.seq \in Nat /\ faults' \in Nat
      /\ runs \in [Runs -> RunStates] /\ receipts \in [Ops -> Receipts] /\ texts' \in [Runs -> Nat \cup {None}]
      /\ done \subseteq Ops /\ reached' \subseteq Ops /\ taken \subseteq Commands
  BY <1>1 DEF TypeInv, Cores
<1>3. IsFiniteSet(taken \ {t})
  BY FS_RemoveElement DEF TypeInv
<1>4. CASE /\ ops[o].kind = "launch" /\ ops[o].run = core.draft /\ \A r \in Runs : runs[r] # "running"
           /\ runs' = [runs EXCEPT ![core.draft] = "running"]
           /\ taken' = taken \ {t} /\ done' = done \cup {o} /\ UNCHANGED receipts
           /\ Changed([core EXCEPT !.draft = None], Answer(t, "accepted"))
  <2> DEFINE c == [core EXCEPT !.draft = None]
  <2>1. c \in Cores /\ c.gen = core.gen /\ c.seq = core.seq /\ c.phase = core.phase /\ c.draft = None
    BY <1>2 DEF Cores
  <2>2. runs' \in [Runs -> RunStates] /\ \A r \in Runs : runs[r] # "none" => runs'[r] # "none"
    BY <1>1, <1>2, <1>4 DEF RunStates
  <2>3. \A r \in Runs : runs[r] = "ended" => runs'[r] = "ended"
    BY <1>1, <1>2, <1>4, NoneIsNoRun DEF CommandInv
  <2>4. Honest("accepted", o)' /\ "accepted" \in Outcomes /\ o \in reached'
    BY <1>1, <1>4 DEF Honest, Carried, Outcomes, clientVars
  <2>5. core'.gen = core.gen
    BY <1>4 DEF Changed, TypeInv, Cores
  <2>6. TellsOutcomes(Answer(t, "accepted"))
    BY <2>4, <2>5, AnswerTold
  <2> HIDE DEF c
  <2>7. /\ core' \in Cores /\ core'.gen = core.gen /\ core'.phase = core.phase /\ core'.seq = core.seq + 1 /\ core'.draft = None /\ \E more : Sends(more) /\ Heralds(more)
    BY <1>4, <2>1, <2>2, <2>6, ChangedTold DEF c
  <2>8. DiskTypes' /\ CoreTypes'
    BY <1>1, <1>2, <1>3, <1>4, <2>2, <2>7 DEF DiskTypes, CoreTypes
  <2>9. CommandInv'
    BY <1>1, <1>2, <1>4, <2>7 DEF CommandInv, clientVars
  <2>10. DiskGrows
    BY <1>1, <1>2, <1>4, <2>2, <2>3, <2>7 DEF DiskGrows, Never
  <2> QED
    BY <1>1, <2>7, <2>8, <2>9, <2>10, CoreStepParts
<1>5. CASE /\ ops[o].kind = "steer" /\ receipts' = [receipts EXCEPT ![o] = "pending"]
           /\ runs' = runs /\ Changed(core, <<>>) /\ UNCHANGED <<done, taken>>
  <2>1. \A p \in Ops : receipts'[p] = IF p = o THEN "pending" ELSE receipts[p]
    BY <1>1, <1>2, <1>5
  <2>2. receipts' \in [Ops -> Receipts]
    BY <1>2, <1>5 DEF Receipts
  <2>3. /\ core' \in Cores /\ core'.gen = core.gen /\ core'.phase = core.phase /\ core'.seq = core.seq + 1 /\ core'.draft \in {None, core.draft} /\ \E more : Sends(more) /\ Heralds(more)
    BY <1>2, <1>5, ToldParts, ChangedTold
  <2>4. DiskTypes' /\ CoreTypes'
    BY <1>1, <1>2, <1>5, <2>2, <2>3 DEF DiskTypes, CoreTypes, TypeInv
  <2>5. CommandInv'
    BY <1>1, <1>2, <1>5, <2>1, <2>3 DEF CommandInv, clientVars
  <2>6. DiskGrows
    BY <1>1, <1>2, <1>5, <2>1, <2>3 DEF DiskGrows, Never, Outcomes
  <2> QED
    BY <1>1, <2>3, <2>4, <2>5, <2>6, CoreStepParts
<1>6. CASE /\ ops[o].kind = "cancel" /\ taken' = taken \ {t} /\ done' = done \cup {o}
           /\ inbox' = inbox \o Answer(t, "accepted") /\ UNCHANGED <<runs, receipts, core>>
  <2>1. Honest("accepted", o)' /\ "accepted" \in Outcomes /\ o \in reached'
    BY <1>1, <1>6 DEF Honest, Carried, Outcomes, clientVars
  <2>2. TellsOutcomes(Answer(t, "accepted"))
    BY <1>6, <2>1, AnswerTold
  <2>3. DiskTypes' /\ CoreTypes'
    BY <1>1, <1>2, <1>3, <1>6 DEF DiskTypes, CoreTypes
  <2>4. CommandInv'
    BY <1>1, <1>2, <1>6 DEF CommandInv, clientVars
  <2>5. DiskGrows
    BY <1>1, <1>2, <1>6 DEF DiskGrows, Never
  <2> QED
    BY <1>1, <1>6, <2>2, <2>3, <2>4, <2>5, ToldParts, PlainStep DEF TellsOutcomes
<1> QED
  BY <1>4, <1>5, <1>6 DEF CarryOut, Send

LEMMA AcknowledgeStep ==
    ASSUME TypeInv, CommandInv, NEW t \in taken, Acknowledge(t), acts' \in Nat
    PROVE  CoreStep
<1> DEFINE o == t.op
<1>1. /\ receipts[o] = "pending" /\ UNCHANGED <<texts, reached, faults, pgen, clientVars>> /\ taken' = taken \ {t} /\ runs' = runs
      /\ o \in Ops /\ o \in DOMAIN ops /\ o \in reached \ done /\ ops[o].kind = "steer" /\ \A u \in taken : u.op = o => u = t
  BY TakenTypes DEF Acknowledge, CommandInv
<1>2. /\ core \in Cores /\ core.gen \in Nat \ {0} /\ core.seq \in Nat /\ faults' \in Nat
      /\ runs \in [Runs -> RunStates] /\ receipts \in [Ops -> Receipts] /\ texts' \in [Runs -> Nat \cup {None}]
      /\ done \subseteq Ops /\ reached' \subseteq Ops /\ taken \subseteq Commands
  BY <1>1 DEF TypeInv, Cores
<1>3. IsFiniteSet(taken \ {t})
  BY FS_RemoveElement DEF TypeInv
<1>4. PICK how \in Outcomes : /\ receipts' = [receipts EXCEPT ![o] = how]
                              /\ done' = IF how = "rejected" THEN done ELSE done \cup {o}
                              /\ Changed(core, Answer(t, how))
  BY DEF Acknowledge, Outcomes
<1>5. receipts' \in [Ops -> Receipts] /\ \A p \in Ops : receipts'[p] = IF p = o THEN how ELSE receipts[p]
  BY <1>1, <1>2, <1>4 DEF Receipts
<1>6. Honest(how, o)' /\ o \in reached'
  BY <1>1, <1>2, <1>4, <1>5 DEF Honest, Carried, Never, Outcomes, clientVars
<1>7. core'.gen = core.gen
  BY <1>4 DEF Changed, TypeInv, Cores
<1>8. TellsOutcomes(Answer(t, how))
  BY <1>6, <1>7, AnswerTold
<1>9. /\ core' \in Cores /\ core'.gen = core.gen /\ core'.phase = core.phase /\ core'.seq = core.seq + 1 /\ core'.draft \in {None, core.draft} /\ \E more : Sends(more) /\ Heralds(more)
  BY <1>1, <1>2, <1>4, <1>8, ChangedTold
<1>10. DiskTypes' /\ CoreTypes'
  BY <1>1, <1>2, <1>3, <1>4, <1>5, <1>9 DEF DiskTypes, CoreTypes
<1>11. CommandInv'
  BY <1>1, <1>2, <1>4, <1>5, <1>9 DEF CommandInv, clientVars, Outcomes
<1>12. DiskGrows
  BY <1>1, <1>2, <1>4, <1>5, <1>9 DEF DiskGrows, Never, Outcomes
<1> QED
  BY <1>1, <1>9, <1>10, <1>11, <1>12, CoreStepParts

\* The end of runs: what was pending is unknown, for good.
LEMMA OverStep ==
    ASSUME TypeInv, CommandInv, NEW rs \in SUBSET Runs, Over(rs), UNCHANGED <<texts, reached, clientVars>>, taken' \subseteq taken,
           core' \in Cores, core'.gen \in {core.gen, core.gen + 1}, core'.gen = core.gen => core.seq <= core'.seq,
           core'.draft \in {None, core.draft}, core'.gen = core.gen /\ core'.phase # "down" => core.phase # "down",
           core'.gen = core.gen => core'.seq # core.seq \/ core'.phase = "down",
           \A t \in taken' : t.op \notin Pending(rs), \A t \in taken : t \in taken' \/ t.op \in Pending(rs) \/ receipts[t.op] = "none"
    PROVE  CommandInv' /\ DiskGrows /\ DiskTypes'
<1>1. /\ core \in Cores /\ core.gen \in Nat \ {0} /\ core'.gen \in Nat /\ core.seq \in Nat /\ Pending(rs) \subseteq Ops
      /\ runs \in [Runs -> RunStates] /\ receipts \in [Ops -> Receipts] /\ done \subseteq Ops /\ taken \subseteq Commands
  BY CommandsInOrder DEF TypeInv, Cores, Pending
<1>2. \A o \in Pending(rs) : receipts[o] = "pending" /\ o \in reached \ done /\ ops[o].kind = "steer" /\ \E t \in taken : t.op = o
  BY <1>1 DEF CommandInv, Pending
<1>3. /\ runs' \in [Runs -> RunStates] /\ done' = done \cup Pending(rs)
      /\ \A r \in Runs : (runs[r] # "none" => runs'[r] # "none") /\ (runs[r] = "ended" => runs'[r] = "ended") /\ (runs[r] = "none" => runs'[r] = "none")
  BY <1>1 DEF Over, RunStates
<1>4. receipts' \in [Ops -> Receipts] /\ \A o \in Ops : receipts'[o] = IF o \in Pending(rs) THEN "delivery-unknown" ELSE receipts[o]
  BY <1>1 DEF Over, Receipts, Outcomes
<1>5. \A t \in taken : t.gen \in Nat /\ t.op \in Ops
  BY <1>1 DEF Commands
<1>6. CommandInv'
  <2>1. core'.draft # None => runs'[core'.draft] = "none"
    BY <1>1, <1>3 DEF CommandInv, Cores
  <2>2. reached' \subseteq DOMAIN ops' /\ done' \subseteq reached' /\ asking' \subseteq DOMAIN ops'
    BY <1>2, <1>3 DEF CommandInv, clientVars
  <2>3. \A t \in taken' : /\ t.op \in reached' \ done' /\ t.gen <= core'.gen /\ receipts'[t.op] \in {"none", "pending"}
                          /\ \A u \in taken' : u.op = t.op => u = t
    BY <1>1, <1>3, <1>4, <1>5 DEF CommandInv
  <2>4. \A o \in Ops : /\ receipts'[o] # "none" => o \in reached' /\ ops'[o].kind = "steer"
                       /\ receipts'[o] = "pending" => \E t \in taken' : t.op = o
                       /\ receipts'[o] \in {"accepted", "delivery-unknown"} => o \in done'
                       /\ o \in done' /\ ops'[o].kind = "steer" => receipts'[o] \in {"accepted", "delivery-unknown"}
    BY <1>2, <1>3, <1>4 DEF CommandInv, clientVars
  <2> QED
    BY <2>1, <2>2, <2>3, <2>4 DEF CommandInv
<1>7. DiskGrows
  BY <1>1, <1>2, <1>3, <1>4 DEF DiskGrows, Never, Outcomes
<1> QED
  BY <1>1, <1>3, <1>4, <1>6, <1>7 DEF DiskTypes

LEMMA RunEndsStep ==
    ASSUME TypeInv, CommandInv, NEW r \in Runs, RunEnds(r), acts' \in Nat
    PROVE  CoreStep
<1> DEFINE ts == {t \in taken : t.op \in Pending({r})}
<1>1. /\ Over({r}) /\ taken' = taken \ ts /\ Changed(core, Unknown(ts)) /\ UNCHANGED <<texts, reached, faults, pgen, clientVars>>
  BY DEF RunEnds
<1>2. IsFiniteSet(taken) /\ IsFiniteSet(ts) /\ ts \in SUBSET taken /\ IsFiniteSet(taken \ ts)
  BY FS_Subset, FS_Difference DEF TypeInv
<1>3. /\ core \in Cores /\ core.gen \in Nat /\ core.seq \in Nat /\ taken \subseteq Commands /\ reached \subseteq Ops /\ faults \in Nat
      /\ texts \in [Runs -> Nat \cup {None}] /\ runs \in [Runs -> RunStates]
  BY DEF TypeInv, Cores
<1>4. core'.gen = core.gen /\ \A t \in ts : t.op \in reached'
  BY <1>1, TakenTypes DEF Changed, TypeInv, Cores
<1> HIDE DEF ts
<1>5. TellsOutcomes(Unknown(ts))
  BY <1>2, <1>3, <1>4, UnknownTold
<1>6. runs' \in [Runs -> RunStates]
  BY <1>1, <1>3 DEF Over, RunStates
<1>7. /\ core' \in Cores /\ core'.gen = core.gen /\ core'.phase = core.phase /\ core'.seq = core.seq + 1 /\ core'.draft \in {None, core.draft} /\ \E more : Sends(more) /\ Heralds(more)
  BY <1>1, <1>3, <1>5, <1>6, ChangedTold
<1>8. \A t \in taken : (t \in taken' => t.op \notin Pending({r})) /\ (t \in taken' \/ t.op \in Pending({r}))
  BY <1>1 DEF ts
<1>9. CommandInv' /\ DiskGrows /\ DiskTypes'
  <2>1. {r} \in SUBSET Runs /\ taken' \subseteq taken /\ core.seq <= core'.seq /\ core'.seq # core.seq
    BY <1>1, <1>3, <1>7
  <2> QED
    BY <1>1, <1>7, <1>8, <2>1, OverStep
<1>10. CoreTypes'
  BY <1>1, <1>2, <1>3, <1>7 DEF CoreTypes
<1> QED
  BY <1>1, <1>7, <1>9, <1>10, CoreStepParts

\* A core that leaves, and one that opens.
LEMMA LeavingTold ==
    ASSUME TypeInv, core'.gen = core.gen, core'.phase # "ready", NEW phase \in {"draining", "unavailable"},
           NEW answers, TellsOutcomes(answers), inbox' = inbox \o (<<Status(core.gen, phase)>> \o answers)
    PROVE  \E more : Sends(more) /\ Heralds(more)
<1> DEFINE m == Status(core.gen, phase)
           more == <<m>> \o answers
<1>1. m \in Messages /\ News(m) /\ ~Live(m, ReadKeys) /\ IsStatus(m) /\ m.phase = phase
  BY StatusIsNews DEF TypeInv, Cores
<1> HIDE DEF m
<1>2. Told(<<m>>) /\ Told(answers) /\ Plain(answers)
  BY <1>1, ToldParts DEF TellsOutcomes
<1>3. Sends(more)
  BY <1>2, ToldParts DEF m
<1>4. 1 \in DOMAIN more /\ more[1] = m /\ \A j \in DOMAIN more : j = 1 \/ more[j].kind = "answer"
  <2>1. <<m>> \in Seq(Messages) /\ answers \in Seq(Messages) /\ DOMAIN <<m>> = {1} /\ <<m>>[1] = m
    BY <1>1, <1>2 DEF Told
  <2> QED
    BY <1>2, <2>1, Joined DEF Plain
<1> HIDE DEF more
<1>5. Heralds(more)
  BY <1>1, <1>4 DEF Heralds, IsStatus
<1> QED
  BY <1>3, <1>5

LEMMA OpeningTold ==
    ASSUME TypeInv, core'.gen = core.gen + 1, core'.phase = "ready",
           NEW answers, TellsOutcomes(answers), inbox' = inbox \o (Opening(core.gen + 1) \o answers)
    PROVE  \E more : Sends(more) /\ Heralds(more)
<1>0. core.gen \in Nat /\ core.gen + 1 \in Nat \ {0}
  BY DEF TypeInv, Cores
<1> DEFINE a == Status(core.gen + 1, "starting")
           b == Status(core.gen + 1, "ready")
           more == <<a, b>> \o answers
<1>1. /\ a \in Messages /\ News(a) /\ ~Live(a, ReadKeys) /\ IsStatus(a) /\ a.phase = "starting"
      /\ b \in Messages /\ News(b) /\ ~Live(b, ReadKeys) /\ IsStatus(b) /\ b.phase = "ready"
  BY <1>0, StatusIsNews
<1>a. Opening(core.gen + 1) = <<a, b>>
  BY DEF Opening
<1> HIDE DEF a, b
<1>2. <<a, b>> \in Seq(Messages) /\ DOMAIN <<a, b>> = {1, 2} /\ <<a, b>>[1] = a /\ <<a, b>>[2] = b /\ Len(<<a, b>>) = 2
  BY <1>1
<1>3. Told(<<a, b>>) /\ Told(answers) /\ Plain(answers)
  BY <1>1, <1>2 DEF TellsOutcomes, Told
<1>4. Sends(more)
  BY <1>a, <1>3, ToldParts
<1>5. 1 \in DOMAIN more /\ more[1] = a /\ 2 \in DOMAIN more /\ more[2] = b /\ \A j \in DOMAIN more : j = 1 \/ j = 2 \/ more[j].kind = "answer"
  <2>1. answers \in Seq(Messages)
    BY <1>3 DEF Told
  <2> QED
    BY <1>2, <1>3, <2>1, Joined DEF Plain
<1> HIDE DEF more
<1>6. core'.gen # core.gen
  BY <1>0
<1>7. Heralds(more)
  BY <1>1, <1>5, <1>6 DEF Heralds, IsStatus
<1> QED
  BY <1>4, <1>7

LEMMA AllUnknownTold ==
    ASSUME TypeInv, CommandInv, core'.gen \in {core.gen, core.gen + 1}, UNCHANGED reached
    PROVE  TellsOutcomes(Unknown(taken))
<1>1. IsFiniteSet(taken) /\ core.gen \in Nat
  BY DEF TypeInv, Cores
<1>2. \A t \in taken : t.op \in reached'
  BY DEF CommandInv
<1>3. core.gen <= core'.gen /\ core'.gen \in Nat
  BY <1>1
<1> QED
  BY <1>1, <1>2, <1>3, UnknownTold

LEMMA CrashStep == ASSUME TypeInv, CommandInv, Crash, acts' \in Nat PROVE CoreStep
<1>1. /\ core' = [core EXCEPT !.phase = "down", !.draft = None] /\ Over(Runs) /\ taken' = {} /\ faults' = faults + 1
      /\ inbox' = inbox \o (<<Status(core.gen, "unavailable")>> \o Unknown(taken)) /\ UNCHANGED <<texts, reached, pgen, clientVars>>
  BY DEF Crash, Send
<1>2. /\ core.gen \in Nat /\ core.seq \in Nat /\ faults' \in Nat /\ texts \in [Runs -> Nat \cup {None}] /\ reached \subseteq Ops
      /\ core' \in Cores /\ core'.gen = core.gen /\ core'.seq = core.seq /\ core'.phase = "down" /\ core'.draft = None
  <2>1. core \in Cores /\ faults \in Nat /\ texts \in [Runs -> Nat \cup {None}] /\ reached \subseteq Ops
    BY DEF TypeInv
  <2>2. core' \in Cores /\ core'.gen = core.gen /\ core'.seq = core.seq /\ core'.phase = "down" /\ core'.draft = None
    BY <1>1, <2>1 DEF Cores
  <2> QED
    BY <1>1, <2>1, <2>2 DEF Cores
<1>3. \A t \in taken : t.op \in Pending(Runs) \/ receipts[t.op] = "none"
  BY TakenTypes, OpTypes DEF CommandInv, Pending
<1>4. CommandInv' /\ DiskGrows /\ DiskTypes'
  BY <1>1, <1>2, <1>3, OverStep
<1>5. CoreTypes'
  BY <1>1, <1>2, FS_EmptySet DEF CoreTypes
<1>6. \E more : Sends(more) /\ Heralds(more)
  BY <1>1, <1>2, AllUnknownTold, LeavingTold
<1> QED
  BY <1>1, <1>4, <1>5, <1>6, CoreStepParts

LEMMA SuccessorIs ==
    ASSUME TypeInv
    PROVE  LET c == Successor(core) IN c \in Cores /\ c.gen = core.gen + 1 /\ c.seq = 0 /\ c.phase = "ready" /\ c.draft = None
BY DEF TypeInv, Successor, Cores

LEMMA StartStep == ASSUME TypeInv, CommandInv, Start, acts' \in Nat PROVE CoreStep
<1>1. /\ core' = Successor(core) /\ inbox' = inbox \o Opening(core.gen + 1)
      /\ UNCHANGED <<runs, receipts, done, texts, taken, reached, faults, pgen, clientVars>>
  BY DEF Start, Send, diskVars
<1>2. core.gen \in Nat /\ faults' \in Nat /\ core' \in Cores /\ core'.gen = core.gen + 1 /\ core'.phase = "ready" /\ core'.draft = None
  BY <1>1, SuccessorIs DEF TypeInv, Cores
<1>3. DiskTypes' /\ CommandInv' /\ DiskGrows /\ CoreTypes'
  BY <1>1, <1>2, NothingTaken
<1>4. Opening(core.gen + 1) \o <<>> = Opening(core.gen + 1)
  BY DEF Opening
<1>5. \E more : Sends(more) /\ Heralds(more)
  BY <1>1, <1>2, <1>4, ToldParts, OpeningTold
<1> QED
  BY <1>1, <1>3, <1>5, CoreStepParts

LEMMA DrainStep == ASSUME TypeInv, CommandInv, Drain, acts' \in Nat PROVE CoreStep
<1>1. /\ core' = [core EXCEPT !.phase = "draining"] /\ inbox' = inbox \o <<Status(core.gen, "draining")>> /\ faults' = faults + 1
      /\ UNCHANGED <<runs, receipts, done, texts, taken, reached, pgen, clientVars>>
  BY DEF Drain, Send, diskVars
<1>2. /\ core.gen \in Nat /\ faults' \in Nat /\ core.phase = "ready" /\ core' \in Cores /\ core'.gen = core.gen /\ core'.seq = core.seq
      /\ core'.phase = "draining" /\ core'.draft = core.draft
  <2>1. core \in Cores /\ faults \in Nat
    BY DEF TypeInv
  <2>2. core' \in Cores /\ core'.gen = core.gen /\ core'.seq = core.seq /\ core'.phase = "draining" /\ core'.draft = core.draft
    BY <1>1, <2>1 DEF Cores
  <2> QED
    BY <1>1, <2>1, <2>2 DEF Cores, Drain
<1>3. DiskTypes' /\ CommandInv' /\ DiskGrows /\ CoreTypes'
  BY <1>1, <1>2, NothingTaken
<1>4. <<Status(core.gen, "draining")>> \o <<>> = <<Status(core.gen, "draining")>>
  OBVIOUS
<1>5. \E more : Sends(more) /\ Heralds(more)
  BY <1>1, <1>2, <1>4, ToldParts, LeavingTold
<1> QED
  BY <1>1, <1>3, <1>5, CoreStepParts

LEMMA ReplacedStep == ASSUME TypeInv, CommandInv, Replaced, acts' \in Nat PROVE CoreStep
<1>1. /\ core' = Successor(core) /\ Over(Runs) /\ taken' = {} /\ inbox' = inbox \o (Opening(core.gen + 1) \o Unknown(taken))
      /\ UNCHANGED <<texts, reached, faults, pgen, clientVars>>
  BY DEF Replaced, Send
<1>2. /\ core.gen \in Nat /\ faults' \in Nat /\ texts \in [Runs -> Nat \cup {None}] /\ reached \subseteq Ops
      /\ core' \in Cores /\ core'.gen = core.gen + 1 /\ core'.phase = "ready" /\ core'.draft = None
  BY <1>1, SuccessorIs DEF TypeInv, Cores
<1>3. \A t \in taken : t.op \in Pending(Runs) \/ receipts[t.op] = "none"
  BY TakenTypes, OpTypes DEF CommandInv, Pending
<1>4. CommandInv' /\ DiskGrows /\ DiskTypes'
  BY <1>1, <1>2, <1>3, OverStep
<1>5. CoreTypes'
  BY <1>1, <1>2, FS_EmptySet DEF CoreTypes
<1>6. \E more : Sends(more) /\ Heralds(more)
  BY <1>1, <1>2, AllUnknownTold, OpeningTold
<1> QED
  BY <1>1, <1>4, <1>5, <1>6, CoreStepParts

LEMMA EnvironmentStep == ASSUME TypeInv, CommandInv, Environment, acts' = acts PROVE CoreStep
<1>1. acts' \in Nat
  BY DEF TypeInv
<1>2. AnswerPrepare => draft # None
  BY KeysDiffer DEF AnswerPrepare, Open, Awaited
<1> QED
  BY <1>1, <1>2, AnswerReadStep, ReadFailsStep, AnswerPrepareStep, TakeStep, RefuseStep, CarryOutStep, AcknowledgeStep,
     DeadlineStep, RunEndsStep, CrashStep, StartStep, DrainStep, ReplacedStep DEF Environment

-----------------------------------------------------------------------------
(* The client's side: the queue and the commands.                            *)

\* A client step takes at most the first message, and makes the answers to some keys late.
Moved(d, keys) ==
    /\ keys \subseteq ReadKeys /\ d \in {0, 1}
    /\ inbox' \in Seq(Messages) /\ Len(inbox') = Len(inbox) - d
    /\ \A i \in DOMAIN inbox' : /\ i + d \in DOMAIN inbox
                                /\ \/ Live(inbox[i + d], keys) /\ inbox'[i] = [kind |-> "late", gen |-> inbox[i + d].gen]
                                   \/ ~Live(inbox[i + d], keys) /\ inbox'[i] = inbox[i + d]

LEMMA QueueMoves ==
    ASSUME TypeInv, NEW keys \in SUBSET ReadKeys
    PROVE  /\ inbox # <<>> /\ Arrive(keys) => Moved(1, keys) /\ Head(inbox) = inbox[1] /\ 1 \in DOMAIN inbox /\ inbox[1] \in Messages
           /\ Forget(keys) => Moved(0, keys)
           /\ inbox' = inbox => Moved(0, {})
<1>1. inbox \in Seq(Messages)
  BY DEF TypeInv
<1>2. ASSUME inbox # <<>>, Arrive(keys) PROVE Moved(1, keys) /\ Head(inbox) = inbox[1] /\ 1 \in DOMAIN inbox /\ inbox[1] \in Messages
  <2> DEFINE s == Tail(inbox)
  <2>1. /\ Head(inbox) \in Messages /\ Head(inbox) = inbox[1] /\ 1 \in DOMAIN inbox
        /\ s \in Seq(Messages) /\ Len(s) = Len(inbox) - 1
        /\ \A i \in DOMAIN s : i + 1 \in DOMAIN inbox /\ s[i] = inbox[i + 1]
    BY <1>1, <1>2, TailOf
  <2> HIDE DEF s
  <2>2. /\ Outdated(s, keys) \in Seq(Messages) /\ Len(Outdated(s, keys)) = Len(s)
        /\ \A i \in DOMAIN s : \/ Live(s[i], keys) /\ Outdated(s, keys)[i] = [kind |-> "late", gen |-> s[i].gen]
                               \/ ~Live(s[i], keys) /\ Outdated(s, keys)[i] = s[i]
    BY <2>1, OutdatedOf
  <2>3. inbox' = Outdated(s, keys)
    BY <1>2 DEF Arrive, s
  <2>4. DOMAIN inbox' = DOMAIN s
    BY <2>1, <2>2, <2>3
  <2> QED
    BY <2>1, <2>2, <2>3, <2>4 DEF Moved
<1>3. ASSUME Forget(keys) PROVE Moved(0, keys)
  <2>1. /\ inbox' \in Seq(Messages) /\ Len(inbox') = Len(inbox)
        /\ \A i \in DOMAIN inbox : \/ Live(inbox[i], keys) /\ inbox'[i] = [kind |-> "late", gen |-> inbox[i].gen]
                                   \/ ~Live(inbox[i], keys) /\ inbox'[i] = inbox[i]
    BY <1>1, <1>3, OutdatedOf DEF Forget
  <2>2. DOMAIN inbox' = DOMAIN inbox /\ \A i \in DOMAIN inbox : i \in Nat
    BY <1>1, <2>1
  <2> QED
    BY <1>1, <2>1, <2>2 DEF Moved
<1>4. ASSUME inbox' = inbox PROVE Moved(0, {})
  <2>1. \A i \in DOMAIN inbox : i \in Nat
    BY <1>1
  <2> QED
    BY <1>1, <1>4, <2>1 DEF Moved, Live
<1> QED
  BY <1>2, <1>3, <1>4

\* What a step may do to the commands that were given: nothing, or what the message read says.
SameGesture(a, b) == a.kind = b.kind /\ a.run = b.run /\ a.text = b.text
Learns(o) ==
    \/ ops'[o].status = ops[o].status
    \/ Unresolved(ops[o]) /\ ops'[o].status = "delivery-unknown"
    \/ /\ inbox # <<>> /\ Moved(1, {<<"snap">>})
       /\ Tells(inbox[1], o) /\ Unresolved(ops[o]) /\ ops'[o].status = inbox[1].out
    \/ /\ inbox # <<>> /\ Reads(inbox[1]) /\ \E keys : Moved(1, keys)
       /\ \/ inbox[1].data.receipts[o] # "none" /\ ops'[o].status = inbox[1].data.receipts[o]
          \/ /\ ops[o].kind = "launch" /\ Unresolved(ops[o]) /\ inbox[1].key = <<"receipt", o>>
             /\ ops'[o].status = "accepted"
OpsLearn ==
    /\ ops' \in Seq(Gestures) /\ Len(ops') = Len(ops)
    /\ \A o \in DOMAIN ops : SameGesture(ops[o], ops'[o]) /\ Learns(o)
OpsGrow(op) == op \in Gestures /\ op.status = "pending" /\ ops' = Append(ops, op) /\ Len(ops) < MaxOps

\* The helpers on what is observed.
SameRun(v, w) == v.chosen = w.chosen /\ v.detail = w.detail /\ v.seq = w.seq /\ v.gen = w.gen /\ v.connected = w.connected

LEMMA ReadDetailIs ==
    ASSUME NEW v \in Views, v.reading => v.chosen # None
    PROVE  LET w == ReadDetail(v) IN
           /\ w \in Views /\ (w.reading => w.chosen # None)
           /\ SameRun(v, w) /\ w.mark = v.mark /\ w.runs = v.runs /\ w.stale = v.stale /\ w.refreshing = v.refreshing
           /\ (v.chosen = None \/ ~v.connected) => w = v
           /\ v.chosen # None /\ v.connected => w.reading /\ (w.again <=> v.reading \/ v.again)
<1> DEFINE w == ReadDetail(v)
<1>1. CASE v.chosen = None \/ ~v.connected
  BY <1>1 DEF ReadDetail, SameRun
<1>2. CASE ~(v.chosen = None \/ ~v.connected) /\ v.reading
  <2>1. w = [v EXCEPT !.again = TRUE]
    BY <1>2 DEF ReadDetail
  <2>2. w \in Views /\ w.again /\ w.reading = v.reading /\ w.chosen = v.chosen /\ w.detail = v.detail /\ w.seq = v.seq /\ w.gen = v.gen
        /\ w.connected = v.connected /\ w.mark = v.mark /\ w.runs = v.runs /\ w.stale = v.stale /\ w.refreshing = v.refreshing
    BY <2>1 DEF Views
  <2> QED
    BY <1>2, <2>2 DEF SameRun
<1>3. CASE ~(v.chosen = None \/ ~v.connected) /\ ~v.reading
  <2>1. w = [v EXCEPT !.reading = TRUE]
    BY <1>3 DEF ReadDetail
  <2>2. w \in Views /\ w.reading /\ w.again = v.again /\ w.chosen = v.chosen /\ w.detail = v.detail /\ w.seq = v.seq /\ w.gen = v.gen
        /\ w.connected = v.connected /\ w.mark = v.mark /\ w.runs = v.runs /\ w.stale = v.stale /\ w.refreshing = v.refreshing
    BY <2>1 DEF Views
  <2> QED
    BY <1>3, <2>2 DEF SameRun, Views
<1> QED
  BY <1>1, <1>2, <1>3

LEMMA RefreshIs ==
    ASSUME NEW v \in Views
    PROVE  LET w == Refresh(v) IN
           /\ w \in Views /\ SameRun(v, w) /\ w.mark = v.mark /\ w.runs = v.runs /\ w.stale = v.stale
           /\ w.reading = v.reading /\ w.again = v.again
           /\ (w.refreshing <=> v.connected \/ v.refreshing)
BY DEF Refresh, Views, SameRun

LEMMA AcceptSnapshotIs ==
    ASSUME NEW v \in Views, v.reading => v.chosen # None, NEW seq \in Nat, NEW seen \in [Runs -> RunStates]
    PROVE  LET w == AcceptSnapshot(v, seq, seen) IN
           /\ w \in Views /\ (w.reading => w.chosen # None)
           /\ SameRun(v, w) /\ w.refreshing = v.refreshing
           /\ seq < v.mark => w = v
           /\ seq >= v.mark => /\ w.mark = seq /\ w.runs = seen /\ (w.stale <=> v.chosen # None /\ seq > v.seq)
                               /\ v.chosen # None /\ v.connected => w.reading /\ (w.again <=> v.reading \/ v.again)
                               /\ v.chosen = None \/ ~v.connected => w.reading = v.reading /\ w.again = v.again
<1> DEFINE u == [v EXCEPT !.mark = seq, !.runs = seen, !.stale = v.chosen # None /\ seq > v.seq]
           w == AcceptSnapshot(v, seq, seen)
<1>0. v.mark \in Int /\ v.seq \in Int /\ (seq < v.mark \/ seq >= v.mark)
  BY DEF Views
<1>1. CASE seq < v.mark
  BY <1>0, <1>1 DEF AcceptSnapshot, SameRun
<1>2. CASE ~(seq < v.mark)
  <2>1. w = ReadDetail(u)
    BY <1>2 DEF AcceptSnapshot
  <2>2. /\ u \in Views /\ u.mark = seq /\ u.runs = seen /\ (u.stale <=> v.chosen # None /\ seq > v.seq) /\ u.reading = v.reading
        /\ u.again = v.again /\ u.chosen = v.chosen /\ u.detail = v.detail /\ u.seq = v.seq /\ u.gen = v.gen
        /\ u.connected = v.connected /\ u.refreshing = v.refreshing
    <3> DEFINE b == v.chosen # None /\ seq > v.seq
    <3>1. b \in BOOLEAN /\ seq \in Int
      OBVIOUS
    <3>2. u = [v EXCEPT !.mark = seq, !.runs = seen, !.stale = b]
      OBVIOUS
    <3> HIDE DEF b, u
    <3>3. u \in Views
      BY <3>1, <3>2 DEF Views
    <3>4. /\ u.mark = seq /\ u.runs = seen /\ u.stale = b /\ u.reading = v.reading
          /\ u.again = v.again /\ u.chosen = v.chosen /\ u.detail = v.detail /\ u.seq = v.seq /\ u.gen = v.gen
          /\ u.connected = v.connected /\ u.refreshing = v.refreshing
      BY <3>2 DEF Views
    <3> QED
      BY <3>3, <3>4 DEF b
  <2> HIDE DEF u
  <2> QED
    BY <1>0, <1>2, <2>1, <2>2, ReadDetailIs DEF SameRun
<1> QED
  BY <1>1, <1>2

LEMMA ChooseIs ==
    ASSUME TypeInv, NEW r \in Runs
    PROVE  LET w == Choose(r) IN
           /\ w \in Views /\ w.chosen = r /\ w.chosen # None /\ w.detail = NoDetail /\ w.seq = -1 /\ w.stale /\ ~w.reading /\ ~w.again
           /\ w.connected = view.connected /\ w.gen = view.gen /\ w.mark = view.mark /\ w.runs = view.runs /\ w.refreshing = view.refreshing
<1>1. view \in Views /\ NoDetail \in Details /\ r # None
  BY NoneIsNoRun DEF TypeInv, NoDetail, Details, RunStates, Receipts
<1>2. -1 \in Int
  OBVIOUS
<1> DEFINE w == Choose(r)
<1>3. /\ w.chosen = r /\ w.detail = NoDetail /\ w.seq = -1 /\ w.stale /\ ~w.reading /\ ~w.again
      /\ w.connected = view.connected /\ w.gen = view.gen /\ w.mark = view.mark /\ w.runs = view.runs /\ w.refreshing = view.refreshing
  BY <1>1 DEF Choose, Views
<1>4. w \in Views
  BY <1>1, <1>2 DEF Choose, Views
<1> QED
  BY <1>1, <1>3, <1>4

-----------------------------------------------------------------------------
(* The invariant.                                                            *)

\* What is shown of a command, or is on its way, is so.
OutcomeInv ==
    /\ \A o \in DOMAIN ops : Honest(ops[o].status, o)
    /\ \A i \in DOMAIN inbox : \A o \in Ops : Tells(inbox[i], o) => o \in reached /\ Honest(inbox[i].out, o)
    /\ \A i \in DOMAIN inbox : Reads(inbox[i]) =>
         \A o \in Ops : /\ inbox[i].data.receipts[o] \in Outcomes => receipts[o] = inbox[i].data.receipts[o]
                        /\ inbox[i].data.receipts[o] # "none" => receipts[o] # "none"

\* A prepared context is launched by its command and by no other.
LaunchInv ==
    /\ \A r \in Runs : texts[r] # None /\ runs[r] # "none" => \E o \in done : ops[o].kind = "launch" /\ ops[o].run = r
    /\ \A o \in DOMAIN ops : ops[o].kind = "launch" => texts[ops[o].run] = ops[o].text /\ ops[o].text # None
    /\ \A o, p \in DOMAIN ops : (o < p /\ ops[o].kind = "launch" /\ ops[p].kind = "launch" /\ ops[o].run = ops[p].run)
                               => ops[o].status = "rejected"
    /\ core.draft # None => texts[core.draft] # None
    /\ \A i \in DOMAIN inbox : Reads(inbox[i]) /\ inbox[i].key # <<"read">> =>
         \E o \in DOMAIN ops : inbox[i].key = <<"receipt", o>> /\ runs[ops[o].run] # "none"

\* An instruction that was settled is not open again, in whatever order its news is read.
SaysFinal(m, o) == \/ Tells(m, o) /\ m.out \in {"accepted", "rejected"}
                   \/ Reads(m) /\ m.data.receipts[o] \in {"accepted", "rejected"}
SaysOpen(m, o) == Reads(m) /\ m.data.receipts[o] \in {"pending", "delivery-unknown"}
SteerInv ==
    /\ \A o \in DOMAIN ops : (ops[o].kind = "steer" /\ ops[o].status \in {"accepted", "rejected"})
                              => \A i \in DOMAIN inbox : ~SaysOpen(inbox[i], o)
    /\ \A i, j \in DOMAIN inbox : \A o \in Ops : i < j /\ SaysFinal(inbox[i], o) => ~SaysOpen(inbox[j], o)
    /\ \A o, p \in DOMAIN ops : (ops[o].kind = "steer" /\ ops[p].kind = "steer" /\ ops[o].run = ops[p].run
                                /\ Unresolved(ops[o]) /\ Unresolved(ops[p])) => o = p

\* Answers come for what is awaited, one for each, and nothing is awaited without a connection.
AwaitInv ==
    /\ \A i \in DOMAIN inbox : Live(inbox[i], ReadKeys) => inbox[i].key \in Awaited
    /\ \A i, j \in DOMAIN inbox : Live(inbox[i], ReadKeys) /\ Live(inbox[j], {inbox[i].key}) => i = j
    /\ ~view.connected => Awaited = {}
    /\ view.again => view.reading
    /\ draft # None /\ draft.preparing => draft.run = None

\* What is prepared, or on its way, is the context of the text in the form.
FormInv ==
    /\ draft # None /\ draft.run # None => texts[draft.run] = draft.text
    /\ \A i \in DOMAIN inbox : Live(inbox[i], {<<"prep">>}) /\ inbox[i].out = "ok" => texts[inbox[i].data] = draft.text
    /\ proposal # None /\ draft # None /\ proposal.valid => proposal.text = draft.text

\* Generations and sequences are read in order; what was said last of the core is so.
Data(m) == m.kind = "event" \/ Live(m, ReadKeys)
Numbered(m) == m.kind = "event" \/ (Live(m, ReadKeys \ {<<"prep">>}) /\ m.out = "ok")
Quiet == \A i \in DOMAIN inbox : ~IsStatus(inbox[i])
OrderInv ==
    /\ view.gen <= core.gen /\ pgen <= core.gen
    /\ \A i \in DOMAIN inbox : inbox[i].gen <= core.gen
    /\ \A i \in DOMAIN inbox : Data(inbox[i]) => view.gen <= inbox[i].gen
    /\ \A i, j \in DOMAIN inbox : i < j /\ IsStatus(inbox[i]) /\ Data(inbox[j]) => inbox[i].gen <= inbox[j].gen
    /\ \A i \in DOMAIN inbox : Numbered(inbox[i]) /\ inbox[i].gen = core.gen => inbox[i].seq <= core.seq
    /\ view.gen = core.gen => view.mark <= core.seq /\ view.seq <= core.seq
StatusInv ==
    /\ Quiet => view.gen = core.gen /\ (view.connected <=> core.phase = "ready")
    /\ \A i \in DOMAIN inbox : IsStatus(inbox[i]) /\ (\A j \in DOMAIN inbox : j > i => ~IsStatus(inbox[j]))
                              => inbox[i].gen = core.gen /\ (inbox[i].phase = "ready" <=> core.phase = "ready")
    /\ \A i \in DOMAIN inbox : IsStatus(inbox[i]) /\ inbox[i].phase = "ready" =>
         \/ i = 1 /\ ~view.connected
         \/ i - 1 \in DOMAIN inbox /\ IsStatus(inbox[i - 1]) /\ inbox[i - 1].phase # "ready"

\* What was read of the run that is shown: never ahead of it, and as it is if nothing changed since.
ReadInv ==
    /\ \A i \in DOMAIN inbox : Live(inbox[i], {<<"read">>}) /\ inbox[i].out = "ok" =>
         /\ inbox[i].data.state = "ended" => runs[view.chosen] = "ended"
         /\ inbox[i].gen = core.gen /\ inbox[i].seq = core.seq /\ core.phase # "down" => inbox[i].data = Detail(view.chosen)
    /\ view.chosen # None /\ view.detail.state = "ended" => runs[view.chosen] = "ended"

\* Either the run is shown as it is, or what will show it is under way.
Newest(m) == m.out = "no" \/ m.seq = core.seq
NewsToCome == \E i \in DOMAIN inbox : inbox[i].kind = "event" /\ inbox[i].gen = core.gen /\ inbox[i].seq = core.seq
Refreshes == view.refreshing /\ \A i \in DOMAIN inbox : Live(inbox[i], {<<"snap">>}) => Newest(inbox[i])
Rereads == view.reading /\ (view.again \/ \A i \in DOMAIN inbox : Live(inbox[i], {<<"read">>}) => Newest(inbox[i]))
UpToDate == view.seq = core.seq /\ view.mark = core.seq /\ view.detail = Detail(view.chosen) /\ ~view.stale
Watching == Quiet /\ core.phase = "ready" /\ view.chosen # None /\ ~missed /\ runs[view.chosen] # "none"
FreshInv == Watching => NewsToCome \/ Refreshes \/ Rereads \/ UpToDate

-----------------------------------------------------------------------------
(* The core and its supervisor keep it.                                      *)

\* What is in the queue after they sent something.
LEMMA AfterSending ==
    ASSUME TypeInv, NEW more, Sends(more)
    PROVE  /\ inbox' \in Seq(Messages) /\ Len(inbox') = Len(inbox) + Len(more) /\ Len(inbox) \in Nat
           /\ \A i \in DOMAIN inbox : i \in DOMAIN inbox' /\ inbox'[i] = inbox[i] /\ i \in Nat /\ i <= Len(inbox) /\ inbox[i] \in Messages
           /\ \A i \in DOMAIN inbox' : i \in DOMAIN inbox \/ (i \in Nat /\ i > Len(inbox) /\ i - Len(inbox) \in DOMAIN more /\ inbox'[i] = more[i - Len(inbox)])
           /\ \A j \in DOMAIN more : j \in Nat /\ j > 0 /\ Len(inbox) + j \in DOMAIN inbox' /\ inbox'[Len(inbox) + j] = more[j]
           /\ \A j \in DOMAIN more : j <= Len(more) /\ more[j] \in Messages /\ News(more[j]) /\ (Live(more[j], ReadKeys) => Len(more) = 1)
<1>1. inbox \in Seq(Messages) /\ more \in Seq(Messages) /\ inbox' = inbox \o more
  BY DEF Sends, TypeInv
<1>2. \A j \in DOMAIN more : j \in Nat /\ j > 0 /\ j <= Len(more) /\ more[j] \in Messages
  BY <1>1
<1>3. \A j \in DOMAIN more : News(more[j]) /\ (Live(more[j], ReadKeys) => Len(more) = 1)
  BY DEF Sends
<1>4. /\ inbox' \in Seq(Messages) /\ Len(inbox') = Len(inbox) + Len(more) /\ Len(inbox) \in Nat
      /\ \A i \in DOMAIN inbox : i \in DOMAIN inbox' /\ inbox'[i] = inbox[i]
      /\ \A i \in DOMAIN inbox' : i \in DOMAIN inbox \/ (i > Len(inbox) /\ i - Len(inbox) \in DOMAIN more /\ inbox'[i] = more[i - Len(inbox)])
      /\ \A j \in DOMAIN more : Len(inbox) + j \in DOMAIN inbox' /\ inbox'[Len(inbox) + j] = more[j]
  BY <1>1, Joined
<1>5. (\A i \in DOMAIN inbox : i \in Nat /\ i <= Len(inbox) /\ inbox[i] \in Messages) /\ \A i \in DOMAIN inbox' : i \in Nat
  BY <1>1, <1>4
<1> QED
  BY <1>2, <1>3, <1>4, <1>5

LEMMA NewMessage ==
    ASSUME TypeInv, NEW more, Sends(more), NEW i \in DOMAIN inbox', i \notin DOMAIN inbox
    PROVE  \E m \in Messages : inbox'[i] = m /\ News(m) /\ (Live(m, ReadKeys) => i = Len(inbox) + 1 /\ Len(more) = 1)
<1>1. i \in Nat /\ i > Len(inbox) /\ i - Len(inbox) \in DOMAIN more /\ inbox'[i] = more[i - Len(inbox)] /\ Len(inbox) \in Nat
  BY AfterSending
<1>2. PICK j \in DOMAIN more : j = i - Len(inbox)
  BY <1>1
<1>3. inbox'[i] = more[j] /\ j \in Nat /\ j > 0 /\ j <= Len(more) /\ more[j] \in Messages /\ News(more[j]) /\ (Live(more[j], ReadKeys) => Len(more) = 1)
  BY <1>1, <1>2, AfterSending
<1>4. Live(more[j], ReadKeys) => i = Len(inbox) + 1
  BY <1>1, <1>2, <1>3
<1> QED
  BY <1>3, <1>4

LEMMA HonestStays ==
    ASSUME TypeInv, CommandInv, DiskGrows, UNCHANGED clientVars, NEW o \in Ops, NEW how, Honest(how, o)
    PROVE  Honest(how, o)'
<1>1. Carried(o) => Carried(o)'
  BY DEF Carried, DiskGrows, Outcomes, clientVars
<1> QED
  BY <1>1 DEF Honest, DiskGrows

LEMMA OutcomeEnv == ASSUME TypeInv, CommandInv, OutcomeInv, CoreStep PROVE OutcomeInv'
<1>1. PICK more : Sends(more)
  BY DEF CoreStep
<1>2. DiskGrows /\ UNCHANGED clientVars /\ ops' = ops /\ receipts \in [Ops -> Receipts]
  BY DEF CoreStep, clientVars, TypeInv
<1>3. \A o \in DOMAIN ops' : Honest(ops[o].status, o)'
  <2> SUFFICES ASSUME NEW o \in DOMAIN ops PROVE Honest(ops[o].status, o)'
    BY <1>2
  <2>1. PICK how : how = ops[o].status
    OBVIOUS
  <2>2. Honest(how, o)'
    BY <1>2, <2>1, HonestStays, OpTypes DEF OutcomeInv
  <2> QED
    BY <1>2, <2>1, <2>2 DEF Honest
<1>4. ASSUME NEW i \in DOMAIN inbox', NEW o \in Ops, Tells(inbox[i], o)' PROVE o \in reached' /\ Honest(inbox[i].out, o)'
  <2>1. CASE i \in DOMAIN inbox
    <3>1. inbox'[i] = inbox[i]
      BY <1>1, <2>1, AfterSending
    <3>2. o \in reached /\ Honest(inbox[i].out, o)
      BY <1>4, <2>1, <3>1 DEF OutcomeInv, Tells
    <3>3. PICK how : how = inbox[i].out
      OBVIOUS
    <3>4. Honest(how, o)' /\ inbox'[i].out = how
      BY <1>2, <3>1, <3>2, <3>3, HonestStays
    <3> QED
      BY <1>2, <3>2, <3>4 DEF DiskGrows, Honest
  <2>2. CASE i \notin DOMAIN inbox
    <3>1. PICK m \in Messages : inbox'[i] = m /\ News(m)
      BY <1>1, <2>2, NewMessage
    <3>2. o \in reached' /\ Honest(m.out, o)'
      BY <1>4, <3>1 DEF News, Tells
    <3> QED
      BY <3>1, <3>2 DEF Honest
  <2> QED
    BY <2>1, <2>2
<1>5. ASSUME NEW i \in DOMAIN inbox', Reads(inbox[i])', NEW o \in Ops
      PROVE  /\ inbox'[i].data.receipts[o] \in Outcomes => receipts'[o] = inbox'[i].data.receipts[o]
             /\ inbox'[i].data.receipts[o] # "none" => receipts'[o] # "none"
  <2>1. CASE i \in DOMAIN inbox
    <3>1. inbox'[i] = inbox[i]
      BY <1>1, <2>1, AfterSending
    <3>2. /\ inbox[i].data.receipts[o] \in Outcomes => receipts[o] = inbox[i].data.receipts[o]
          /\ inbox[i].data.receipts[o] # "none" => receipts[o] # "none"
      BY <1>5, <2>1, <3>1 DEF OutcomeInv, Reads, Live
    <3> QED
      BY <1>2, <3>1, <3>2 DEF DiskGrows
  <2>2. CASE i \notin DOMAIN inbox
    <3>1. PICK m \in Messages : inbox'[i] = m /\ News(m)
      BY <1>1, <2>2, NewMessage
    <3>2. Live(m, ReadKeys) /\ Reads(m)
      BY <1>5, <3>1, KeysDiffer DEF Reads, Live
    <3>3. m.data.receipts = receipts /\ receipts' = receipts
      BY <3>1, <3>2 DEF News, Detail
    <3> QED
      BY <3>1, <3>3
  <2> QED
    BY <2>1, <2>2
<1> QED
  BY <1>3, <1>4, <1>5 DEF OutcomeInv

LEMMA LaunchEnv == ASSUME TypeInv, CommandInv, LaunchInv, Environment, CoreStep PROVE LaunchInv'
<1>1. PICK more : Sends(more)
  BY DEF CoreStep
<1>2. DiskGrows /\ ops' = ops /\ view' = view /\ runs \in [Runs -> RunStates] /\ texts \in [Runs -> Nat \cup {None}]
  BY DEF CoreStep, clientVars, TypeInv
<1>3. (texts' = texts /\ core'.draft \in {None, core.draft}) \/ AnswerPrepare
  <2>0. core \in Cores
    BY DEF TypeInv
  <2>1. \A k \in ReadKeys : AnswerRead(k) \/ ReadFails(k) => UNCHANGED <<core, texts>>
    BY DEF AnswerRead, ReadFails, coreVars
  <2>2. /\ \A o \in Ops : Take(o) => UNCHANGED <<core, texts>>
        /\ \A t \in taken : Refuse(t) \/ Deadline(t) => UNCHANGED <<core, texts>>
    BY DEF Take, Refuse, Deadline
  <2>3. ASSUME NEW c \in {core, [core EXCEPT !.draft = None]}, NEW answers, Changed(c, answers) PROVE core'.draft \in {None, core.draft}
    BY <2>0, <2>3 DEF Changed, Cores
  <2>4. /\ \A t \in taken : CarryOut(t) => texts' = texts /\ core'.draft \in {None, core.draft}
        /\ \A t \in taken : Acknowledge(t) => texts' = texts /\ core'.draft \in {None, core.draft}
        /\ \A r \in Runs : RunEnds(r) => texts' = texts /\ core'.draft \in {None, core.draft}
    BY <2>3 DEF CarryOut, Acknowledge, RunEnds
  <2>5. Crash \/ Drain \/ Start \/ Replaced => texts' = texts /\ core'.draft \in {None, core.draft}
    <3>1. Crash => texts' = texts /\ core' = [core EXCEPT !.phase = "down", !.draft = None]
      BY DEF Crash
    <3>2. Drain => texts' = texts /\ core' = [core EXCEPT !.phase = "draining"]
      BY DEF Drain
    <3>3. Start \/ Replaced => texts' = texts /\ core'.draft = None
      BY DEF Start, Replaced, Successor
    <3>4. [core EXCEPT !.phase = "down", !.draft = None].draft = None /\ [core EXCEPT !.phase = "draining"].draft = core.draft
      BY <2>0 DEF Cores
    <3> QED
      BY <3>1, <3>2, <3>3, <3>4
  <2> QED
    BY <2>1, <2>2, <2>4, <2>5 DEF Environment
<1>4. (\A r \in Runs : runs[r] = "none" => runs'[r] = "none") \/ (\E t \in taken : CarryOut(t))
  BY <1>2 DEF Environment, AnswerRead, AnswerPrepare, ReadFails, Take, Refuse, Acknowledge, Deadline, RunEnds, Crash, Start, Drain, Replaced,
         diskVars, Over
<1>5. ASSUME NEW r \in Runs, texts'[r] # None, runs'[r] # "none" PROVE \E o \in done' : ops'[o].kind = "launch" /\ ops'[o].run = r
  <2>1. CASE texts[r] # None /\ runs[r] # "none"
    BY <1>2, <2>1 DEF LaunchInv, DiskGrows
  <2>2. CASE runs[r] = "none"
    <3>1. PICK t \in taken : CarryOut(t)
      BY <1>4, <1>5, <2>2
    <3>2. /\ ops[t.op].kind = "launch" /\ ops[t.op].run = core.draft /\ t.op \in done' /\ runs' = [runs EXCEPT ![core.draft] = "running"]
      BY <1>5, <2>2, <3>1 DEF CarryOut
    <3> QED
      BY <1>2, <1>5, <2>2, <3>2
  <2>3. CASE texts[r] = None /\ runs[r] # "none"
    <3>1. AnswerPrepare
      BY <1>3, <1>5, <2>3
    <3> QED
      BY <1>2, <1>5, <2>3, <3>1 DEF AnswerPrepare
  <2> QED
    BY <2>1, <2>2, <2>3
<1>6. \A o \in DOMAIN ops' : ops'[o].kind = "launch" => texts'[ops'[o].run] = ops'[o].text /\ ops'[o].text # None
  BY <1>2, OpTypes DEF LaunchInv, DiskGrows
<1>7. core'.draft # None => texts'[core'.draft] # None
  <2>1. CASE texts' = texts /\ core'.draft \in {None, core.draft}
    BY <2>1 DEF LaunchInv
  <2>2. CASE AnswerPrepare /\ UNCHANGED <<core, texts>>
    BY <2>2 DEF LaunchInv
  <2>3. CASE AnswerPrepare /\ ~UNCHANGED <<core, texts>>
    <3>1. PICK r \in Runs : texts' = [texts EXCEPT ![r] = draft.text] /\ core' = [core EXCEPT !.draft = r]
      BY <2>3 DEF AnswerPrepare
    <3>2. draft \in Forms
      BY <2>3, KeysDiffer DEF AnswerPrepare, Open, Awaited, TypeInv
    <3>3. core'.draft = r /\ texts'[r] = draft.text
      BY <1>2, <3>1 DEF TypeInv, Cores
    <3> QED
      BY <3>2, <3>3, NoneIsNoRun DEF Forms
  <2> QED
    BY <1>3, <2>1, <2>2, <2>3
<1>8. ASSUME NEW i \in DOMAIN inbox', Reads(inbox[i])', inbox'[i].key # <<"read">>
      PROVE  \E o \in DOMAIN ops' : inbox'[i].key = <<"receipt", o>> /\ runs'[ops'[o].run] # "none"
  <2>1. CASE i \in DOMAIN inbox
    <3>1. inbox'[i] = inbox[i]
      BY <1>1, <2>1, AfterSending
    <3>2. PICK o \in DOMAIN ops : inbox[i].key = <<"receipt", o>> /\ runs[ops[o].run] # "none"
      BY <1>8, <2>1, <3>1 DEF LaunchInv, Reads, Live
    <3> QED
      BY <1>2, <3>1, <3>2, OpTypes DEF DiskGrows
  <2>2. CASE i \notin DOMAIN inbox
    <3>1. PICK m \in Messages : inbox'[i] = m /\ News(m)
      BY <1>1, <2>2, NewMessage
    <3>2. m.key \in ReadKeys /\ Live(m, ReadKeys) /\ Reads(m) /\ m.key # <<"read">>
      BY <1>8, <3>1, KeysDiffer DEF Reads, Live
    <3>3. PICK o \in Ops : m.key = <<"receipt", o>>
      BY <3>2, KeysDiffer DEF Reads, Live
    <3>4. Open(m.key) /\ runs' = runs /\ runs[ops[m.key[2]].run] # "none"
      BY <3>1, <3>2 DEF News
    <3>5. o \in asking
      BY <3>3, <3>4 DEF Open, Awaited
    <3> QED
      BY <1>2, <3>1, <3>3, <3>4, <3>5 DEF CommandInv
  <2> QED
    BY <2>1, <2>2
<1> QED
  BY <1>2, <1>5, <1>6, <1>7, <1>8 DEF LaunchInv

\* A receipt that is open says that nothing is known.
LEMMA OpenIsOpen ==
    ASSUME CommandInv, NEW o \in Ops, receipts[o] \in {"pending", "delivery-unknown"}
    PROVE  ~Honest("accepted", o) /\ ~Honest("rejected", o)
BY DEF CommandInv, Honest, Carried, Never

LEMMA FinalIsFinal ==
    ASSUME TypeInv, CommandInv, OutcomeInv, NEW i \in DOMAIN inbox, NEW o \in Ops, SaysFinal(inbox[i], o)
    PROVE  receipts[o] \notin {"pending", "delivery-unknown"}
<1>1. CASE Tells(inbox[i], o) /\ inbox[i].out \in {"accepted", "rejected"}
  BY <1>1, OpenIsOpen DEF OutcomeInv
<1>2. CASE Reads(inbox[i]) /\ inbox[i].data.receipts[o] \in {"accepted", "rejected"}
  BY <1>2 DEF OutcomeInv, Outcomes
<1> QED
  BY <1>1, <1>2 DEF SaysFinal

LEMMA SteerEnv == ASSUME TypeInv, CommandInv, OutcomeInv, SteerInv, CoreStep PROVE SteerInv'
<1>1. PICK more : Sends(more)
  BY DEF CoreStep
<1>2. ops' = ops
  BY DEF CoreStep, clientVars
<1>3. \A i \in DOMAIN inbox : inbox'[i] = inbox[i]
  BY <1>1, AfterSending
<1>4. ASSUME NEW i \in DOMAIN inbox', i \notin DOMAIN inbox, NEW o \in Ops, SaysOpen(inbox[i], o)'
      PROVE  receipts[o] \in {"pending", "delivery-unknown"} /\ i = Len(inbox) + 1 /\ Len(more) = 1
  <2>1. PICK m \in Messages : inbox'[i] = m /\ News(m) /\ (Live(m, ReadKeys) => i = Len(inbox) + 1 /\ Len(more) = 1)
    BY <1>1, <1>4, NewMessage
  <2>2. Live(m, ReadKeys) /\ Reads(m) /\ m.data.receipts[o] \in {"pending", "delivery-unknown"}
    BY <1>4, <2>1, KeysDiffer DEF SaysOpen, Reads, Live
  <2> QED
    BY <2>1, <2>2 DEF News, Detail
<1>5. ASSUME NEW o \in DOMAIN ops', ops'[o].kind = "steer", ops'[o].status \in {"accepted", "rejected"}, NEW i \in DOMAIN inbox'
      PROVE  ~SaysOpen(inbox[i], o)'
  <2>1. CASE i \in DOMAIN inbox
    BY <1>2, <1>3, <1>5, <2>1 DEF SteerInv, SaysOpen, Reads, Live
  <2>2. CASE i \notin DOMAIN inbox
    BY <1>2, <1>4, <1>5, <2>2, OpTypes, OpenIsOpen DEF OutcomeInv
  <2> QED
    BY <2>1, <2>2
<1>6. ASSUME NEW i \in DOMAIN inbox', NEW j \in DOMAIN inbox', NEW o \in Ops, i < j, SaysFinal(inbox[i], o)'
      PROVE  ~SaysOpen(inbox[j], o)'
  <2>0. /\ Len(inbox) \in Nat /\ \A k \in DOMAIN inbox : k \in Nat /\ k <= Len(inbox)
        /\ \A k \in DOMAIN inbox' : k \in DOMAIN inbox \/ (k \in Nat /\ k > Len(inbox))
    BY <1>1, AfterSending
  <2>1. CASE j \in DOMAIN inbox
    <3>1. i \in DOMAIN inbox
      BY <1>6, <2>0, <2>1
    <3> QED
      BY <1>3, <1>6, <2>1, <3>1 DEF SteerInv, SaysOpen, SaysFinal, Reads, Live, Tells
  <2>2. CASE j \notin DOMAIN inbox /\ i \in DOMAIN inbox
    <3>1. SaysFinal(inbox[i], o)
      BY <1>3, <1>6, <2>2 DEF SaysFinal, Reads, Live, Tells
    <3> QED
      BY <1>4, <2>2, <3>1, FinalIsFinal
  <2>3. CASE j \notin DOMAIN inbox /\ i \notin DOMAIN inbox
    BY <1>4, <1>6, <2>0, <2>3
  <2> QED
    BY <2>1, <2>2, <2>3
<1>7. \A o, p \in DOMAIN ops' : (ops'[o].kind = "steer" /\ ops'[p].kind = "steer" /\ ops'[o].run = ops'[p].run
                              /\ Unresolved(ops[o])' /\ Unresolved(ops[p])') => o = p
  BY <1>2 DEF SteerInv, Unresolved
<1> QED
  BY <1>5, <1>6, <1>7 DEF SteerInv

LEMMA AwaitEnv == ASSUME TypeInv, AwaitInv, CoreStep PROVE AwaitInv'
<1>1. PICK more : Sends(more)
  BY DEF CoreStep
<1>2. UNCHANGED <<view, draft, asking>>
  BY DEF CoreStep, clientVars, formVars
<1>3. Awaited' = Awaited
  BY <1>2 DEF Awaited
<1>4. \A i \in DOMAIN inbox : inbox'[i] = inbox[i]
  BY <1>1, AfterSending
<1>5. ASSUME NEW i \in DOMAIN inbox', i \notin DOMAIN inbox, Live(inbox[i], ReadKeys)'
      PROVE  Open(inbox'[i].key) /\ i = Len(inbox) + 1 /\ Len(more) = 1
  <2>1. PICK m \in Messages : inbox'[i] = m /\ News(m) /\ (Live(m, ReadKeys) => i = Len(inbox) + 1 /\ Len(more) = 1)
    BY <1>1, <1>5, NewMessage
  <2> QED
    BY <1>5, <2>1 DEF News, Live
<1>6. \A i \in DOMAIN inbox' : Live(inbox[i], ReadKeys)' => inbox'[i].key \in Awaited'
  BY <1>3, <1>4, <1>5 DEF AwaitInv, Open, Live
<1>7. ASSUME NEW i \in DOMAIN inbox', NEW j \in DOMAIN inbox', Live(inbox[i], ReadKeys)', Live(inbox[j], {inbox[i].key})' PROVE i = j
  <2>0. Live(inbox[j], ReadKeys)' /\ inbox'[j].key = inbox'[i].key /\ inbox'[i].kind = "answer" /\ inbox'[j].kind = "answer"
    BY <1>7 DEF Live
  <2>1. CASE i \in DOMAIN inbox /\ j \in DOMAIN inbox
    BY <1>4, <1>7, <2>0, <2>1 DEF AwaitInv, Live
  <2>2. CASE i \in DOMAIN inbox /\ j \notin DOMAIN inbox
    BY <1>4, <1>5, <2>0, <2>2 DEF Open
  <2>3. CASE i \notin DOMAIN inbox /\ j \in DOMAIN inbox
    BY <1>4, <1>5, <1>7, <2>0, <2>3 DEF Open
  <2>4. CASE i \notin DOMAIN inbox /\ j \notin DOMAIN inbox
    BY <1>5, <1>7, <2>0, <2>4
  <2> QED
    BY <2>1, <2>2, <2>3, <2>4
<1> QED
  BY <1>2, <1>3, <1>6, <1>7 DEF AwaitInv

LEMMA FormEnv == ASSUME TypeInv, AwaitInv, FormInv, CoreStep PROVE FormInv'
<1>1. PICK more : Sends(more)
  BY DEF CoreStep
<1>2. UNCHANGED <<draft, proposal>> /\ \A r \in Runs : texts[r] # None => texts'[r] = texts[r]
  BY DEF CoreStep, clientVars, formVars, DiskGrows
<1>3. draft # None => draft \in Forms /\ draft.text \in Nat /\ draft.text # None /\ draft.run \in Runs \cup {None}
  BY NoneIsNoRun DEF TypeInv, Forms
<1>4. draft' # None /\ draft'.run # None => texts'[draft'.run] = draft'.text
  BY <1>2, <1>3 DEF FormInv
<1>5. ASSUME NEW i \in DOMAIN inbox', Live(inbox[i], {<<"prep">>})', inbox'[i].out = "ok" PROVE texts'[inbox'[i].data] = draft'.text
  <2>1. CASE i \in DOMAIN inbox
    <3>1. inbox'[i] = inbox[i] /\ inbox[i] \in Messages
      BY <1>1, <2>1, AfterSending
    <3>2. Live(inbox[i], {<<"prep">>}) /\ inbox[i].out = "ok"
      BY <1>5, <3>1 DEF Live
    <3>3. inbox[i].data \in Runs
      BY <3>1, <3>2, MessageKinds DEF Live, WellFormed
    <3>4. draft # None
      BY <2>1, <3>2, KeysDiffer DEF AwaitInv, Live, Awaited
    <3> QED
      BY <1>2, <1>3, <2>1, <3>1, <3>2, <3>3, <3>4 DEF FormInv
  <2>2. CASE i \notin DOMAIN inbox
    <3>1. PICK m \in Messages : inbox'[i] = m /\ News(m)
      BY <1>1, <2>2, NewMessage
    <3> QED
      BY <1>2, <1>5, <3>1 DEF News, Live
  <2> QED
    BY <2>1, <2>2
<1> QED
  BY <1>2, <1>4, <1>5 DEF FormInv

LEMMA OrderEnv == ASSUME TypeInv, OrderInv, CoreStep PROVE OrderInv'
<1>1. PICK more : Sends(more)
  BY DEF CoreStep
<1>2. /\ UNCHANGED <<view, pgen>> /\ core'.gen \in {core.gen, core.gen + 1} /\ (core'.gen = core.gen => core.seq <= core'.seq)
      /\ core.gen \in Nat /\ core.seq \in Nat /\ core'.gen \in Nat /\ core'.seq \in Nat /\ core.gen <= core'.gen
      /\ view.gen \in Int /\ view.mark \in Int /\ view.seq \in Int /\ pgen \in Nat
  BY DEF CoreStep, clientVars, TypeInv, DiskGrows, Cores, Views
<1>3. /\ \A i \in DOMAIN inbox : inbox'[i] = inbox[i] /\ i \in Nat /\ i <= Len(inbox) /\ inbox[i] \in Messages /\ inbox[i].gen \in Nat
      /\ \A i \in DOMAIN inbox' : i \in DOMAIN inbox \/ (i \in Nat /\ i > Len(inbox))
      /\ Len(inbox) \in Nat
  BY <1>1, AfterSending, MessageKinds
<1>4. ASSUME NEW i \in DOMAIN inbox', i \notin DOMAIN inbox
      PROVE  /\ inbox'[i].gen \in Nat /\ inbox'[i].gen <= core'.gen
             /\ Data(inbox[i])' => inbox'[i].gen = core'.gen
             /\ Numbered(inbox[i])' => inbox'[i].seq <= core'.seq
  <2>1. PICK m \in Messages : inbox'[i] = m /\ News(m)
    BY <1>1, <1>4, NewMessage
  <2>2. m.gen \in Nat /\ m.gen <= core'.gen
    BY <2>1, MessageKinds DEF News
  <2>3. Data(m) => m.gen = core'.gen
    BY <2>1 DEF News, Data
  <2>4. Numbered(m) => m.seq <= core'.seq
    <3>1. CASE m.kind = "event"
      BY <1>2, <2>1, <3>1 DEF News
    <3>2. CASE Live(m, ReadKeys \ {<<"prep">>}) /\ m.out = "ok"
      <4>0. m.kind = "answer" /\ m.key \in ReadKeys /\ m.key # <<"prep">> /\ m.out = "ok"
        BY <3>2 DEF Live
      <4>a. m.key = <<"snap">> \/ m.key \in ReadingKeys
        BY <4>0 DEF ReadKeys, ReadingKeys
      <4>1. Live(m, ReadKeys) /\ (Live(m, {<<"snap">>}) \/ Reads(m))
        BY <4>0, <4>a DEF Live, Reads
      <4>2. m.seq = core.seq /\ core'.seq = core.seq
        BY <2>1, <3>2, <4>1 DEF News
      <4> QED
        BY <1>2, <4>2
    <3> QED
      BY <3>1, <3>2 DEF Numbered
  <2> QED
    BY <2>1, <2>2, <2>3, <2>4 DEF Data, Numbered, Live
<1>5. \A i \in DOMAIN inbox' : inbox'[i].gen <= core'.gen
  BY <1>2, <1>3, <1>4 DEF OrderInv
<1>6. \A i \in DOMAIN inbox' : Data(inbox[i])' => view'.gen <= inbox'[i].gen
  BY <1>2, <1>3, <1>4 DEF OrderInv, Data, Live
<1>7. ASSUME NEW i \in DOMAIN inbox', NEW j \in DOMAIN inbox', i < j, IsStatus(inbox[i])', Data(inbox[j])' PROVE inbox'[i].gen <= inbox'[j].gen
  <2>1. CASE j \in DOMAIN inbox
    <3>1. i \in DOMAIN inbox
      BY <1>3, <1>7, <2>1
    <3> QED
      BY <1>3, <1>7, <2>1, <3>1 DEF OrderInv, IsStatus, Data, Live
  <2>2. CASE j \notin DOMAIN inbox
    BY <1>4, <1>5, <1>7, <2>2
  <2> QED
    BY <2>1, <2>2
<1>8. ASSUME NEW i \in DOMAIN inbox', Numbered(inbox[i])', inbox'[i].gen = core'.gen PROVE inbox'[i].seq <= core'.seq
  <2>1. CASE i \in DOMAIN inbox
    <3>1. Numbered(inbox[i]) /\ inbox'[i] = inbox[i] /\ inbox[i].gen <= core.gen /\ inbox[i] \in Messages
      BY <1>3, <1>8, <2>1 DEF OrderInv, Numbered, Live
    <3>2. core'.gen = core.gen
      BY <1>2, <1>3, <1>8, <2>1, <3>1
    <3>3. inbox[i].seq <= core.seq
      BY <1>8, <2>1, <3>1, <3>2 DEF OrderInv
    <3>4. inbox[i].seq \in Int
      BY <3>1, MessageKinds DEF Numbered, Live, Events, Answers
    <3> QED
      BY <1>2, <3>1, <3>2, <3>3, <3>4
  <2>2. CASE i \notin DOMAIN inbox
    BY <1>4, <1>8, <2>2
  <2> QED
    BY <2>1, <2>2
<1>9. view'.gen <= core'.gen /\ pgen' <= core'.gen /\ (view'.gen = core'.gen => view'.mark <= core'.seq /\ view'.seq <= core'.seq)
  BY <1>2 DEF OrderInv
<1> QED
  BY <1>5, <1>6, <1>7, <1>8, <1>9 DEF OrderInv

\* Nothing announces a status, so none changed.
LEMMA QuietEnv ==
    ASSUME TypeInv, NEW more, Sends(more), Heralds(more), Quiet'
    PROVE  Quiet /\ core'.gen = core.gen /\ core'.phase = core.phase
<1>1. Quiet
  BY AfterSending DEF Quiet, IsStatus
<1>2. \A j \in DOMAIN more : ~IsStatus(more[j])
  BY AfterSending DEF Quiet, IsStatus
<1> QED
  BY <1>1, <1>2 DEF Heralds

LEMMA StatusEnv == ASSUME TypeInv, StatusInv, CoreStep PROVE StatusInv'
<1>1. PICK more : Sends(more) /\ Heralds(more)
  BY DEF CoreStep
<1>2. view' = view
  BY DEF CoreStep, clientVars
<1>3. Quiet' => view'.gen = core'.gen /\ (view'.connected <=> core'.phase = "ready")
  BY <1>1, <1>2, QuietEnv DEF StatusInv
<1>4. /\ \A i \in DOMAIN inbox : i \in DOMAIN inbox' /\ inbox'[i] = inbox[i] /\ i \in Nat /\ i <= Len(inbox)
      /\ \A i \in DOMAIN inbox' : i \in DOMAIN inbox \/ (i \in Nat /\ i > Len(inbox) /\ i - Len(inbox) \in DOMAIN more /\ inbox'[i] = more[i - Len(inbox)])
      /\ \A j \in DOMAIN more : j \in Nat /\ j > 0 /\ Len(inbox) + j \in DOMAIN inbox' /\ inbox'[Len(inbox) + j] = more[j] /\ News(more[j])
      /\ Len(inbox) \in Nat
  BY <1>1, AfterSending
<1>5. ASSUME NEW i \in DOMAIN inbox', IsStatus(inbox[i])', \A j \in DOMAIN inbox' : j > i => ~IsStatus(inbox[j])'
      PROVE  inbox'[i].gen = core'.gen /\ (inbox'[i].phase = "ready" <=> core'.phase = "ready")
  <2>1. CASE i \in DOMAIN inbox
    <3>1. \A j \in DOMAIN more : ~IsStatus(more[j])
      BY <1>4, <1>5, <2>1 DEF IsStatus
    <3>2. core'.gen = core.gen /\ core'.phase = core.phase
      BY <1>1, <3>1 DEF Heralds
    <3>3. IsStatus(inbox[i]) /\ \A j \in DOMAIN inbox : j > i => ~IsStatus(inbox[j])
      BY <1>4, <1>5, <2>1 DEF IsStatus
    <3> QED
      BY <1>4, <2>1, <3>2, <3>3 DEF StatusInv
  <2>2. CASE i \notin DOMAIN inbox
    <3>1. PICK k \in DOMAIN more : k = i - Len(inbox)
      BY <1>4, <2>2
    <3>2. i \in Nat /\ inbox'[i] = more[k] /\ News(more[k]) /\ IsStatus(more[k])
      BY <1>4, <1>5, <2>2, <3>1 DEF IsStatus
    <3>3. \A j \in DOMAIN more : j > k => ~IsStatus(more[j])
      BY <1>4, <1>5, <2>2, <3>1, <3>2 DEF IsStatus
    <3>4. more[k].gen = core'.gen
      BY <3>2 DEF News, IsStatus
    <3> QED
      BY <1>1, <3>2, <3>3, <3>4 DEF Heralds
  <2> QED
    BY <2>1, <2>2
<1>6. ASSUME NEW i \in DOMAIN inbox', IsStatus(inbox[i])', inbox'[i].phase = "ready"
      PROVE  \/ i = 1 /\ ~view'.connected
             \/ i - 1 \in DOMAIN inbox' /\ IsStatus(inbox[i - 1])' /\ inbox'[i - 1].phase # "ready"
  <2>1. CASE i \in DOMAIN inbox
    <3>1. \/ i = 1 /\ ~view.connected
          \/ i - 1 \in DOMAIN inbox /\ IsStatus(inbox[i - 1]) /\ inbox[i - 1].phase # "ready"
      BY <1>4, <1>6, <2>1 DEF StatusInv, IsStatus
    <3> QED
      BY <1>2, <1>4, <3>1 DEF IsStatus
  <2>2. CASE i \notin DOMAIN inbox
    <3>1. PICK k \in DOMAIN more : k = i - Len(inbox)
      BY <1>4, <2>2
    <3>2. i \in Nat /\ k \in Nat /\ inbox'[i] = more[k] /\ IsStatus(more[k]) /\ more[k].phase = "ready"
      BY <1>4, <1>6, <2>2, <3>1 DEF IsStatus
    <3>3. k - 1 \in DOMAIN more /\ IsStatus(more[k - 1]) /\ more[k - 1].phase # "ready"
      BY <1>1, <3>2 DEF Heralds
    <3>4. Len(inbox) + (k - 1) = i - 1
      BY <1>4, <3>1, <3>2
    <3> QED
      BY <1>4, <3>3, <3>4 DEF IsStatus
  <2> QED
    BY <2>1, <2>2
<1> QED
  BY <1>3, <1>5, <1>6 DEF StatusInv

LEMMA ReadEnv == ASSUME TypeInv, AwaitInv, OrderInv, ReadInv, CoreStep PROVE ReadInv'
<1>1. PICK more : Sends(more)
  BY DEF CoreStep
<1>2. /\ view' = view /\ DiskGrows /\ core.gen \in Nat /\ core.seq \in Nat /\ core'.gen \in Nat /\ core'.seq \in Nat
      /\ view.chosen \in Runs \cup {None}
  BY DEF CoreStep, clientVars, TypeInv, Cores, Views
<1>3. ASSUME NEW i \in DOMAIN inbox', Live(inbox[i], {<<"read">>})', inbox'[i].out = "ok"
      PROVE  /\ inbox'[i].data.state = "ended" => runs'[view'.chosen] = "ended"
             /\ inbox'[i].gen = core'.gen /\ inbox'[i].seq = core'.seq /\ core'.phase # "down" => inbox'[i].data = Detail(view.chosen)'
  <2>1. CASE i \in DOMAIN inbox
    <3>1. inbox'[i] = inbox[i] /\ inbox[i] \in Messages
      BY <1>1, <2>1, AfterSending
    <3>2. Live(inbox[i], {<<"read">>}) /\ inbox[i].out = "ok" /\ Live(inbox[i], ReadKeys) /\ Numbered(inbox[i])
      BY <1>3, <3>1, KeysDiffer DEF Live, Numbered
    <3>3. view.chosen \in Runs
      BY <1>2, <2>1, <3>2, KeysDiffer DEF AwaitInv, Awaited, Live, TypeInv
    <3>4. inbox[i].gen \in Nat /\ inbox[i].seq \in Nat
      BY <3>1, <3>2, MessageKinds, KeysDiffer DEF Live, WellFormed
    <3>5. inbox[i].data.state = "ended" => runs'[view.chosen] = "ended"
      BY <1>2, <2>1, <3>2, <3>3 DEF ReadInv, DiskGrows
    <3>6. ASSUME inbox[i].gen = core'.gen, inbox[i].seq = core'.seq, core'.phase # "down" PROVE inbox[i].data = Detail(view.chosen)'
      <4>1. core'.gen = core.gen
        BY <1>2, <2>1, <3>4, <3>6 DEF OrderInv, DiskGrows
      <4>2. core'.seq = core.seq
        BY <1>2, <2>1, <3>2, <3>4, <3>6, <4>1 DEF OrderInv, DiskGrows
      <4>3. runs' = runs /\ receipts' = receipts /\ core.phase # "down"
        BY <1>2, <3>6, <4>1, <4>2 DEF DiskGrows
      <4> QED
        BY <1>2, <2>1, <3>2, <3>6, <4>1, <4>2, <4>3 DEF ReadInv, Detail
    <3> QED
      BY <1>2, <3>1, <3>5, <3>6
  <2>2. CASE i \notin DOMAIN inbox
    <3>1. PICK m \in Messages : inbox'[i] = m /\ News(m)
      BY <1>1, <2>2, NewMessage
    <3>2. Live(m, ReadKeys) /\ Reads(m) /\ m.key = <<"read">>
      BY <1>3, <3>1, KeysDiffer DEF Reads, Live
    <3>3. m.data = Detail(view.chosen) /\ runs' = runs /\ receipts' = receipts
      BY <3>1, <3>2 DEF News
    <3> QED
      BY <1>2, <3>1, <3>3 DEF Detail
  <2> QED
    BY <2>1, <2>2
<1>4. view'.chosen # None /\ view'.detail.state = "ended" => runs'[view'.chosen] = "ended"
  BY <1>2 DEF ReadInv, DiskGrows
<1> QED
  BY <1>3, <1>4 DEF ReadInv

LEMMA FreshEnv == ASSUME TypeInv, FreshInv, CoreStep PROVE FreshInv'
<1>1. PICK more : Sends(more) /\ Heralds(more)
  BY DEF CoreStep
<1> SUFFICES ASSUME Watching' PROVE (NewsToCome \/ Refreshes \/ Rereads \/ UpToDate)'
  BY DEF FreshInv
<1>2. view' = view /\ missed' = missed /\ DiskGrows
  BY DEF CoreStep, clientVars
<1>3. Quiet /\ core'.gen = core.gen /\ core'.phase = "ready" /\ core.phase = "ready"
  BY <1>1, QuietEnv DEF Watching
<1>4. CASE core'.seq # core.seq
  <2>1. PICK j \in DOMAIN more : more[j].kind = "event"
    BY <1>1, <1>3, <1>4 DEF Heralds
  <2>2. Len(inbox) + j \in DOMAIN inbox' /\ inbox'[Len(inbox) + j] = more[j] /\ News(more[j])
    BY <1>1, AfterSending
  <2>3. more[j].gen = core'.gen /\ more[j].seq = core'.seq
    BY <2>1, <2>2 DEF News
  <2> QED
    BY <2>1, <2>2, <2>3 DEF NewsToCome
<1>5. CASE core'.seq = core.seq
  <2>1. runs' = runs /\ receipts' = receipts
    BY <1>2, <1>3, <1>5 DEF DiskGrows
  <2>2. Watching
    BY <1>2, <1>3, <2>1 DEF Watching
  <2>3. \A i \in DOMAIN inbox : i \in DOMAIN inbox' /\ inbox'[i] = inbox[i]
    BY <1>1, AfterSending
  <2>4. ASSUME NEW i \in DOMAIN inbox', i \notin DOMAIN inbox, Live(inbox[i], {<<"snap">>, <<"read">>})' PROVE Newest(inbox[i])'
    <3>1. PICK m \in Messages : inbox'[i] = m /\ News(m)
      BY <1>1, <2>4, NewMessage
    <3>2. m.kind = "answer" /\ m.key \in {<<"snap">>, <<"read">>}
      BY <2>4, <3>1 DEF Live
    <3>3. m.out \in {"no", "ok"}
      BY <3>2, MessageKinds, KeysDiffer DEF WellFormed
    <3>4. m.out = "ok" => m.seq = core.seq
      BY <3>1, <3>2, KeysDiffer DEF News, Live, Reads
    <3> QED
      BY <1>5, <3>1, <3>3, <3>4 DEF Newest
  <2>5. NewsToCome => NewsToCome'
    BY <1>3, <1>5, <2>3 DEF NewsToCome
  <2>6. Refreshes => Refreshes'
    BY <1>2, <1>5, <2>3, <2>4 DEF Refreshes, Live, Newest
  <2>7. Rereads => Rereads'
    BY <1>2, <1>5, <2>3, <2>4 DEF Rereads, Live, Newest
  <2>8. UpToDate => UpToDate'
    BY <1>2, <1>5, <2>1 DEF UpToDate, Detail
  <2> QED
    BY <2>2, <2>5, <2>6, <2>7, <2>8 DEF FreshInv
<1> QED
  BY <1>4, <1>5

-----------------------------------------------------------------------------
(* The client keeps it.                                                      *)

Steady == UNCHANGED <<runs, receipts, done, core, texts, taken, reached, faults>>

LEMMA SteadyWhen == (UNCHANGED <<diskVars, coreVars, faults>>) \/ Here => Steady
BY DEF Here, Steady, diskVars, coreVars

\* Each message that is left was there before, unless it has become late.
LEMMA MovedMessages ==
    ASSUME TypeInv, NEW d, NEW keys, Moved(d, keys)
    PROVE  /\ d \in {0, 1} /\ inbox' \in Seq(Messages)
           /\ \A i \in DOMAIN inbox' :
                /\ i \in Nat /\ i >= 1 /\ i + d \in DOMAIN inbox /\ inbox[i + d] \in Messages /\ inbox'[i].gen = inbox[i + d].gen
                /\ \/ inbox'[i] = inbox[i + d] /\ ~Live(inbox[i + d], keys)
                   \/ inbox'[i].kind = "late" /\ Live(inbox[i + d], keys)
           /\ \A i \in DOMAIN inbox : i \in Nat /\ i >= 1 /\ inbox[i] \in Messages /\ (i > d => i - d \in DOMAIN inbox' /\ (i - d) + d = i)
<1>1. inbox \in Seq(Messages) /\ inbox' \in Seq(Messages) /\ d \in {0, 1} /\ Len(inbox') = Len(inbox) - d
  BY DEF TypeInv, Moved
<1>2. \A i \in DOMAIN inbox : i \in Nat /\ i >= 1 /\ inbox[i] \in Messages /\ (i > d => i - d \in DOMAIN inbox' /\ (i - d) + d = i)
  BY <1>1
<1>3. \A i \in DOMAIN inbox' : i \in Nat /\ i >= 1
  BY <1>1
<1>4. ASSUME NEW i \in DOMAIN inbox'
      PROVE  /\ i + d \in DOMAIN inbox /\ inbox'[i].gen = inbox[i + d].gen
             /\ \/ inbox'[i] = inbox[i + d] /\ ~Live(inbox[i + d], keys)
                \/ inbox'[i].kind = "late" /\ Live(inbox[i + d], keys)
  BY <1>4 DEF Moved
<1> QED
  BY <1>1, <1>2, <1>3, <1>4

\* What is left says what it said.
LEMMA StillSaid ==
    ASSUME TypeInv, NEW d, NEW keys, Moved(d, keys), NEW i \in DOMAIN inbox', inbox'[i].kind # "late"
    PROVE  /\ i + d \in DOMAIN inbox /\ inbox'[i] = inbox[i + d] /\ ~Live(inbox[i + d], keys) /\ inbox[i + d] \in Messages
           /\ i \in Nat /\ i >= 1 /\ d \in {0, 1} /\ i + d > d
BY MovedMessages

\* Only these commands are given: the launch of what is prepared, and one instruction at a time.
Admitted(op) ==
    /\ op.kind = "launch" => /\ draft # None /\ draft.run = op.run /\ op.text = draft.text
                             /\ \A o \in Given("launch", op.run) : ops[o].status = "rejected"
    /\ op.kind = "steer" => \A o \in Given("steer", op.run) : ~Unresolved(ops[o])
OpsMove == OpsLearn \/ \E op : OpsGrow(op) /\ Admitted(op)

LEMMA OpsStay == ASSUME TypeInv, ops' = ops PROVE OpsMove
BY DEF TypeInv, OpsMove, OpsLearn, SameGesture, Learns

\* A command keeps its number; a new one comes last, with nothing known of it.
LEMMA OpsAfter ==
    ASSUME TypeInv, OpsMove
    PROVE  /\ ops' \in Seq(Gestures) /\ Len(ops') <= MaxOps /\ DOMAIN ops \subseteq DOMAIN ops'
           /\ \A o \in DOMAIN ops : SameGesture(ops[o], ops'[o]) /\ (OpsLearn => Learns(o)) /\ (~OpsLearn => ops'[o] = ops[o])
           /\ OpsLearn => DOMAIN ops' = DOMAIN ops
           /\ \A o \in DOMAIN ops' : \/ o \in DOMAIN ops
                                     \/ /\ ~OpsLearn /\ Admitted(ops'[o]) /\ ops'[o].status = "pending"
                                        /\ \A p \in DOMAIN ops : p < o
                                        /\ \A p \in DOMAIN ops' : p \in DOMAIN ops \/ p = o
           /\ \A o \in DOMAIN ops' : o \in Ops /\ ops'[o] \in Gestures
<1>1. ops \in Seq(Gestures) /\ Len(ops) \in Nat /\ MaxOps \in Nat /\ Len(ops) <= MaxOps /\ DOMAIN ops = 1..Len(ops)
  BY CommandsInOrder DEF TypeInv
<1>2. CASE OpsLearn
  <2>1. ops' \in Seq(Gestures) /\ Len(ops') = Len(ops) /\ \A o \in DOMAIN ops : SameGesture(ops[o], ops'[o]) /\ Learns(o)
    BY <1>2 DEF OpsLearn
  <2>2. DOMAIN ops' = DOMAIN ops
    BY <1>1, <2>1
  <2>3. \A o \in DOMAIN ops' : o \in Ops /\ ops'[o] \in Gestures
    BY <1>1, <2>1 DEF Ops
  <2> QED
    BY <1>1, <1>2, <2>1, <2>2, <2>3
<1>3. CASE ~OpsLearn
  <2>1. PICK op : OpsGrow(op) /\ Admitted(op)
    BY <1>3 DEF OpsMove
  <2>2. op \in Gestures /\ ops' = Append(ops, op) /\ Len(ops) < MaxOps /\ op.status = "pending"
    BY <2>1 DEF OpsGrow
  <2>3. /\ ops' \in Seq(Gestures) /\ Len(ops') = Len(ops) + 1 /\ ops'[Len(ops) + 1] = op
        /\ \A o \in DOMAIN ops : o \in DOMAIN ops' /\ ops'[o] = ops[o] /\ o < Len(ops) + 1
        /\ \A o \in DOMAIN ops' : o \in DOMAIN ops \/ o = Len(ops) + 1
    BY <1>1, <2>2
  <2>4. \A o \in DOMAIN ops' : o \in Ops /\ ops'[o] \in Gestures
    BY <1>1, <2>2, <2>3 DEF Ops
  <2>5. ASSUME NEW o \in DOMAIN ops', o \notin DOMAIN ops
        PROVE  /\ Admitted(ops'[o]) /\ ops'[o].status = "pending" /\ (\A p \in DOMAIN ops : p < o)
               /\ \A p \in DOMAIN ops' : p \in DOMAIN ops \/ p = o
    <3>1. o = Len(ops) + 1
      BY <2>3, <2>5
    <3>2. ops'[o] = op
      BY <2>3, <3>1
    <3> QED
      BY <2>1, <2>2, <2>3, <3>1, <3>2
  <2>6. Len(ops') <= MaxOps
    BY <1>1, <2>2, <2>3
  <2> QED
    BY <1>3, <2>3, <2>4, <2>5, <2>6 DEF SameGesture
<1> QED
  BY <1>2, <1>3

LEMMA CommandStep == ASSUME TypeInv, CommandInv, Steady, OpsMove, asking' \subseteq DOMAIN ops' PROVE CommandInv'
<1>1. DOMAIN ops \subseteq DOMAIN ops' /\ \A o \in DOMAIN ops : ops'[o].kind = ops[o].kind /\ ops'[o].run = ops[o].run
  BY OpsAfter DEF SameGesture
<1> QED
  BY <1>1 DEF CommandInv, Steady

\* A launch that is done is the only launch of its run that may still be open.
LEMMA LaunchedOnce ==
    ASSUME TypeInv, CommandInv, OutcomeInv, LaunchInv, NEW o \in DOMAIN ops, ops[o].kind = "launch", ops[o].status # "rejected",
           runs[ops[o].run] # "none"
    PROVE  Carried(o)
<1>1. ops[o].run \in Runs /\ texts[ops[o].run] # None
  BY OpTypes DEF LaunchInv
<1>2. PICK q \in done : ops[q].kind = "launch" /\ ops[q].run = ops[o].run
  BY <1>1 DEF LaunchInv
<1>3. q \in DOMAIN ops /\ o \in Nat /\ q \in Nat /\ ops[q].status # "rejected"
  BY <1>2, CommandsInOrder DEF CommandInv, OutcomeInv, Honest, Never
<1>4. q = o
  BY <1>2, <1>3 DEF LaunchInv
<1> QED
  BY <1>2, <1>4 DEF Carried

LEMMA OutcomeStep ==
    ASSUME TypeInv, CommandInv, OutcomeInv, LaunchInv, Steady, OpsMove, NEW d, NEW keys, Moved(d, keys)
    PROVE  OutcomeInv'
<1>1. ASSUME NEW o \in DOMAIN ops, NEW how, Honest(how, o) PROVE Honest(how, o)'
  BY <1>1, OpsAfter DEF Honest, Carried, Never, SameGesture, Steady
<1>2. ASSUME NEW o \in DOMAIN ops' PROVE Honest(ops[o].status, o)'
  <2>1. CASE o \notin DOMAIN ops
    BY <2>1, OpsAfter DEF Honest
  <2>2. CASE o \in DOMAIN ops /\ ops'[o].status = ops[o].status
    <3>1. PICK how : how = ops[o].status /\ Honest(how, o)
      BY <2>2 DEF OutcomeInv
    <3>2. Honest(how, o)'
      BY <1>1, <2>2, <3>1
    <3> QED
      BY <2>2, <3>1, <3>2 DEF Honest
  <2>3. CASE o \in DOMAIN ops /\ ops'[o].status # ops[o].status
    <3>1. Learns(o) /\ o \in Ops /\ inbox \in Seq(Messages) /\ (inbox # <<>> => 1 \in DOMAIN inbox)
      BY <2>3, OpsAfter, OpTypes DEF TypeInv
    <3>2. CASE ops'[o].status = "delivery-unknown"
      BY <3>2 DEF Honest
    <3>3. CASE inbox # <<>> /\ Tells(inbox[1], o) /\ ops'[o].status = inbox[1].out
      <4>1. PICK how : how = inbox[1].out /\ Honest(how, o)
        BY <3>1, <3>3 DEF OutcomeInv
      <4>2. Honest(how, o)'
        BY <1>1, <2>3, <4>1
      <4> QED
        BY <3>3, <4>1, <4>2 DEF Honest
    <3>4. CASE inbox # <<>> /\ Reads(inbox[1]) /\ inbox[1].data.receipts[o] # "none" /\ ops'[o].status = inbox[1].data.receipts[o]
      <4>1. PICK how : how = inbox[1].data.receipts[o]
        OBVIOUS
      <4>2. (how \in Outcomes => receipts[o] = how) /\ receipts[o] # "none"
        BY <3>1, <3>4, <4>1 DEF OutcomeInv
      <4>3. Honest(how, o)
        BY <3>1, <4>2 DEF CommandInv, Honest, Carried, Never, Outcomes
      <4>4. Honest(how, o)'
        BY <1>1, <2>3, <4>3
      <4> QED
        BY <3>4, <4>1, <4>4 DEF Honest
    <3>5. CASE /\ inbox # <<>> /\ Reads(inbox[1]) /\ ops[o].kind = "launch" /\ Unresolved(ops[o])
               /\ inbox[1].key = <<"receipt", o>> /\ ops'[o].status = "accepted"
      <4>1. <<"receipt", o>> # <<"read">>
        BY <3>1, KeysDiffer
      <4>2. PICK p \in DOMAIN ops : <<"receipt", o>> = <<"receipt", p>> /\ runs[ops[p].run] # "none"
        BY <3>1, <3>5, <4>1 DEF LaunchInv
      <4>3. p = o
        BY <4>2
      <4>4. Carried(o)
        BY <2>3, <3>5, <4>2, <4>3, LaunchedOnce DEF Unresolved
      <4>5. Honest("accepted", o)'
        BY <1>1, <2>3, <4>4 DEF Honest
      <4> QED
        BY <3>5, <4>5 DEF Honest
    <3> QED
      BY <2>3, <3>1, <3>2, <3>3, <3>4, <3>5 DEF Learns
  <2> QED
    BY <2>1, <2>2, <2>3
<1>3. ASSUME NEW i \in DOMAIN inbox', NEW o \in Ops, Tells(inbox[i], o)' PROVE o \in reached' /\ Honest(inbox[i].out, o)'
  <2>1. i + d \in DOMAIN inbox /\ inbox'[i] = inbox[i + d]
    BY <1>3, StillSaid DEF Tells
  <2>2. o \in reached /\ Honest(inbox[i + d].out, o)
    BY <1>3, <2>1 DEF OutcomeInv, Tells
  <2>3. PICK how : how = inbox[i + d].out /\ Honest(how, o)
    BY <2>2
  <2>4. Honest(how, o)'
    BY <1>1, <2>2, <2>3 DEF CommandInv
  <2> QED
    BY <2>1, <2>2, <2>3, <2>4 DEF Honest, Steady
<1>4. ASSUME NEW i \in DOMAIN inbox', Reads(inbox[i])', NEW o \in Ops
      PROVE  /\ inbox'[i].data.receipts[o] \in Outcomes => receipts'[o] = inbox'[i].data.receipts[o]
             /\ inbox'[i].data.receipts[o] # "none" => receipts'[o] # "none"
  <2>1. i + d \in DOMAIN inbox /\ inbox'[i] = inbox[i + d]
    BY <1>4, StillSaid DEF Reads, Live
  <2> QED
    BY <1>4, <2>1 DEF OutcomeInv, Reads, Live, Steady
<1> QED
  BY <1>2, <1>3, <1>4 DEF OutcomeInv

LEMMA LaunchStep ==
    ASSUME TypeInv, CommandInv, OutcomeInv, LaunchInv, FormInv, Steady, OpsMove, NEW d, NEW keys, Moved(d, keys)
    PROVE  LaunchInv'
<1>1. /\ DOMAIN ops \subseteq DOMAIN ops' /\ \A o \in DOMAIN ops : o \in Ops /\ SameGesture(ops[o], ops'[o])
      /\ \A o \in DOMAIN ops' : o \in DOMAIN ops \/ (Admitted(ops'[o]) /\ ops'[o] \in Gestures /\ \A p \in DOMAIN ops : p < o)
  BY OpsAfter, OpTypes
<1>2. ASSUME NEW r \in Runs, texts'[r] # None, runs'[r] # "none" PROVE \E o \in done' : ops'[o].kind = "launch" /\ ops'[o].run = r
  <2>1. PICK o \in done : ops[o].kind = "launch" /\ ops[o].run = r
    BY <1>2 DEF LaunchInv, Steady
  <2> QED
    BY <1>1, <2>1 DEF CommandInv, SameGesture, Steady
<1>3. ASSUME NEW o \in DOMAIN ops', ops'[o].kind = "launch" PROVE texts'[ops'[o].run] = ops'[o].text /\ ops'[o].text # None
  <2>1. CASE o \in DOMAIN ops
    BY <1>1, <1>3, <2>1 DEF LaunchInv, SameGesture, Steady
  <2>2. CASE o \notin DOMAIN ops
    <3>1. draft # None /\ draft.run = ops'[o].run /\ ops'[o].text = draft.text /\ ops'[o].run \in Runs
      BY <1>1, <1>3, <2>2 DEF Admitted, Gestures
    <3>2. draft.text \in Nat
      BY <3>1 DEF TypeInv, Forms
    <3> QED
      BY <3>1, <3>2, NoneIsNoRun DEF FormInv, Steady
  <2> QED
    BY <2>1, <2>2
<1>4. ASSUME NEW o \in DOMAIN ops', NEW p \in DOMAIN ops', o < p, ops'[o].kind = "launch", ops'[p].kind = "launch", ops'[o].run = ops'[p].run
      PROVE  ops'[o].status = "rejected"
  <2>1. o \in DOMAIN ops
    <3>1. o \in Nat /\ p \in Nat
      BY OpsAfter, CommandsInOrder
    <3>2. CASE o \notin DOMAIN ops
      <4>1. \A q \in DOMAIN ops' : q \in DOMAIN ops \/ q = o
        BY <3>2, OpsAfter
      <4> QED
        BY <1>1, <1>4, <3>1, <3>2, <4>1
    <3> QED
      BY <3>2
  <2>2. ops[o].status = "rejected"
    <3>1. CASE p \in DOMAIN ops
      BY <1>1, <1>4, <2>1, <3>1 DEF LaunchInv, SameGesture
    <3>2. CASE p \notin DOMAIN ops
      <4>1. \A q \in Given("launch", ops'[p].run) : ops[q].status = "rejected"
        BY <1>1, <1>4, <3>2 DEF Admitted
      <4> QED
        BY <1>1, <1>4, <2>1, <4>1 DEF Given, SameGesture
    <3> QED
      BY <3>1, <3>2
  <2>3. CASE OpsLearn
    <3>1. Learns(o) /\ ops[o].kind = "launch" /\ (inbox # <<>> => 1 \in DOMAIN inbox)
      BY <1>1, <1>4, <2>1, <2>3, OpsAfter DEF SameGesture, TypeInv
    <3>2. inbox # <<>> /\ Reads(inbox[1]) => inbox[1].data.receipts[o] = "none"
      BY <1>1, <2>1, <3>1 DEF OutcomeInv, CommandInv
    <3> QED
      BY <2>2, <3>1, <3>2 DEF Learns, Unresolved
  <2>4. CASE ~OpsLearn
    BY <2>1, <2>2, <2>4, OpsAfter
  <2> QED
    BY <2>3, <2>4
<1>5. core'.draft # None => texts'[core'.draft] # None
  BY DEF LaunchInv, Steady
<1>6. ASSUME NEW i \in DOMAIN inbox', Reads(inbox[i])', inbox'[i].key # <<"read">>
      PROVE  \E o \in DOMAIN ops' : inbox'[i].key = <<"receipt", o>> /\ runs'[ops'[o].run] # "none"
  <2>1. i + d \in DOMAIN inbox /\ inbox'[i] = inbox[i + d]
    BY <1>6, StillSaid DEF Reads, Live
  <2>2. PICK o \in DOMAIN ops : inbox[i + d].key = <<"receipt", o>> /\ runs[ops[o].run] # "none"
    BY <1>6, <2>1 DEF LaunchInv, Reads, Live
  <2> QED
    BY <1>1, <2>1, <2>2 DEF SameGesture, Steady
<1> QED
  BY <1>2, <1>3, <1>4, <1>5, <1>6 DEF LaunchInv

LEMMA SteerStep ==
    ASSUME TypeInv, CommandInv, OutcomeInv, SteerInv, Steady, OpsMove, NEW d, NEW keys, Moved(d, keys),
           OpsLearn /\ ops' # ops => d = 1
    PROVE  SteerInv'
<1>1. /\ DOMAIN ops \subseteq DOMAIN ops' /\ \A o \in DOMAIN ops : o \in Ops /\ SameGesture(ops[o], ops'[o])
      /\ \A o \in DOMAIN ops : ops'[o].status = ops[o].status \/ (d = 1 /\ Learns(o))
  BY OpsAfter, OpTypes
<1>2. ASSUME NEW i \in DOMAIN inbox', NEW o \in Ops, SaysOpen(inbox[i], o)' PROVE i + d \in DOMAIN inbox /\ SaysOpen(inbox[i + d], o) /\ i + d > d /\ i \in Nat
  BY <1>2, StillSaid DEF SaysOpen, Reads, Live
<1>3. ASSUME NEW i \in DOMAIN inbox', NEW o \in Ops, SaysFinal(inbox[i], o)' PROVE i + d \in DOMAIN inbox /\ SaysFinal(inbox[i + d], o) /\ i \in Nat
  BY <1>3, StillSaid DEF SaysFinal, Reads, Live, Tells
<1>4. inbox # <<>> => 1 \in DOMAIN inbox
  BY DEF TypeInv
<1>5. ASSUME NEW o \in DOMAIN ops', ops'[o].kind = "steer", ops'[o].status \in {"accepted", "rejected"}, NEW i \in DOMAIN inbox'
      PROVE  ~SaysOpen(inbox[i], o)'
  <2>1. o \in DOMAIN ops /\ o \in Ops /\ ops[o].kind = "steer"
    BY <1>1, <1>5, OpsAfter DEF SameGesture
  <2>2. CASE ops'[o].status = ops[o].status
    BY <1>2, <1>5, <2>1, <2>2 DEF SteerInv
  <2>3. CASE d = 1 /\ inbox # <<>> /\ SaysFinal(inbox[1], o)
    BY <1>2, <1>4, <2>1, <2>3 DEF SteerInv
  <2> QED
    BY <1>1, <1>5, <2>1, <2>2, <2>3 DEF Learns, SaysFinal
<1>6. \A i, j \in DOMAIN inbox' : \A o \in Ops : i < j /\ SaysFinal(inbox[i], o)' => ~SaysOpen(inbox[j], o)'
  <2> SUFFICES ASSUME NEW i \in DOMAIN inbox', NEW j \in DOMAIN inbox', NEW o \in Ops, i < j, SaysFinal(inbox[i], o)', SaysOpen(inbox[j], o)'
               PROVE  FALSE
    OBVIOUS
  <2>1. i + d \in DOMAIN inbox /\ j + d \in DOMAIN inbox /\ i \in Nat /\ j \in Nat /\ d \in {0, 1} /\ SaysFinal(inbox[i + d], o) /\ SaysOpen(inbox[j + d], o)
    BY <1>2, <1>3 DEF Moved
  <2>2. i + d < j + d
    BY <2>1
  <2> QED
    BY <2>1, <2>2 DEF SteerInv
<1>7. ASSUME NEW o \in DOMAIN ops', NEW p \in DOMAIN ops', ops'[o].kind = "steer", ops'[p].kind = "steer", ops'[o].run = ops'[p].run,
             Unresolved(ops[o])', Unresolved(ops[p])'
      PROVE  o = p
  <2>1. ASSUME NEW q \in DOMAIN ops, ops'[q].kind = "steer", Unresolved(ops[q])' PROVE Unresolved(ops[q]) /\ ops[q].kind = "steer" /\ ops[q].run = ops'[q].run
    <3>1. ops[q].kind = "steer" /\ ops[q].run = ops'[q].run /\ ops[q].status \in Outcomes \cup {"pending"} /\ q \in Ops
      BY <1>1, <2>1, OpTypes DEF SameGesture
    <3>2. CASE ops'[q].status = ops[q].status
      BY <2>1, <3>1, <3>2 DEF Unresolved
    <3>3. CASE Unresolved(ops[q])
      BY <3>1, <3>3
    <3>4. CASE inbox # <<>> /\ SaysOpen(inbox[1], q)
      <4>1. ops[q].status \notin {"accepted", "rejected"}
        BY <1>4, <3>1, <3>4 DEF SteerInv
      <4> QED
        BY <3>1, <4>1 DEF Unresolved, Outcomes
    <3> QED
      BY <1>1, <2>1, <3>1, <3>2, <3>3, <3>4 DEF Learns, SaysOpen, Unresolved
  <2>2. CASE o \in DOMAIN ops /\ p \in DOMAIN ops
    BY <1>7, <2>1, <2>2 DEF SteerInv
  <2>3. CASE o \notin DOMAIN ops /\ p \notin DOMAIN ops
    BY <2>3, OpsAfter
  <2>4. ASSUME NEW q \in DOMAIN ops, NEW n \in DOMAIN ops', n \notin DOMAIN ops, ops'[n].kind = "steer", ops'[q].kind = "steer",
               ops'[n].run = ops'[q].run, Unresolved(ops[q])'
        PROVE  FALSE
    <3>1. \A x \in Given("steer", ops'[n].run) : ~Unresolved(ops[x])
      BY <2>4, OpsAfter DEF Admitted
    <3>2. Unresolved(ops[q]) /\ q \in Given("steer", ops'[n].run)
      BY <2>1, <2>4 DEF Given
    <3> QED
      BY <3>1, <3>2
  <2> QED
    BY <1>7, <2>2, <2>3, <2>4
<1> QED
  BY <1>5, <1>6, <1>7 DEF SteerInv

\* What is no longer awaited was read, or is late.
Dropped(k, d, keys) == k \in keys \/ (d = 1 /\ Live(inbox[1], {k}))
AwaitMoves(d, keys) ==
    /\ view.refreshing => view'.refreshing \/ Dropped(<<"snap">>, d, keys)
    /\ view.reading => view'.reading \/ Dropped(<<"read">>, d, keys)
    /\ draft # None /\ draft.preparing => (draft' # None /\ draft'.preparing) \/ Dropped(<<"prep">>, d, keys)
    /\ \A o \in asking : o \in asking' \/ Dropped(<<"receipt", o>>, d, keys)
    /\ ~view'.connected => ~view'.refreshing /\ ~view'.reading /\ (draft' # None => ~draft'.preparing) /\ asking' = {}
    /\ view'.again => view'.reading
    /\ draft' # None /\ draft'.preparing => draft'.run = None

LEMMA AwaitStep ==
    ASSUME TypeInv, AwaitInv, NEW d, NEW keys, Moved(d, keys), AwaitMoves(d, keys)
    PROVE  AwaitInv'
<1>1. ASSUME NEW i \in DOMAIN inbox', Live(inbox[i], ReadKeys)'
      PROVE  /\ i + d \in DOMAIN inbox /\ inbox'[i] = inbox[i + d] /\ inbox'[i].key = inbox[i + d].key /\ inbox[i + d].key \in Awaited
             /\ Live(inbox[i + d], ReadKeys) /\ ~Dropped(inbox[i + d].key, d, keys) /\ i \in Nat /\ d \in {0, 1}
  <2>1. /\ i + d \in DOMAIN inbox /\ inbox'[i] = inbox[i + d] /\ ~Live(inbox[i + d], keys) /\ i \in Nat /\ i >= 1 /\ d \in {0, 1}
    BY <1>1, StillSaid DEF Live
  <2>2. Live(inbox[i + d], ReadKeys) /\ inbox[i + d].key \in Awaited
    BY <1>1, <2>1 DEF AwaitInv, Live
  <2>3. CASE d = 1 /\ Live(inbox[1], {inbox[i + d].key})
    <3>1. 1 \in DOMAIN inbox
      BY <2>1, <2>3 DEF TypeInv
    <3>2. i + d = 1
      BY <2>1, <2>2, <2>3, <3>1 DEF AwaitInv
    <3> QED
      BY <2>1, <2>3, <3>2
  <2> QED
    BY <2>1, <2>2, <2>3 DEF Dropped, Live
<1>2. ASSUME NEW k \in Awaited, ~Dropped(k, d, keys) PROVE k \in Awaited'
  <2>1. k \in ReadKeys
    BY DEF Awaited
  <2>2. CASE k = <<"snap">>
    BY <1>2, <2>1, <2>2, KeysDiffer DEF Awaited, AwaitMoves
  <2>3. CASE k = <<"prep">>
    BY <1>2, <2>1, <2>3, KeysDiffer DEF Awaited, AwaitMoves
  <2>4. CASE k = <<"read">>
    BY <1>2, <2>1, <2>4, KeysDiffer DEF Awaited, AwaitMoves
  <2>5. CASE \E o \in Ops : k = <<"receipt", o>>
    BY <1>2, <2>1, <2>5, KeysDiffer DEF Awaited, AwaitMoves
  <2> QED
    BY <2>1, <2>2, <2>3, <2>4, <2>5, KeysDiffer
<1>3. \A i \in DOMAIN inbox' : Live(inbox[i], ReadKeys)' => inbox'[i].key \in Awaited'
  BY <1>1, <1>2
<1>4. ASSUME NEW i \in DOMAIN inbox', NEW j \in DOMAIN inbox', Live(inbox[i], ReadKeys)', Live(inbox[j], {inbox[i].key})' PROVE i = j
  <2>1. Live(inbox[j], ReadKeys)' /\ inbox'[j].key = inbox'[i].key
    BY <1>4 DEF Live
  <2>2. /\ i + d \in DOMAIN inbox /\ j + d \in DOMAIN inbox /\ inbox[i + d].key = inbox[j + d].key
        /\ Live(inbox[i + d], ReadKeys) /\ Live(inbox[j + d], ReadKeys) /\ i \in Nat /\ j \in Nat /\ d \in {0, 1}
    BY <1>1, <1>4, <2>1
  <2>3. i + d = j + d
    BY <2>2 DEF AwaitInv, Live
  <2> QED
    BY <2>2, <2>3
<1>5. ~view'.connected => Awaited' = {}
  BY DEF AwaitMoves, Awaited, ReadKeys
<1> QED
  BY <1>3, <1>4, <1>5 DEF AwaitInv, AwaitMoves

\* The form: what is prepared, what is being prepared, and what is under review.
FormMoves(keys) ==
    /\ draft' # None /\ draft'.run # None =>
         \/ draft # None /\ draft'.run = draft.run /\ draft'.text = draft.text
         \/ texts[draft'.run] = draft'.text
    /\ \/ <<"prep">> \in keys
       \/ draft # None /\ draft.preparing => draft' # None /\ draft'.text = draft.text
    /\ proposal' # None /\ draft' # None /\ proposal'.valid =>
         \/ proposal'.text = draft'.text
         \/ draft # None /\ proposal' = proposal /\ draft'.text = draft.text

LEMMA FormStep ==
    ASSUME TypeInv, AwaitInv, FormInv, Steady, NEW d, NEW keys, Moved(d, keys), FormMoves(keys)
    PROVE  FormInv'
<1>1. texts' = texts
  BY DEF Steady
<1>2. draft' # None /\ draft'.run # None => texts'[draft'.run] = draft'.text
  BY <1>1 DEF FormMoves, FormInv
<1>3. ASSUME NEW i \in DOMAIN inbox', Live(inbox[i], {<<"prep">>})', inbox'[i].out = "ok" PROVE texts'[inbox'[i].data] = draft'.text
  <2>1. i + d \in DOMAIN inbox /\ inbox'[i] = inbox[i + d] /\ ~Live(inbox[i + d], keys)
    BY <1>3, StillSaid DEF Live
  <2>2. Live(inbox[i + d], {<<"prep">>}) /\ inbox[i + d].out = "ok" /\ Live(inbox[i + d], ReadKeys)
    BY <1>3, <2>1, KeysDiffer DEF Live
  <2>3. draft # None /\ draft.preparing /\ <<"prep">> \notin keys
    BY <2>1, <2>2, KeysDiffer DEF AwaitInv, Awaited, Live
  <2> QED
    BY <1>1, <2>1, <2>2, <2>3 DEF FormInv, FormMoves
<1>4. proposal' # None /\ draft' # None /\ proposal'.valid => proposal'.text = draft'.text
  BY DEF FormMoves, FormInv
<1> QED
  BY <1>2, <1>3, <1>4 DEF FormInv

\* What is observed, by a step that reads no status: numbers come from what was read.
NumberOf(n, d) == d = 1 /\ Numbered(inbox[1]) /\ n = inbox[1].seq
ViewMoves(d, keys) ==
    /\ view'.gen = view.gen /\ view'.connected = view.connected
    /\ view'.mark = view.mark \/ NumberOf(view'.mark, d)
    /\ view'.seq = view.seq \/ view'.seq = -1 \/ NumberOf(view'.seq, d)
    /\ pgen' = pgen \/ (d = 1 /\ pgen' = inbox[1].gen)
    /\ d = 1 => inbox # <<>> /\ ~IsStatus(inbox[1])
    /\ \/ view'.chosen = view.chosen /\ view'.detail = view.detail
       \/ <<"read">> \in keys /\ view'.detail = NoDetail
       \/ /\ d = 1 /\ Live(inbox[1], {<<"read">>}) /\ inbox[1].out = "ok"
          /\ view'.chosen = view.chosen /\ view'.detail = inbox[1].data

LEMMA OrderStep ==
    ASSUME TypeInv, TypeInv', OrderInv, Steady, NEW d, NEW keys, Moved(d, keys), ViewMoves(d, keys)
    PROVE  OrderInv'
<1>1. core' = core /\ view'.gen = view.gen /\ core.seq \in Nat /\ core.gen \in Nat
  BY DEF Steady, ViewMoves, TypeInv, Cores
<1>2. d = 1 => 1 \in DOMAIN inbox
  BY DEF ViewMoves, TypeInv
<1>3. pgen' <= core'.gen
  BY <1>1, <1>2 DEF ViewMoves, OrderInv
<1>4. ASSUME NEW n, NumberOf(n, d), view.gen = core.gen PROVE n <= core.seq
  <2>1. 1 \in DOMAIN inbox /\ Numbered(inbox[1]) /\ n = inbox[1].seq /\ Data(inbox[1]) /\ inbox[1].gen \in Nat
    <3>1. 1 \in DOMAIN inbox /\ Numbered(inbox[1]) /\ n = inbox[1].seq
      BY <1>2, <1>4 DEF NumberOf
    <3>2. inbox[1].gen \in Nat
      BY <3>1, MessageKinds DEF TypeInv
    <3> QED
      BY <3>1, <3>2 DEF Numbered, Data, Live
  <2>2. inbox[1].gen = core.gen
    BY <1>1, <1>4, <2>1 DEF OrderInv
  <2> QED
    BY <2>1, <2>2 DEF OrderInv
<1>5. view'.gen = core'.gen => view'.mark <= core'.seq /\ view'.seq <= core'.seq
  <2> SUFFICES ASSUME view.gen = core.gen PROVE view'.mark <= core.seq /\ view'.seq <= core.seq
    BY <1>1
  <2>1. view'.mark <= core.seq
    BY <1>4 DEF ViewMoves, OrderInv
  <2>2. view'.seq <= core.seq
    BY <1>1, <1>4 DEF ViewMoves, OrderInv
  <2> QED
    BY <2>1, <2>2
<1>6. \A i \in DOMAIN inbox' : inbox'[i].gen <= core'.gen
  BY <1>1, MovedMessages DEF OrderInv
<1>7. \A i \in DOMAIN inbox' : Data(inbox[i])' => view'.gen <= inbox'[i].gen
  BY <1>1, MovedMessages DEF OrderInv, Data, Live
<1>8. ASSUME NEW i \in DOMAIN inbox', NEW j \in DOMAIN inbox', i < j, IsStatus(inbox[i])', Data(inbox[j])' PROVE inbox'[i].gen <= inbox'[j].gen
  <2>1. /\ i + d \in DOMAIN inbox /\ j + d \in DOMAIN inbox /\ i + d < j + d
        /\ IsStatus(inbox[i + d]) /\ Data(inbox[j + d]) /\ inbox'[i] = inbox[i + d] /\ inbox'[j] = inbox[j + d]
    BY <1>8, MovedMessages DEF IsStatus, Data, Live
  <2> QED
    BY <2>1 DEF OrderInv
<1>9. \A i \in DOMAIN inbox' : Numbered(inbox[i])' /\ inbox'[i].gen = core'.gen => inbox'[i].seq <= core'.seq
  BY <1>1, MovedMessages DEF OrderInv, Numbered, Live
<1> QED
  BY <1>1, <1>3, <1>5, <1>6, <1>7, <1>8, <1>9 DEF OrderInv

LEMMA StatusStep ==
    ASSUME TypeInv, StatusInv, Steady, NEW d, NEW keys, Moved(d, keys), ViewMoves(d, keys)
    PROVE  StatusInv' /\ (Quiet' => Quiet)
<1>1. core' = core /\ view'.gen = view.gen /\ view'.connected = view.connected /\ d \in {0, 1}
  BY DEF Steady, ViewMoves, Moved
<1>2. ASSUME NEW i \in DOMAIN inbox, IsStatus(inbox[i])
      PROVE  i \in Nat /\ i > d /\ i - d \in DOMAIN inbox' /\ (i - d) + d = i /\ inbox'[i - d] = inbox[i] /\ IsStatus(inbox[i - d])'
  <2>1. i \in Nat /\ i > d /\ i - d \in DOMAIN inbox' /\ (i - d) + d = i
    BY <1>1, <1>2, MovedMessages DEF ViewMoves
  <2> QED
    BY <1>2, <2>1, MovedMessages DEF IsStatus, Live
<1>3. ASSUME NEW i \in DOMAIN inbox', IsStatus(inbox[i])' PROVE i \in Nat /\ i + d \in DOMAIN inbox /\ inbox'[i] = inbox[i + d] /\ IsStatus(inbox[i + d])
  BY <1>3, StillSaid DEF IsStatus
<1>4. Quiet' => Quiet
  BY <1>2 DEF Quiet
<1>5. ASSUME NEW i \in DOMAIN inbox', IsStatus(inbox[i])', \A j \in DOMAIN inbox' : j > i => ~IsStatus(inbox[j])'
      PROVE  inbox'[i].gen = core'.gen /\ (inbox'[i].phase = "ready" <=> core'.phase = "ready")
  <2>1. \A j \in DOMAIN inbox : j > i + d => ~IsStatus(inbox[j])
    <3> SUFFICES ASSUME NEW j \in DOMAIN inbox, j > i + d, IsStatus(inbox[j]) PROVE FALSE
      OBVIOUS
    <3>1. i \in Nat /\ j \in Nat /\ j - d \in DOMAIN inbox' /\ IsStatus(inbox[j - d])'
      BY <1>2, <1>3, <1>5
    <3>2. j - d > i
      BY <1>1, <3>1
    <3> QED
      BY <1>5, <3>1, <3>2
  <2> QED
    BY <1>1, <1>3, <1>5, <2>1 DEF StatusInv
<1>6. ASSUME NEW i \in DOMAIN inbox', IsStatus(inbox[i])', inbox'[i].phase = "ready"
      PROVE  \/ i = 1 /\ ~view'.connected
             \/ i - 1 \in DOMAIN inbox' /\ IsStatus(inbox[i - 1])' /\ inbox'[i - 1].phase # "ready"
  <2>1. i \in Nat /\ i + d \in DOMAIN inbox /\ inbox'[i] = inbox[i + d] /\ IsStatus(inbox[i + d]) /\ i + d > d
    BY <1>2, <1>3, <1>6
  <2>2. CASE i + d = 1 /\ ~view.connected
    BY <1>1, <2>1, <2>2
  <2>3. CASE (i + d) - 1 \in DOMAIN inbox /\ IsStatus(inbox[(i + d) - 1]) /\ inbox[(i + d) - 1].phase # "ready"
    <3>1. PICK j \in DOMAIN inbox : j = (i + d) - 1
      BY <2>3
    <3>2. j - d \in DOMAIN inbox' /\ inbox'[j - d] = inbox[j] /\ IsStatus(inbox[j - d])' /\ j \in Nat
      BY <1>2, <2>3, <3>1
    <3>3. j - d = i - 1
      BY <1>1, <2>1, <3>1, <3>2
    <3> QED
      BY <2>1, <2>3, <3>1, <3>2, <3>3
  <2> QED
    BY <1>6, <2>1, <2>2, <2>3 DEF StatusInv
<1> QED
  BY <1>1, <1>4, <1>5, <1>6 DEF StatusInv

LEMMA ReadStep ==
    ASSUME TypeInv, AwaitInv, ReadInv, Steady, NEW d, NEW keys, Moved(d, keys),
           \/ view'.chosen = view.chosen /\ view'.detail = view.detail
           \/ <<"read">> \in keys /\ view'.detail = NoDetail
           \/ /\ d = 1 /\ inbox # <<>> /\ Live(inbox[1], {<<"read">>}) /\ inbox[1].out = "ok"
              /\ view'.chosen = view.chosen /\ view'.detail = inbox[1].data
    PROVE  ReadInv'
<1>1. UNCHANGED <<runs, receipts, core>>
  BY DEF Steady
<1>2. ASSUME NEW i \in DOMAIN inbox', Live(inbox[i], {<<"read">>})', inbox'[i].out = "ok"
      PROVE  /\ inbox'[i].data.state = "ended" => runs'[view'.chosen] = "ended"
             /\ inbox'[i].gen = core'.gen /\ inbox'[i].seq = core'.seq /\ core'.phase # "down" => inbox'[i].data = Detail(view.chosen)'
  <2>1. i + d \in DOMAIN inbox /\ inbox'[i] = inbox[i + d] /\ ~Live(inbox[i + d], keys)
    BY <1>2, StillSaid DEF Live
  <2>2. Live(inbox[i + d], {<<"read">>}) /\ inbox[i + d].out = "ok" /\ <<"read">> \notin keys
    BY <1>2, <2>1 DEF Live
  <2>3. view'.chosen = view.chosen
    BY <2>2
  <2> QED
    BY <1>1, <2>1, <2>2, <2>3 DEF ReadInv, Detail
<1>3. view'.chosen # None /\ view'.detail.state = "ended" => runs'[view'.chosen] = "ended"
  <2>1. CASE view'.chosen = view.chosen /\ view'.detail = view.detail
    BY <1>1, <2>1 DEF ReadInv
  <2>2. CASE view'.detail = NoDetail
    BY <2>2 DEF NoDetail
  <2>3. CASE d = 1 /\ inbox # <<>> /\ Live(inbox[1], {<<"read">>}) /\ inbox[1].out = "ok" /\ view'.chosen = view.chosen /\ view'.detail = inbox[1].data
    BY <1>1, <2>3 DEF ReadInv, TypeInv
  <2> QED
    BY <2>1, <2>2, <2>3
<1> QED
  BY <1>2, <1>3 DEF ReadInv

\* What is under way stays so, if it is not what the step takes.
LEMMA UnderWay ==
    ASSUME TypeInv, Steady, NEW d, NEW keys, Moved(d, keys), view'.chosen = view.chosen
    PROVE  /\ (d = 1 => inbox[1].kind # "event" \/ inbox[1].seq # core.seq) => (NewsToCome => NewsToCome')
           /\ (view.refreshing => view'.refreshing) => (Refreshes => Refreshes')
           /\ (view.reading => view'.reading) /\ (view.again => view'.again) => (Rereads => Rereads')
           /\ (view'.seq = view.seq /\ view'.mark = view.mark /\ view'.detail = view.detail /\ view'.stale = view.stale)
                => (UpToDate => UpToDate')
<1>1. UNCHANGED <<runs, receipts, core>> /\ d \in {0, 1}
  BY DEF Steady, Moved
<1>2. ASSUME d = 1 => inbox[1].kind # "event" \/ inbox[1].seq # core.seq,
             NEW i \in DOMAIN inbox, inbox[i].kind = "event", inbox[i].gen = core.gen, inbox[i].seq = core.seq
      PROVE  NewsToCome'
  <2>1. i \in Nat /\ i > d /\ i - d \in DOMAIN inbox' /\ (i - d) + d = i
    BY <1>1, <1>2, MovedMessages
  <2>2. inbox'[i - d] = inbox[i]
    BY <1>2, <2>1, MovedMessages DEF Live
  <2> QED
    BY <1>1, <1>2, <2>1, <2>2 DEF NewsToCome
<1>3. ASSUME NEW i \in DOMAIN inbox', NEW ks, Live(inbox[i], ks)' PROVE i + d \in DOMAIN inbox /\ inbox'[i] = inbox[i + d] /\ Live(inbox[i + d], ks)
  BY <1>3, StillSaid DEF Live
<1>4. ASSUME view.refreshing => view'.refreshing, Refreshes PROVE Refreshes'
  BY <1>1, <1>3, <1>4 DEF Refreshes, Newest
<1>5. ASSUME view.reading => view'.reading, view.again => view'.again, Rereads PROVE Rereads'
  BY <1>1, <1>3, <1>5 DEF Rereads, Newest
<1>6. ASSUME view'.seq = view.seq, view'.mark = view.mark, view'.detail = view.detail, view'.stale = view.stale, UpToDate PROVE UpToDate'
  BY <1>1, <1>6 DEF UpToDate, Detail
<1>7. (d = 1 => inbox[1].kind # "event" \/ inbox[1].seq # core.seq) => (NewsToCome => NewsToCome')
  BY <1>2 DEF NewsToCome
<1> QED
  BY <1>4, <1>5, <1>6, <1>7

\* A step that keeps all of it: anything but an event, or another run.
LEMMA FreshKept ==
    ASSUME TypeInv, StatusInv, FreshInv, Steady, NEW d, NEW keys, Moved(d, keys), ViewMoves(d, keys),
           d = 1 => inbox[1].kind # "event", view'.chosen = view.chosen, missed => missed',
           view.refreshing => view'.refreshing, view.reading => view'.reading, view.again => view'.again,
           UpToDate => view'.seq = view.seq /\ view'.mark = view.mark /\ view'.detail = view.detail /\ view'.stale = view.stale
    PROVE  FreshInv'
<1>1. Watching' => Watching
  BY StatusStep DEF Watching, Steady
<1> QED
  BY <1>1, UnderWay DEF FreshInv

-----------------------------------------------------------------------------
(* All of it.                                                                *)

IInv == /\ TypeInv /\ CommandInv /\ OutcomeInv /\ LaunchInv /\ SteerInv /\ AwaitInv
        /\ FormInv /\ OrderInv /\ StatusInv /\ ReadInv /\ FreshInv

LEMMA EnvironmentKeeps == ASSUME IInv, Environment, acts' = acts PROVE IInv'
<1>1. CoreStep
  BY EnvironmentStep DEF IInv
<1>2. OutcomeInv' /\ LaunchInv' /\ SteerInv' /\ AwaitInv' /\ FormInv'
  BY <1>1, OutcomeEnv, LaunchEnv, SteerEnv, AwaitEnv, FormEnv DEF IInv
<1>3. OrderInv' /\ StatusInv' /\ ReadInv' /\ FreshInv'
  BY <1>1, OrderEnv, StatusEnv, ReadEnv, FreshEnv DEF IInv
<1> QED
  BY <1>1, <1>2, <1>3 DEF IInv, CoreStep

ClientMoves(d, keys) ==
    /\ Steady /\ Moved(d, keys) /\ (d = 1 => inbox # <<>>) /\ (pgen' = pgen \/ (d = 1 /\ pgen' = inbox[1].gen))
    /\ OpsMove /\ (OpsLearn /\ ops' # ops => d = 1) /\ asking' \subseteq DOMAIN ops'
    /\ view' \in Views /\ (view'.reading => view'.chosen # None)
    /\ draft' \in Forms \cup {None} /\ proposal' \in Proposals \cup {None} /\ missed' \in BOOLEAN /\ acts' \in Nat
    /\ AwaitMoves(d, keys) /\ FormMoves(keys)

LEMMA ClientKeeps ==
    ASSUME IInv, NEW d, NEW keys, ClientMoves(d, keys)
    PROVE  TypeInv' /\ CommandInv' /\ OutcomeInv' /\ LaunchInv' /\ SteerInv' /\ AwaitInv' /\ FormInv'
<1>1. TypeInv /\ Steady /\ OpsMove /\ Moved(d, keys) /\ asking' \subseteq DOMAIN ops'
  BY DEF IInv, ClientMoves
<1>2. pgen' \in Nat
  <2>1. inbox # <<>> => inbox[1].gen \in Nat
    BY <1>1, TailOf, MessageKinds DEF TypeInv
  <2> QED
    BY <1>1, <2>1 DEF ClientMoves, TypeInv
<1>3. ops' \in Seq(Gestures) /\ Len(ops') <= MaxOps /\ DOMAIN ops' \subseteq Ops /\ inbox' \in Seq(Messages)
  BY <1>1, OpsAfter DEF Moved
<1>4. TypeInv'
  BY <1>1, <1>2, <1>3 DEF TypeInv, Steady, ClientMoves
<1>5. CommandInv' /\ OutcomeInv' /\ LaunchInv' /\ SteerInv'
  BY <1>1, CommandStep, OutcomeStep, LaunchStep, SteerStep DEF IInv, ClientMoves
<1>6. AwaitInv' /\ FormInv'
  BY <1>1, AwaitStep, FormStep DEF IInv, ClientMoves
<1> QED
  BY <1>4, <1>5, <1>6

LEMMA ViewKeeps ==
    ASSUME IInv, NEW d, NEW keys, ClientMoves(d, keys), ViewMoves(d, keys), FreshInv'
    PROVE  IInv'
<1>1. TypeInv' /\ CommandInv' /\ OutcomeInv' /\ LaunchInv' /\ SteerInv' /\ AwaitInv' /\ FormInv'
  BY ClientKeeps
<1>2. TypeInv /\ AwaitInv /\ OrderInv /\ StatusInv /\ ReadInv /\ Steady /\ Moved(d, keys)
  BY DEF IInv, ClientMoves
<1>3. OrderInv' /\ StatusInv'
  BY <1>1, <1>2, OrderStep, StatusStep
<1>4. ReadInv'
  BY <1>2, ReadStep DEF ViewMoves
<1> QED
  BY <1>1, <1>3, <1>4 DEF IInv

\* Steps that leave the view alone, and those that leave the form alone.
LEMMA SameViewKeeps ==
    ASSUME IInv, NEW d, NEW keys, ClientMoves(d, keys), UNCHANGED <<view, missed>>, <<"read">> \notin keys,
           d = 1 => inbox[1].kind \notin {"status", "event"}
    PROVE  IInv'
<1>1. ViewMoves(d, keys)
  BY DEF ClientMoves, ViewMoves, IsStatus
<1>2. FreshInv'
  BY <1>1, FreshKept DEF IInv, ClientMoves
<1> QED
  BY <1>1, <1>2, ViewKeeps

LEMMA FormStays ==
    ASSUME IInv, UNCHANGED <<draft, proposal>>, NEW keys
    PROVE  /\ FormMoves(keys) /\ draft' \in Forms \cup {None} /\ proposal' \in Proposals \cup {None}
           /\ draft # None /\ draft.preparing => draft' # None /\ draft'.preparing
           /\ draft' # None /\ draft'.preparing => draft'.run = None
BY DEF IInv, TypeInv, FormMoves, AwaitInv

LEMMA NotConnected ==
    ASSUME IInv, ~view.connected
    PROVE  ~view.refreshing /\ ~view.reading /\ ~view.again /\ (draft # None => ~draft.preparing) /\ asking = {}
<1>1. Awaited = {} /\ asking \subseteq Ops /\ view \in Views /\ (view.again => view.reading)
  BY DEF IInv, AwaitInv, TypeInv
<1>2. \A o \in Ops : o \notin asking
  <2> SUFFICES ASSUME NEW o \in Ops, o \in asking PROVE FALSE
    OBVIOUS
  <2>1. <<"receipt", o>> \in ReadKeys
    BY KeysDiffer
  <2>2. <<"receipt", o>> \in Awaited
    BY <2>1 DEF Awaited
  <2> QED
    BY <1>1, <2>2
<1> QED
  BY <1>1, <1>2, KeysDiffer DEF Awaited

LEMMA ViewStays ==
    ASSUME IInv, UNCHANGED view
    PROVE  /\ view' \in Views /\ (view'.reading => view'.chosen # None)
           /\ view.refreshing => view'.refreshing
           /\ view.reading => view'.reading
           /\ view'.again => view'.reading
           /\ ~view'.connected => ~view'.refreshing /\ ~view'.reading /\ (draft # None => ~draft.preparing) /\ asking = {}
BY NotConnected DEF IInv, TypeInv, AwaitInv

LEMMA AskingInOps == IInv => asking \subseteq DOMAIN ops
BY DEF IInv, CommandInv

LEMMA OnLateKeeps == ASSUME IInv, OnLate, acts' \in Nat PROVE IInv'
<1>1. /\ inbox # <<>> /\ inbox[1].kind = "late" /\ Moved(1, {}) /\ Steady /\ UNCHANGED <<view, draft, proposal, ops, asking, missed>>
      /\ (pgen' = pgen \/ pgen' = inbox[1].gen)
  BY QueueMoves, SteadyWhen DEF OnLate, First, IInv, clientVars, formVars
<1>2. AwaitMoves(1, {}) /\ view' \in Views /\ (view'.reading => view'.chosen # None)
  BY <1>1, ViewStays, FormStays DEF AwaitMoves
<1>3. ClientMoves(1, {})
  BY <1>1, <1>2, FormStays, OpsStay, AskingInOps DEF ClientMoves, IInv, TypeInv
<1> QED
  BY <1>1, <1>3, SameViewKeeps

\* The user's gestures.  Those on the form alone:
LEMMA FormIs == \A t \in Nat : LET f == Form(t) IN f \in Forms /\ f # None /\ f.text = t /\ f.run = None /\ ~f.preparing
<1> SUFFICES ASSUME NEW t \in Nat PROVE LET f == Form(t) IN f \in Forms /\ f.text = t /\ f.run = None /\ ~f.preparing
  BY NoneIsNoRun
<1> QED
  BY DEF Form, Forms

LEMMA FormOnly ==
    ASSUME IInv, NEW keys \in {{}, {<<"prep">>}}, Steady, Moved(0, keys), UNCHANGED <<pgen, view, ops, asking, missed>>, acts' \in Nat,
           draft' \in Forms \cup {None}, proposal' \in Proposals \cup {None}, FormMoves(keys),
           draft # None /\ draft.preparing => (draft' # None /\ draft'.preparing) \/ <<"prep">> \in keys,
           draft' # None /\ draft'.preparing => draft'.run = None /\ view.connected
    PROVE  IInv'
<1>1. AwaitMoves(0, keys) /\ view' \in Views /\ (view'.reading => view'.chosen # None)
  BY ViewStays DEF AwaitMoves, Dropped
<1>2. ClientMoves(0, keys)
  BY <1>1, OpsStay, AskingInOps DEF ClientMoves, IInv, TypeInv
<1>3. <<"read">> \notin keys
  BY KeysDiffer
<1> QED
  BY <1>2, <1>3, SameViewKeeps

LEMMA ChangeKeeps ==
    ASSUME IInv, acts' \in Nat, NEW d \in {None} \cup {Form(t) : t \in Nat}, Change(d),
           proposal' = None \/ proposal' = Revoked
    PROVE  IInv'
<1>1. Steady /\ UNCHANGED <<pgen, view, ops, asking, missed>> /\ Moved(0, {<<"prep">>}) /\ draft' = d
  BY QueueMoves, KeysDiffer, SteadyWhen DEF Change, Here, IInv
<1>2. draft' \in Forms \cup {None} /\ (draft' # None => draft'.run = None /\ ~draft'.preparing)
  BY <1>1, FormIs
<1>3. proposal' = None \/ (proposal' \in Proposals /\ ~proposal'.valid)
  BY DEF Revoked, IInv, TypeInv, Proposals
<1>4. FormMoves({<<"prep">>})
  BY <1>2, <1>3 DEF FormMoves
<1> QED
  BY <1>1, <1>2, <1>3, <1>4, FormOnly

LEMMA DraftsKeep == ASSUME IInv, OpenDraft \/ EditDraft \/ CloseDraft, acts' \in Nat PROVE IInv'
<1>1. acts + 1 \in Nat /\ (draft # None => draft.text \in Nat)
  BY DEF IInv, TypeInv, Forms
<1>2. CASE OpenDraft
  BY <1>2, ChangeKeeps DEF OpenDraft
<1>3. CASE EditDraft
  BY <1>1, <1>3, ChangeKeeps DEF EditDraft
<1>4. CASE CloseDraft
  BY <1>4, ChangeKeeps DEF CloseDraft
<1> QED
  BY <1>2, <1>3, <1>4

LEMMA TasksKeep == ASSUME IInv, Propose \/ AcceptTask, acts' \in Nat PROVE IInv'
<1>1. /\ (draft # None => draft \in Forms /\ draft.text \in Nat) /\ (proposal # None => proposal.text \in Nat)
      /\ proposal \in Proposals \cup {None} /\ draft \in Forms \cup {None}
  BY DEF IInv, TypeInv, Forms, Proposals
<1>2. draft # None /\ draft.preparing => draft.run = None /\ view.connected
  BY NotConnected DEF IInv, AwaitInv
<1>3. CASE Propose
  <2>1. Steady /\ UNCHANGED <<inbox, pgen, view, draft, ops, asking, missed>>
    BY <1>3, SteadyWhen DEF Propose, Here
  <2>2. proposal' \in Proposals /\ (draft # None => proposal'.text = draft.text)
    BY <1>1, <1>3 DEF Propose, Proposals
  <2>3. FormMoves({})
    BY <2>1, <2>2 DEF FormMoves
  <2>4. Moved(0, {})
    BY <2>1, QueueMoves DEF IInv
  <2> QED
    BY <1>1, <1>2, <2>1, <2>2, <2>3, <2>4, FormOnly
<1>4. CASE AcceptTask /\ proposal.valid
  BY <1>1, <1>4, ChangeKeeps DEF AcceptTask
<1>5. CASE AcceptTask /\ ~proposal.valid
  <2>1. Steady /\ UNCHANGED <<inbox, pgen, view, draft, ops, asking, missed>> /\ proposal' = None
    BY <1>5, SteadyWhen DEF AcceptTask, Here
  <2>2. FormMoves({})
    BY <2>1 DEF FormMoves
  <2>3. Moved(0, {})
    BY <2>1, QueueMoves DEF IInv
  <2> QED
    BY <1>1, <1>2, <2>1, <2>2, <2>3, FormOnly
<1> QED
  BY <1>3, <1>4, <1>5

LEMMA PrepareKeeps == ASSUME IInv, Prepare, acts' \in Nat PROVE IInv'
<1>1. /\ Steady /\ UNCHANGED <<inbox, pgen, view, proposal, ops, asking, missed>> /\ view.connected
      /\ draft # None /\ draft' = [draft EXCEPT !.run = None, !.preparing = TRUE]
  BY SteadyWhen DEF Prepare, Here
<1>2. draft \in Forms /\ proposal \in Proposals \cup {None}
  BY <1>1 DEF IInv, TypeInv
<1>3. draft' \in Forms /\ draft'.run = None /\ draft'.preparing /\ draft'.text = draft.text
  BY <1>1, <1>2 DEF Forms
<1>4. draft' # None
  BY <1>3, NoneIsNoRun
<1>5. FormMoves({})
  BY <1>1, <1>3, <1>4 DEF FormMoves
<1>6. Moved(0, {})
  BY <1>1, QueueMoves DEF IInv
<1> QED
  BY <1>1, <1>2, <1>3, <1>4, <1>5, <1>6, FormOnly

\* A command is given.
LEMMA GiveMoves ==
    ASSUME IInv, NEW kind \in {"launch", "steer", "cancel"}, NEW run \in Runs, NEW text \in Nat \cup {None}, Give(kind, run, text),
           \A op \in Gestures : op.kind = kind /\ op.run = run /\ op.text = text => Admitted(op)
    PROVE  OpsMove /\ ~OpsLearn /\ DOMAIN ops \subseteq DOMAIN ops' /\ Steady /\ UNCHANGED <<draft, proposal, asking, missed, pgen>>
<1> DEFINE op == [kind |-> kind, run |-> run, text |-> text, status |-> "pending", waiting |-> TRUE]
<1>1. op \in Gestures /\ op.kind = kind /\ op.run = run /\ op.text = text /\ op.status = "pending"
  BY DEF Gestures
<1>2. ops' = Append(ops, op) /\ Len(ops) < MaxOps
  BY DEF Give
<1> HIDE DEF op
<1>3. OpsGrow(op) /\ Admitted(op)
  BY <1>1, <1>2 DEF OpsGrow
<1>4. ops \in Seq(Gestures)
  BY DEF IInv, TypeInv
<1>5. Len(ops') = Len(ops) + 1 /\ DOMAIN ops \subseteq DOMAIN ops' /\ Len(ops) \in Nat
  BY <1>1, <1>2, <1>4
<1>6. ~OpsLearn
  BY <1>5 DEF OpsLearn
<1> QED
  BY <1>3, <1>5, <1>6, SteadyWhen DEF OpsMove, Give, Here, formVars

LEMMA OrdersKeep == ASSUME IInv, Steer \/ Stop \/ \E o \in Ops : Reconcile(o), acts' \in Nat PROVE IInv'
<1>1. /\ UNCHANGED <<inbox, view, draft, proposal, missed, pgen>> /\ Steady /\ view.connected
      /\ OpsMove /\ (OpsLearn => ops' = ops) /\ asking \subseteq asking' /\ asking' \subseteq DOMAIN ops'
  <2>1. CASE Steer
    <3>1. /\ view.chosen \in Runs /\ view.connected /\ Give("steer", view.chosen, None) /\ UNCHANGED <<inbox, view>>
          /\ \A o \in Given("steer", view.chosen) : ~Unresolved(ops[o])
      BY <2>1 DEF Steer, Current, IInv, TypeInv, Views
    <3>2. \A op \in Gestures : op.kind = "steer" /\ op.run = view.chosen => Admitted(op)
      BY <3>1 DEF Admitted
    <3> QED
      BY <3>1, <3>2, GiveMoves, AskingInOps
  <2>2. CASE Stop
    <3>1. view.chosen \in Runs /\ view.connected /\ Give("cancel", view.chosen, None) /\ UNCHANGED <<inbox, view>>
      BY <2>2 DEF Stop, Current, IInv, TypeInv, Views
    <3>2. \A op \in Gestures : op.kind = "cancel" => Admitted(op)
      BY DEF Admitted
    <3> QED
      BY <3>1, <3>2, GiveMoves, AskingInOps
  <2>3. CASE \E o \in Ops : Reconcile(o)
    <3>1. /\ UNCHANGED <<inbox, view, draft, proposal, ops, missed, pgen>> /\ Steady /\ view.connected
          /\ asking \subseteq asking' /\ asking' \subseteq asking \cup DOMAIN ops
      BY <2>3, SteadyWhen DEF Reconcile, Here, formVars
    <3> QED
      BY <3>1, OpsStay, AskingInOps DEF IInv
  <2> QED
    BY <2>1, <2>2, <2>3
<1>2. AwaitMoves(0, {}) /\ view' \in Views /\ (view'.reading => view'.chosen # None)
  BY <1>1, ViewStays, FormStays DEF AwaitMoves
<1>3. Moved(0, {})
  BY <1>1, QueueMoves DEF IInv
<1>4. ClientMoves(0, {})
  BY <1>1, <1>2, <1>3, FormStays DEF ClientMoves, IInv, TypeInv
<1> QED
  BY <1>1, <1>4, SameViewKeeps

\* What holds of a window that is up to date with the core's status.
LEMMA WatchingWas ==
    ASSUME IInv, Steady, NEW d, NEW keys, Moved(d, keys), ViewMoves(d, keys), Watching'
    PROVE  /\ Quiet /\ core.phase = "ready" /\ view.connected /\ view.gen = core.gen
           /\ \A i \in DOMAIN inbox : Data(inbox[i]) => inbox[i].gen = core.gen /\ pgen <= inbox[i].gen
<1>1. Quiet
  BY StatusStep DEF IInv, Watching
<1>2. core.phase = "ready" /\ view.connected /\ view.gen = core.gen
  BY <1>1 DEF IInv, StatusInv, Steady, Watching
<1>3. ASSUME NEW i \in DOMAIN inbox, Data(inbox[i]) PROVE inbox[i].gen = core.gen /\ pgen <= inbox[i].gen
  <2>1. inbox[i].gen \in Nat /\ core.gen \in Nat
    BY MovedMessages, MessageKinds DEF IInv, TypeInv, Cores
  <2>2. inbox[i].gen <= core.gen /\ core.gen <= inbox[i].gen /\ pgen <= core.gen
    BY <1>2, <1>3 DEF IInv, OrderInv
  <2> QED
    BY <2>1, <2>2
<1> QED
  BY <1>1, <1>2, <1>3

\* A read that was asked for now has no older answer on its way.
LEMMA NoAnswerYet ==
    ASSUME IInv, NEW d, NEW keys, Moved(d, keys), NEW k \in ReadKeys, k \notin Awaited \/ Dropped(k, d, keys)
    PROVE  \A i \in DOMAIN inbox' : ~Live(inbox[i], {k})'
<1> SUFFICES ASSUME NEW i \in DOMAIN inbox', Live(inbox[i], {k})' PROVE FALSE
  OBVIOUS
<1>0. TypeInv /\ AwaitInv
  BY DEF IInv
<1>1. i + d \in DOMAIN inbox /\ inbox'[i] = inbox[i + d] /\ ~Live(inbox[i + d], keys) /\ d \in {0, 1} /\ i \in Nat /\ i >= 1
  BY <1>0, StillSaid DEF Live
<1>2. Live(inbox[i + d], {k}) /\ Live(inbox[i + d], ReadKeys) /\ k \in Awaited /\ inbox[i + d].key = k
  BY <1>0, <1>1 DEF AwaitInv, Live
<1>3. d = 1 /\ Live(inbox[1], {k})
  BY <1>1, <1>2 DEF Dropped, Live
<1>4. 1 \in DOMAIN inbox /\ Live(inbox[1], ReadKeys) /\ Live(inbox[i + d], {inbox[1].key})
  BY <1>0, <1>1, <1>2, <1>3 DEF TypeInv, Live
<1>5. i + d = 1
  BY <1>0, <1>1, <1>4 DEF AwaitInv
<1> QED
  BY <1>1, <1>3, <1>5

LEMMA RereadsNow ==
    ASSUME IInv, NEW d, NEW keys, Moved(d, keys), view'.reading, view'.again \/ ~view.reading \/ Dropped(<<"read">>, d, keys)
    PROVE  Rereads'
<1>1. <<"read">> \in ReadKeys /\ (~view.reading => <<"read">> \notin Awaited)
  BY KeysDiffer DEF Awaited
<1>2. view'.again \/ \A i \in DOMAIN inbox' : ~Live(inbox[i], {<<"read">>})'
  BY <1>1, NoAnswerYet
<1> QED
  BY <1>2 DEF Rereads

LEMMA RefreshesNow ==
    ASSUME IInv, NEW d, NEW keys, Moved(d, keys), view'.refreshing, ~view.refreshing \/ Dropped(<<"snap">>, d, keys)
    PROVE  Refreshes'
<1>1. <<"snap">> \in ReadKeys /\ (~view.refreshing => <<"snap">> \notin Awaited)
  BY KeysDiffer DEF Awaited
<1>2. \A i \in DOMAIN inbox' : ~Live(inbox[i], {<<"snap">>})'
  BY <1>1, NoAnswerYet
<1> QED
  BY <1>2 DEF Refreshes

LEMMA SelectKeeps == ASSUME IInv, NEW r \in Runs, Select(r), acts' \in Nat PROVE IInv'
<1> DEFINE c == Choose(r)
           keys == {<<"read">>}
<1>1. /\ view' = ReadDetail(c) /\ Moved(0, keys) /\ Steady /\ UNCHANGED <<draft, proposal, ops, asking, pgen>>
      /\ missed' = (missed /\ ~view.connected)
  BY QueueMoves, KeysDiffer, SteadyWhen DEF Select, Here, formVars, IInv
<1>2. /\ c \in Views /\ c.chosen = r /\ c.chosen # None /\ c.detail = NoDetail /\ c.seq = -1 /\ ~c.reading /\ ~c.again
      /\ c.connected = view.connected /\ c.gen = view.gen /\ c.mark = view.mark /\ c.refreshing = view.refreshing
  BY ChooseIs DEF IInv
<1> HIDE DEF c
<1>3. /\ view' \in Views /\ view'.chosen # None /\ view'.detail = NoDetail /\ view'.seq = -1 /\ view'.connected = view.connected
      /\ view'.gen = view.gen /\ view'.mark = view.mark /\ view'.refreshing = view.refreshing
      /\ (view.connected => view'.reading) /\ (~view.connected => ~view'.reading /\ ~view'.again)
  BY <1>1, <1>2, ReadDetailIs DEF SameRun
<1>4. AwaitMoves(0, keys)
  BY <1>1, <1>3, NotConnected, FormStays DEF AwaitMoves, Dropped
<1>5. missed' \in BOOLEAN
  BY <1>1
<1>6. ClientMoves(0, keys)
  BY <1>1, <1>3, <1>4, <1>5, FormStays, OpsStay, AskingInOps DEF ClientMoves, IInv
<1>7. ViewMoves(0, keys)
  BY <1>1, <1>3 DEF ViewMoves
<1>8. FreshInv'
  <2> SUFFICES ASSUME Watching' PROVE Rereads'
    BY DEF FreshInv
  <2>1. view.connected
    BY <1>1, <1>7, WatchingWas
  <2> QED
    BY <1>1, <1>3, <2>1, RereadsNow DEF Dropped
<1> QED
  BY <1>6, <1>7, <1>8, ViewKeeps

LEMMA LaunchKeeps == ASSUME IInv, Launch, acts' \in Nat PROVE IInv'
<1> DEFINE keys == {<<"read">>}
<1>1. /\ draft # None /\ draft.run # None /\ view.connected /\ Give("launch", draft.run, draft.text)
      /\ \A o \in Given("launch", draft.run) : ops[o].status = "rejected"
      /\ view' = Choose(draft.run) /\ Moved(0, keys)
  BY QueueMoves, KeysDiffer DEF Launch, IInv
<1>2. draft.run \in Runs /\ draft.text \in Nat
  BY <1>1 DEF IInv, TypeInv, Forms
<1>3. /\ view' \in Views /\ view'.chosen = draft.run /\ view'.chosen # None /\ view'.detail = NoDetail /\ view'.seq = -1
      /\ ~view'.reading /\ ~view'.again /\ view'.connected = view.connected
      /\ view'.gen = view.gen /\ view'.mark = view.mark /\ view'.refreshing = view.refreshing
  BY <1>1, <1>2, ChooseIs DEF IInv
<1>4. \A op \in Gestures : op.kind = "launch" /\ op.run = draft.run /\ op.text = draft.text => Admitted(op)
  BY <1>1 DEF Admitted
<1>5. OpsMove /\ ~OpsLearn /\ DOMAIN ops \subseteq DOMAIN ops' /\ Steady /\ UNCHANGED <<draft, proposal, asking, missed, pgen>>
  BY <1>1, <1>2, <1>4, GiveMoves
<1>6. AwaitMoves(0, keys)
  BY <1>1, <1>3, <1>5, FormStays DEF AwaitMoves, Dropped
<1>7. ClientMoves(0, keys)
  BY <1>1, <1>3, <1>5, <1>6, FormStays, AskingInOps DEF ClientMoves, IInv, TypeInv
<1>8. ViewMoves(0, keys)
  BY <1>1, <1>3, <1>5 DEF ViewMoves
<1>9. runs[draft.run] = "none"
  <2> SUFFICES ASSUME runs[draft.run] # "none" PROVE FALSE
    OBVIOUS
  <2>1. texts[draft.run] # None
    BY <1>1, <1>2, NoneIsNoRun DEF IInv, FormInv
  <2>2. PICK q \in done : ops[q].kind = "launch" /\ ops[q].run = draft.run
    BY <1>2, <2>1 DEF IInv, LaunchInv
  <2>3. q \in DOMAIN ops
    BY DEF IInv, CommandInv
  <2>4. ops[q].status = "rejected"
    BY <1>1, <2>2, <2>3 DEF Given
  <2> QED
    BY <2>2, <2>3, <2>4 DEF IInv, OutcomeInv, Honest, Never
<1>10. FreshInv'
  BY <1>3, <1>5, <1>9 DEF FreshInv, Watching, Steady
<1> QED
  BY <1>7, <1>8, <1>10, ViewKeeps

\* The window.  What it reads is the first message, unless that comes from a generation it has left.
LEMMA FirstIs ==
    ASSUME TypeInv, inbox # <<>>
    PROVE  1 \in DOMAIN inbox /\ Head(inbox) = inbox[1] /\ inbox[1] \in Messages
BY DEF TypeInv

LEMMA GotIs ==
    ASSUME TypeInv, NEW name, Got(name)
    PROVE  LET m == inbox[1] IN
           /\ inbox # <<>> /\ 1 \in DOMAIN inbox /\ m \in Answers /\ WellFormed(m) /\ m.kind = "answer" /\ m.key[1] = name
           /\ Steady /\ (pgen' = pgen \/ pgen' = m.gen) /\ Received.key = m.key /\ (pgen <= m.gen => Received = m)
           /\ m.key \in ReadKeys => /\ Received.out \in {"no", "ok"} /\ (Received.out = "ok" => Received = m)
                                    /\ Received.out = "no" => Received.data = None
           /\ m.key \in OpKeys => Received.out \in Outcomes /\ (Received.out = m.out \/ Received.out = "delivery-unknown")
<1>1. inbox # <<>> /\ Head(inbox).kind = "answer" /\ Head(inbox).key[1] = name
  BY DEF Got, First
<1>2. PICK m \in Messages : m = inbox[1] /\ m = Head(inbox) /\ 1 \in DOMAIN inbox
  BY <1>1, FirstIs
<1>3. m \in Answers /\ WellFormed(m) /\ m.key \in OpKeys \cup ReadKeys /\ m.gen \in Nat /\ pgen \in Nat
  BY <1>1, <1>2, MessageKinds DEF Answers, TypeInv
<1>4. Steady /\ (pgen' = pgen \/ pgen' = m.gen)
  BY <1>2, SteadyWhen DEF Got
<1>5. CASE pgen <= m.gen
  <2>1. Received = m
    BY <1>2, <1>3, <1>5 DEF Received
  <2>2. m.key \in ReadKeys => m.out \in {"no", "ok"} /\ (m.out = "no" => m.data = None)
    BY <1>3 DEF WellFormed
  <2>3. m.key \in OpKeys => m.out \in Outcomes
    BY <1>3 DEF WellFormed
  <2> QED
    BY <1>1, <1>2, <1>3, <1>4, <2>1, <2>2, <2>3
<1>6. CASE ~(pgen <= m.gen)
  <2>1. Received = Reply(m.key, m.gen, IF m.key[1] = "op" THEN "delivery-unknown" ELSE "no")
    BY <1>2, <1>3, <1>6 DEF Received
  <2>2. /\ Received.key = m.key /\ Received.data = None
        /\ Received.out = IF m.key[1] = "op" THEN "delivery-unknown" ELSE "no"
    BY <2>1 DEF Reply
  <2>3. (m.key \in ReadKeys => m.key[1] # "op") /\ (m.key \in OpKeys => m.key[1] = "op")
    BY <1>3, KeysDiffer
  <2> QED
    BY <1>1, <1>2, <1>3, <1>4, <1>6, <2>2, <2>3 DEF Outcomes
<1> QED
  BY <1>5, <1>6

\* A receipt that says something becomes the status of its command.
LEMMA SettledIs ==
    ASSUME NEW op \in Gestures, NEW receipt \in Receipts
    PROVE  LET new == Settled(op, receipt) IN
           new \in Gestures /\ SameGesture(op, new) /\ new.status = IF receipt = "none" THEN op.status ELSE receipt
<1>1. CASE receipt = "none"
  BY <1>1 DEF Settled, SameGesture
<1>2. CASE receipt # "none"
  <2>1. Settled(op, receipt) = [op EXCEPT !.status = receipt] /\ receipt \in Outcomes \cup {"pending"}
    BY <1>2 DEF Settled, Receipts
  <2>2. [op EXCEPT !.status = receipt] \in Gestures
    BY <2>1 DEF Gestures
  <2>3. SameGesture(op, Settled(op, receipt)) /\ Settled(op, receipt).status = receipt
    BY <2>1 DEF SameGesture, Gestures
  <2> QED
    BY <1>2, <2>1, <2>2, <2>3
<1> QED
  BY <1>1, <1>2

\* A read that is answered was awaited, so the window is connected.
LEMMA AnswerAwaited ==
    ASSUME IInv, 1 \in DOMAIN inbox, inbox[1].kind = "answer", NEW k \in ReadKeys, inbox[1].key = k
    PROVE  k \in Awaited /\ view.connected /\ (\A d, keys : d = 1 => Dropped(k, d, keys))
<1>1. Live(inbox[1], ReadKeys) /\ Live(inbox[1], {k})
  BY DEF Live
<1>2. k \in Awaited
  BY <1>1 DEF IInv, AwaitInv
<1>3. view.connected
  BY <1>2 DEF IInv, AwaitInv
<1> QED
  BY <1>1, <1>2, <1>3 DEF Dropped

\* What a preparation leaves in the form.
LEMMA PreparedIs ==
    ASSUME IInv, GotPrepared
    PROVE  /\ inbox # <<>> /\ inbox[1].kind = "answer" /\ Steady /\ (pgen' = pgen \/ pgen' = inbox[1].gen) /\ Moved(1, {})
           /\ UNCHANGED <<view, proposal, ops, asking, missed>> /\ proposal \in Proposals \cup {None}
           /\ <<"prep">> \in Awaited /\ view.connected /\ Dropped(<<"prep">>, 1, {})
           /\ draft # None /\ draft.preparing /\ draft \in Forms
           /\ draft' \in Forms /\ draft'.text = draft.text /\ ~draft'.preparing /\ draft' # None
           /\ draft'.run # None => texts[draft'.run] = draft.text
<1> DEFINE m == inbox[1]
<1>1. /\ inbox # <<>> /\ 1 \in DOMAIN inbox /\ m \in Answers /\ WellFormed(m) /\ m.kind = "answer" /\ m.key[1] = "prep"
      /\ Steady /\ (pgen' = pgen \/ pgen' = m.gen) /\ (Received.out = "ok" => Received = m) /\ m.key \in ReadKeys
      /\ Received.out \in {"no", "ok"} /\ (Received.out = "no" => Received.data = None) /\ m.key = <<"prep">>
  <2>1. Got("prep") /\ TypeInv
    BY DEF GotPrepared, IInv
  <2>2. inbox[1].key[1] = "prep" /\ inbox[1].key \in OpKeys \cup ReadKeys
    BY <2>1, GotIs DEF Answers
  <2>3. inbox[1].key = <<"prep">> /\ inbox[1].key \in ReadKeys
    BY <2>2, KeysDiffer
  <2> QED
    BY <2>1, <2>3, GotIs
<1>2. /\ draft' = [draft EXCEPT !.preparing = FALSE, !.run = Received.data] /\ Moved(1, {})
      /\ UNCHANGED <<view, proposal, ops, asking, missed>>
  BY <1>1, QueueMoves DEF GotPrepared, IInv
<1>3. <<"prep">> \in Awaited /\ view.connected /\ Dropped(<<"prep">>, 1, {})
  BY <1>1, AnswerAwaited
<1>4. draft # None /\ draft.preparing /\ draft \in Forms /\ proposal \in Proposals \cup {None}
  BY <1>3, KeysDiffer DEF Awaited, IInv, TypeInv
<1>5. Received.data # None => Received.data \in Runs /\ texts[Received.data] = draft.text
  <2> SUFFICES ASSUME Received.data # None PROVE Received.data \in Runs /\ texts[Received.data] = draft.text
    OBVIOUS
  <2>1. Received = m /\ m.out = "ok" /\ Live(m, {<<"prep">>})
    BY <1>1 DEF Live
  <2>2. m.data \in Runs
    BY <1>1, <2>1 DEF WellFormed
  <2> QED
    BY <1>1, <2>1, <2>2 DEF IInv, FormInv
<1>6. /\ draft' \in Forms /\ draft'.text = draft.text /\ ~draft'.preparing /\ draft'.run = Received.data
  BY <1>2, <1>4, <1>5 DEF Forms
<1>7. draft' # None
  BY <1>6, NoneIsNoRun
<1> QED
  BY <1>1, <1>2, <1>3, <1>4, <1>5, <1>6, <1>7

LEMMA GotPreparedKeeps == ASSUME IInv, GotPrepared, acts' \in Nat PROVE IInv'
<1>1. FormMoves({})
  BY PreparedIs DEF FormMoves
<1>2. AwaitMoves(1, {})
  BY PreparedIs, ViewStays DEF AwaitMoves
<1>3. view' \in Views /\ (view'.reading => view'.chosen # None)
  BY PreparedIs, ViewStays
<1>4. ClientMoves(1, {})
  BY <1>1, <1>2, <1>3, PreparedIs, OpsStay, AskingInOps DEF ClientMoves, IInv, TypeInv
<1> QED
  BY <1>4, PreparedIs, SameViewKeeps

LEMMA GotOutcomeKeeps == ASSUME IInv, GotOutcome, acts' \in Nat PROVE IInv'
<1> DEFINE m == inbox[1]
           o == m.key[2]
           op == ops[o]
           out == Received.out
           retired == Retires(op, out)
<1>1. /\ inbox # <<>> /\ 1 \in DOMAIN inbox /\ m.kind = "answer" /\ m.key[1] = "op" /\ m.key \in OpKeys /\ o \in Ops /\ m.key = <<"op", o>>
      /\ Steady /\ (pgen' = pgen \/ pgen' = m.gen) /\ Received.key = m.key /\ out \in Outcomes /\ (out = m.out \/ out = "delivery-unknown")
  <2>1. Got("op") /\ TypeInv
    BY DEF GotOutcome, IInv
  <2>2. inbox[1].key[1] = "op" /\ inbox[1].key \in OpKeys \cup ReadKeys
    BY <2>1, GotIs DEF Answers
  <2>3. inbox[1].key \in OpKeys /\ inbox[1].key[2] \in Ops /\ inbox[1].key = <<"op", inbox[1].key[2]>>
    BY <2>2, KeysDiffer
  <2> QED
    BY <2>1, <2>2, <2>3, GotIs
<1>2. Tells(m, o) /\ o \in DOMAIN ops
  <2>1. Tells(m, o)
    BY <1>1 DEF Tells
  <2> QED
    BY <1>1, <2>1 DEF IInv, OutcomeInv, CommandInv
<1>3. op \in Gestures /\ op.run \in Runs /\ op.status \in Outcomes \cup {"pending"} /\ ops \in Seq(Gestures)
  BY <1>2, OpTypes DEF IInv, TypeInv
<1> HIDE DEF o, m, out
<1>4. CASE ~op.waiting
  <2>1. Moved(1, {}) /\ UNCHANGED <<view, draft, proposal, ops, asking, missed>>
    BY <1>1, <1>4, QueueMoves DEF GotOutcome, formVars, IInv, o, m
  <2>2. AwaitMoves(1, {}) /\ view' \in Views /\ (view'.reading => view'.chosen # None)
    BY <2>1, ViewStays, FormStays DEF AwaitMoves
  <2>3. ClientMoves(1, {})
    BY <1>1, <2>1, <2>2, FormStays, OpsStay, AskingInOps DEF ClientMoves, IInv, TypeInv, m
  <2> QED
    BY <1>1, <2>1, <2>3, SameViewKeeps DEF m
<1>5. CASE op.waiting
  <2> DEFINE keys == {<<"snap">>}
             status == IF Unresolved(op) THEN out ELSE op.status
  <2>1. /\ ops' = [ops EXCEPT ![o].waiting = FALSE, ![o].status = status]
        /\ draft' = (IF retired THEN None ELSE draft) /\ proposal' = (IF retired THEN None ELSE proposal)
        /\ view' = Refresh(view) /\ Moved(1, keys) /\ UNCHANGED <<asking, missed>>
    <3>1. /\ ops' = [ops EXCEPT ![o].waiting = FALSE, ![o].status = IF Unresolved(op) THEN out ELSE @]
          /\ draft' = (IF retired THEN None ELSE draft) /\ proposal' = (IF retired THEN None ELSE proposal)
          /\ view' = Refresh(view) /\ Arrive(keys) /\ UNCHANGED <<asking, missed>>
      BY <1>1, <1>5 DEF GotOutcome, o, m, out
    <3>2. Moved(1, keys)
      BY <1>1, <3>1, QueueMoves, KeysDiffer DEF IInv
    <3> QED
      BY <3>1, <3>2
  <2>2. status \in Outcomes \cup {"pending"}
    BY <1>1, <1>3
  <2>3. /\ ops' \in Seq(Gestures) /\ Len(ops') = Len(ops)
        /\ \A q \in DOMAIN ops : q # o => ops'[q] = ops[q]
        /\ SameGesture(op, ops'[o]) /\ ops'[o].status = status
    <3> HIDE DEF status
    <3>1. PICK new \in Gestures : new = [op EXCEPT !.waiting = FALSE, !.status = status]
      BY <1>3, <2>2 DEF Gestures
    <3>2. SameGesture(op, new) /\ new.status = status
      BY <1>3, <3>1 DEF SameGesture, Gestures
    <3>3. ops' = [ops EXCEPT ![o] = new]
      BY <1>2, <1>3, <2>1, <3>1
    <3> QED
      BY <1>2, <1>3, <3>2, <3>3
  <2>4. OpsLearn
    <3>1. Learns(o)
      BY <1>1, <1>2, <2>1, <2>3 DEF Learns, m
    <3>2. \A q \in DOMAIN ops : SameGesture(ops[q], ops'[q]) /\ Learns(q)
      BY <2>3, <3>1 DEF SameGesture, Learns
    <3> QED
      BY <2>3, <3>2 DEF OpsLearn
  <2> HIDE DEF status
  <2>5. /\ view' \in Views /\ SameRun(view, view') /\ view'.mark = view.mark /\ view'.stale = view.stale /\ view'.reading = view.reading
        /\ view'.again = view.again /\ (view'.refreshing <=> view.connected \/ view.refreshing) /\ (view.reading => view.chosen # None)
        /\ (view.again => view.reading)
    BY <2>1, RefreshIs DEF IInv, TypeInv, AwaitInv
  <2>6. retired => draft # None /\ ~draft.preparing
    BY <1>3, NoneIsNoRun DEF Retires, IInv, AwaitInv
  <2>7. draft \in Forms \cup {None} /\ proposal \in Proposals \cup {None} /\ (draft # None /\ draft.preparing => draft.run = None)
    BY DEF IInv, TypeInv, AwaitInv
  <2>8. FormMoves(keys)
    BY <2>1, <2>6 DEF FormMoves
  <2>9. AwaitMoves(1, keys)
    BY <2>1, <2>5, <2>6, <2>7, NotConnected DEF AwaitMoves, SameRun
  <2>10. DOMAIN ops' = DOMAIN ops
    BY <1>3, <2>3
  <2>11. ClientMoves(1, keys)
    BY <1>1, <2>1, <2>4, <2>5, <2>7, <2>8, <2>9, <2>10, AskingInOps DEF ClientMoves, IInv, TypeInv, OpsMove, SameRun, m
  <2>12. ViewMoves(1, keys)
    BY <1>1, <2>5 DEF ViewMoves, SameRun, IsStatus, m
  <2>13. FreshInv'
    BY <1>1, <2>1, <2>5, <2>12, FreshKept DEF SameRun, IInv, m
  <2> QED
    BY <2>11, <2>12, <2>13, ViewKeeps
<1> QED
  BY <1>3, <1>4, <1>5 DEF Gestures

LEMMA GotReceiptKeeps == ASSUME IInv, GotReceipt, acts' \in Nat PROVE IInv'
<1> DEFINE m == inbox[1]
           o == m.key[2]
           op == ops[o]
           a == Received
           counts == a.out = "ok" /\ a.seq >= view.mark
           found == IF op.kind = "launch" THEN "accepted" ELSE a.data.receipts[o]
           v == [view EXCEPT !.mark = a.seq, !.stale = view.chosen # None /\ a.seq > view.seq]
           keys == IF counts /\ v.stale THEN {<<"snap">>} ELSE {}
<1>1. /\ inbox # <<>> /\ 1 \in DOMAIN inbox /\ m.kind = "answer" /\ WellFormed(m) /\ m.key[1] = "receipt" /\ o \in Ops /\ m.key = <<"receipt", o>>
      /\ Steady /\ (pgen' = pgen \/ pgen' = m.gen) /\ (a.out = "ok" => a = m) /\ a.key = m.key
  <2>1. Got("receipt") /\ TypeInv
    BY DEF GotReceipt, IInv
  <2>2. inbox[1].key[1] = "receipt" /\ inbox[1].key \in OpKeys \cup ReadKeys
    BY <2>1, GotIs DEF Answers
  <2>3. inbox[1].key[2] \in Ops /\ inbox[1].key = <<"receipt", inbox[1].key[2]>>
    BY <2>2, KeysDiffer
  <2>4. inbox[1].key \in ReadKeys
    BY <2>3, KeysDiffer
  <2> QED
    BY <2>1, <2>2, <2>3, <2>4, GotIs
<1>2. m.key \in ReadingKeys /\ m.key \in ReadKeys /\ m.key # <<"read">> /\ m.key # <<"snap">> /\ m.key # <<"prep">>
  BY <1>1, KeysDiffer
<1>3. m.key \in Awaited /\ view.connected /\ Dropped(<<"receipt", o>>, 1, keys)
  BY <1>1, <1>2, AnswerAwaited
<1>4. o \in asking /\ o \in DOMAIN ops
  <2>1. o \in asking
    BY <1>1, <1>3 DEF Awaited
  <2> QED
    BY <2>1, AskingInOps
<1>5. op \in Gestures /\ op.run \in Runs /\ op.kind \in {"launch", "steer", "cancel"} /\ ops \in Seq(Gestures)
  BY <1>4, OpTypes DEF IInv, TypeInv
<1> HIDE DEF o, m
<1>6. CASE ~counts
  <2>1. /\ Arrive({}) /\ UNCHANGED <<ops, view, draft, proposal, missed>> /\ asking' = asking \ {o}
    BY <1>1, <1>6 DEF GotReceipt, formVars, o, m
  <2>2. Moved(1, {})
    BY <1>1, <2>1, QueueMoves DEF IInv
  <2>3. AwaitMoves(1, {}) /\ view' \in Views /\ (view'.reading => view'.chosen # None)
    BY <1>3, <1>6, <2>1, ViewStays, FormStays DEF AwaitMoves
  <2>4. ClientMoves(1, {})
    BY <1>1, <2>1, <2>2, <2>3, FormStays, OpsStay, AskingInOps DEF ClientMoves, IInv, TypeInv, m
  <2> QED
    BY <1>1, <2>1, <2>4, SameViewKeeps DEF m
<1>7. CASE counts
  <2>1. a = m /\ m.out = "ok" /\ m.seq \in Nat /\ m.data \in Details /\ Reads(m) /\ Numbered(m) /\ Data(m)
    BY <1>1, <1>2, <1>7 DEF WellFormed, Reads, Live, Numbered, Data
  <2>2. /\ ops' = (IF Unresolved(op) THEN [ops EXCEPT ![o] = Settled(@, found)] ELSE ops)
        /\ view' = (IF v.stale THEN Refresh(v) ELSE v) /\ Arrive(keys)
        /\ UNCHANGED <<draft, proposal, missed>> /\ asking' = asking \ {o}
    BY <1>1, <1>7 DEF GotReceipt, formVars, o, m
  <2>3. Moved(1, keys) /\ keys \in {{}, {<<"snap">>}}
    BY <1>1, <2>2, QueueMoves, KeysDiffer DEF IInv
  <2>4. found \in Receipts
    BY <1>1, <2>1 DEF Details, Receipts, Outcomes
  <2>5. /\ v \in Views /\ SameRun(view, v) /\ v.mark = m.seq /\ (v.stale <=> view.chosen # None /\ m.seq > view.seq)
        /\ v.reading = view.reading /\ v.again = view.again /\ v.refreshing = view.refreshing
    <3> DEFINE b == view.chosen # None /\ a.seq > view.seq
    <3>1. b \in BOOLEAN /\ a.seq \in Int /\ view \in Views /\ v = [view EXCEPT !.mark = a.seq, !.stale = b]
      BY <2>1 DEF IInv, TypeInv
    <3>2. /\ v.mark = a.seq /\ v.stale = b /\ v.reading = view.reading /\ v.again = view.again /\ v.refreshing = view.refreshing
          /\ v.chosen = view.chosen /\ v.detail = view.detail /\ v.seq = view.seq /\ v.gen = view.gen /\ v.connected = view.connected
      <4> HIDE DEF b, v
      <4> QED BY <3>1 DEF Views
    <3>3. v \in Views
      <4> HIDE DEF b, v
      <4> QED BY <3>1 DEF Views
    <3> QED
      BY <2>1, <3>2, <3>3 DEF SameRun
  <2> HIDE DEF v
  <2>6. OpsLearn
    <3> HIDE DEF found
    <3>1. CASE ~Unresolved(op)
      BY <1>5, <2>2, <3>1 DEF OpsLearn, SameGesture, Learns
    <3>2. CASE Unresolved(op)
      <4>1. PICK new \in Gestures : new = Settled(op, found) /\ SameGesture(op, new) /\ new.status = IF found = "none" THEN op.status ELSE found
        BY <1>5, <2>4, SettledIs
      <4>2. ops' = [ops EXCEPT ![o] = new]
        BY <1>4, <1>5, <2>2, <3>2, <4>1
      <4>3. ops' \in Seq(Gestures) /\ Len(ops') = Len(ops) /\ ops'[o] = new /\ \A q \in DOMAIN ops : q # o => ops'[q] = ops[q]
        BY <1>4, <1>5, <4>2
      <4>4. Learns(o)
        BY <1>1, <1>7, <2>1, <2>3, <3>2, <4>1, <4>3 DEF Learns, m, found
      <4>5. \A q \in DOMAIN ops : SameGesture(ops[q], ops'[q]) /\ Learns(q)
        BY <4>1, <4>3, <4>4 DEF SameGesture, Learns
      <4> QED
        BY <4>3, <4>5 DEF OpsLearn
    <3> QED
      BY <3>1, <3>2
  <2>7. /\ view' \in Views /\ SameRun(view, view') /\ view'.mark = m.seq /\ view'.stale = v.stale
        /\ view'.reading = view.reading /\ view'.again = view.again
        /\ (view.refreshing => view'.refreshing) /\ (v.stale => view'.refreshing)
        /\ (view.reading => view.chosen # None) /\ (view.again => view.reading)
    <3>1. (view.reading => view.chosen # None) /\ (view.again => view.reading)
      BY DEF IInv, TypeInv, AwaitInv
    <3>2. CASE v.stale
      BY <1>3, <2>2, <2>5, <3>1, <3>2, RefreshIs DEF SameRun
    <3>3. CASE ~v.stale
      BY <2>2, <2>5, <3>1, <3>3
    <3> QED
      BY <3>2, <3>3
  <2>8. AwaitMoves(1, keys)
    BY <1>3, <2>2, <2>7, FormStays DEF AwaitMoves, SameRun
  <2>9. DOMAIN ops' = DOMAIN ops
    BY <1>5, <2>6 DEF OpsLearn
  <2>10. ClientMoves(1, keys)
    BY <1>1, <2>2, <2>3, <2>6, <2>7, <2>8, <2>9, FormStays, AskingInOps DEF ClientMoves, IInv, TypeInv, OpsMove, SameRun, m
  <2>11. ViewMoves(1, keys)
    BY <1>1, <2>1, <2>7 DEF ViewMoves, SameRun, IsStatus, NumberOf, m
  <2>12. FreshInv'
    <3> SUFFICES ASSUME Watching' PROVE FreshInv'
      BY DEF FreshInv
    <3>1. m.gen = core.gen
      BY <1>1, <2>1, <2>3, <2>11, WatchingWas DEF m
    <3>2. m.seq <= core.seq
      BY <1>1, <2>1, <3>1 DEF IInv, OrderInv, m
    <3>3. CASE v.stale
      <4>1. Dropped(<<"snap">>, 1, keys)
        BY <1>7, <3>3 DEF Dropped
      <4> QED
        BY <2>3, <2>7, <3>3, <4>1, RefreshesNow DEF FreshInv
    <3>4. CASE ~v.stale
      <4>1. UpToDate => view'.seq = view.seq /\ view'.mark = view.mark /\ view'.detail = view.detail /\ view'.stale = view.stale
        <5>0. view.stale \in BOOLEAN /\ view'.stale \in BOOLEAN /\ ~view'.stale
          BY <2>7, <3>4 DEF IInv, TypeInv, Views
        <5>a. view'.seq = view.seq /\ view'.detail = view.detail
          BY <2>7 DEF SameRun
        <5> SUFFICES ASSUME UpToDate PROVE view'.mark = view.mark
          BY <5>0, <5>a DEF UpToDate
        <5>1. m.seq >= view.mark /\ view.mark = core.seq /\ core.seq \in Nat
          BY <1>7, <2>1 DEF UpToDate, IInv, TypeInv, Cores
        <5> QED
          BY <2>1, <2>7, <3>2, <5>1
      <4>2. view'.chosen = view.chosen /\ (missed => missed') /\ inbox[1].kind # "event"
        BY <1>1, <2>2, <2>7 DEF SameRun, m
      <4> HIDE DEF keys
      <4> QED
        BY <1>1, <2>3, <2>7, <2>11, <4>1, <4>2, FreshKept DEF IInv
    <3> QED
      BY <3>3, <3>4
  <2> QED
    BY <2>10, <2>11, <2>12, ViewKeeps
<1> QED
  BY <1>6, <1>7

\* A snapshot or an event, once accepted, has the run that is shown read again.
LEMMA AcceptedKeeps ==
    ASSUME IInv, Steady, Moved(1, {}), inbox # <<>>, acts' \in Nat, pgen' = pgen \/ pgen' = inbox[1].gen,
           UNCHANGED <<draft, proposal, ops, asking>>, missed' \in BOOLEAN, ~IsStatus(inbox[1]), view.connected,
           NEW v \in Views, SameRun(view, v), v.mark = view.mark, v.reading = view.reading, v.again = view.again, v.runs = view.runs, v.stale = view.stale,
           view.refreshing => v.refreshing \/ Dropped(<<"snap">>, 1, {}),
           NEW seq \in Nat, NEW seen \in [Runs -> RunStates], seq >= v.mark, view' = AcceptSnapshot(v, seq, seen),
           Numbered(inbox[1]), seq = inbox[1].seq
    PROVE  IInv'
<1>1. (view.reading => view.chosen # None) /\ (view.again => view.reading)
  BY DEF IInv, TypeInv, AwaitInv
<1>2. /\ view' \in Views /\ (view'.reading => view'.chosen # None) /\ SameRun(v, view') /\ view'.refreshing = v.refreshing /\ view'.mark = seq
      /\ (v.chosen # None /\ v.connected => view'.reading /\ (view'.again <=> v.reading \/ v.again))
      /\ (v.chosen = None \/ ~v.connected => view'.reading = v.reading /\ view'.again = v.again)
  <2>1. v.reading => v.chosen # None
    BY <1>1 DEF SameRun
  <2> QED
    BY <2>1, AcceptSnapshotIs
<1>3. SameRun(view, view') /\ (view.reading => view'.reading) /\ (view'.again => view'.reading)
  BY <1>1, <1>2 DEF SameRun
<1>4. AwaitMoves(1, {})
  BY <1>2, <1>3, FormStays DEF AwaitMoves, SameRun
<1>5. ClientMoves(1, {})
  BY <1>2, <1>4, FormStays, OpsStay, AskingInOps DEF ClientMoves, IInv
<1>6. ViewMoves(1, {})
  BY <1>2, <1>3 DEF ViewMoves, SameRun, NumberOf
<1>7. FreshInv'
  <2> SUFFICES ASSUME Watching' PROVE Rereads'
    BY DEF FreshInv
  <2>1. v.chosen # None /\ v.connected
    BY <1>2 DEF Watching, SameRun
  <2> QED
    BY <1>2, <2>1, RereadsNow
<1> QED
  BY <1>5, <1>6, <1>7, ViewKeeps

LEMMA OnEventKeeps == ASSUME IInv, OnEvent, acts' \in Nat PROVE IInv'
<1> DEFINE e == inbox[1]
           heard == e.gen >= pgen
           counts == heard /\ view.connected /\ e.seq >= view.mark
<1>1. inbox # <<>> /\ 1 \in DOMAIN inbox /\ Head(inbox) = e /\ e \in Messages /\ e.kind = "event"
  BY FirstIs DEF OnEvent, First, IInv
<1>2. e \in Events /\ e.seq \in Nat /\ e.runs \in [Runs -> RunStates]
  BY <1>1, MessageKinds DEF Events
<1>3. /\ Moved(1, {}) /\ Steady /\ UNCHANGED <<draft, proposal, ops, asking>> /\ (pgen' = pgen \/ pgen' = e.gen)
      /\ view' = (IF counts THEN AcceptSnapshot(view, e.seq, e.runs) ELSE view) /\ missed' = (missed /\ ~counts)
  <2>1. Arrive({}) /\ UNCHANGED <<draft, proposal, ops, asking>> /\ Steady
    BY SteadyWhen DEF OnEvent, formVars
  <2> QED
    BY <1>1, <2>1, QueueMoves DEF IInv, OnEvent
<1>4. ~IsStatus(e) /\ Numbered(e) /\ Data(e) /\ missed \in BOOLEAN /\ view \in Views
  BY <1>1 DEF IsStatus, Numbered, Data, IInv, TypeInv
<1>5. CASE counts
  <2>1. missed' \in BOOLEAN /\ view' = AcceptSnapshot(view, e.seq, e.runs) /\ view.connected /\ e.seq >= view.mark
    BY <1>3, <1>4, <1>5
  <2>2. SameRun(view, view)
    BY DEF SameRun
  <2> HIDE DEF counts, e
  <2> QED
    BY <1>1, <1>2, <1>3, <1>4, <2>1, <2>2, AcceptedKeeps DEF e
<1>6. CASE ~counts
  <2>1. UNCHANGED <<view, missed>>
    BY <1>3, <1>4, <1>6
  <2>2. AwaitMoves(1, {}) /\ view' \in Views /\ (view'.reading => view'.chosen # None)
    BY <1>3, <2>1, ViewStays, FormStays DEF AwaitMoves
  <2>3. ClientMoves(1, {})
    BY <1>1, <1>3, <2>1, <2>2, FormStays, OpsStay, AskingInOps DEF ClientMoves, IInv, TypeInv
  <2>4. ViewMoves(1, {})
    BY <1>1, <1>3, <1>4, <2>1 DEF ViewMoves
  <2>5. FreshInv'
    <3> SUFFICES ASSUME Watching' PROVE (NewsToCome \/ Refreshes \/ Rereads \/ UpToDate)'
      BY DEF FreshInv
    <3>1. Quiet /\ view.connected /\ view.gen = core.gen /\ e.gen = core.gen /\ pgen <= e.gen
      BY <1>1, <1>3, <1>4, <2>4, WatchingWas
    <3>2. heard /\ ~(e.seq >= view.mark) /\ view.mark <= core.seq /\ core.seq \in Nat /\ view.mark \in Int
      <4>1. e.gen \in Nat /\ pgen \in Nat /\ core.seq \in Nat /\ view.mark \in Int
        BY <1>1, <1>4, MessageKinds DEF IInv, TypeInv, Cores, Views
      <4> QED
        BY <1>6, <3>1, <4>1 DEF IInv, OrderInv
    <3>3. e.seq # core.seq
      BY <1>2, <3>2
    <3>4. UNCHANGED <<runs, receipts, core>> /\ Watching
      BY <1>3, <2>1, <3>1 DEF Steady, Watching
    <3> QED
      BY <1>3, <2>1, <3>3, <3>4, UnderWay DEF IInv, FreshInv
  <2> QED
    BY <2>3, <2>4, <2>5, ViewKeeps
<1> QED
  BY <1>5, <1>6

LEMMA GotSnapshotKeeps == ASSUME IInv, GotSnapshot, acts' \in Nat PROVE IInv'
<1> DEFINE m == inbox[1]
           a == Received
           v == [view EXCEPT !.refreshing = FALSE]
<1>1. /\ inbox # <<>> /\ 1 \in DOMAIN inbox /\ m.kind = "answer" /\ WellFormed(m) /\ m.key = <<"snap">> /\ m.key \in ReadKeys
      /\ Steady /\ (pgen' = pgen \/ pgen' = m.gen) /\ (a.out = "ok" => a = m) /\ (pgen <= m.gen => a = m)
  <2>1. Got("snap") /\ TypeInv
    BY DEF GotSnapshot, IInv
  <2>2. inbox[1].key[1] = "snap" /\ inbox[1].key \in OpKeys \cup ReadKeys
    BY <2>1, GotIs DEF Answers
  <2>3. inbox[1].key = <<"snap">> /\ inbox[1].key \in ReadKeys
    BY <2>2, KeysDiffer
  <2> QED
    BY <2>1, <2>3, GotIs
<1>2. <<"snap">> \in Awaited /\ view.connected /\ Dropped(<<"snap">>, 1, {})
  BY <1>1, AnswerAwaited
<1>3. /\ Moved(1, {}) /\ UNCHANGED <<draft, proposal, ops, asking>>
      /\ IF a.out = "ok" THEN view' = AcceptSnapshot(v, a.seq, a.data) /\ missed' = (missed /\ a.seq < v.mark)
                         ELSE view' = v /\ missed' = TRUE
  <2>1. Arrive({}) /\ UNCHANGED <<draft, proposal, ops, asking>>
    BY DEF GotSnapshot, formVars
  <2> QED
    BY <1>1, <2>1, QueueMoves DEF GotSnapshot, IInv
<1>4. /\ view \in Views /\ missed \in BOOLEAN /\ (view.reading => view.chosen # None) /\ (view.again => view.reading)
  BY DEF IInv, TypeInv, AwaitInv
<1>5. /\ v \in Views /\ SameRun(view, v) /\ v.mark = view.mark /\ v.stale = view.stale /\ v.runs = view.runs
      /\ v.reading = view.reading /\ v.again = view.again /\ ~v.refreshing
  BY <1>4 DEF Views, SameRun
<1>6. ~IsStatus(m) /\ m.kind # "event"
  BY <1>1 DEF IsStatus
<1> HIDE DEF m, v
<1>7. ASSUME a.out = "ok"
      PROVE  a = m /\ a.seq \in Nat /\ a.data \in [Runs -> RunStates] /\ Live(m, {<<"snap">>}) /\ m.out = "ok" /\ Numbered(m) /\ Data(m)
  BY <1>1, <1>7, KeysDiffer DEF WellFormed, Live, Numbered, Data
<1>8. CASE a.out = "ok" /\ a.seq >= v.mark
  <2>1. missed' \in BOOLEAN /\ view' = AcceptSnapshot(v, a.seq, a.data)
    BY <1>3, <1>4, <1>8
  <2> QED
    BY <1>1, <1>2, <1>3, <1>5, <1>6, <1>7, <1>8, <2>1, AcceptedKeeps DEF m
<1>9. CASE ~(a.out = "ok" /\ a.seq >= v.mark)
  <2>1. view' = v /\ missed' \in BOOLEAN /\ (a.out # "ok" => missed') /\ (missed => missed')
    <3>1. CASE a.out # "ok"
      BY <1>3, <3>1
    <3>2. CASE a.out = "ok"
      <4>1. a.seq \in Int /\ v.mark \in Int /\ a.seq < v.mark
        BY <1>5, <1>7, <1>9, <3>2 DEF Views
      <4>2. view' = v
        BY <1>3, <1>5, <1>7, <3>2, <4>1, <1>4, AcceptSnapshotIs DEF SameRun
      <4> QED
        BY <1>3, <1>4, <3>2, <4>1, <4>2
    <3> QED
      BY <3>1, <3>2
  <2>2. AwaitMoves(1, {})
    BY <1>2, <1>3, <1>4, <1>5, <2>1, FormStays DEF AwaitMoves, SameRun
  <2>3. ClientMoves(1, {})
    BY <1>1, <1>3, <1>4, <1>5, <2>1, <2>2, FormStays, OpsStay, AskingInOps DEF ClientMoves, IInv, SameRun, m
  <2>4. ViewMoves(1, {})
    BY <1>1, <1>5, <1>6, <2>1 DEF ViewMoves, SameRun, m
  <2>5. FreshInv'
    <3> SUFFICES ASSUME Watching' PROVE FreshInv'
      BY DEF FreshInv
    <3>0. a.out = "ok" /\ a.seq < v.mark
      <4>1. a.out = "ok"
        BY <2>1 DEF Watching
      <4> QED
        BY <1>5, <1>7, <1>9, <4>1 DEF Views
    <3>1. /\ Quiet /\ core.phase = "ready" /\ view.gen = core.gen
      BY <1>3, <1>1, <2>4, WatchingWas
    <3>2. a.seq # core.seq
      <4>1. view.mark <= core.seq /\ core.seq \in Nat /\ view.mark \in Int
        BY <3>1, <1>4 DEF IInv, OrderInv, TypeInv, Cores, Views
      <4> QED
        BY <1>5, <1>7, <3>0, <4>1
    <3>3. ~Refreshes
      BY <1>1, <1>7, <3>0, <3>2 DEF Refreshes, Newest, m
    <3>4. Watching
      BY <1>1, <1>5, <2>1, <3>1 DEF Watching, Steady, SameRun
    <3>5. NewsToCome \/ Rereads \/ UpToDate
      BY <3>3, <3>4 DEF IInv, FreshInv
    <3>6. TypeInv /\ Steady /\ Moved(1, {}) /\ view'.chosen = view.chosen /\ inbox[1].kind # "event"
      BY <1>1, <1>3, <1>5, <1>6, <2>1 DEF IInv, SameRun, m
    <3>7. /\ view'.seq = view.seq /\ view'.mark = view.mark /\ view'.detail = view.detail /\ view'.stale = view.stale
          /\ (view.reading => view'.reading) /\ (view.again => view'.again)
      BY <1>5, <2>1 DEF SameRun
    <3> QED
      BY <3>5, <3>6, <3>7, UnderWay DEF FreshInv
  <2> QED
    BY <2>3, <2>4, <2>5, ViewKeeps
<1> QED
  BY <1>8, <1>9

LEMMA ShownIs ==
    ASSUME NEW v \in Views, NEW a, a.seq \in Nat, a.data \in Details
    PROVE  LET w == Shown(v, a) IN
           /\ w \in Views /\ w.chosen = v.chosen /\ w.gen = v.gen /\ w.connected = v.connected
           /\ w.reading = v.reading /\ w.again = v.again /\ w.refreshing = v.refreshing
           /\ \/ /\ v.detail.state = "ended" /\ a.data.state # "ended"
                 /\ w.stale /\ w.seq = v.seq /\ w.mark = v.mark /\ w.detail = v.detail
              \/ /\ ~(v.detail.state = "ended" /\ a.data.state # "ended")
                 /\ ~w.stale /\ w.seq = a.seq /\ w.mark = (IF a.seq > v.mark THEN a.seq ELSE v.mark) /\ w.detail = a.data
<1>1. CASE v.detail.state = "ended" /\ a.data.state # "ended"
  <2>1. Shown(v, a) = [v EXCEPT !.stale = TRUE]
    BY <1>1 DEF Shown
  <2> QED
    BY <1>1, <2>1 DEF Views
<1>2. CASE ~(v.detail.state = "ended" /\ a.data.state # "ended")
  <2> DEFINE n == a.seq
             k == IF n > v.mark THEN n ELSE v.mark
             e == a.data
             w == [v EXCEPT !.seq = n, !.mark = k, !.detail = e, !.stale = FALSE]
  <2>1. Shown(v, a) = w /\ n \in Int /\ k \in Int /\ e \in Details
    BY <1>2 DEF Shown, Views
  <2> HIDE DEF n, k, e
  <2>2. w \in Views
    BY <2>1 DEF Views
  <2>3. /\ w.chosen = v.chosen /\ w.gen = v.gen /\ w.connected = v.connected
        /\ w.reading = v.reading /\ w.again = v.again /\ w.refreshing = v.refreshing
        /\ ~w.stale /\ w.seq = n /\ w.mark = k /\ w.detail = e
    BY <2>1 DEF Views
  <2> QED
    BY <1>2, <2>1, <2>2, <2>3 DEF n, k, e
<1> QED
  BY <1>1, <1>2

LEMMA GotDetailKeeps == ASSUME IInv, GotDetail, acts' \in Nat PROVE IInv'
<1> DEFINE m == inbox[1]
           a == Received
           counts == a.out = "ok" /\ a.seq >= view.mark /\ a.seq >= view.seq
           u == IF counts THEN Shown(view, a) ELSE view
           v == [u EXCEPT !.reading = FALSE, !.again = FALSE]
<1>1. /\ inbox # <<>> /\ 1 \in DOMAIN inbox /\ m.kind = "answer" /\ WellFormed(m) /\ m.key = <<"read">> /\ m.key \in ReadKeys
      /\ Steady /\ (pgen' = pgen \/ pgen' = m.gen) /\ (a.out = "ok" => a = m) /\ (pgen <= m.gen => a = m)
  <2>1. Got("read") /\ TypeInv
    BY DEF GotDetail, IInv
  <2>2. inbox[1].key[1] = "read" /\ inbox[1].key \in OpKeys \cup ReadKeys
    BY <2>1, GotIs DEF Answers
  <2>3. inbox[1].key = <<"read">> /\ inbox[1].key \in ReadKeys
    BY <2>2, KeysDiffer
  <2> QED
    BY <2>1, <2>3, GotIs
<1>2. <<"read">> \in Awaited /\ view.connected /\ Dropped(<<"read">>, 1, {})
  BY <1>1, AnswerAwaited
<1>3. /\ Moved(1, {}) /\ UNCHANGED <<draft, proposal, asking>>
      /\ view' = (IF view.again THEN ReadDetail(v) ELSE v)
      /\ ops' = (IF counts /\ ~v.stale
                 THEN [o \in DOMAIN ops |-> IF ops[o].run = v.chosen THEN Settled(ops[o], a.data.receipts[o]) ELSE ops[o]]
                 ELSE ops)
      /\ missed' = (missed \/ (a.out # "ok" /\ ~view.again))
  <2>1. Arrive({}) /\ UNCHANGED <<draft, proposal, asking>>
    BY DEF GotDetail, formVars
  <2> QED
    BY <1>1, <2>1, QueueMoves DEF GotDetail, IInv
<1>4. /\ view \in Views /\ missed \in BOOLEAN /\ view.reading /\ view.chosen # None /\ ops \in Seq(Gestures)
  <2>1. view.reading
    BY <1>2, KeysDiffer DEF Awaited
  <2> QED
    BY <2>1 DEF IInv, TypeInv
<1>5. ~IsStatus(m) /\ m.kind # "event" /\ Data(m)
  BY <1>1 DEF IsStatus, Data, Live
<1> HIDE DEF m
<1>6. ASSUME a.out = "ok"
      PROVE  a = m /\ a.seq \in Nat /\ a.data \in Details /\ Live(m, {<<"read">>}) /\ m.out = "ok" /\ Numbered(m) /\ Reads(m)
  BY <1>1, <1>6, KeysDiffer DEF WellFormed, Live, Numbered, Reads
\* What the view becomes.
<1>7. /\ u \in Views /\ u.chosen = view.chosen /\ u.gen = view.gen /\ u.connected = view.connected /\ u.refreshing = view.refreshing
      /\ \/ /\ ~counts \/ (view.detail.state = "ended" /\ a.data.state # "ended")
            /\ u.seq = view.seq /\ u.mark = view.mark /\ u.detail = view.detail /\ (counts => u.stale) /\ (~counts => u.stale = view.stale)
         \/ /\ counts /\ ~(view.detail.state = "ended" /\ a.data.state # "ended")
            /\ ~u.stale /\ u.seq = a.seq /\ u.mark = (IF a.seq > view.mark THEN a.seq ELSE view.mark) /\ u.detail = a.data
  BY <1>4, <1>6, ShownIs
<1> HIDE DEF u
<1>8. /\ v \in Views /\ SameRun(u, v) /\ v.mark = u.mark /\ v.stale = u.stale /\ v.refreshing = u.refreshing /\ ~v.reading /\ ~v.again
  BY <1>7 DEF Views, SameRun
<1> HIDE DEF v
<1>9. /\ view' \in Views /\ SameRun(u, view') /\ view'.mark = u.mark /\ view'.stale = u.stale /\ view'.refreshing = u.refreshing
      /\ (view.again => view'.reading) /\ (~view.again => ~view'.reading) /\ ~view'.again /\ (view'.reading => view'.chosen # None)
  <2>1. v.chosen # None /\ v.connected
    BY <1>2, <1>4, <1>7, <1>8 DEF SameRun
  <2>2. CASE view.again
    BY <1>3, <1>8, <2>1, <2>2, ReadDetailIs DEF SameRun
  <2>3. CASE ~view.again
    BY <1>3, <1>8, <2>3
  <2> QED
    BY <2>2, <2>3
<1>10. OpsLearn
  <2>1. CASE ~(counts /\ ~v.stale)
    BY <1>3, <1>4, <2>1 DEF OpsLearn, SameGesture, Learns
  <2>2. CASE counts /\ ~v.stale
    <3>1. ASSUME NEW o \in DOMAIN ops, ops[o].run = v.chosen
          PROVE  /\ Settled(ops[o], a.data.receipts[o]) \in Gestures /\ SameGesture(ops[o], Settled(ops[o], a.data.receipts[o]))
                 /\ Settled(ops[o], a.data.receipts[o]).status = IF a.data.receipts[o] = "none" THEN ops[o].status ELSE a.data.receipts[o]
      <4>1. ops[o] \in Gestures /\ o \in Ops
        BY OpTypes DEF IInv
      <4>2. a.data.receipts[o] \in Receipts
        BY <1>6, <2>2, <4>1 DEF Details
      <4> QED
        BY <4>1, <4>2, SettledIs
    <3>2. /\ DOMAIN ops' = DOMAIN ops
          /\ \A o \in DOMAIN ops : ops'[o] = IF ops[o].run = v.chosen THEN Settled(ops[o], a.data.receipts[o]) ELSE ops[o]
      BY <1>3, <2>2
    <3>3. ASSUME NEW o \in DOMAIN ops PROVE ops'[o] \in Gestures /\ SameGesture(ops[o], ops'[o]) /\ Learns(o)
      <4>1. CASE ops[o].run = v.chosen
        <5>1. ops'[o] \in Gestures /\ SameGesture(ops[o], ops'[o])
              /\ ops'[o].status = IF m.data.receipts[o] = "none" THEN ops[o].status ELSE m.data.receipts[o]
          BY <1>6, <2>2, <3>1, <3>2, <4>1
        <5> QED
          BY <1>1, <1>3, <1>6, <2>2, <5>1 DEF Learns, m
      <4>2. CASE ops[o].run # v.chosen
        BY <1>4, <3>2, <4>2 DEF SameGesture, Learns
      <4> QED
        BY <4>1, <4>2
    <3>4. ops' \in Seq(Gestures) /\ Len(ops') = Len(ops)
      <4>1. DOMAIN ops = 1..Len(ops) /\ Len(ops) \in Nat
        BY <1>4
      <4>2. ops' \in [1..Len(ops) -> Gestures]
        BY <1>3, <2>2, <3>2, <3>3, <4>1
      <4> QED
        BY <4>1, <4>2
    <3> QED
      BY <3>3, <3>4 DEF OpsLearn
  <2> QED
    BY <2>1, <2>2
<1>11. AwaitMoves(1, {})
  BY <1>2, <1>3, <1>7, <1>9, FormStays DEF AwaitMoves, SameRun
<1>12. DOMAIN ops' = DOMAIN ops /\ missed' \in BOOLEAN
  BY <1>3, <1>4, <1>10 DEF OpsLearn
<1>13. ClientMoves(1, {})
  BY <1>1, <1>3, <1>9, <1>10, <1>11, <1>12, FormStays, AskingInOps DEF ClientMoves, IInv, TypeInv, OpsMove, m
<1>14. ViewMoves(1, {})
  <2>1. view'.gen = view.gen /\ view'.connected = view.connected /\ view'.chosen = view.chosen
    BY <1>7, <1>9 DEF SameRun
  <2>2. /\ view'.mark = view.mark \/ NumberOf(view'.mark, 1)
        /\ view'.seq = view.seq \/ NumberOf(view'.seq, 1)
        /\ \/ view'.detail = view.detail
           \/ Live(m, {<<"read">>}) /\ m.out = "ok" /\ view'.detail = m.data
    <3>1. CASE u.seq = view.seq /\ u.mark = view.mark /\ u.detail = view.detail
      BY <1>9, <3>1 DEF SameRun
    <3>2. CASE counts /\ u.seq = a.seq /\ u.mark = (IF a.seq > view.mark THEN a.seq ELSE view.mark) /\ u.detail = a.data
      BY <1>6, <1>9, <3>2 DEF SameRun, NumberOf, m
    <3> QED
      BY <1>7, <3>1, <3>2
  <2> QED
    BY <1>1, <1>5, <2>1, <2>2 DEF ViewMoves, m
<1>15. FreshInv'
  <2> SUFFICES ASSUME Watching' PROVE (NewsToCome \/ Refreshes \/ Rereads \/ UpToDate)'
    BY DEF FreshInv
  <2>1. CASE view.again
    BY <1>2, <1>3, <1>9, <2>1, RereadsNow
  <2>2. CASE ~view.again
    <3>1. a.out = "ok" /\ ~missed
      BY <1>3, <2>2 DEF Watching
    <3>2. Quiet /\ core.phase = "ready" /\ view.gen = core.gen /\ m.gen = core.gen
      BY <1>1, <1>3, <1>5, <1>14, WatchingWas DEF m
    <3>3. view'.chosen = view.chosen /\ UNCHANGED <<runs, receipts, core>> /\ TypeInv
      BY <1>1, <1>7, <1>9 DEF Steady, SameRun, IInv
    <3>4. Watching
      BY <1>4, <3>1, <3>2, <3>3 DEF Watching
    <3>5. m.seq <= core.seq /\ view.mark <= core.seq /\ view.seq <= core.seq /\ core.seq \in Nat /\ view.mark \in Int /\ view.seq \in Int
      <4>1. m.seq <= core.seq
        BY <1>1, <1>6, <3>1, <3>2 DEF IInv, OrderInv, m
      <4> QED
        BY <1>4, <3>2, <4>1 DEF IInv, OrderInv, TypeInv, Cores, Views
    <3>6. CASE m.seq = core.seq
      <4>1. counts /\ a = m
        BY <1>6, <3>1, <3>5, <3>6
      <4>2. m.data = Detail(view.chosen) /\ (view.detail.state = "ended" => runs[view.chosen] = "ended")
        BY <1>1, <1>4, <1>6, <3>1, <3>2, <3>6 DEF IInv, ReadInv, m
      <4>3. ~(view.detail.state = "ended" /\ a.data.state # "ended")
        BY <4>1, <4>2 DEF Detail
      <4>4. ~u.stale /\ u.seq = core.seq /\ u.mark = (IF a.seq > view.mark THEN a.seq ELSE view.mark) /\ u.detail = Detail(view.chosen)
        BY <1>7, <3>6, <4>1, <4>2, <4>3
      <4>5. u.mark = core.seq
        BY <3>5, <3>6, <4>1, <4>4
      <4>6. view'.seq = core.seq /\ view'.mark = core.seq /\ view'.detail = Detail(view.chosen) /\ ~view'.stale
        BY <1>9, <4>4, <4>5 DEF SameRun
      <4>7. Detail(view.chosen)' = Detail(view.chosen)
        BY <3>3 DEF Detail
      <4>8. UpToDate'
        BY <3>3, <4>6, <4>7 DEF UpToDate
      <4> QED
        BY <4>8
    <3>7. CASE m.seq # core.seq
      <4>1. ~Rereads
        BY <1>1, <1>6, <2>2, <3>1, <3>7 DEF Rereads, Newest, m
      <4>2. NewsToCome => NewsToCome'
        BY <1>1, <1>3, <1>5, <3>3, UnderWay DEF m
      <4>3. Refreshes => Refreshes'
        BY <1>1, <1>3, <1>7, <1>9, <3>3, UnderWay
      <4>4. UpToDate => UpToDate'
        <5> SUFFICES ASSUME UpToDate PROVE UpToDate'
          OBVIOUS
        <5>1. ~counts
          BY <1>6, <3>1, <3>5, <3>7 DEF UpToDate
        <5>2. view'.seq = view.seq /\ view'.mark = view.mark /\ view'.detail = view.detail /\ view'.stale = view.stale
          BY <1>7, <1>9, <5>1 DEF SameRun
        <5> QED
          BY <1>1, <1>3, <3>3, <5>2, UnderWay
      <4> QED
        BY <3>4, <4>1, <4>2, <4>3, <4>4 DEF IInv, FreshInv
    <3> QED
      BY <3>6, <3>7
  <2> QED
    BY <2>1, <2>2 DEF Rereads
<1> QED
  BY <1>13, <1>14, <1>15, ViewKeeps

\* A status: the epoch ends with the generation, and whenever the core is not ready.
Ends == Head(inbox).gen # view.gen \/ Head(inbox).phase # "ready"
EndingKeys == IF Ends THEN ReadKeys ELSE {}

LEMMA OnStatusView ==
    ASSUME IInv, OnStatus
    PROVE  LET s == inbox[1] IN
           /\ inbox # <<>> /\ 1 \in DOMAIN inbox /\ Head(inbox) = s /\ s \in Statuses /\ IsStatus(s) /\ Moved(1, EndingKeys) /\ Steady
           /\ (pgen' = pgen \/ pgen' = s.gen)
           /\ view' \in Views /\ view'.chosen = view.chosen /\ view'.detail = view.detail /\ view'.gen = s.gen
           /\ (view'.connected <=> s.phase = "ready") /\ (view'.reading => view'.chosen # None)
           /\ s.gen = view.gen => view'.mark = view.mark /\ view'.seq = view.seq
           /\ s.gen # view.gen => view'.mark = -1 /\ view'.seq = -1
           /\ Ends => ~view'.reading /\ ~view'.again /\ (view'.refreshing <=> s.phase = "ready")
           /\ ~Ends => /\ view'.reading = view.reading /\ view'.again = view.again
                       /\ (view'.refreshing <=> view.refreshing \/ ~view.connected)
<1> DEFINE s == inbox[1]
           ready == s.phase = "ready"
           w == Renewed(view, s.gen)
           v == IF Ends THEN [w EXCEPT !.connected = FALSE, !.stale = TRUE, !.reading = FALSE, !.again = FALSE, !.refreshing = FALSE] ELSE view
           now == [v EXCEPT !.connected = ready]
<1>1. /\ inbox # <<>> /\ 1 \in DOMAIN inbox /\ Head(inbox) = s /\ s \in Statuses /\ IsStatus(s) /\ s.gen \in Nat /\ ready \in BOOLEAN
  <2>1. inbox # <<>> /\ Head(inbox).kind = "status"
    BY DEF OnStatus, First
  <2>2. 1 \in DOMAIN inbox /\ Head(inbox) = s /\ s \in Messages
    BY <2>1, FirstIs DEF IInv
  <2> QED
    BY <2>1, <2>2, MessageKinds DEF IsStatus
<1>2. /\ view' = (IF now.connected /\ ~v.connected THEN Refresh(now) ELSE now)
      /\ (pgen' = pgen \/ pgen' = s.gen) /\ Steady /\ (IF Ends THEN Arrive(ReadKeys) ELSE Arrive({}))
  BY <1>1, SteadyWhen DEF OnStatus, Ends
<1>3. Moved(1, EndingKeys)
  BY <1>1, <1>2, QueueMoves DEF EndingKeys, IInv
<1>4. view \in Views /\ (view.reading => view.chosen # None) /\ view.gen \in Int
  BY DEF IInv, TypeInv, Views
<1>5. /\ w \in Views /\ w.chosen = view.chosen /\ w.detail = view.detail /\ w.gen = s.gen
      /\ s.gen = view.gen => w.mark = view.mark /\ w.seq = view.seq
      /\ s.gen # view.gen => w.mark = -1 /\ w.seq = -1
  <2>1. CASE s.gen = view.gen
    BY <1>4, <2>1 DEF Renewed
  <2>2. CASE s.gen # view.gen
    <3> DEFINE g == s.gen
               n == -1
    <3>1. w = [view EXCEPT !.gen = g, !.mark = n, !.seq = n] /\ g \in Int /\ n \in Int
      BY <1>1, <2>2 DEF Renewed
    <3> HIDE DEF g, n, w
    <3>2. w \in Views /\ w.chosen = view.chosen /\ w.detail = view.detail /\ w.gen = g /\ w.mark = n /\ w.seq = n
      BY <1>4, <3>1 DEF Views
    <3> QED
      BY <2>2, <3>2 DEF g, n
  <2> QED
    BY <2>1, <2>2
<1> HIDE DEF w, s, ready
<1>6. /\ v \in Views /\ v.chosen = view.chosen /\ v.detail = view.detail /\ v.gen = s.gen
      /\ s.gen = view.gen => v.mark = view.mark /\ v.seq = view.seq
      /\ s.gen # view.gen => v.mark = -1 /\ v.seq = -1
      /\ Ends => ~v.connected /\ ~v.reading /\ ~v.again /\ ~v.refreshing
      /\ ~Ends => v = view /\ s.gen = view.gen /\ ready
  <2>1. CASE Ends
    <3>1. v = [w EXCEPT !.connected = FALSE, !.stale = TRUE, !.reading = FALSE, !.again = FALSE, !.refreshing = FALSE]
      BY <2>1
    <3>2. /\ v \in Views /\ v.chosen = w.chosen /\ v.detail = w.detail /\ v.gen = w.gen /\ v.mark = w.mark /\ v.seq = w.seq
          /\ ~v.connected /\ ~v.reading /\ ~v.again /\ ~v.refreshing
      BY <1>5, <3>1 DEF Views
    <3> QED
      BY <1>5, <2>1, <3>2
  <2>2. CASE ~Ends
    BY <1>1, <1>4, <2>2 DEF Ends, ready
  <2> QED
    BY <2>1, <2>2
<1> HIDE DEF v
<1>7. /\ now \in Views /\ now.chosen = v.chosen /\ now.detail = v.detail /\ now.gen = v.gen /\ now.mark = v.mark /\ now.seq = v.seq
      /\ now.connected = ready /\ now.reading = v.reading /\ now.again = v.again /\ now.refreshing = v.refreshing
  BY <1>1, <1>6 DEF Views
<1> HIDE DEF now
<1>8. /\ view' \in Views /\ SameRun(now, view') /\ view'.mark = now.mark /\ view'.reading = now.reading /\ view'.again = now.again
      /\ (view'.refreshing <=> v.refreshing \/ (ready /\ ~v.connected))
  <2>1. CASE now.connected /\ ~v.connected
    BY <1>2, <1>7, <2>1, RefreshIs
  <2>2. CASE ~(now.connected /\ ~v.connected)
    BY <1>2, <1>7, <2>2 DEF SameRun
  <2> QED
    BY <2>1, <2>2
<1>9. /\ view'.chosen = view.chosen /\ view'.detail = view.detail /\ view'.gen = s.gen /\ (view'.connected <=> ready)
      /\ view'.seq = v.seq /\ view'.mark = v.mark /\ view'.reading = v.reading /\ view'.again = v.again
  BY <1>6, <1>7, <1>8 DEF SameRun
<1>10. /\ Ends => ~view'.reading /\ ~view'.again /\ (view'.refreshing <=> ready)
       /\ ~Ends => /\ view'.reading = view.reading /\ view'.again = view.again
                   /\ (view'.refreshing <=> view.refreshing \/ ~view.connected)
  BY <1>6, <1>8, <1>9
<1>11. view'.reading => view'.chosen # None
  BY <1>4, <1>9, <1>10
<1> QED
  BY <1>1, <1>2, <1>3, <1>6, <1>8, <1>9, <1>10, <1>11 DEF s, ready

LEMMA OnStatusMoves ==
    ASSUME IInv, OnStatus, acts' \in Nat
    PROVE  ClientMoves(1, EndingKeys)
<1>1. /\ inbox # <<>> /\ Head(inbox) = inbox[1] /\ Moved(1, EndingKeys) /\ Steady /\ (pgen' = pgen \/ pgen' = inbox[1].gen)
      /\ view' \in Views /\ (view'.connected <=> inbox[1].phase = "ready") /\ (view'.reading => view'.chosen # None)
      /\ Ends => ~view'.reading /\ ~view'.again /\ (view'.refreshing <=> inbox[1].phase = "ready")
      /\ ~Ends => /\ view'.reading = view.reading /\ view'.again = view.again /\ (view.refreshing => view'.refreshing)
  BY OnStatusView
<1>2. ops \in Seq(Gestures) /\ draft \in Forms \cup {None} /\ proposal \in Proposals \cup {None} /\ missed \in BOOLEAN /\ asking \subseteq Ops
  BY DEF IInv, TypeInv
<1>3. CASE ~Ends
  <2>1. EndingKeys = {} /\ view'.connected
    BY <1>1, <1>3 DEF EndingKeys, Ends
  <2>2. UNCHANGED <<draft, proposal, ops, asking, missed>>
    BY <1>3 DEF OnStatus, Ends, formVars
  <2>3. AwaitMoves(1, {})
    BY <1>1, <1>3, <2>1, <2>2, FormStays, ViewStays DEF AwaitMoves, IInv, AwaitInv
  <2> QED
    BY <1>1, <1>2, <2>1, <2>2, <2>3, FormStays, OpsStay, AskingInOps DEF ClientMoves, IInv
<1>4. CASE Ends
  <2>1. /\ EndingKeys = ReadKeys /\ asking' = {} /\ proposal' = None /\ missed' = FALSE
        /\ draft' = Unprepared(draft) /\ ops' = [o \in DOMAIN ops |-> Recovered(ops[o])]
    BY <1>4 DEF OnStatus, Ends, EndingKeys
  <2>2. draft' \in Forms \cup {None} /\ (draft' # None => draft'.run = None /\ ~draft'.preparing)
    <3>1. draft # None => draft.text \in Nat
      BY <1>2 DEF Forms
    <3> QED
      BY <2>1, <3>1, FormIs DEF Unprepared
  <2>3. OpsLearn
    <3>1. ASSUME NEW op \in Gestures
          PROVE  Recovered(op) \in Gestures /\ SameGesture(op, Recovered(op)) /\ Recovered(op).status = IF op.status = "pending" THEN "delivery-unknown" ELSE op.status
      <4> DEFINE how == IF op.status = "pending" THEN "delivery-unknown" ELSE op.status
      <4>1. Recovered(op) = [op EXCEPT !.waiting = FALSE, !.status = how] /\ how \in Outcomes \cup {"pending"}
        BY DEF Recovered, Gestures, Outcomes
      <4> HIDE DEF how
      <4>2. Recovered(op) \in Gestures /\ SameGesture(op, Recovered(op)) /\ Recovered(op).status = how
        BY <4>1 DEF Gestures, SameGesture
      <4> QED
        BY <4>2 DEF how
    <3>2. DOMAIN ops' = DOMAIN ops /\ \A o \in DOMAIN ops : ops'[o] = Recovered(ops[o]) /\ ops[o] \in Gestures
      BY <1>2, <2>1
    <3>3. ops' \in Seq(Gestures) /\ Len(ops') = Len(ops)
      <4>1. DOMAIN ops = 1..Len(ops) /\ Len(ops) \in Nat
        BY <1>2
      <4>2. ops' \in [1..Len(ops) -> Gestures]
        BY <2>1, <3>1, <3>2, <4>1
      <4> QED
        BY <4>1, <4>2
    <3>4. \A o \in DOMAIN ops : SameGesture(ops[o], ops'[o]) /\ Learns(o)
      BY <3>1, <3>2 DEF Learns, Unresolved
    <3> QED
      BY <3>3, <3>4 DEF OpsLearn
  <2>4. AwaitMoves(1, ReadKeys)
    <3>1. \A o \in asking : <<"receipt", o>> \in ReadKeys
      BY <1>2, KeysDiffer
    <3>2. ~view'.connected => ~view'.refreshing
      BY <1>1, <1>4
    <3> QED
      BY <1>1, <1>4, <2>1, <2>2, <3>1, <3>2, KeysDiffer DEF AwaitMoves, Dropped
  <2>5. FormMoves(ReadKeys)
    BY <2>1, <2>2, KeysDiffer DEF FormMoves
  <2> QED
    BY <1>1, <2>1, <2>2, <2>3, <2>4, <2>5 DEF ClientMoves, OpsMove
<1> QED
  BY <1>3, <1>4

LEMMA OnStatusKeeps == ASSUME IInv, OnStatus, acts' \in Nat PROVE IInv'
<1> DEFINE s == inbox[1]
           keys == EndingKeys
<1>1. ClientMoves(1, keys)
  BY OnStatusMoves
<1>2. TypeInv' /\ CommandInv' /\ OutcomeInv' /\ LaunchInv' /\ SteerInv' /\ AwaitInv' /\ FormInv'
  BY <1>1, ClientKeeps
<1>3. /\ inbox # <<>> /\ 1 \in DOMAIN inbox /\ Head(inbox) = s /\ s \in Statuses /\ IsStatus(s) /\ Moved(1, keys) /\ Steady
      /\ (pgen' = pgen \/ pgen' = s.gen)
      /\ view' \in Views /\ view'.chosen = view.chosen /\ view'.detail = view.detail /\ view'.gen = s.gen
      /\ (view'.connected <=> s.phase = "ready")
      /\ s.gen = view.gen => view'.mark = view.mark /\ view'.seq = view.seq
      /\ s.gen # view.gen => view'.mark = -1 /\ view'.seq = -1
      /\ Ends => (view'.refreshing <=> s.phase = "ready")
      /\ ~Ends => (view'.refreshing <=> view.refreshing \/ ~view.connected)
  BY OnStatusView
<1>4. TypeInv /\ AwaitInv /\ OrderInv /\ StatusInv /\ ReadInv /\ FreshInv /\ UNCHANGED <<runs, receipts, core>>
  BY <1>3 DEF IInv, Steady
<1> HIDE DEF s, keys
<1>5. ASSUME NEW i \in DOMAIN inbox', inbox'[i].kind # "late"
      PROVE  i \in Nat /\ i >= 1 /\ i + 1 \in DOMAIN inbox /\ inbox'[i] = inbox[i + 1] /\ i + 1 > 1 /\ ~Live(inbox[i + 1], keys)
  BY <1>3, <1>4, <1>5, StillSaid
<1>6. ASSUME NEW i \in DOMAIN inbox, i > 1, IsStatus(inbox[i])
      PROVE  i \in Nat /\ i - 1 \in DOMAIN inbox' /\ (i - 1) + 1 = i /\ inbox'[i - 1] = inbox[i] /\ IsStatus(inbox[i - 1])'
  <2>1. i \in Nat /\ i - 1 \in DOMAIN inbox' /\ (i - 1) + 1 = i
    BY <1>3, <1>4, <1>6, MovedMessages
  <2> QED
    BY <1>3, <1>4, <1>6, <2>1, MovedMessages DEF IsStatus, Live
<1>7. OrderInv'
  <2>1. s.gen <= core.gen /\ core.seq \in Nat /\ \A i \in DOMAIN inbox : i > 1 /\ Data(inbox[i]) => s.gen <= inbox[i].gen
    BY <1>3, <1>4 DEF OrderInv, TypeInv, Cores, s
  <2>2. view'.gen <= core'.gen /\ pgen' <= core'.gen
    BY <1>3, <1>4, <2>1 DEF OrderInv
  <2>3. view'.gen = core'.gen => view'.mark <= core'.seq /\ view'.seq <= core'.seq
    BY <1>3, <1>4, <2>1 DEF OrderInv
  <2>4. \A i \in DOMAIN inbox' : inbox'[i].gen <= core'.gen
    BY <1>3, <1>4, MovedMessages DEF OrderInv
  <2>5. \A i \in DOMAIN inbox' : Data(inbox[i])' => view'.gen <= inbox'[i].gen
    BY <1>3, <1>5, <2>1 DEF Data, Live
  <2>6. ASSUME NEW i \in DOMAIN inbox', NEW j \in DOMAIN inbox', i < j, IsStatus(inbox[i])', Data(inbox[j])' PROVE inbox'[i].gen <= inbox'[j].gen
    <3>1. /\ i + 1 \in DOMAIN inbox /\ j + 1 \in DOMAIN inbox /\ i + 1 < j + 1
          /\ IsStatus(inbox[i + 1]) /\ Data(inbox[j + 1]) /\ inbox'[i] = inbox[i + 1] /\ inbox'[j] = inbox[j + 1]
      BY <1>5, <2>6 DEF IsStatus, Data, Live
    <3> QED
      BY <1>4, <3>1 DEF OrderInv
  <2>7. \A i \in DOMAIN inbox' : Numbered(inbox[i])' /\ inbox'[i].gen = core'.gen => inbox'[i].seq <= core'.seq
    BY <1>4, <1>5 DEF OrderInv, Numbered, Live
  <2> QED
    BY <2>2, <2>3, <2>4, <2>5, <2>6, <2>7 DEF OrderInv
\* If it was the last status, it is what the core is in.
<1>8. ASSUME Quiet' PROVE s.gen = core.gen /\ (s.phase = "ready" <=> core.phase = "ready")
  <2>1. \A j \in DOMAIN inbox : j > 1 => ~IsStatus(inbox[j])
    BY <1>6, <1>8 DEF Quiet
  <2> QED
    BY <1>3, <1>4, <2>1 DEF StatusInv, s
<1>9. StatusInv'
  <2>1. Quiet' => view'.gen = core'.gen /\ (view'.connected <=> core'.phase = "ready")
    BY <1>3, <1>4, <1>8
  <2>2. ASSUME NEW i \in DOMAIN inbox', IsStatus(inbox[i])', \A j \in DOMAIN inbox' : j > i => ~IsStatus(inbox[j])'
        PROVE  inbox'[i].gen = core'.gen /\ (inbox'[i].phase = "ready" <=> core'.phase = "ready")
    <3>1. i \in Nat /\ i + 1 \in DOMAIN inbox /\ inbox'[i] = inbox[i + 1] /\ IsStatus(inbox[i + 1])
      BY <1>5, <2>2 DEF IsStatus
    <3>2. \A j \in DOMAIN inbox : j > i + 1 => ~IsStatus(inbox[j])
      <4> SUFFICES ASSUME NEW j \in DOMAIN inbox, j > i + 1, IsStatus(inbox[j]) PROVE FALSE
        OBVIOUS
      <4>1. j \in Nat
        BY <1>3, <1>4, MovedMessages
      <4>2. j - 1 \in DOMAIN inbox' /\ IsStatus(inbox[j - 1])' /\ j - 1 > i
        BY <1>6, <3>1, <4>1
      <4> QED
        BY <2>2, <4>2
    <3> QED
      BY <1>4, <3>1, <3>2 DEF StatusInv
  <2>3. ASSUME NEW i \in DOMAIN inbox', IsStatus(inbox[i])', inbox'[i].phase = "ready"
        PROVE  \/ i = 1 /\ ~view'.connected
               \/ i - 1 \in DOMAIN inbox' /\ IsStatus(inbox[i - 1])' /\ inbox'[i - 1].phase # "ready"
    <3>1. i \in Nat /\ i >= 1 /\ i + 1 \in DOMAIN inbox /\ inbox'[i] = inbox[i + 1] /\ IsStatus(inbox[i + 1])
      BY <1>5, <2>3 DEF IsStatus
    <3>2. (i + 1) - 1 = i /\ i + 1 # 1
      BY <3>1
    <3>3. i \in DOMAIN inbox /\ IsStatus(inbox[i]) /\ inbox[i].phase # "ready"
      BY <1>4, <2>3, <3>1, <3>2 DEF StatusInv
    <3>4. CASE i = 1
      BY <1>3, <3>3, <3>4 DEF s
    <3>5. CASE i # 1
      BY <1>6, <3>1, <3>3, <3>5
    <3> QED
      BY <3>4, <3>5
  <2> QED
    BY <2>1, <2>2, <2>3 DEF StatusInv
<1>10. ReadInv'
  BY <1>3, <1>4, ReadStep
<1>11. FreshInv'
  <2> SUFFICES ASSUME Watching' PROVE Refreshes'
    BY DEF FreshInv
  <2>1. s.phase = "ready"
    BY <1>4, <1>8 DEF Watching
  <2>2. ~view.connected
    <3>1. 1 - 1 \notin DOMAIN inbox
      BY <1>4 DEF TypeInv
    <3> QED
      BY <1>3, <1>4, <2>1, <3>1 DEF StatusInv, s
  <2>3. view'.refreshing /\ ~view.refreshing
    BY <1>3, <2>1, <2>2, NotConnected
  <2> QED
    BY <1>3, <2>3, RefreshesNow
<1> QED
  BY <1>2, <1>7, <1>9, <1>10, <1>11 DEF IInv

-----------------------------------------------------------------------------
(* The theorems.                                                             *)

LEMMA InitHolds == Init => IInv
<1> SUFFICES ASSUME Init PROVE IInv
  OBVIOUS
<1>1. inbox = <<Status(1, "ready")>> /\ Status(1, "ready") \in Statuses /\ IsStatus(Status(1, "ready"))
  BY DEF Init, Status, Statuses, IsStatus
<1>2. DOMAIN inbox = {1} /\ inbox \in Seq(Messages) /\ IsStatus(inbox[1]) /\ inbox[1].gen = 1 /\ inbox[1].phase = "ready" /\ inbox[1].kind = "status"
  BY <1>1 DEF Messages, Status, IsStatus
<1>3. \A keys : ~Live(inbox[1], keys)
  BY <1>2 DEF Live
<1>4. \A o : ~Tells(inbox[1], o) /\ ~Reads(inbox[1]) /\ ~SaysFinal(inbox[1], o) /\ ~SaysOpen(inbox[1], o)
  BY <1>2 DEF Live, Tells, Reads, SaysFinal, SaysOpen
<1>5. ~Data(inbox[1]) /\ ~Numbered(inbox[1])
  BY <1>2 DEF Data, Numbered, Live
<1>6. ops = <<>> /\ DOMAIN ops = {} /\ ops \in Seq(Gestures) /\ Len(ops) = 0 /\ asking = {} /\ proposal = None /\ missed = FALSE /\ MaxOps \in Nat
  BY ConstantsAssumption DEF Init
<1>7. /\ view \in Views /\ ~view.connected /\ view.gen = -1 /\ view.mark = -1 /\ view.detail.state = "none"
      /\ ~view.reading /\ ~view.again /\ ~view.refreshing
  <2>1. PICK chosen \in Runs \cup {None} :
          view = [connected |-> FALSE, gen |-> -1, mark |-> -1, seq |-> -1, runs |-> <<>>,
                  chosen |-> chosen, detail |-> NoDetail, stale |-> TRUE,
                  reading |-> FALSE, again |-> FALSE, refreshing |-> FALSE]
    BY DEF Init
  <2>2. NoDetail \in Details /\ NoDetail.state = "none"
    BY DEF NoDetail, Details, RunStates, Receipts
  <2> QED
    BY <2>1, <2>2 DEF Views
<1>8. draft = None \/ (draft \in Forms /\ draft.run = None /\ ~draft.preparing)
  BY FormIs DEF Init
<1>9. /\ receipts = [o \in Ops |-> "none"] /\ done = {} /\ taken = {} /\ reached = {} /\ faults = 0 /\ pgen = 0 /\ acts = 0
      /\ core = [gen |-> 1, phase |-> "ready", seq |-> 0, draft |-> None] /\ texts = [r \in Runs |-> None]
      /\ runs \in [Runs -> {"none", "running"}]
  BY DEF Init
<1>10. TypeInv
  <2>1. runs \in [Runs -> RunStates] /\ receipts \in [Ops -> Receipts] /\ core \in Cores /\ texts \in [Runs -> Nat \cup {None}]
    BY <1>9 DEF RunStates, Receipts, Cores
  <2>2. done \subseteq Ops /\ taken \subseteq Commands /\ IsFiniteSet(taken) /\ reached \subseteq Ops /\ faults \in Nat /\ pgen \in Nat /\ acts \in Nat
    BY <1>9, FS_EmptySet
  <2>3. view \in Views /\ (view.reading => view.chosen # None)
    BY <1>7
  <2>4. draft \in Forms \cup {None} /\ proposal \in Proposals \cup {None}
    BY <1>6, <1>8
  <2>5. ops \in Seq(Gestures) /\ Len(ops) <= MaxOps
    BY <1>6
  <2>6. asking \subseteq Ops /\ missed \in BOOLEAN
    BY <1>6
  <2> QED
    BY <1>2, <2>1, <2>2, <2>3, <2>4, <2>5, <2>6 DEF TypeInv
<1>11. CommandInv
  BY <1>6, <1>9 DEF CommandInv
<1>12. OutcomeInv /\ LaunchInv /\ SteerInv
  BY <1>2, <1>4, <1>6, <1>9 DEF OutcomeInv, LaunchInv, SteerInv
<1>13. AwaitInv /\ FormInv
  BY <1>2, <1>3, <1>6, <1>7, <1>8, KeysDiffer DEF AwaitInv, FormInv, Awaited
<1>14. OrderInv
  BY <1>2, <1>5, <1>7, <1>9 DEF OrderInv
<1>15. StatusInv
  BY <1>2, <1>7, <1>9 DEF StatusInv, Quiet
<1>16. ReadInv /\ FreshInv
  BY <1>2, <1>3, <1>7 DEF ReadInv, FreshInv, Watching, Quiet
<1> QED
  BY <1>10, <1>11, <1>12, <1>13, <1>14, <1>15, <1>16 DEF IInv

LEMMA StutterKeeps == ASSUME IInv, UNCHANGED vars PROVE IInv'
<1>1. /\ UNCHANGED <<runs, receipts, done, core, texts, taken, reached, faults, inbox, pgen>>
      /\ UNCHANGED <<view, draft, proposal, ops, asking, missed, acts>>
  BY DEF vars, diskVars, coreVars, clientVars, formVars
<1>2. TypeInv' /\ CommandInv' /\ OutcomeInv' /\ LaunchInv' /\ SteerInv'
  BY <1>1 DEF IInv, TypeInv, CommandInv, OutcomeInv, Honest, Carried, Never, LaunchInv, SteerInv
<1>3. AwaitInv' /\ FormInv'
  BY <1>1 DEF IInv, AwaitInv, Awaited, FormInv
<1>4. OrderInv' /\ StatusInv' /\ ReadInv'
  BY <1>1 DEF IInv, OrderInv, StatusInv, Quiet, ReadInv, Detail
<1>5. FreshInv'
  BY <1>1 DEF IInv, FreshInv, Watching, Quiet, NewsToCome, Refreshes, Newest, Rereads, UpToDate, Detail
<1> QED
  BY <1>2, <1>3, <1>4, <1>5 DEF IInv

LEMMA WindowKeeps == ASSUME IInv, Window, acts' \in Nat PROVE IInv'
BY OnLateKeeps, OnStatusKeeps, OnEventKeeps, GotSnapshotKeeps, GotDetailKeeps, GotPreparedKeeps, GotOutcomeKeeps, GotReceiptKeeps
   DEF Window

LEMMA UserKeeps == ASSUME IInv, User, acts' \in Nat PROVE IInv'
BY SelectKeeps, DraftsKeep, TasksKeep, PrepareKeeps, LaunchKeeps, OrdersKeep DEF User

LEMMA StepKeeps == ASSUME IInv, [Next]_vars PROVE IInv'
<1>1. acts \in Nat /\ acts + 1 \in Nat
  BY DEF IInv, TypeInv
<1> QED
  BY <1>1, StutterKeeps, EnvironmentKeeps, WindowKeeps, UserKeeps DEF Next

\* Whatever was lost or came late, what the client keeps is of its type, and everything it
\* relies on to say what became of a command, a text or a run is so at every step.
THEOREM InvariantHolds == Spec => []IInv
<1>1. Init => IInv
  BY InitHolds
<1>2. IInv /\ [Next]_vars => IInv'
  BY StepKeeps
<1> QED
  BY <1>1, <1>2, PTL DEF Spec

\* What the list of commands says of each is true.  Of two instructions to a run without a known
\* outcome there is never a second, because the one that was settled is never open again.
THEOREM ReceiptsAreHonestHolds == Spec => []ReceiptsAreHonest
<1>1. ASSUME IInv PROVE ReceiptsAreHonest
  <2>1. \A o \in DOMAIN ops : Honest(ops[o].status, o)
    BY <1>1 DEF IInv, OutcomeInv
  <2>2. ASSUME NEW r \in Runs PROVE Cardinality({o \in Given("steer", r) : Unresolved(ops[o])}) <= 1
    <3> DEFINE S == {o \in Given("steer", r) : Unresolved(ops[o])}
    <3>1. \A o, p \in S : o = p
      BY <1>1 DEF IInv, SteerInv, Given
    <3>2. CASE S = {}
      BY <3>2, FS_EmptySet
    <3>3. CASE S # {}
      <4>1. PICK o \in S : S = {o}
        BY <3>1, <3>3
      <4>2. Cardinality(S) = 1
        BY <4>1, FS_Singleton
      <4> QED
        BY <4>2
    <3> QED
      BY <3>2, <3>3
  <2> QED
    BY <2>1, <2>2 DEF ReceiptsAreHonest, Honest, Carried, Never
<1> QED
  BY <1>1, InvariantHolds, PTL

\* Text leaves the form unasked only with the launch of that text.
LEMMA LaunchedText ==
    ASSUME IInv, GotOutcome, draft # None, draft' # draft
    PROVE  \E o \in DOMAIN ops' : ops'[o].kind = "launch" /\ ops'[o].text = draft.text /\ ops'[o].status = "accepted"
<1> DEFINE m == inbox[1]
           o == m.key[2]
           op == ops[o]
           out == Received.out
           status == IF Unresolved(op) THEN out ELSE op.status
<1>1. /\ 1 \in DOMAIN inbox /\ m.kind = "answer" /\ o \in Ops /\ m.key = <<"op", o>> /\ Received.key = m.key
      /\ out \in Outcomes /\ (out = m.out \/ out = "delivery-unknown")
  <2>1. Got("op") /\ TypeInv
    BY DEF GotOutcome, IInv
  <2>2. inbox[1].key[1] = "op" /\ inbox[1].key \in OpKeys \cup ReadKeys
    BY <2>1, GotIs DEF Answers
  <2>3. inbox[1].key \in OpKeys /\ inbox[1].key[2] \in Ops /\ inbox[1].key = <<"op", inbox[1].key[2]>>
    BY <2>2, KeysDiffer
  <2> QED
    BY <2>1, <2>2, <2>3, GotIs
<1>2. o \in DOMAIN ops /\ Honest(m.out, o) /\ Honest(op.status, o)
  <2>1. Tells(m, o)
    BY <1>1 DEF Tells
  <2> QED
    BY <1>1, <2>1 DEF IInv, OutcomeInv, CommandInv
<1>3. op \in Gestures /\ op.run \in Runs /\ op.status \in Outcomes \cup {"pending"} /\ ops \in Seq(Gestures)
  BY <1>2, OpTypes DEF IInv, TypeInv
<1>4. /\ Retires(op, out)
      /\ ops' = [ops EXCEPT ![o].waiting = FALSE, ![o].status = status]
  <2>1. IF ~op.waiting THEN UNCHANGED draft
        ELSE /\ ops' = [ops EXCEPT ![o].waiting = FALSE, ![o].status = IF Unresolved(op) THEN out ELSE @]
             /\ draft' = IF Retires(op, out) THEN None ELSE draft
    BY <1>1 DEF GotOutcome, formVars
  <2> QED
    BY <2>1
<1> HIDE DEF o, m, out
<1>5. status = "accepted"
  BY <1>1, <1>2, <1>3, <1>4 DEF Retires, Unresolved, Honest, Carried, Never, Outcomes
<1> HIDE DEF status
<1>6. /\ o \in DOMAIN ops' /\ ops'[o].kind = op.kind /\ ops'[o].text = op.text /\ ops'[o].status = status
  <2>1. status \in Outcomes
    BY <1>5 DEF Outcomes
  <2>2. PICK new \in Gestures : new = [op EXCEPT !.waiting = FALSE, !.status = status]
    BY <1>3, <2>1 DEF Gestures
  <2>3. new.kind = op.kind /\ new.text = op.text /\ new.status = status
    BY <1>3, <2>2 DEF Gestures
  <2>4. ops' = [ops EXCEPT ![o] = new]
    BY <1>2, <1>3, <1>4, <2>2
  <2> QED
    BY <1>2, <1>3, <2>3, <2>4
<1>7. op.kind = "launch" /\ op.text = draft.text
  BY <1>2, <1>3, <1>4, NoneIsNoRun DEF Retires, IInv, LaunchInv, FormInv
<1> QED
  BY <1>5, <1>6, <1>7

LEMMA TextStays ==
    ASSUME IInv, [Next]_vars, draft # None, draft' = None \/ draft'.text # draft.text
    PROVE  EditDraft \/ CloseDraft \/ GotOutcome
<1>1. draft \in Forms /\ draft.text \in Nat /\ draft' # draft
  BY DEF IInv, TypeInv, Forms
<1>2. ~UNCHANGED vars
  BY <1>1 DEF vars, clientVars, formVars
<1>3. ~(Environment /\ acts' = acts)
  BY <1>1, EnvironmentStep DEF IInv, CoreStep, clientVars, formVars
<1>4. ~OnStatus
  <2>1. OnStatus => draft' = draft \/ draft' = Form(draft.text)
    BY DEF OnStatus, formVars, Unprepared
  <2> QED
    BY <1>1, <2>1, FormIs
<1>5. ~GotPrepared
  BY PreparedIs
<1>6. ~Prepare
  <2>1. Prepare => draft' = [draft EXCEPT !.run = None, !.preparing = TRUE]
    BY DEF Prepare
  <2>2. [draft EXCEPT !.run = None, !.preparing = TRUE] \in Forms /\ [draft EXCEPT !.run = None, !.preparing = TRUE].text = draft.text
    BY <1>1 DEF Forms
  <2> QED
    BY <2>1, <2>2, NoneIsNoRun
<1>7. ~AcceptTask
  <2>1. AcceptTask => draft' = draft \/ (proposal # None /\ proposal.valid /\ draft' = Form(proposal.text))
    BY DEF AcceptTask, Change
  <2>2. proposal # None /\ proposal.valid => proposal.text = draft.text
    BY DEF IInv, FormInv
  <2> QED
    BY <1>1, <2>1, <2>2, FormIs
<1>8. ~(OnLate \/ OnEvent \/ GotSnapshot \/ GotDetail \/ GotReceipt \/ OpenDraft)
  BY <1>1 DEF OnLate, OnEvent, GotSnapshot, GotDetail, GotReceipt, OpenDraft, clientVars, formVars
<1>9. ~((\E r \in Runs : Select(r)) \/ Propose \/ Launch \/ Steer \/ Stop \/ (\E o \in Ops : Reconcile(o)))
  BY <1>1 DEF Select, Propose, Launch, Steer, Stop, Reconcile, Give, formVars
<1> QED
  BY <1>2, <1>3, <1>4, <1>5, <1>6, <1>7, <1>8, <1>9 DEF Next, Window, User

\* What the user typed leaves the form by his hand or with the launch of it, and a context that
\* is offered for launch is that of the text in the form.
THEOREM DraftKeptHolds == Spec => DraftKept
<1> DEFINE Gone == draft # None /\ (draft' = None \/ draft'.text # draft.text)
           Asked == \/ EditDraft \/ CloseDraft
                    \/ \E o \in DOMAIN ops' : ops'[o].kind = "launch" /\ ops'[o].text = draft.text /\ ops'[o].status = "accepted"
           Fits == draft # None /\ draft.run # None => texts[draft.run] = draft.text
<1>1. IInv /\ [Next]_vars => [Gone => Asked]_vars
  <2> SUFFICES ASSUME IInv, [Next]_vars, Gone PROVE Asked
    OBVIOUS
  <2>1. EditDraft \/ CloseDraft \/ GotOutcome
    BY TextStays
  <2>2. draft' # draft
    OBVIOUS
  <2> QED
    BY <2>1, <2>2, LaunchedText
<1>2. IInv => Fits
  BY DEF IInv, FormInv
<1>3. Spec => [][Gone => Asked]_vars /\ []Fits
  <2> HIDE DEF Gone, Asked, Fits
  <2> QED
    BY <1>1, <1>2, InvariantHolds, PTL DEF Spec
<1> QED
  BY <1>3 DEF DraftKept

\* What is shown of a run goes forward, step by step.
Forward(v, w) ==
    w.chosen = v.chosen /\ w.gen = v.gen /\ w.seq # -1
      => w.seq >= v.seq /\ w.mark >= v.mark /\ (v.detail.state = "ended" => w.detail.state = "ended")

LEMMA ForwardSame == ASSUME NEW v \in Views, NEW w, SameRun(v, w), w.mark \in Int, w.mark >= v.mark PROVE Forward(v, w)
BY DEF Forward, SameRun, Views

LEMMA ForwardSnapshot ==
    ASSUME NEW v \in Views, v.reading => v.chosen # None, NEW seq \in Nat, NEW seen \in [Runs -> RunStates]
    PROVE  Forward(v, AcceptSnapshot(v, seq, seen))
<1> DEFINE w == AcceptSnapshot(v, seq, seen)
<1>1. v.mark \in Int
  BY DEF Views
<1>2. SameRun(v, w) /\ w.mark \in Int /\ w.mark >= v.mark
  BY <1>1, AcceptSnapshotIs
<1> QED
  BY <1>2, ForwardSame

\* What a read that counts found.
LEMMA FoundIs ==
    ASSUME TypeInv, NEW name \in {"snap", "read", "receipt"}, Got(name), Received.out = "ok"
    PROVE  /\ Received.seq \in Nat
           /\ name = "snap" => Received.data \in [Runs -> RunStates]
           /\ name # "snap" => Received.data \in Details
<1> DEFINE m == inbox[1]
<1>1. WellFormed(m) /\ m.key \in OpKeys \cup ReadKeys /\ m.key[1] = name
  BY GotIs DEF Answers
<1>2. m.key \in ReadKeys /\ (name = "snap" => m.key = <<"snap">>) /\ (name # "snap" => m.key \in ReadingKeys)
  <2>1. m.key \in ReadKeys
    BY <1>1, KeysDiffer
  <2>2. CASE name = "snap"
    BY <1>1, <2>1, <2>2, KeysDiffer
  <2>3. CASE name # "snap"
    <3>1. name = "read" \/ name = "receipt"
      BY <2>3
    <3>2. CASE name = "read"
      BY <1>1, <3>2, KeysDiffer
    <3>3. CASE name = "receipt"
      <4>1. PICK o \in Ops : m.key = <<"receipt", o>>
        BY <1>1, <3>3, KeysDiffer
      <4>2. m.key \in ReadingKeys
        BY <4>1, KeysDiffer
      <4> QED
        BY <2>1, <2>3, <4>2
    <3> QED
      BY <2>1, <2>3, <3>1, <3>2, <3>3
  <2> QED
    BY <2>1, <2>2, <2>3
<1>3. Received = m /\ m.out = "ok"
  BY <1>2, GotIs
<1> QED
  BY <1>1, <1>2, <1>3 DEF WellFormed

LEMMA SnapshotForward == ASSUME IInv, OnEvent \/ GotSnapshot PROVE Forward(view, view')
<1>1. view \in Views /\ (view.reading => view.chosen # None) /\ view.mark \in Int
  BY DEF IInv, TypeInv, Views
<1>2. SameRun(view, view) /\ Forward(view, view)
  BY <1>1, ForwardSame DEF SameRun
<1>3. CASE OnEvent
  <2> DEFINE e == inbox[1]
  <2>1. e.seq \in Nat /\ e.runs \in [Runs -> RunStates] /\ Head(inbox) = e
    BY <1>3, FirstIs, MessageKinds DEF OnEvent, First, IInv, Events
  <2>2. view' = AcceptSnapshot(view, e.seq, e.runs) \/ view' = view
    BY <1>3, <2>1 DEF OnEvent
  <2> QED
    BY <1>1, <1>2, <2>1, <2>2, ForwardSnapshot
<1>4. CASE GotSnapshot
  <2> DEFINE v == [view EXCEPT !.refreshing = FALSE]
             a == Received
  <2>1. v \in Views /\ SameRun(view, v) /\ v.mark = view.mark /\ v.reading = view.reading
    BY <1>1 DEF Views, SameRun
  <2>2. IF a.out = "ok" THEN view' = AcceptSnapshot(v, a.seq, a.data) ELSE view' = v
    BY <1>4 DEF GotSnapshot
  <2>3. CASE a.out = "ok"
    <3>1. a.seq \in Nat /\ a.data \in [Runs -> RunStates]
      BY <1>4, <2>3, FoundIs DEF GotSnapshot, IInv
    <3> HIDE DEF a, v
    <3>2. Forward(v, view')
      BY <1>1, <2>1, <2>2, <2>3, <3>1, ForwardSnapshot DEF SameRun
    <3> QED
      BY <2>1, <3>2 DEF Forward, SameRun
  <2>4. CASE a.out # "ok"
    <3> HIDE DEF a, v
    <3> QED
      BY <1>1, <2>1, <2>2, <2>4, ForwardSame
  <2> QED
    BY <2>3, <2>4
<1> QED
  BY <1>3, <1>4

LEMMA DetailForward == ASSUME IInv, GotDetail PROVE Forward(view, view')
<1> DEFINE a == Received
           counts == a.out = "ok" /\ a.seq >= view.mark /\ a.seq >= view.seq
           u == IF counts THEN Shown(view, a) ELSE view
           v == [u EXCEPT !.reading = FALSE, !.again = FALSE]
<1>1. view \in Views /\ view.mark \in Int /\ view.seq \in Int
  BY DEF IInv, TypeInv, Views
<1>2. view' = ReadDetail(v) \/ view' = v
  BY DEF GotDetail
<1>3. a.out = "ok" => a.seq \in Nat /\ a.data \in Details
  BY FoundIs DEF GotDetail, IInv
<1>4. u \in Views /\ Forward(view, u)
  <2>1. CASE ~counts
    <3>1. u = view
      BY <2>1
    <3> QED
      BY <1>1, <3>1 DEF Forward
  <2>2. CASE counts
    <3>1. u = Shown(view, a) /\ a.seq \in Nat /\ a.data \in Details /\ a.seq >= view.mark /\ a.seq >= view.seq
      BY <1>3, <2>2
    <3> HIDE DEF u, a
    <3> QED
      BY <1>1, <3>1, ShownIs DEF Forward
  <2> QED
    BY <2>1, <2>2
<1> HIDE DEF u
<1>5. v \in Views /\ SameRun(u, v) /\ v.mark = u.mark /\ ~v.reading
  BY <1>4 DEF Views, SameRun
<1> HIDE DEF v
<1>6. SameRun(v, view') /\ view'.mark = v.mark
  BY <1>2, <1>5, ReadDetailIs DEF SameRun
<1> QED
  BY <1>4, <1>5, <1>6 DEF Forward, SameRun

LEMMA AnswerForward == ASSUME IInv, GotOutcome \/ GotReceipt PROVE Forward(view, view')
<1>1. view \in Views /\ view.mark \in Int
  BY DEF IInv, TypeInv, Views
<1>2. CASE view' = view \/ view' = Refresh(view)
  <2>1. SameRun(view, view') /\ view'.mark = view.mark
    BY <1>1, <1>2, RefreshIs DEF SameRun
  <2> QED
    BY <1>1, <2>1, ForwardSame
<1>3. CASE ~(view' = view \/ view' = Refresh(view))
  <2> DEFINE a == Received
             b == view.chosen # None /\ a.seq > view.seq
             n == a.seq
             v == [view EXCEPT !.mark = n, !.stale = b]
  <2>1. ~GotOutcome
    BY <1>3 DEF GotOutcome
  <2>2. GotReceipt /\ a.out = "ok" /\ a.seq >= view.mark /\ (view' = v \/ view' = Refresh(v))
    BY <1>3, <2>1 DEF GotReceipt
  <2>3. n \in Int /\ n >= view.mark /\ b \in BOOLEAN
    BY <2>2, FoundIs DEF GotReceipt, IInv
  <2> HIDE DEF a, b, n
  <2>4. v \in Views /\ SameRun(view, v) /\ v.mark = n
    BY <1>1, <2>3 DEF Views, SameRun
  <2> HIDE DEF v
  <2>5. SameRun(view, view') /\ view'.mark = n
    BY <2>2, <2>4, RefreshIs DEF SameRun
  <2> QED
    BY <1>1, <2>3, <2>5, ForwardSame
<1> QED
  BY <1>2, <1>3

LEMMA ForwardStep == ASSUME IInv, [Next]_vars PROVE Forward(view, view')
<1>1. view \in Views /\ view.mark \in Int
  BY DEF IInv, TypeInv, Views
<1>2. CASE view' = view
  BY <1>1, <1>2, ForwardSame DEF SameRun
<1>3. CASE OnStatus
  BY <1>1, <1>3, OnStatusView DEF Forward, Views
<1>4. CASE OnEvent \/ GotSnapshot
  BY <1>4, SnapshotForward
<1>5. CASE GotDetail
  BY <1>5, DetailForward
<1>6. CASE GotOutcome \/ GotReceipt
  BY <1>6, AnswerForward
<1>7. ASSUME NEW r \in Runs, Select(r) PROVE Forward(view, view')
  <2>1. view' = ReadDetail(Choose(r)) /\ view.chosen # r
    BY <1>7 DEF Select
  <2>2. view'.chosen = r
    BY <2>1, ChooseIs, ReadDetailIs DEF IInv, SameRun
  <2> QED
    BY <2>1, <2>2 DEF Forward
<1>8. CASE Launch
  <2>1. view' = Choose(draft.run) /\ draft # None /\ draft.run # None
    BY <1>8 DEF Launch
  <2>2. draft.run \in Runs
    BY <2>1 DEF IInv, TypeInv, Forms
  <2> QED
    BY <2>1, <2>2, ChooseIs DEF IInv, Forward
<1>9. CASE UNCHANGED vars
  BY <1>2, <1>9 DEF vars, clientVars
<1>10. CASE Environment /\ acts' = acts
  BY <1>2, <1>10, EnvironmentStep DEF IInv, CoreStep, clientVars
<1>11. CASE OnLate \/ GotPrepared
  BY <1>2, <1>11 DEF OnLate, GotPrepared, clientVars
<1>12. CASE OpenDraft \/ EditDraft \/ CloseDraft \/ Propose \/ AcceptTask \/ Prepare \/ Steer \/ Stop \/ \E o \in Ops : Reconcile(o)
  BY <1>2, <1>12 DEF OpenDraft, EditDraft, CloseDraft, Change, Propose, AcceptTask, Prepare, Steer, Stop, Reconcile
<1> QED
  BY <1>3, <1>4, <1>5, <1>6, <1>7, <1>8, <1>9, <1>10, <1>11, <1>12 DEF Next, Window, User

\* At rest nothing is under way, so what is shown is what there is.
LEMMA ShownAtRest ==
    ASSUME IInv, AtRest, view.connected, view.chosen # None, ~missed, runs[view.chosen] # "none"
    PROVE  view.detail = Detail(view.chosen) /\ ~view.stale
<1>1. inbox = <<>> /\ DOMAIN inbox = {} /\ Awaited = {} /\ core.phase = "ready"
  BY DEF AtRest
<1>2. Watching /\ ~NewsToCome
  BY <1>1 DEF Watching, Quiet, NewsToCome
<1>3. ~view.refreshing /\ ~view.reading
  BY <1>1, KeysDiffer DEF Awaited
<1> QED
  BY <1>2, <1>3 DEF IInv, FreshInv, Refreshes, Rereads, UpToDate

\* While one core serves a run, what is shown of it never goes back, and when everything was
\* answered it is shown as it is.
THEOREM ViewFollowsHolds == Spec => ViewFollows
<1> DEFINE Onward == view'.chosen = view.chosen /\ view'.gen = view.gen /\ view'.seq # -1
                       => /\ view'.seq >= view.seq /\ view'.mark >= view.mark
                          /\ view.detail.state = "ended" => view'.detail.state = "ended"
           Settles == AtRest /\ view.connected /\ view.chosen # None /\ ~missed /\ runs[view.chosen] # "none"
                       => view.detail = Detail(view.chosen) /\ ~view.stale
<1>1. IInv /\ [Next]_vars => [Onward]_vars
  BY ForwardStep DEF Forward
<1>2. IInv => Settles
  BY ShownAtRest
<1>3. Spec => [][Onward]_vars /\ []Settles
  <2> HIDE DEF Onward, Settles
  <2> QED
    BY <1>1, <1>2, InvariantHolds, PTL DEF Spec
<1> QED
  BY <1>3 DEF ViewFollows
====
