------------------------ MODULE TrustedSessionProofs -----------------------
(***************************************************************************)
(* What a trusted conversation promises for any number of turns, approvals *)
(* and messages under way: it starts a turn only when the server runs      *)
(* none, the point it offers to a child is settled, every question of the  *)
(* server is answered once or can still be, and its owner sees nothing but *)
(* what SessionLife allows.                                                *)
(***************************************************************************)
EXTENDS TrustedSession, TLAPS

-----------------------------------------------------------------------------
(* The pipes, as far as the invariant looks into them.                       *)

Elems(q) == {q[i] : i \in 1..Len(q)}
Once(q, S) == \A i, j \in 1..Len(q) : q[i] \in S /\ q[j] \in S => i = j

-----------------------------------------------------------------------------
(* The invariant.                                                            *)

Opening == {Setup[i] : i \in DOMAIN Setup}
Outcomes == {"completed", "failed", "interrupted"}
Calls == [kind : Opening \cup {"turn", "steer", "interrupt"}, turn : 0..MaxTurn]
Requests == Calls \cup [kind : {"answer"}, id : Approval]
Responses == [type : {"response"}, kind : Opening \cup {"turn", "steer"}, value : Rejected..MaxTurn]
News ==
    Responses
    \cup [type : {"started"}, turn : 0..MaxTurn]
    \cup [type : {"ended"}, turn : 1..MaxTurn, outcome : Outcomes]
    \cup [type : {"asked"}, id : Approval, turn : 0..MaxTurn]
    \cup [type : {"resolved"}, id : Approval]

TurnRequests == {m \in Requests : m.kind = "turn"}
Asking(a) == {m \in News : m.type = "asked" /\ m.id = a}

Ops == [kind : {"none", "turn", "steer"} \cup Opening, answer : Awaited..MaxTurn]

MessagesOK ==
    op \in Ops /\ toServer \in Seq(Requests) /\ wire \in Seq(News) /\ owed \subseteq Responses

\* What is under way: one turn is asked for at a time, an interrupt names a turn,
\* and the end of a turn is told as it was.
PipesInv ==
    /\ Once(toServer, TurnRequests)
    /\ \A m \in Elems(toServer) : m.kind = "interrupt" => m.turn # 0
    /\ \A m \in Elems(wire) : m.type = "ended" => m.turn <= Len(turns) /\ m.outcome = turns[m.turn]

\* The server's turns are numbered in order, and it waits for approvals only in one.
ServerInv ==
    /\ turn # 0 => turn = Len(turns) + 1
    /\ asked # {} => turn # 0

\* The bound on turns is kept.
LimitInv == Len(turns) <= MaxTurn /\ (turn # 0 => Len(turns) < MaxTurn)

\* The turn being dispatched: asked for, running, or ended and not yet heard of;
\* all turns before it are over for the session as well.
TurnAsked == Elems(toServer) \cap TurnRequests # {}
DispatchInv ==
    IF dispatch.done
    THEN ~TurnAsked /\ turn = 0 /\ completed = 1..Len(turns)
    ELSE \/ TurnAsked /\ turn = 0 /\ completed = 1..Len(turns)
         \/ ~TurnAsked /\ turn # 0 /\ completed = 1..Len(turns)
         \/ ~TurnAsked /\ turn = 0 /\ turns # <<>> /\ completed = 1..(Len(turns) - 1)

\* A dispatch begins only after the last one is done, and what is known of that one.
SettledInv ==
    /\ status \in {"starting", "ready"} \/ op.kind \in Opening => dispatch.done
    /\ dispatch.done /\ dispatch.id = 0 => op.kind # "turn"
    /\ dispatch.done /\ dispatch.id # 0 =>
         /\ dispatch.id = Len(turns)
         /\ successful = dispatch.id => turns[dispatch.id] = "completed"

TurnInv == PipesInv /\ ServerInv /\ LimitInv /\ DispatchInv /\ SettledInv

\* An approval is on its way, shown or answered, and one of them only.
OnItsWay(a) == Elems(wire) \cap Asking(a) # {}
ApprovalOK(a) ==
    /\ Once(wire, Asking(a)) /\ answers[a] <= 1
    /\ a \in approvals => answers[a] = 0 /\ ~OnItsWay(a)
    /\ OnItsWay(a) => answers[a] = 0
    /\ a \in asked => \A m \in Elems(wire) : ~(m.type = "resolved" /\ m.id = a)
    /\ a \in asked /\ status = "running" => a \in approvals \/ answers[a] > 0 \/ OnItsWay(a)
ApprovalInv == \A a \in Approval : ApprovalOK(a)

\* The session's end.
LifeInv ==
    /\ stop # "none" => status \notin Active
    /\ stop = "grace" => status = "stopping" /\ cleanup = "open"
    /\ cleanup = "closing" => status \in {"stopping", "failed"}
    /\ cleanup \in {"confirmed", "unknown"} => status \in Dead
    /\ status = "failed" => cleanup # "open"
    /\ status = "closed" => cleanup = "confirmed"

IInv == TypeOK /\ MessagesOK /\ TurnInv /\ ApprovalInv /\ LifeInv

-----------------------------------------------------------------------------
(* The pipes: what is in them was written, and once read it is gone.         *)

LEMMA PipeTypes ==
    ASSUME NEW S, NEW q \in Seq(S)
    PROVE  /\ \A m \in S : Append(q, m) \in Seq(S)
           /\ q # <<>> => Head(q) \in S /\ Tail(q) \in Seq(S)
           /\ Elems(q) \subseteq S
BY DEF Elems

LEMMA Written ==
    ASSUME NEW S, NEW q \in Seq(S), NEW m \in S
    PROVE  Elems(Append(q, m)) = Elems(q) \cup {m}
<1> DEFINE p == Append(q, m)
<1>1. Len(p) = Len(q) + 1 /\ p[Len(q) + 1] = m /\ \A i \in 1..Len(q) : p[i] = q[i]
  OBVIOUS
<1>2. Len(q) \in Nat
  OBVIOUS
<1> HIDE DEF p
<1>3. Elems(p) = Elems(q) \cup {m}
  <2>1. ASSUME NEW x \in Elems(p) PROVE x \in Elems(q) \cup {m}
    BY <1>1, <1>2 DEF Elems
  <2>2. ASSUME NEW x \in Elems(q) PROVE x \in Elems(p)
    <3>1. PICK i \in 1..Len(q) : x = q[i]
      BY DEF Elems
    <3> QED
      BY <3>1, <1>1, <1>2 DEF Elems
  <2>3. m \in Elems(p)
    BY <1>1, <1>2 DEF Elems
  <2> QED
    BY <2>1, <2>2, <2>3
<1> QED
  BY <1>3 DEF p

LEMMA Read ==
    ASSUME NEW S, NEW q \in Seq(S), q # <<>>
    PROVE  Head(q) \in Elems(q) /\ Elems(q) = Elems(Tail(q)) \cup {Head(q)}
<1> DEFINE t == Tail(q)
<1>1. Len(q) \in Nat /\ Len(q) > 0 /\ Len(t) = Len(q) - 1 /\ Head(q) = q[1]
       /\ \A i \in 1..Len(t) : t[i] = q[i + 1]
  OBVIOUS
<1> HIDE DEF t
<1>2. ASSUME NEW x \in Elems(t) PROVE x \in Elems(q)
  <2>1. PICK i \in 1..Len(t) : x = t[i]
    BY DEF Elems
  <2>2. x = q[i + 1] /\ i + 1 \in 1..Len(q)
    BY <1>1, <2>1
  <2> QED
    BY <2>2 DEF Elems
<1>3. Head(q) \in Elems(q)
  BY <1>1 DEF Elems
<1>4. ASSUME NEW x \in Elems(q), x # Head(q) PROVE x \in Elems(t)
  <2>1. PICK i \in 1..Len(q) : x = q[i]
    BY DEF Elems
  <2>2. i - 1 \in 1..Len(t) /\ x = t[i - 1]
    BY <1>1, <1>4, <2>1
  <2> QED
    BY <2>2 DEF Elems
<1> QED
  BY <1>2, <1>3, <1>4 DEF t

LEMMA WrittenOnce ==
    ASSUME NEW S, NEW q \in Seq(S), NEW m \in S, NEW T, Once(q, T), m \notin T \/ Elems(q) \cap T = {}
    PROVE  Once(Append(q, m), T)
<1> DEFINE p == Append(q, m)
<1>1. Len(p) = Len(q) + 1 /\ p[Len(q) + 1] = m /\ Len(q) \in Nat /\ \A i \in 1..Len(q) : p[i] = q[i]
  OBVIOUS
<1> HIDE DEF p
<1>2. ASSUME NEW i \in 1..Len(p), NEW j \in 1..Len(p), p[i] \in T, p[j] \in T
      PROVE  i = j
  <2>1. CASE i \in 1..Len(q) /\ j \in 1..Len(q)
    BY <2>1, <1>1, <1>2 DEF Once
  <2>2. CASE m \notin T
    BY <2>1, <2>2, <1>1, <1>2
  <2>3. CASE Elems(q) \cap T = {}
    <3>1. i \notin 1..Len(q) /\ j \notin 1..Len(q)
      BY <2>3, <1>1, <1>2 DEF Elems
    <3> QED
      BY <3>1, <1>1
  <2> QED
    BY <2>2, <2>3
<1> QED
  BY <1>2 DEF Once, p

LEMMA ReadOnce ==
    ASSUME NEW S, NEW q \in Seq(S), NEW T, Once(q, T), q # <<>>
    PROVE  Once(Tail(q), T) /\ (Head(q) \in T => Elems(Tail(q)) \cap T = {})
<1> DEFINE t == Tail(q)
<1>1. Len(q) \in Nat /\ Len(q) > 0 /\ Len(t) = Len(q) - 1 /\ Head(q) = q[1]
       /\ \A i \in 1..Len(t) : t[i] = q[i + 1]
  OBVIOUS
<1> HIDE DEF t
<1>2. \A i \in 1..Len(t) : i + 1 \in 1..Len(q) /\ i + 1 # 1 /\ t[i] = q[i + 1]
  BY <1>1
<1>3. Once(t, T)
  <2>1. ASSUME NEW i \in 1..Len(t), NEW j \in 1..Len(t), t[i] \in T, t[j] \in T
        PROVE  i = j
    <3>1. i + 1 = j + 1
      BY <1>2, <2>1 DEF Once
    <3> QED
      BY <3>1
  <2> QED
    BY <2>1 DEF Once
<1>4. ASSUME Head(q) \in T, NEW x \in Elems(t), x \in T PROVE FALSE
  <2>1. PICK i \in 1..Len(t) : x = t[i]
    BY DEF Elems
  <2>2. 1 \in 1..Len(q) /\ q[i + 1] \in T /\ q[1] \in T
    BY <1>1, <1>2, <1>4, <2>1
  <2> QED
    BY <1>2, <2>2 DEF Once
<1> QED
  BY <1>3, <1>4 DEF t

-----------------------------------------------------------------------------
(* The messages.                                                             *)

LEMMA Names ==
    /\ Opening \subseteq {"initialize", "thread", "clear", "goal"} /\ Setup # <<>>
    /\ Len(Setup) \in 1..4 /\ DOMAIN Setup = 1..Len(Setup) /\ \A i \in 1..Len(Setup) : Setup[i] \in Opening
    /\ Awaited = -2 /\ Rejected = -1
<1>1. CASE Forked
  <2>1. Setup = <<"initialize", "thread", "clear", "goal">>
    BY <1>1 DEF Setup
  <2>2. Setup # <<>> /\ Len(Setup) = 4 /\ DOMAIN Setup = 1..4
        /\ \A i \in 1..4 : Setup[i] \in {"initialize", "thread", "clear", "goal"}
    BY <2>1
  <2> QED
    BY <2>2 DEF Opening, Awaited, Rejected
<1>2. CASE ~Forked
  <2>1. Setup = <<"initialize", "thread">>
    BY <1>2 DEF Setup
  <2>2. Setup # <<>> /\ Len(Setup) = 2 /\ DOMAIN Setup = 1..2
        /\ \A i \in 1..2 : Setup[i] \in {"initialize", "thread", "clear", "goal"}
    BY <2>1
  <2> QED
    BY <2>2 DEF Opening, Awaited, Rejected
<1> QED
  BY <1>1, <1>2

\* Where the set-up stands.
Rest == SelectInSeq(Setup, LAMBDA k : k = op.kind)
LEMMA RestFacts == Rest \in 0..Len(Setup) /\ (Rest > 0 => op.kind \in Opening)
<1> DEFINE I == {i \in 1..Len(Setup) : Setup[i] = op.kind}
<1>1. Rest = IF I # {} THEN CHOOSE i \in I : \A j \in I : i <= j ELSE 0
  BY DEF Rest, SelectInSeq, Min
<1>2. I # {} => \E i \in I : \A j \in I : i <= j
  <2>1. I \subseteq {1, 2, 3, 4}
    BY Names
  <2> HIDE DEF I
  <2>2. 1 \in I \/ (1 \notin I /\ 2 \in I) => \E i \in I : \A j \in I : i <= j
    BY <2>1
  <2>3. CASE 1 \notin I /\ 2 \notin I
    <3>1. I \subseteq {3, 4}
      BY <2>1, <2>3
    <3>2. CASE 3 \in I
      BY <3>1, <3>2
    <3>3. CASE 3 \notin I
      <4>1. I # {} => I = {4}
        BY <3>1, <3>3
      <4> QED
        BY <4>1
    <3> QED
      BY <3>2, <3>3
  <2> QED
    BY <2>2, <2>3
<1>3. I # {} => Rest \in I
  BY <1>1, <1>2
<1> QED
  BY <1>1, <1>3, Names

LEMMA NewsFacts ==
    ASSUME NEW m \in News
    PROVE  /\ m.type \in {"response", "started", "ended", "asked", "resolved"}
           /\ m.type = "response" => m.kind \in Opening \cup {"turn", "steer"} /\ m.value \in Rejected..MaxTurn
           /\ m.type = "started" => m.turn \in 0..MaxTurn
           /\ m.type = "ended" => m.turn \in 1..MaxTurn /\ m.outcome \in Outcomes
           /\ m.type = "asked" => m.id \in Approval /\ m.turn \in 0..MaxTurn /\ m \in Asking(m.id)
           /\ m.type = "resolved" => m.id \in Approval
           /\ \A a : m \in Asking(a) => m.type = "asked" /\ m.id = a
BY DEF News, Responses, Asking

LEMMA RequestFacts ==
    ASSUME NEW m \in Requests
    PROVE  /\ m.kind = "answer" => m.id \in Approval
           /\ m.kind # "answer" => m.kind \in Opening \cup {"turn", "steer", "interrupt"} /\ m.turn \in 0..MaxTurn
           /\ (m.kind = "turn") <=> (m \in TurnRequests)
<1>1. (m.kind = "turn") <=> (m \in TurnRequests)
  BY DEF TurnRequests
<1>2. CASE m \in Calls
  <2>1. m.kind \in Opening \cup {"turn", "steer", "interrupt"} /\ m.turn \in 0..MaxTurn
    BY <1>2 DEF Calls
  <2> QED
    BY <1>1, <2>1, Names
<1>3. CASE m \in [kind : {"answer"}, id : Approval]
  BY <1>1, <1>3
<1> QED
  BY <1>2, <1>3 DEF Requests

LEMMA Sends ==
    /\ \A k \in Opening \cup {"turn", "steer", "interrupt"} :
         \A t \in 0..MaxTurn : Request(k, t) \in Requests /\ Request(k, t).kind = k /\ Request(k, t).turn = t
    /\ \A a \in Approval : LET m == [kind |-> "answer", id |-> a] IN m \in Requests /\ m.kind = "answer"
BY DEF Requests, Calls, Request

LEMMA Posted ==
    ASSUME MessagesOK, PipesInv, NEW m \in Requests, toServer' = Append(toServer, m),
           m.kind = "turn" => ~TurnAsked, m.kind = "interrupt" => m.turn # 0
    PROVE  /\ toServer' \in Seq(Requests) /\ Once(toServer', TurnRequests)
           /\ \A n \in Elems(toServer') : n.kind = "interrupt" => n.turn # 0
           /\ TurnAsked' <=> TurnAsked \/ m.kind = "turn"
<1>1. toServer' \in Seq(Requests) /\ Elems(toServer') = Elems(toServer) \cup {m}
  BY PipeTypes, Written DEF MessagesOK
<1>2. Once(toServer', TurnRequests)
  BY WrittenOnce, RequestFacts DEF MessagesOK, PipesInv, TurnAsked
<1> QED
  BY <1>1, <1>2, RequestFacts DEF PipesInv, TurnAsked

LEMMA Taken ==
    ASSUME MessagesOK, PipesInv, toServer # <<>>, toServer' = Tail(toServer)
    PROVE  /\ Head(toServer) \in Requests /\ toServer' \in Seq(Requests) /\ Once(toServer', TurnRequests)
           /\ \A n \in Elems(toServer') : n.kind = "interrupt" => n.turn # 0
           /\ Head(toServer).kind = "interrupt" => Head(toServer).turn # 0
           /\ Head(toServer).kind = "turn" => TurnAsked /\ ~TurnAsked'
           /\ Head(toServer).kind # "turn" => (TurnAsked' <=> TurnAsked)
<1>1. /\ Head(toServer) \in Requests /\ toServer' \in Seq(Requests)
      /\ Head(toServer) \in Elems(toServer) /\ Elems(toServer) = Elems(toServer') \cup {Head(toServer)}
  BY PipeTypes, Read DEF MessagesOK
<1>2. Once(toServer', TurnRequests) /\ (Head(toServer) \in TurnRequests => Elems(toServer') \cap TurnRequests = {})
  BY ReadOnce DEF MessagesOK, PipesInv
<1> QED
  BY <1>1, <1>2, RequestFacts DEF PipesInv, TurnAsked

LEMMA Told ==
    ASSUME MessagesOK, NEW m \in News, wire' = Append(wire, m)
    PROVE  /\ wire' \in Seq(News) /\ Elems(wire') = Elems(wire) \cup {m}
           /\ \A a : /\ Once(wire, Asking(a)) /\ (m \notin Asking(a) \/ ~OnItsWay(a)) => Once(wire', Asking(a))
                     /\ OnItsWay(a)' <=> OnItsWay(a) \/ m \in Asking(a)
<1>1. wire' \in Seq(News) /\ Elems(wire') = Elems(wire) \cup {m}
  BY PipeTypes, Written DEF MessagesOK
<1>2. \A a : Once(wire, Asking(a)) /\ (m \notin Asking(a) \/ ~OnItsWay(a)) => Once(wire', Asking(a))
  BY WrittenOnce DEF MessagesOK, OnItsWay
<1> QED
  BY <1>1, <1>2 DEF OnItsWay

LEMMA Heard ==
    ASSUME MessagesOK, wire # <<>>, wire' = Tail(wire)
    PROVE  /\ Head(wire) \in News /\ Head(wire) \in Elems(wire)
           /\ wire' \in Seq(News) /\ Elems(wire') \subseteq Elems(wire)
           /\ \A a : Once(wire, Asking(a)) =>
                 /\ Once(wire', Asking(a))
                 /\ Head(wire) \in Asking(a) => OnItsWay(a) /\ ~OnItsWay(a)'
                 /\ Head(wire) \notin Asking(a) => (OnItsWay(a)' <=> OnItsWay(a))
<1>1. /\ Head(wire) \in News /\ wire' \in Seq(News)
      /\ Head(wire) \in Elems(wire) /\ Elems(wire) = Elems(wire') \cup {Head(wire)}
  BY PipeTypes, Read DEF MessagesOK
<1>2. \A a : Once(wire, Asking(a)) =>
         Once(wire', Asking(a)) /\ (Head(wire) \in Asking(a) => Elems(wire') \cap Asking(a) = {})
  BY ReadOnce DEF MessagesOK
<1> QED
  BY <1>1, <1>2 DEF OnItsWay

-----------------------------------------------------------------------------
(* The types.                                                                *)

Sessions ==
    /\ status \in Active \cup {"stopping"} \cup Dead /\ op \in Ops
    /\ dispatch \in [id : 0..MaxTurn, done : BOOLEAN]
    /\ successful \in 0..MaxTurn /\ completed \subseteq 1..MaxTurn /\ approvals \subseteq Approval
    /\ stop \in {"none", "grace", "closing", "done"}
    /\ cleanup \in {"open", "closing", "confirmed", "unknown"} /\ answers \in [Approval -> Nat]
Servers ==
    /\ turn \in 0..MaxTurn /\ turns \in Seq(Outcomes) /\ owed \subseteq Responses /\ asked \subseteq Approval
Pipes == toServer \in Seq(Requests) /\ wire \in Seq(News)

LEMMA AllTypes == TypeOK /\ MessagesOK <=> Sessions /\ Servers /\ Pipes
BY DEF TypeOK, MessagesOK, Sessions, Servers, Pipes, Outcomes, Ops, Opening, Active, Dead

LEMMA Posting ==
    ASSUME Pipes, NEW m, Write(m), m \in Requests
    PROVE  toServer' \in Seq(Requests)
BY PipeTypes DEF Pipes, Write

LEMMA Telling ==
    ASSUME Pipes, NEW m, Tell(m), m \in News
    PROVE  wire' \in Seq(News)
BY PipeTypes DEF Pipes, Tell

LEMMA OpTypes ==
    /\ NoOp \in Ops /\ \A k \in Opening \cup {"turn", "steer"} : Sent(k) \in Ops
    /\ op \in Ops => op.answer \in Awaited..MaxTurn /\ op.kind \in {"none", "turn", "steer"} \cup Opening
                      /\ \A v \in Rejected..MaxTurn : [op EXCEPT !.answer = v] \in Ops
BY ConstantsAssumption DEF Ops, NoOp, Sent, Awaited, Rejected

LEMMA SessionSteps ==
    ASSUME Sessions, Servers, Pipes,
           \/ Start \/ Send \/ Stop \/ (\E a \in Approval : Decide(a))
           \/ Fails \/ GraceEnds \/ Closes \/ StopResolves
    PROVE  Sessions' /\ Servers' /\ Pipes'
<1>a. /\ \A k \in Opening \cup {"turn", "steer", "interrupt"} : \A t \in 0..MaxTurn : Request(k, t) \in Requests
      /\ \A a \in Approval : [kind |-> "answer", id |-> a] \in Requests
  BY Sends
<1>b. \A m \in Requests : Write(m) => toServer' \in Seq(Requests)
  BY Posting
<1>c. UNCHANGED server => Servers'
  BY DEF server, Servers
<1>d. dispatch.id \in 0..MaxTurn /\ Setup[1] \in Opening
  BY Names DEF Sessions
<1>e. 0 \in 0..MaxTurn
  BY ConstantsAssumption
<1>1. CASE Start
  BY <1>1, <1>a, <1>b, <1>c, <1>d, <1>e, OpTypes DEF Start, Sessions, Pipes
<1>2. CASE Send
  <2>1. Servers' /\ UNCHANGED <<completed, stop, cleanup, wire, answers>>
    BY <1>2, <1>c DEF Send
  <2>2. CASE Begin
    BY <1>a, <1>b, <1>e, <2>1, <2>2, OpTypes DEF Begin, Sessions, Pipes, Active
  <2>3. CASE op' = Sent("steer") /\ Write(Request("steer", dispatch.id))
             /\ UNCHANGED <<status, dispatch, successful, approvals>>
    BY <1>a, <1>b, <1>d, <2>1, <2>3, OpTypes DEF Sessions, Pipes
  <2> QED
    BY <1>2, <2>2, <2>3 DEF Send
<1>3. CASE Stop
  BY <1>3, <1>a, <1>b, <1>c, <1>d, OpTypes DEF Stop, Interruptible, Sessions, Pipes
<1>4. CASE \E a \in Approval : Decide(a)
  BY <1>4, <1>a, <1>b, <1>c DEF Decide, Answer, Decided, Sessions, Pipes
<1>5. CASE Fails
  BY <1>5, OpTypes DEF Fails, Failed, Sessions, Servers, Pipes, server, Dead
<1>6. CASE GraceEnds
  BY <1>6, <1>c, OpTypes DEF GraceEnds, Sessions, Pipes
<1>7. CASE Closes
  BY <1>7, <1>c DEF Closes, ClosedAs, Sessions, Pipes, Dead
<1>8. CASE StopResolves
  BY <1>8, <1>c DEF StopResolves, Sessions, Pipes
<1> QED
  BY <1>1, <1>2, <1>3, <1>4, <1>5, <1>6, <1>7, <1>8

LEMMA ServerSteps ==
    ASSUME Sessions, Servers, Pipes, TurnInv,
           \/ ServerTakes \/ ServerResponds \/ ServerEnds \/ ServerAnnounces
           \/ \E a \in Approval : ServerAsks(a) \/ ServerResolves(a)
    PROVE  Sessions' /\ Servers' /\ Pipes'
<1>a. UNCHANGED <<session, answers>> => Sessions'
  BY DEF session, Sessions
<1>b. \A m \in News : Tell(m) => wire' \in Seq(News)
  BY Telling
<1>c. /\ \A o \in Outcomes : Append(turns, o) \in Seq(Outcomes)
      /\ turns # <<>> => Len(turns) \in Nat /\ Len(turns) # 0 /\ Last(turns) \in Outcomes
      /\ Len(turns) \in Nat
  BY DEF Servers, Last
<1>d. /\ \A t \in 0..MaxTurn : [type |-> "started", turn |-> t] \in News
      /\ \A t \in 1..MaxTurn : \A o \in Outcomes : [type |-> "ended", turn |-> t, outcome |-> o] \in News
      /\ \A a \in Approval : /\ [type |-> "resolved", id |-> a] \in News
                             /\ \A t \in 0..MaxTurn : [type |-> "asked", id |-> a, turn |-> t] \in News
      /\ Responses \subseteq News
      /\ \A k \in Opening \cup {"turn", "steer"} : \A v \in Rejected..MaxTurn : Response(k, v) \in Responses
  BY DEF News, Responses, Response
<1>1. CASE ServerTakes
  <2> DEFINE m == Head(toServer)
  <2>1. /\ toServer' \in Seq(Requests) /\ m \in Requests
        /\ toServer # <<>>
    BY <1>1, PipeTypes DEF ServerTakes, Pipes
  <2>2. /\ m.kind = "answer" => m.id \in Approval
        /\ m.kind # "answer" => m.kind \in Opening \cup {"turn", "steer", "interrupt"} /\ m.turn \in 0..MaxTurn
        /\ m.kind = "interrupt" => m.turn # 0
    BY <2>1, RequestFacts, Read DEF TurnInv, PipesInv, Pipes
  <2>3. /\ MaxTurn \in Nat /\ Rejected \in Rejected..MaxTurn /\ 0 \in Rejected..MaxTurn
        /\ \A t \in 0..MaxTurn : t \in Rejected..MaxTurn
    BY ConstantsAssumption, Names
  <2> HIDE DEF m
  <2>4. CASE m.kind = "turn"
    <3>1. turn' \in 1..MaxTurn /\ owed' = owed \cup {Response("turn", turn')}
          /\ UNCHANGED <<turns, asked, wire, session, answers>>
      BY <1>1, <1>c, <2>3, <2>4 DEF ServerTakes, m
    <3>2. Response("turn", turn') \in Responses /\ turn' \in 0..MaxTurn
      BY <1>d, <2>3, <3>1
    <3> QED
      BY <1>a, <2>1, <3>1, <3>2 DEF Servers, Pipes
  <2>5. CASE m.kind = "steer"
    <3>1. PICK v \in Rejected..MaxTurn : owed' = owed \cup {Response("steer", v)}
      BY <1>1, <2>3, <2>5 DEF ServerTakes, Servers, m
    <3>2. UNCHANGED <<turn, turns, asked, wire, session, answers>>
      BY <1>1, <2>5 DEF ServerTakes, m
    <3> QED
      BY <1>a, <1>d, <2>1, <3>1, <3>2 DEF Servers, Pipes
  <2>6. CASE m.kind = "interrupt"
    <3>1. m.turn \in 1..MaxTurn /\ "interrupted" \in Outcomes /\ 0 \in 0..MaxTurn
      BY <2>2, <2>3, <2>6, Names DEF Outcomes
    <3> QED
      BY <1>1, <1>a, <1>b, <1>c, <1>d, <2>1, <2>6, <3>1 DEF ServerTakes, Servers, Pipes, m
  <2>7. CASE m.kind = "answer"
    BY <1>1, <1>a, <2>1, <2>7 DEF ServerTakes, Servers, Pipes, m
  <2>8. CASE m.kind \in Opening /\ m.kind \notin {"turn", "steer", "interrupt", "answer"}
    BY <1>1, <1>a, <1>d, <2>1, <2>3, <2>8 DEF ServerTakes, Servers, Pipes, m
  <2> QED
    BY <2>2, <2>4, <2>5, <2>6, <2>7, <2>8
<1>2. CASE ServerResponds
  BY <1>2, <1>a, <1>b, <1>d DEF ServerResponds, Servers, Pipes
<1>3. CASE ServerEnds
  <2>1. turn \in 1..MaxTurn /\ 0 \in 0..MaxTurn /\ {"completed", "failed"} \subseteq Outcomes
    BY <1>3, ConstantsAssumption DEF ServerEnds, Servers, Outcomes
  <2> QED
    BY <1>3, <1>a, <1>b, <1>c, <1>d, <2>1 DEF ServerEnds, Servers, Pipes
<1>4. CASE ServerAnnounces
  <2>1. turns # <<>> => Len(turns) \in 1..MaxTurn
    BY <1>c DEF TurnInv, LimitInv
  <2>2. Servers' /\ toServer' = toServer /\ UNCHANGED <<session, answers>>
    BY <1>4 DEF ServerAnnounces, server, Servers
  <2>3. wire' \in Seq(News)
    BY <1>4, <1>b, <1>c, <1>d, <2>1 DEF ServerAnnounces, Servers
  <2> QED
    BY <1>a, <2>2, <2>3 DEF Pipes
<1>5. CASE \E a \in Approval : ServerAsks(a) \/ ServerResolves(a)
  <2>1. PICK a \in Approval : ServerAsks(a) \/ ServerResolves(a)
    BY <1>5
  <2>2. wire' \in Seq(News)
    BY <1>b, <1>d, <2>1 DEF ServerAsks, ServerResolves, Servers
  <2> QED
    BY <1>a, <2>1, <2>2 DEF ServerAsks, ServerResolves, Servers, Pipes
<1> QED
  BY <1>1, <1>2, <1>3, <1>4, <1>5

\* What receive() makes of a message: it is an answer, it is nothing to the
\* session, or it names, ends, asks or withdraws.
Ignored == UNCHANGED <<status, op, dispatch, successful, completed, approvals, stop, cleanup, toServer, answers>>
LEMMA Hearing ==
    ASSUME Receive, Pipes, NEW m, m = Head(wire)
    PROVE  /\ m \in News /\ wire' = Tail(wire) /\ wire # <<>> /\ wire' \in Seq(News) /\ status \notin Dead
           /\ UNCHANGED <<turn, turns, owed, asked>>
           /\ \/ /\ m.type = "response" /\ op' = [op EXCEPT !.answer = m.value]
                 /\ UNCHANGED <<status, dispatch, successful, completed, approvals, stop, cleanup, toServer, answers>>
              \/ m.type \in {"response", "started", "ended"} /\ Ignored
              \/ /\ m.type = "started" /\ Heeded(m.turn) /\ dispatch' = [dispatch EXCEPT !.id = m.turn]
                 /\ UNCHANGED <<status, op, successful, completed, approvals, stop, cleanup, toServer, answers>>
              \/ m.type = "ended" /\ Heeded(m.turn) /\ TurnEnds(m.turn, m.outcome)
              \/ m.type = "asked" /\ Asked(m.id, m.turn)
              \/ /\ m.type = "resolved" /\ approvals' = Withdrawn(m.id)
                 /\ UNCHANGED <<status, op, dispatch, successful, completed, stop, cleanup, toServer, answers>>
BY PipeTypes DEF Receive, Pipes, Ignored, session, server

LEMMA ReceiveTypes ==
    ASSUME Sessions, Servers, Pipes, Receive
    PROVE  Sessions' /\ Servers' /\ Pipes'
<1> DEFINE m == Head(wire)
<1>1. Servers' /\ wire' \in Seq(News) /\ m \in News
  BY Hearing DEF Servers
<1>2. /\ toServer \in Seq(Requests)
      /\ \A a \in Approval : [kind |-> "answer", id |-> a] \in Requests
      /\ \A n \in Requests : Write(n) => toServer' \in Seq(Requests)
  BY Sends, Posting DEF Pipes
<1> SUFFICES Sessions' /\ toServer' \in Seq(Requests)
  BY <1>1 DEF Pipes
<1>3. CASE m.type = "response" /\ op' = [op EXCEPT !.answer = m.value]
           /\ UNCHANGED <<status, dispatch, successful, completed, approvals, stop, cleanup, toServer, answers>>
  BY <1>1, <1>2, <1>3, NewsFacts, OpTypes DEF Sessions
<1>4. CASE Ignored
  BY <1>2, <1>4 DEF Ignored, Sessions
<1>5. CASE m.type = "started" /\ dispatch' = [dispatch EXCEPT !.id = m.turn]
           /\ UNCHANGED <<status, op, successful, completed, approvals, stop, cleanup, toServer, answers>>
  BY <1>1, <1>2, <1>5, NewsFacts DEF Sessions
<1>6. CASE m.type = "ended" /\ TurnEnds(m.turn, m.outcome)
  <2>1. m.turn \in 1..MaxTurn /\ Succeeded(m.turn, m.outcome) \in 0..MaxTurn /\ m.turn \in 0..MaxTurn
    BY <1>1, <1>6, NewsFacts, ConstantsAssumption DEF Succeeded
  <2> HIDE DEF m
  <2> QED
    BY <1>2, <1>6, <2>1, OpTypes DEF TurnEnds, Sessions, Active
<1>7. CASE m.type = "asked" /\ Asked(m.id, m.turn)
  <2>1. m.id \in Approval /\ m.turn \in 0..MaxTurn
    BY <1>1, <1>7, NewsFacts
  <2> HIDE DEF m
  <2> QED
    BY <1>2, <1>7, <2>1 DEF Asked, Answer, Sessions
<1>8. CASE m.type = "resolved" /\ approvals' = Withdrawn(m.id)
           /\ UNCHANGED <<status, op, dispatch, successful, completed, stop, cleanup, toServer, answers>>
  BY <1>2, <1>8 DEF Withdrawn, Sessions
<1> QED
  BY <1>3, <1>4, <1>5, <1>6, <1>7, <1>8, Hearing

\* What a continuation does: the session fails, the set-up goes on or the first
\* turn begins, or the request is over.
LEMMA Continuing ==
    ASSUME Continue, op \in Ops
    PROVE  /\ UNCHANGED <<completed, turn, turns, owed, asked, wire, answers>>
           /\ \/ status \in Active /\ Failed /\ UNCHANGED <<dispatch, successful, toServer>>
              \/ /\ op.kind \in Opening /\ status \in Active
                 /\ \E k \in Opening : op' = Sent(k) /\ Write(Request(k, 0))
                 /\ UNCHANGED <<status, dispatch, successful, approvals, stop, cleanup>>
              \/ op.kind \in Opening /\ status \in Active /\ Begin /\ UNCHANGED <<stop, cleanup>>
              \/ /\ \/ UNCHANGED dispatch
                    \/ /\ op.kind = "turn" /\ op.answer \in 0..MaxTurn /\ Confirmable(op.answer)
                       /\ dispatch' = [dispatch EXCEPT !.id = op.answer]
                 /\ op' = NoOp /\ UNCHANGED <<status, successful, approvals, stop, cleanup, toServer>>
<1>1. op.answer # Awaited /\ op.answer \in Awaited..MaxTurn
  BY OpTypes DEF Continue, Quiet
<1>2. op.answer # Rejected => op.answer \in 0..MaxTurn
  BY <1>1, Names
<1>3. /\ SelectInSeq(Setup, LAMBDA k : k = op.kind) = Rest
      /\ Rest > 0 => op.kind \in Opening
      /\ Rest > 0 /\ Rest < Len(Setup) => Setup[Rest + 1] \in Opening
  BY RestFacts, Names DEF Rest
<1> QED
  BY <1>2, <1>3 DEF Continue, server

LEMMA ContinueTypes ==
    ASSUME Sessions, Servers, Pipes, Continue
    PROVE  Sessions' /\ Servers' /\ Pipes'
<1>1. op \in Ops /\ Servers' /\ wire' \in Seq(News) /\ UNCHANGED <<completed, answers>>
  BY Continuing DEF Sessions, Servers, Pipes
<1>2. /\ toServer \in Seq(Requests) /\ 0 \in 0..MaxTurn
      /\ \A k \in Opening \cup {"turn"} : Write(Request(k, 0)) => toServer' \in Seq(Requests)
  BY Sends, Posting, ConstantsAssumption DEF Pipes
<1> SUFFICES Sessions' /\ toServer' \in Seq(Requests)
  BY <1>1 DEF Pipes
<1>3. CASE Failed /\ UNCHANGED <<dispatch, successful, toServer>>
  BY <1>1, <1>2, <1>3, OpTypes DEF Failed, Sessions, Dead
<1>4. CASE /\ \E k \in Opening : op' = Sent(k) /\ Write(Request(k, 0))
           /\ UNCHANGED <<status, dispatch, successful, approvals, stop, cleanup>>
  BY <1>1, <1>2, <1>4, OpTypes DEF Sessions
<1>5. CASE Begin /\ UNCHANGED <<stop, cleanup>>
  BY <1>1, <1>2, <1>5, OpTypes DEF Begin, Sessions, Active
<1>6. CASE /\ UNCHANGED dispatch \/ (op.answer \in 0..MaxTurn /\ dispatch' = [dispatch EXCEPT !.id = op.answer])
           /\ op' = NoOp /\ UNCHANGED <<status, successful, approvals, stop, cleanup, toServer>>
  BY <1>1, <1>2, <1>6, OpTypes DEF Sessions
<1> QED
  BY <1>1, <1>3, <1>4, <1>5, <1>6, Continuing

LEMMA TypeStep == TypeOK /\ MessagesOK /\ TurnInv /\ [Next]_vars => TypeOK' /\ MessagesOK'
<1> SUFFICES ASSUME Sessions, Servers, Pipes, TurnInv, [Next]_vars PROVE Sessions' /\ Servers' /\ Pipes'
  <2>1. TypeOK' /\ MessagesOK' <=> Sessions' /\ Servers' /\ Pipes'
    BY DEF TypeOK, MessagesOK, Sessions, Servers, Pipes, Outcomes, Ops, Opening, Active, Dead
  <2> QED
    BY <2>1, AllTypes
<1>1. CASE UNCHANGED vars
  BY <1>1 DEF vars, session, server, Sessions, Servers, Pipes
<1> QED
  BY <1>1, SessionSteps, ServerSteps, ReceiveTypes, ContinueTypes DEF Next

-----------------------------------------------------------------------------
(* The turns.                                                                *)

\* A step that neither asks for a turn, runs, ends nor hears of one.
LEMMA TurnFrame ==
    ASSUME TurnInv, UNCHANGED <<turn, turns, dispatch, completed, successful>>,
           Once(toServer', TurnRequests), \A m \in Elems(toServer') : m.kind = "interrupt" => m.turn # 0,
           TurnAsked' <=> TurnAsked,
           \A m \in Elems(wire') : m.type = "ended" => m \in Elems(wire),
           asked' # {} => turn # 0,
           op'.kind = "turn" => op.kind = "turn",
           status' \in {"starting", "ready"} \/ op'.kind \in Opening =>
               status \in {"starting", "ready"} \/ op.kind \in Opening
    PROVE  TurnInv'
<1>1. PipesInv'
  BY DEF TurnInv, PipesInv
<1>2. ServerInv' /\ LimitInv'
  BY DEF TurnInv, ServerInv, LimitInv
<1>3. DispatchInv'
  BY DEF TurnInv, DispatchInv
<1>4. SettledInv'
  BY DEF TurnInv, SettledInv
<1> QED
  BY <1>1, <1>2, <1>3, <1>4 DEF TurnInv

LEMMA Waiting ==
    ASSUME TurnInv, UNCHANGED toServer
    PROVE  /\ Once(toServer', TurnRequests) /\ (TurnAsked' <=> TurnAsked)
           /\ \A m \in Elems(toServer') : m.kind = "interrupt" => m.turn # 0
BY DEF TurnInv, PipesInv, TurnAsked

LEMMA OpKinds ==
    /\ NoOp.kind = "none" /\ "none" \notin Opening /\ "turn" \notin Opening /\ "steer" \notin Opening
    /\ \A k : Sent(k).kind = k
BY Names DEF NoOp, Sent

\* begin(): all is settled before, and one turn is asked for after it.
LEMMA BeginTurns ==
    ASSUME TurnInv, Pipes, MessagesOK, dispatch.done, Begin, UNCHANGED <<completed, turn, turns, asked, wire>>
    PROVE  TurnInv'
<1>1. 0 \in 0..MaxTurn
  BY ConstantsAssumption
<1>2. ~TurnAsked /\ turn = 0 /\ completed = 1..Len(turns)
  BY DEF TurnInv, DispatchInv
<1>3. PICK m \in Requests : m.kind = "turn" /\ toServer' = Append(toServer, m)
  BY <1>1, Sends DEF Begin, Write
<1>4. /\ Once(toServer', TurnRequests) /\ TurnAsked'
      /\ \A n \in Elems(toServer') : n.kind = "interrupt" => n.turn # 0
  BY <1>2, <1>3, Posted DEF TurnInv
<1>5. PipesInv' /\ ServerInv' /\ LimitInv'
  BY <1>4 DEF TurnInv, PipesInv, ServerInv, LimitInv
<1>6. dispatch'.done = FALSE /\ status' = "running" /\ op'.kind = "turn"
  BY OpKinds DEF Begin
<1>7. DispatchInv' /\ SettledInv'
  BY <1>2, <1>4, <1>6, OpKinds DEF DispatchInv, SettledInv
<1> QED
  BY <1>5, <1>7 DEF TurnInv

LEMMA SessionTurns ==
    ASSUME MessagesOK, Sessions, Pipes, TurnInv,
           \/ Start \/ Send \/ Stop \/ (\E a \in Approval : Decide(a))
           \/ Fails \/ GraceEnds \/ Closes \/ StopResolves
    PROVE  TurnInv'
<1>0. PipesInv /\ SettledInv /\ (asked # {} => turn # 0)
  BY DEF TurnInv, ServerInv
<1>a. \A m \in Requests : m.kind \notin {"turn", "interrupt"} /\ toServer' = Append(toServer, m) =>
         /\ Once(toServer', TurnRequests) /\ (TurnAsked' <=> TurnAsked)
         /\ \A n \in Elems(toServer') : n.kind = "interrupt" => n.turn # 0
  BY <1>0, Posted
<1>b. /\ \A k \in Opening : k \notin {"turn", "interrupt"}
      /\ 0 \in 0..MaxTurn /\ dispatch.id \in 0..MaxTurn /\ Setup[1] \in Opening
  BY Names, ConstantsAssumption DEF Sessions
<1>1. CASE Start
  <2>1. PICK m \in Requests : m.kind \in Opening /\ toServer' = Append(toServer, m)
    BY <1>1, <1>b, Sends DEF Start, Write
  <2> QED
    BY <1>1, <1>0, <1>a, <1>b, <2>1, TurnFrame, OpKinds DEF Start, server
<1>2. CASE Send
  <2>1. CASE status = "ready" /\ Begin
    BY <1>2, <1>0, <2>1, BeginTurns DEF Send, SettledInv, server
  <2>2. CASE status = "running" /\ op' = Sent("steer") /\ Write(Request("steer", dispatch.id))
             /\ UNCHANGED <<status, dispatch, successful, approvals>>
    <3>1. PICK m \in Requests : m.kind = "steer" /\ toServer' = Append(toServer, m)
      BY <1>b, <2>2, Sends DEF Write
    <3> QED
      BY <1>2, <1>0, <1>a, <2>2, <3>1, TurnFrame, OpKinds DEF Send, server
  <2> QED
    BY <1>2, <2>1, <2>2 DEF Send, Sendable, StartsTurn
<1>3. CASE Stop
  <2>1. status' \notin {"starting", "ready"} /\ op' \in {op, NoOp}
        /\ UNCHANGED <<turn, turns, asked, dispatch, completed, successful, wire>>
    BY <1>3 DEF Stop, Active, server
  <2>2. CASE Interruptible
    <3>1. PICK m \in Requests : m.kind = "interrupt" /\ m.turn # 0 /\ toServer' = Append(toServer, m)
      BY <1>3, <1>b, <2>2, Sends DEF Stop, Interruptible, Write
    <3>2. /\ Once(toServer', TurnRequests) /\ (TurnAsked' <=> TurnAsked)
          /\ \A n \in Elems(toServer') : n.kind = "interrupt" => n.turn # 0
      BY <1>0, <3>1, Posted
    <3> QED
      BY <1>0, <2>1, <3>2, TurnFrame, OpKinds
  <2>3. CASE UNCHANGED toServer
    BY <1>0, <2>1, <2>3, Waiting, TurnFrame, OpKinds
  <2> QED
    BY <1>3, <2>2, <2>3 DEF Stop
<1>4. CASE \E a \in Approval : Decide(a)
  <2>1. PICK m \in Requests : m.kind = "answer" /\ toServer' = Append(toServer, m)
    BY <1>4, Sends DEF Decide, Answer, Write
  <2> QED
    BY <1>4, <1>0, <1>a, <2>1, TurnFrame DEF Decide, server
<1>5. CASE Fails \/ GraceEnds \/ Closes \/ StopResolves
  <2>1. /\ status' \in {status, "closed", "failed"} /\ op' \in {op, NoOp}
        /\ UNCHANGED <<turn, turns, asked, dispatch, completed, successful, wire, toServer>>
    BY <1>5 DEF Fails, Failed, GraceEnds, Closes, ClosedAs, StopResolves, server
  <2> QED
    BY <1>0, <2>1, Waiting, TurnFrame, OpKinds
<1> QED
  BY <1>1, <1>2, <1>3, <1>4, <1>5

LEMMA ContinueTurns ==
    ASSUME MessagesOK, Sessions, Pipes, TurnInv, Continue
    PROVE  TurnInv'
<1>0. PipesInv /\ SettledInv /\ (asked # {} => turn # 0) /\ op \in Ops
      /\ UNCHANGED <<completed, turn, turns, asked, wire>>
  BY Continuing DEF TurnInv, ServerInv, MessagesOK
<1>1. CASE status \in Active /\ Failed /\ UNCHANGED <<dispatch, successful, toServer>>
  BY <1>0, <1>1, Waiting, TurnFrame, OpKinds DEF Failed
<1>2. CASE /\ op.kind \in Opening /\ \E k \in Opening : op' = Sent(k) /\ Write(Request(k, 0))
           /\ UNCHANGED <<status, dispatch, successful>>
  <2>1. PICK k \in Opening : op' = Sent(k) /\ Write(Request(k, 0))
    BY <1>2
  <2>2. PICK m \in Requests : m.kind = k /\ toServer' = Append(toServer, m)
    BY <2>1, Sends, ConstantsAssumption DEF Write
  <2>3. /\ Once(toServer', TurnRequests) /\ (TurnAsked' <=> TurnAsked)
        /\ \A n \in Elems(toServer') : n.kind = "interrupt" => n.turn # 0
    BY <1>0, <2>2, Posted, Names
  <2> QED
    BY <1>0, <1>2, <2>1, <2>3, TurnFrame, OpKinds
<1>3. CASE op.kind \in Opening /\ Begin
  BY <1>0, <1>3, BeginTurns DEF SettledInv
<1>4. CASE UNCHANGED dispatch /\ op' = NoOp /\ UNCHANGED <<status, successful, toServer>>
  BY <1>0, <1>4, Waiting, TurnFrame, OpKinds
<1>5. CASE /\ op.kind = "turn" /\ Confirmable(op.answer) /\ dispatch' = [dispatch EXCEPT !.id = op.answer]
           /\ op' = NoOp /\ UNCHANGED <<status, successful, toServer>>
  <2>1. dispatch'.done = dispatch.done /\ dispatch'.id = op.answer
    BY <1>5 DEF Sessions
  <2>2. CASE dispatch.done
    <3>1. dispatch.id # 0
      BY <1>0, <1>5, <2>2 DEF SettledInv
    <3>2. dispatch' = dispatch
      BY <1>5, <3>1 DEF Confirmable, Sessions
    <3> QED
      BY <1>0, <1>5, <3>2, Waiting, TurnFrame, OpKinds
  <2>3. CASE ~dispatch.done
    <3>1. PipesInv' /\ ServerInv' /\ LimitInv' /\ DispatchInv'
      BY <1>0, <1>5, <2>1, <2>3 DEF TurnInv, PipesInv, ServerInv, LimitInv, DispatchInv, TurnAsked
    <3>2. SettledInv'
      BY <1>0, <1>5, <2>1, <2>3, OpKinds DEF SettledInv
    <3> QED
      BY <3>1, <3>2 DEF TurnInv
  <2> QED
    BY <2>2, <2>3
<1> QED
  BY <1>0, <1>1, <1>2, <1>3, <1>4, <1>5, Continuing

\* The end of a turn that the session heeds is that of the server's last one.
LEMMA EndTurns ==
    ASSUME MessagesOK, Sessions, Pipes, TurnInv, Receive, NEW m, m = Head(wire), m.type = "ended",
           Heeded(m.turn), TurnEnds(m.turn, m.outcome)
    PROVE  TurnInv'
<1>1. /\ m \in Elems(wire) /\ m.turn \in 1..MaxTurn /\ Elems(wire') \subseteq Elems(wire)
      /\ UNCHANGED <<turn, turns, asked>>
  BY Hearing, Heard, NewsFacts
<1>2. m.turn <= Len(turns) /\ m.outcome = turns[m.turn] /\ Len(turns) \in Nat
  BY <1>1 DEF TurnInv, PipesInv, LimitInv, MessagesOK
<1>3. ~dispatch.done /\ m.turn \notin completed
  BY DEF Heeded
<1>4. ~TurnAsked /\ turn = 0 /\ turns # <<>> /\ m.turn = Len(turns) /\ completed' = 1..Len(turns)
  <2>1. ~TurnAsked /\ turn = 0 /\ turns # <<>> /\ completed = 1..(Len(turns) - 1)
    BY <1>1, <1>2, <1>3 DEF TurnInv, DispatchInv
  <2>2. m.turn = Len(turns)
    BY <1>1, <1>2, <1>3, <2>1
  <2>3. completed' = completed \cup {m.turn}
    BY DEF TurnEnds
  <2> QED
    BY <1>1, <1>2, <2>1, <2>2, <2>3
<1>5. /\ dispatch'.done /\ dispatch'.id = Len(turns) /\ UNCHANGED toServer
      /\ op' \in {op, NoOp}
      /\ successful' = dispatch'.id => m.outcome = "completed"
  BY <1>1, <1>4 DEF TurnEnds, Succeeded
<1>6. PipesInv' /\ ServerInv' /\ LimitInv'
  BY <1>1, <1>5 DEF TurnInv, PipesInv, ServerInv, LimitInv
<1>7. DispatchInv' /\ SettledInv'
  BY <1>1, <1>2, <1>4, <1>5 DEF DispatchInv, SettledInv, TurnAsked
<1> QED
  BY <1>6, <1>7 DEF TurnInv

LEMMA ReceiveTurns ==
    ASSUME MessagesOK, Sessions, Pipes, TurnInv, Receive
    PROVE  TurnInv'
<1> DEFINE m == Head(wire)
<1>0. /\ PipesInv /\ SettledInv /\ (asked # {} => turn # 0) /\ m \in News
      /\ \A n \in Elems(wire') : n.type = "ended" => n \in Elems(wire)
      /\ UNCHANGED <<turn, turns, asked>>
  BY Hearing, Heard DEF TurnInv, ServerInv
<1>1. CASE op' \in {op, [op EXCEPT !.answer = m.value]}
           /\ UNCHANGED <<status, dispatch, successful, completed, toServer>>
  <2>1. op'.kind = op.kind
    BY <1>1 DEF MessagesOK, Ops
  <2> QED
    BY <1>0, <1>1, <2>1, Waiting, TurnFrame
<1>2. CASE m.type = "started" /\ Heeded(m.turn) /\ dispatch' = [dispatch EXCEPT !.id = m.turn]
           /\ UNCHANGED <<status, op, successful, completed, toServer>>
  <2>1. ~dispatch.done /\ ~dispatch'.done
    BY <1>2 DEF Heeded, Sessions
  <2>2. PipesInv' /\ ServerInv' /\ LimitInv' /\ DispatchInv' /\ SettledInv'
    BY <1>0, <1>2, <2>1 DEF TurnInv, PipesInv, ServerInv, LimitInv, DispatchInv, SettledInv, TurnAsked
  <2> QED
    BY <2>2 DEF TurnInv
<1>3. CASE m.type = "ended" /\ Heeded(m.turn) /\ TurnEnds(m.turn, m.outcome)
  BY <1>3, EndTurns
<1>4. CASE m.type = "asked" /\ Asked(m.id, m.turn)
  <2>1. UNCHANGED <<status, op, successful, completed>>
    BY <1>4 DEF Asked
  <2>2. CASE Showable(m.turn) /\ dispatch' = [dispatch EXCEPT !.id = m.turn] /\ UNCHANGED toServer
    <3>1. ~dispatch.done /\ ~dispatch'.done
      BY <2>2 DEF Showable, Sessions
    <3>2. PipesInv' /\ ServerInv' /\ LimitInv' /\ DispatchInv' /\ SettledInv'
      BY <1>0, <2>1, <2>2, <3>1 DEF TurnInv, PipesInv, ServerInv, LimitInv, DispatchInv, SettledInv, TurnAsked
    <3> QED
      BY <3>2 DEF TurnInv
  <2>3. CASE Answer(m.id) /\ UNCHANGED dispatch
    <3>1. m.id \in Approval
      BY <1>0, <1>4, NewsFacts
    <3>2. PICK n \in Requests : n.kind = "answer" /\ toServer' = Append(toServer, n)
      BY <2>3, <3>1, Sends DEF Answer, Write
    <3>3. /\ Once(toServer', TurnRequests) /\ (TurnAsked' <=> TurnAsked)
          /\ \A k \in Elems(toServer') : k.kind = "interrupt" => k.turn # 0
      BY <1>0, <3>2, Posted
    <3> QED
      BY <1>0, <2>1, <2>3, <3>3, TurnFrame
  <2> QED
    BY <1>4, <2>2, <2>3 DEF Asked
<1>5. CASE m.type = "resolved" /\ UNCHANGED <<status, op, dispatch, successful, completed, toServer>>
  BY <1>0, <1>5, Waiting, TurnFrame
<1> QED
  BY <1>1, <1>2, <1>3, <1>4, <1>5, Hearing DEF Ignored

\* A turn of the server ends: the session has yet to hear of it.
LEMMA TurnEnded ==
    ASSUME MessagesOK, Servers, TurnInv, turn # 0, turn' = 0, asked' = {}, NEW o \in Outcomes,
           turns' = Append(turns, o), Tell([type |-> "ended", turn |-> turn, outcome |-> o]), UNCHANGED session,
           Once(toServer', TurnRequests), \A m \in Elems(toServer') : m.kind = "interrupt" => m.turn # 0,
           TurnAsked' <=> TurnAsked
    PROVE  TurnInv'
<1> DEFINE e == [type |-> "ended", turn |-> turn, outcome |-> o]
<1>1. /\ Len(turns) \in Nat /\ Len(turns') = Len(turns) + 1 /\ turns'[Len(turns) + 1] = o /\ turns' # <<>>
      /\ \A i \in 1..Len(turns) : turns'[i] = turns[i]
  BY DEF Servers
<1>2. /\ turn = Len(turns) + 1 /\ turn \in 1..MaxTurn /\ Len(turns) < MaxTurn
      /\ UNCHANGED <<status, op, dispatch, successful, completed>>
  BY <1>1 DEF TurnInv, ServerInv, LimitInv, Servers, session
<1>3. Elems(wire') = Elems(wire) \cup {e}
  <2>1. e \in News
    BY <1>2 DEF News
  <2> QED
    BY <2>1, Told DEF Tell
<1>4. \A m \in Elems(wire') : m.type = "ended" => m.turn <= Len(turns') /\ m.outcome = turns'[m.turn]
  <2>1. e.turn <= Len(turns') /\ e.outcome = turns'[e.turn]
    BY <1>1, <1>2
  <2>2. ASSUME NEW m \in Elems(wire), m.type = "ended"
        PROVE  m.turn <= Len(turns') /\ m.outcome = turns'[m.turn]
    <3>1. m.turn <= Len(turns) /\ m.outcome = turns[m.turn] /\ m.turn \in 1..MaxTurn
      BY <2>2, PipeTypes, NewsFacts DEF TurnInv, PipesInv, MessagesOK
    <3> QED
      BY <1>1, <3>1
  <2> QED
    BY <1>3, <2>1, <2>2
<1>5. PipesInv' /\ ServerInv' /\ LimitInv'
  <2>1. PipesInv'
    BY <1>4 DEF PipesInv
  <2>2. ServerInv' /\ LimitInv'
    BY <1>1, <1>2, ConstantsAssumption DEF ServerInv, LimitInv
  <2> QED
    BY <2>1, <2>2
<1>6. ~dispatch.done /\ ~TurnAsked /\ completed = 1..Len(turns)
  BY <1>2 DEF TurnInv, DispatchInv
<1>7. DispatchInv' /\ SettledInv'
  BY <1>1, <1>2, <1>6 DEF TurnInv, DispatchInv, SettledInv
<1> QED
  BY <1>5, <1>7 DEF TurnInv

LEMMA ServerTurns ==
    ASSUME MessagesOK, Sessions, Servers, Pipes, TurnInv,
           \/ ServerTakes \/ ServerResponds \/ ServerEnds \/ ServerAnnounces
           \/ \E a \in Approval : ServerAsks(a) \/ ServerResolves(a)
    PROVE  TurnInv'
<1>0. /\ PipesInv /\ SettledInv /\ (asked # {} => turn # 0) /\ Len(turns) \in Nat
      /\ \A m \in Elems(wire) : m.type = "ended" => m.turn <= Len(turns) /\ m.outcome = turns[m.turn]
  BY DEF TurnInv, ServerInv, PipesInv, Servers
<1>s. UNCHANGED session => UNCHANGED <<status, op, dispatch, successful, completed>>
  BY DEF session
<1>t. \A m \in News : Tell(m) => Elems(wire') = Elems(wire) \cup {m}
  BY Told DEF Tell
<1>1. CASE ServerTakes
  <2> DEFINE m == Head(toServer)
  <2>1. /\ m \in Requests /\ Once(toServer', TurnRequests) /\ UNCHANGED session
        /\ \A n \in Elems(toServer') : n.kind = "interrupt" => n.turn # 0
        /\ m.kind = "interrupt" => m.turn # 0
        /\ m.kind = "turn" => TurnAsked /\ ~TurnAsked'
        /\ m.kind # "turn" => (TurnAsked' <=> TurnAsked)
    BY <1>0, <1>1, Taken DEF ServerTakes
  <2> HIDE DEF m
  <2>2. CASE m.kind = "turn"
    <3>1. /\ turn' = Len(turns) + 1 /\ Len(turns) < MaxTurn /\ UNCHANGED <<turns, asked, wire>>
      BY <1>1, <2>2 DEF ServerTakes, m
    <3>2. ~dispatch.done /\ turn = 0 /\ completed = 1..Len(turns)
      BY <2>1, <2>2 DEF TurnInv, DispatchInv
    <3>3. PipesInv' /\ ServerInv' /\ LimitInv'
      <4>1. PipesInv'
        BY <1>0, <2>1, <3>1 DEF PipesInv
      <4>2. ServerInv' /\ LimitInv'
        BY <1>0, <3>1, <3>2, ConstantsAssumption DEF ServerInv, LimitInv
      <4> QED
        BY <4>1, <4>2
    <3>4. DispatchInv' /\ SettledInv'
      BY <1>0, <1>s, <2>1, <2>2, <3>1, <3>2 DEF DispatchInv, SettledInv
    <3> QED
      BY <3>3, <3>4 DEF TurnInv
  <2>3. CASE m.kind = "interrupt" /\ turn = m.turn
    <3>1. /\ turn # 0 /\ turn' = 0 /\ asked' = {} /\ turns' = Append(turns, "interrupted")
          /\ Tell([type |-> "ended", turn |-> turn, outcome |-> "interrupted"])
      BY <1>1, <2>1, <2>3 DEF ServerTakes, m
    <3>2. "interrupted" \in Outcomes /\ (TurnAsked' <=> TurnAsked)
      BY <2>1, <2>3 DEF Outcomes
    <3> QED
      BY <2>1, <3>1, <3>2, TurnEnded
  <2>4. CASE m.kind # "turn" /\ ~(m.kind = "interrupt" /\ turn = m.turn)
    <3>1. UNCHANGED <<turn, turns, wire>> /\ asked' \subseteq asked
      BY <1>1, <2>4 DEF ServerTakes, m
    <3> QED
      BY <1>0, <1>s, <2>1, <2>4, <3>1, TurnFrame
  <2> QED
    BY <2>2, <2>3, <2>4
<1>2. CASE ServerResponds
  <2>1. PICK m \in Responses : Tell(m)
    BY <1>2 DEF ServerResponds, MessagesOK
  <2>2. m \in News /\ m.type = "response"
    BY <2>1 DEF Responses, News
  <2> QED
    BY <1>0, <1>2, <1>s, <1>t, <2>1, <2>2, Waiting, TurnFrame DEF ServerResponds
<1>3. CASE ServerEnds
  <2>1. PICK o \in {"completed", "failed"} :
           turns' = Append(turns, o) /\ Tell([type |-> "ended", turn |-> turn, outcome |-> o])
    BY <1>3 DEF ServerEnds
  <2>2. /\ o \in Outcomes /\ turn # 0 /\ turn' = 0 /\ asked' = {} /\ UNCHANGED <<session, toServer>>
    BY <1>3 DEF ServerEnds, Outcomes
  <2> QED
    BY <2>1, <2>2, Waiting, TurnEnded
<1>4. CASE ServerAnnounces
  <2>1. UNCHANGED <<turn, turns, asked, toServer, session>>
    BY <1>4 DEF ServerAnnounces, server
  <2>2. CASE turn # 0 /\ Tell([type |-> "started", turn |-> turn])
    <3>1. [type |-> "started", turn |-> turn] \in News
      BY DEF News, Servers
    <3> QED
      BY <1>0, <1>s, <1>t, <2>1, <2>2, <3>1, Waiting, TurnFrame
  <2>3. CASE turns # <<>> /\ Tell([type |-> "ended", turn |-> Len(turns), outcome |-> Last(turns)])
    <3> DEFINE e == [type |-> "ended", turn |-> Len(turns), outcome |-> Last(turns)]
    <3>1. Len(turns) \in 1..MaxTurn /\ Last(turns) \in Outcomes /\ Last(turns) = turns[Len(turns)]
      BY <2>3 DEF TurnInv, LimitInv, Servers, Last
    <3>2. Elems(wire') = Elems(wire) \cup {e}
      <4>1. e \in News
        BY <3>1 DEF News
      <4> QED
        BY <1>t, <2>3, <4>1
    <3>3. e.turn = Len(turns) /\ e.outcome = turns[Len(turns)]
      BY <3>1
    <3>4. PipesInv'
      BY <1>0, <2>1, <3>2, <3>3, Waiting DEF PipesInv
    <3> QED
      BY <1>s, <2>1, <3>4 DEF TurnInv, ServerInv, LimitInv, DispatchInv, SettledInv, TurnAsked
  <2> QED
    BY <1>4, <2>2, <2>3 DEF ServerAnnounces
<1>5. CASE \E a \in Approval : ServerAsks(a) \/ ServerResolves(a)
  <2>1. PICK a \in Approval : ServerAsks(a) \/ ServerResolves(a)
    BY <1>5
  <2>2. /\ UNCHANGED <<turn, turns, toServer, session>> /\ (asked' # {} => turn # 0)
        /\ Tell([type |-> "asked", id |-> a, turn |-> turn]) \/ Tell([type |-> "resolved", id |-> a])
    BY <1>0, <2>1 DEF ServerAsks, ServerResolves
  <2>3. [type |-> "asked", id |-> a, turn |-> turn] \in News /\ [type |-> "resolved", id |-> a] \in News
    BY DEF News, Servers
  <2> QED
    BY <1>0, <1>s, <1>t, <2>2, <2>3, Waiting, TurnFrame
<1> QED
  BY <1>1, <1>2, <1>3, <1>4, <1>5

LEMMA TurnStep == TypeOK /\ MessagesOK /\ TurnInv /\ [Next]_vars => TurnInv'
<1> SUFFICES ASSUME MessagesOK, Sessions, Servers, Pipes, TurnInv, [Next]_vars PROVE TurnInv'
  BY AllTypes
<1>1. CASE UNCHANGED vars
  BY <1>1 DEF vars, session, server, TurnInv, PipesInv, ServerInv, LimitInv, DispatchInv, SettledInv, TurnAsked
<1> QED
  BY <1>1, SessionTurns, ServerTurns, ReceiveTurns, ContinueTurns DEF Next

-----------------------------------------------------------------------------
(* The approvals.                                                            *)

LEMMA ApprovalFrame ==
    ASSUME ApprovalInv, answers' = answers, asked' \subseteq asked, approvals' \subseteq approvals,
           status' = "running" => (status = "running" /\ approvals' = approvals) \/ asked' = {},
           \A a \in Approval : Once(wire', Asking(a)) /\ (OnItsWay(a)' <=> OnItsWay(a)),
           \A m \in Elems(wire') : m.type = "resolved" => m \in Elems(wire)
    PROVE  ApprovalInv'
<1> SUFFICES ASSUME NEW a \in Approval
             PROVE  /\ answers'[a] <= 1
                    /\ a \in approvals' => answers'[a] = 0 /\ ~OnItsWay(a)
                    /\ OnItsWay(a) => answers'[a] = 0
                    /\ a \in asked' => \A m \in Elems(wire') : ~(m.type = "resolved" /\ m.id = a)
                    /\ a \in asked' /\ status' = "running" => a \in approvals' \/ answers'[a] > 0 \/ OnItsWay(a)
  BY DEF ApprovalInv, ApprovalOK
<1> QED
  BY DEF ApprovalInv, ApprovalOK

LEMMA Still ==
    ASSUME ApprovalInv, UNCHANGED wire
    PROVE  /\ \A a \in Approval : Once(wire', Asking(a)) /\ (OnItsWay(a)' <=> OnItsWay(a))
           /\ \A m \in Elems(wire') : m.type = "resolved" => m \in Elems(wire)
BY DEF ApprovalInv, ApprovalOK, OnItsWay

\* An answer to a question that was neither answered nor is on its way.
LEMMA Answering ==
    ASSUME ApprovalInv, Sessions, NEW a \in Approval, answers' = [answers EXCEPT ![a] = @ + 1],
           answers[a] = 0, ~OnItsWay(a)', approvals' \subseteq approvals \ {a}, asked' = asked,
           \A b \in approvals : b = a \/ b \in approvals', status' = status,
           \A b \in Approval : Once(wire', Asking(b)) /\ (b # a => (OnItsWay(b)' <=> OnItsWay(b))),
           \A m \in Elems(wire') : m \in Elems(wire)
    PROVE  ApprovalInv'
<1>1. answers'[a] = 1 /\ \A b \in Approval : b # a => answers'[b] = answers[b]
  BY DEF Sessions
<1>2. ASSUME NEW b \in Approval
      PROVE  ApprovalOK(b)'
  <2>1. CASE b = a
    BY <1>1, <2>1 DEF ApprovalInv, ApprovalOK
  <2>2. CASE b # a
    BY <1>1, <2>2 DEF ApprovalInv, ApprovalOK
  <2> QED
    BY <2>1, <2>2
<1> QED
  BY <1>2 DEF ApprovalInv

\* Nothing is asked between turns.
LEMMA NothingAsked ==
    ASSUME TurnInv, dispatch.done
    PROVE  asked = {}
BY DEF TurnInv, DispatchInv, ServerInv

LEMMA SessionApprovals ==
    ASSUME Sessions, TurnInv, ApprovalInv,
           \/ Start \/ Send \/ Stop \/ (\E a \in Approval : Decide(a)) \/ Continue
           \/ Fails \/ GraceEnds \/ Closes \/ StopResolves
    PROVE  ApprovalInv'
<1>1. CASE Start
  BY <1>1, Still, ApprovalFrame DEF Start, server
<1>2. CASE Send
  <2>1. CASE Begin
    <3>1. status = "ready" => asked = {}
      BY NothingAsked DEF TurnInv, SettledInv
    <3>2. StartsTurn => status = "ready"
      BY DEF StartsTurn
    <3>3. asked = {} \/ (status = "running" /\ UNCHANGED approvals)
      BY <1>2, <3>1, <3>2, OpKinds DEF Send, Begin, Sendable
    <3> QED
      BY <1>2, <2>1, <3>3, Still, ApprovalFrame DEF Send, Begin, server
  <2>2. CASE UNCHANGED <<status, approvals>>
    BY <1>2, <2>2, Still, ApprovalFrame DEF Send, server
  <2> QED
    BY <1>2, <2>1, <2>2 DEF Send
<1>3. CASE Stop
  BY <1>3, Still, ApprovalFrame DEF Stop, server, Active
<1>4. CASE \E a \in Approval : Decide(a)
  <2>1. PICK a \in Approval : Decide(a)
    BY <1>4
  <2>2. answers[a] = 0 /\ ~OnItsWay(a) /\ UNCHANGED <<wire, asked, status>>
    BY <2>1 DEF Decide, ApprovalInv, ApprovalOK, server
  <2>3. answers' = [answers EXCEPT ![a] = @ + 1] /\ approvals' = approvals \ {a}
    BY <2>1 DEF Decide, Answer, Decided
  <2>4. \A b \in Approval : Once(wire', Asking(b)) /\ (OnItsWay(b)' <=> OnItsWay(b))
    BY <2>2, Still
  <2>5. Elems(wire') = Elems(wire)
    BY <2>2
  <2> QED
    BY <2>2, <2>3, <2>4, <2>5, Answering
<1>5. CASE Continue
  <2>1. UNCHANGED <<asked, wire, answers>>
    BY <1>5, Continuing DEF Sessions
  <2>2. CASE Failed
    BY <2>1, <2>2, Still, ApprovalFrame DEF Failed
  <2>3. CASE UNCHANGED <<status, approvals>>
    BY <2>1, <2>3, Still, ApprovalFrame
  <2>4. CASE op.kind \in Opening /\ Begin
    BY <2>1, <2>4, NothingAsked, Still, ApprovalFrame DEF Begin, TurnInv, SettledInv
  <2> QED
    BY <1>5, <2>2, <2>3, <2>4, Continuing DEF Sessions
<1>6. CASE Fails \/ GraceEnds \/ Closes \/ StopResolves
  <2>1. /\ UNCHANGED <<asked, wire, answers>> /\ approvals' \in {approvals, {}}
        /\ (status' = status /\ approvals' = approvals) \/ status' \in {"closed", "failed"}
    BY <1>6 DEF Fails, Failed, GraceEnds, Closes, ClosedAs, StopResolves, server
  <2> QED
    BY <2>1, Still, ApprovalFrame
<1> QED
  BY <1>1, <1>2, <1>3, <1>4, <1>5, <1>6

LEMMA ReceiveApprovals ==
    ASSUME MessagesOK, Sessions, Pipes, TurnInv, ApprovalInv, Receive
    PROVE  ApprovalInv'
<1> DEFINE m == Head(wire)
<1>0. /\ m \in News /\ m \in Elems(wire) /\ Elems(wire') \subseteq Elems(wire) /\ UNCHANGED asked
      /\ \A a \in Approval : /\ Once(wire', Asking(a))
                             /\ m \in Asking(a) => OnItsWay(a) /\ ~OnItsWay(a)'
                             /\ m \notin Asking(a) => (OnItsWay(a)' <=> OnItsWay(a))
  BY Hearing, Heard DEF ApprovalInv, ApprovalOK
<1>1. m.type # "asked" => \A a \in Approval : OnItsWay(a)' <=> OnItsWay(a)
  BY <1>0, NewsFacts
<1>2. CASE m.type # "asked" /\ UNCHANGED <<status, approvals, answers>>
  BY <1>0, <1>1, <1>2, ApprovalFrame
<1>3. CASE m.type = "ended" /\ TurnEnds(m.turn, m.outcome)
  BY <1>0, <1>1, <1>3, ApprovalFrame DEF TurnEnds
<1>4. CASE m.type = "asked" /\ Asked(m.id, m.turn)
  <2>1. PICK a \in Approval : a = m.id
    BY <1>0, <1>4, NewsFacts
  <2>2. m \in Asking(a) /\ (\A b \in Approval : b # a => m \notin Asking(b)) /\ UNCHANGED status
    BY <1>0, <1>4, <2>1, NewsFacts DEF Asked
  <2>3. answers[a] = 0 /\ a \notin approvals /\ OnItsWay(a) /\ ~OnItsWay(a)'
    BY <1>0, <2>2 DEF ApprovalInv, ApprovalOK
  <2>4. \A b \in Approval : b # a => (OnItsWay(b)' <=> OnItsWay(b))
    BY <1>0, <2>2
  <2>5. CASE Answer(a) /\ UNCHANGED approvals
    <3>1. answers' = [answers EXCEPT ![a] = @ + 1] /\ approvals' \subseteq approvals \ {a}
      BY <2>3, <2>5 DEF Answer
    <3> QED
      BY <1>0, <2>2, <2>3, <2>4, <2>5, <3>1, Answering
  <2>6. CASE approvals' = approvals \cup {a} /\ UNCHANGED answers
    <3>1. ASSUME NEW b \in Approval PROVE ApprovalOK(b)'
      <4>1. CASE b = a
        BY <1>0, <2>3, <2>6, <4>1 DEF ApprovalInv, ApprovalOK
      <4>2. CASE b # a
        BY <1>0, <2>2, <2>4, <2>6, <4>2 DEF ApprovalInv, ApprovalOK
      <4> QED
        BY <4>1, <4>2
    <3> QED
      BY <3>1 DEF ApprovalInv
  <2> QED
    BY <1>4, <2>1, <2>5, <2>6 DEF Asked
<1>5. CASE m.type = "resolved" /\ approvals' = Withdrawn(m.id) /\ UNCHANGED <<status, answers>>
  <2>1. m.id \notin asked
    BY <1>0, <1>5, NewsFacts DEF ApprovalInv, ApprovalOK
  <2>2. ASSUME NEW b \in Approval
        PROVE  ApprovalOK(b)'
    <3>1. (OnItsWay(b)' <=> OnItsWay(b)) /\ b \in asked => b # m.id
      BY <1>1, <1>5, <2>1
    <3>2. (OnItsWay(b)' <=> OnItsWay(b)) /\ approvals' = approvals \ {m.id}
      BY <1>1, <1>5 DEF Withdrawn
    <3> HIDE DEF m
    <3> QED
      BY <1>0, <1>5, <2>1, <3>2 DEF ApprovalInv, ApprovalOK
  <2> QED
    BY <2>2 DEF ApprovalInv
<1> QED
  BY <1>2, <1>3, <1>4, <1>5, Hearing DEF Ignored

LEMMA ServerApprovals ==
    ASSUME MessagesOK, Servers, TurnInv, ApprovalInv,
           \/ ServerTakes \/ ServerResponds \/ ServerEnds \/ ServerAnnounces
           \/ \E a \in Approval : ServerAsks(a) \/ ServerResolves(a)
    PROVE  ApprovalInv'
<1>0. UNCHANGED session => UNCHANGED <<status, approvals>>
  BY DEF session
<1>a. \A m \in News : Tell(m) =>
        /\ Elems(wire') = Elems(wire) \cup {m}
        /\ \A a \in Approval : /\ m \notin Asking(a) \/ ~OnItsWay(a) => Once(wire', Asking(a))
                               /\ OnItsWay(a)' <=> OnItsWay(a) \/ m \in Asking(a)
  BY Told DEF Tell, ApprovalInv, ApprovalOK
<1>b. \A m \in News : m.type \notin {"asked", "resolved"} /\ Tell(m) =>
        /\ \A a \in Approval : Once(wire', Asking(a)) /\ (OnItsWay(a)' <=> OnItsWay(a))
        /\ \A n \in Elems(wire') : n.type = "resolved" => n \in Elems(wire)
  BY <1>a, NewsFacts
<1>1. CASE ServerTakes
  <2>1. asked' \subseteq asked /\ UNCHANGED <<session, answers>>
    BY <1>1 DEF ServerTakes
  <2>2. UNCHANGED wire \/ (turn # 0 /\ Tell([type |-> "ended", turn |-> turn, outcome |-> "interrupted"]))
    BY <1>1, Taken DEF ServerTakes, TurnInv
  <2>3. turn # 0 => [type |-> "ended", turn |-> turn, outcome |-> "interrupted"] \in News
    BY DEF News, Servers, Outcomes
  <2> QED
    BY <1>0, <1>b, <2>1, <2>2, <2>3, Still, ApprovalFrame
<1>2. CASE ServerResponds
  <2>1. PICK m \in Responses : Tell(m)
    BY <1>2 DEF ServerResponds, MessagesOK
  <2>2. m \in News /\ m.type = "response"
    BY <2>1 DEF Responses, News
  <2> QED
    BY <1>0, <1>2, <1>b, <2>1, <2>2, ApprovalFrame DEF ServerResponds
<1>3. CASE ServerEnds
  <2>1. PICK o \in {"completed", "failed"} : Tell([type |-> "ended", turn |-> turn, outcome |-> o])
    BY <1>3 DEF ServerEnds
  <2>2. [type |-> "ended", turn |-> turn, outcome |-> o] \in News
    BY <1>3 DEF ServerEnds, News, Servers, Outcomes
  <2> QED
    BY <1>0, <1>3, <1>b, <2>1, <2>2, ApprovalFrame DEF ServerEnds
<1>4. CASE ServerAnnounces
  <2>1. PICK m \in News : m.type \in {"started", "ended"} /\ Tell(m)
    <3>1. [type |-> "started", turn |-> turn] \in News
      BY DEF News, Servers
    <3>2. turns # <<>> => [type |-> "ended", turn |-> Len(turns), outcome |-> Last(turns)] \in News
      <4>1. turns # <<>> => Len(turns) \in 1..MaxTurn /\ Last(turns) \in Outcomes
        BY DEF TurnInv, LimitInv, Servers, Last
      <4> QED
        BY <4>1 DEF News
    <3> QED
      BY <1>4, <3>1, <3>2 DEF ServerAnnounces
  <2> QED
    BY <1>0, <1>4, <1>b, <2>1, ApprovalFrame DEF ServerAnnounces, server
<1>5. CASE \E a \in Approval : ServerAsks(a)
  <2>1. PICK a \in Approval : ServerAsks(a)
    BY <1>5
  <2> DEFINE q == [type |-> "asked", id |-> a, turn |-> turn]
  <2>2. q \in News /\ q \in Asking(a) /\ \A b \in Approval : b # a => q \notin Asking(b)
    BY DEF News, Servers, Asking
  <2>3. /\ answers[a] = 0 /\ a \notin approvals /\ asked' = asked \cup {a} /\ Tell(q)
        /\ UNCHANGED <<status, approvals, answers>>
    BY <1>0, <2>1 DEF ServerAsks
  <2>4. ~OnItsWay(a) /\ \A n \in Elems(wire) : ~(n.type = "resolved" /\ n.id = a)
    <3>1. \A n \in Elems(wire) : n.type \in {"asked", "resolved"} => n.id # a
      BY <2>1, PipeTypes DEF ServerAsks, Elems, MessagesOK
    <3> QED
      BY <3>1 DEF OnItsWay, Asking
  <2>5. q.type = "asked"
    OBVIOUS
  <2> HIDE DEF q
  <2>6. ASSUME NEW b \in Approval
        PROVE  ApprovalOK(b)'
    <3>1. CASE b = a
      BY <1>a, <2>2, <2>3, <2>4, <2>5, <3>1 DEF ApprovalInv, ApprovalOK
    <3>2. CASE b # a
      BY <1>a, <2>2, <2>3, <2>5, <3>2 DEF ApprovalInv, ApprovalOK
    <3> QED
      BY <3>1, <3>2
  <2> QED
    BY <2>6 DEF ApprovalInv
<1>6. CASE \E a \in Approval : ServerResolves(a)
  <2>1. PICK a \in Approval : ServerResolves(a)
    BY <1>6
  <2> DEFINE q == [type |-> "resolved", id |-> a]
  <2>2. q \in News /\ q.type = "resolved" /\ q.id = a /\ \A b \in Approval : q \notin Asking(b)
    BY DEF News, Asking
  <2>3. asked' = asked \ {a} /\ Tell(q) /\ UNCHANGED <<status, approvals, answers>>
    BY <1>0, <2>1 DEF ServerResolves
  <2> HIDE DEF q
  <2>4. ASSUME NEW b \in Approval
        PROVE  ApprovalOK(b)'
    BY <1>a, <2>2, <2>3 DEF ApprovalInv, ApprovalOK
  <2> QED
    BY <2>4 DEF ApprovalInv
<1> QED
  BY <1>1, <1>2, <1>3, <1>4, <1>5, <1>6

LEMMA ApprovalStep == TypeOK /\ MessagesOK /\ TurnInv /\ ApprovalInv /\ [Next]_vars => ApprovalInv'
<1> SUFFICES ASSUME MessagesOK, Sessions, Servers, Pipes, TurnInv, ApprovalInv, [Next]_vars PROVE ApprovalInv'
  BY AllTypes
<1>1. CASE UNCHANGED vars
  BY <1>1, Still, ApprovalFrame DEF vars, session, server
<1> QED
  BY <1>1, SessionApprovals, ServerApprovals, ReceiveApprovals DEF Next

-----------------------------------------------------------------------------
(* The session's life.                                                       *)

LEMMA Statuses ==
    /\ Active = {"starting", "ready", "running"} /\ Dead = {"closed", "failed"}
BY DEF Active, Dead

\* The life of a session as its owner sees it is kept, and is one of SessionLife.
Seen == IF cleanup = "closing" THEN "open" ELSE cleanup
LEMMA LifeStep ==
    ASSUME Sessions, Pipes, LifeInv, SettledInv, [Next]_vars
    PROVE  LifeInv' /\ (Life!Next \/ UNCHANGED <<status, Seen>>)
<1> USE Statuses DEF LifeInv
<1>0. /\ status \in {"starting", "ready", "running", "stopping", "closed", "failed"}
      /\ stop \in {"none", "grace", "closing", "done"}
      /\ cleanup \in {"open", "closing", "confirmed", "unknown"}
  BY DEF Sessions
<1>1. CASE UNCHANGED <<status, stop, cleanup>>
  BY <1>1 DEF Seen
<1>2. CASE Failed /\ status \notin Dead
  <2>1. cleanup \in {"open", "closing"} /\ Seen = "open" /\ Seen' = "open" /\ status' = "failed" /\ cleanup' = "closing"
    BY <1>0, <1>2 DEF Failed, Seen
  <2>2. LifeInv'
    BY <1>0, <1>2, <2>1 DEF Failed
  <2>3. Life!Fails
    BY <1>0, <1>2, <2>1 DEF Life!Fails, Life!Active, Seen
  <2> QED
    BY <2>2, <2>3 DEF Life!Next
<1>3. CASE Begin /\ status \in {"starting", "ready", "running"} /\ UNCHANGED <<stop, cleanup>>
  <2>1. LifeInv' /\ status' = "running" /\ Seen' = Seen
    BY <1>3 DEF Begin, Seen
  <2> QED
    BY <1>3, <2>1 DEF Life!Next, Life!Begins, Seen
<1>4. CASE Stop
  <2>1. LifeInv'
    BY <1>0, <1>4 DEF Stop, Interruptible
  <2>2. Seen' = Seen /\ (status' = status \/ (status \in Active /\ status' = "stopping"))
    BY <1>0, <1>4 DEF Stop, Seen
  <2> QED
    BY <2>1, <2>2 DEF Life!Next, Life!Stops, Life!Active, Seen
<1>5. CASE GraceEnds \/ StopResolves
  <2>1. status' = status /\ Seen' = Seen /\ LifeInv'
    BY <1>0, <1>5 DEF GraceEnds, StopResolves, Seen
  <2> QED
    BY <2>1
<1>6. CASE Closes
  <2>1. /\ cleanup = "closing" /\ Seen = "open" /\ cleanup' \in {"confirmed", "unknown"} /\ Seen' = cleanup'
        /\ status \in {"stopping", "failed"}
        /\ status' = IF status = "stopping" /\ cleanup' = "confirmed" THEN "closed" ELSE "failed"
    BY <1>0, <1>6 DEF Closes, ClosedAs, Seen
  <2>2. LifeInv'
    BY <1>0, <1>6, <2>1 DEF Closes
  <2> QED
    BY <2>1, <2>2 DEF Life!Next, Life!Closes, Seen
<1>7. CASE \E t, o : TurnEnds(t, o)
  <2>1. LifeInv' /\ Seen' = Seen /\ (status' = status \/ (status = "running" /\ status' = "ready"))
    BY <1>0, <1>7 DEF TurnEnds, Seen
  <2> QED
    BY <2>1 DEF Life!Next, Life!Ends, Seen
<1>8. CASE Start \/ (\E a \in Approval : Decide(a))
  BY <1>1, <1>8 DEF Start, Decide
<1>9. CASE Send
  <2>1. Begin => status = "ready" \/ UNCHANGED status
    BY <1>9 DEF Send, StartsTurn, Sendable, Begin
  <2>2. UNCHANGED <<stop, cleanup>> /\ (Begin \/ UNCHANGED status)
    BY <1>9 DEF Send
  <2> QED
    BY <1>1, <1>3, <2>1, <2>2
<1>10. CASE Continue
  <2>1. \/ status \notin Dead /\ Failed
        \/ UNCHANGED <<status, stop, cleanup>>
        \/ status \in Active /\ Begin /\ UNCHANGED <<stop, cleanup>>
    BY <1>10, Continuing DEF Sessions
  <2> QED
    BY <1>1, <1>2, <1>3, <2>1
<1>11. CASE Receive
  <2>1. UNCHANGED <<status, stop, cleanup>> \/ \E t, o : TurnEnds(t, o)
    BY <1>11, Hearing DEF Ignored, Asked
  <2> QED
    BY <1>1, <1>7, <2>1
<1>12. CASE Fails
  BY <1>2, <1>12 DEF Fails
<1>13. CASE \/ ServerTakes \/ ServerResponds \/ ServerEnds \/ ServerAnnounces
            \/ \E a \in Approval : ServerAsks(a) \/ ServerResolves(a)
  BY <1>1, <1>13 DEF ServerTakes, ServerResponds, ServerEnds, ServerAnnounces, ServerAsks, ServerResolves, session
<1>14. CASE UNCHANGED vars
  BY <1>1, <1>14 DEF vars, session
<1> QED
  BY <1>4, <1>5, <1>6, <1>8, <1>9, <1>10, <1>11, <1>12, <1>13, <1>14 DEF Next

-----------------------------------------------------------------------------
(* The theorems.                                                             *)

LEMMA InitHolds == Init => IInv
<1> SUFFICES ASSUME Init PROVE IInv
  OBVIOUS
<1>1. 0 \in 0..MaxTurn /\ Awaited \in Awaited..MaxTurn
  BY ConstantsAssumption, Names
<1>2. /\ \A S : <<>> \in Seq(S)
      /\ Elems(toServer) = {} /\ Elems(wire) = {} /\ \A S : Once(toServer, S) /\ Once(wire, S)
      /\ Len(turns) = 0 /\ 1..Len(turns) = {}
  BY DEF Init, Elems, Once
<1>3. Sessions
  BY <1>1, OpTypes DEF Init, Sessions, Active
<1>4. Servers /\ Pipes
  BY <1>1, <1>2 DEF Init, Servers, Pipes
<1>5. TurnInv
  BY <1>2, OpKinds, ConstantsAssumption
  DEF Init, TurnInv, PipesInv, ServerInv, LimitInv, DispatchInv, SettledInv, TurnAsked
<1>6. ApprovalInv
  BY <1>2 DEF Init, ApprovalInv, ApprovalOK, OnItsWay
<1>7. LifeInv
  BY DEF Init, LifeInv, Active, Dead
<1> QED
  BY <1>3, <1>4, <1>5, <1>6, <1>7, AllTypes DEF IInv

LEMMA StepHolds == IInv /\ [Next]_vars => IInv'
<1> SUFFICES ASSUME IInv, [Next]_vars PROVE IInv'
  OBVIOUS
<1>1. LifeInv'
  BY LifeStep, AllTypes DEF IInv, TurnInv
<1> QED
  BY <1>1, TypeStep, TurnStep, ApprovalStep DEF IInv

\* The invariant, in every reachable state.
THEOREM InvHolds == Spec => []IInv
BY InitHolds, StepHolds, PTL DEF Spec

\* A turn is asked for only when the server runs none, and a point offered to a
\* child is the end of the server's last turn, which succeeded.
THEOREM TurnsInOrderHolds == Spec => []TurnsInOrder
<1>1. IInv => NoOverlap
  <2> SUFFICES ASSUME IInv, NEW i \in DOMAIN toServer, toServer[i].kind = "turn" PROVE turn = 0
    BY DEF NoOverlap
  <2>1. toServer[i] \in Elems(toServer) /\ toServer[i] \in Requests
    BY DEF IInv, MessagesOK, Elems
  <2>2. TurnAsked
    BY <2>1, RequestFacts DEF TurnAsked
  <2> QED
    BY <2>2 DEF IInv, TurnInv, DispatchInv
<1>2. IInv => ForkPointIsSettled
  <2> SUFFICES ASSUME IInv, ForkPoint # 0
               PROVE  turn = 0 /\ ForkPoint = Len(turns) /\ Last(turns) = "completed"
    BY DEF ForkPointIsSettled
  <2>1. dispatch.done /\ successful = dispatch.id /\ ForkPoint = dispatch.id /\ dispatch.id # 0
    BY DEF ForkPoint
  <2> QED
    BY <2>1 DEF IInv, TurnInv, DispatchInv, SettledInv, Last
<1>3. IInv => TurnsInOrder
  BY <1>1, <1>2 DEF IInv, TurnsInOrder
<1> QED
  BY <1>3, InvHolds, PTL

\* Every question of the server is answered at most once, and one a running turn
\* waits for is on its way, shown or answered.
THEOREM ApprovalsAnsweredHolds == Spec => []ApprovalsAnswered
<1>1. IInv => AnsweredOnce
  BY DEF IInv, ApprovalInv, ApprovalOK, AnsweredOnce
<1>2. IInv => NoLostApproval
  <2> SUFFICES ASSUME IInv, NEW a \in asked, status = "running", a \notin approvals, ~(answers[a] > 0)
               PROVE  \E i \in DOMAIN wire : wire[i].type = "asked" /\ wire[i].id = a
    BY DEF NoLostApproval
  <2>1. OnItsWay(a)
    BY DEF IInv, TypeOK, ApprovalInv, ApprovalOK
  <2>2. wire \in Seq(News)
    BY DEF IInv, MessagesOK
  <2> QED
    BY <2>1, <2>2 DEF OnItsWay, Elems, Asking
<1>3. IInv => ApprovalsAnswered
  BY <1>1, <1>2 DEF ApprovalsAnswered
<1> QED
  BY <1>3, InvHolds, PTL

\* The session publishes to its owner only what SessionLife allows: a stopped
\* session never runs again, and only a confirmed cleanup closes it.
THEOREM ImplementsLifeHolds == Spec => ImplementsLife
<1>1. Init => Life!Init
  BY DEF Init, Life!Init
<1>2. IInv /\ [Next]_vars => [Life!Next]_(Life!vars)
  BY LifeStep, AllTypes DEF IInv, TurnInv, Life!vars, Seen
<1> QED
  BY <1>1, <1>2, InvHolds, PTL DEF Spec, ImplementsLife, Life!Spec
=============================================================================
