-------------------------- MODULE AgentRunsProofs ---------------------------
(***************************************************************************)
(* What the agent run service promises for any number of runs,             *)
(* instructions, requests and restarts, whatever its adapter reports: the  *)
(* record is true and can be written, a launch waits for the proof that    *)
(* nothing runs, and shutdown() overtakes nothing that was reported.       *)
(***************************************************************************)
EXTENDS AgentRuns, FiniteSetTheorems, TLAPS

-----------------------------------------------------------------------------
(* The queue.                                                                *)

Elems(q) == {q[i] : i \in 1..Len(q)}
Once(q, S) == \A i, j \in 1..Len(q) : q[i] \in S /\ q[j] \in S => i = j
Before(q, S, T) == \A i, j \in 1..Len(q) : q[i] \in S /\ q[j] \in T => i < j

Plain == {"prepare", "launch", "cancel", "admitted", "cancelling", "dispatch", "dispatched",
          "register", "unknown"}
Replies == {"accepted", "rejected", "delivery-unknown"}
Ops ==
    [type : Plain, run : Runs, arg : {"none"}]
    \cup [type : {"steer", "steering"}, run : Runs, arg : Instructions]
    \cup [type : {"settle"}, run : Runs, arg : Instructions \X Replies]
    \cup [type : {"event"}, run : Runs, arg : Reports]
    \cup [type : {"finish"}, run : Runs, arg : {"confirmed", "unknown"}]
    \cup [type : {"drain"}, run : {"none"}, arg : {"none"}]

Continuing == {o \in Ops : o.type \in {"admitted", "cancelling", "steering", "dispatched"}}
Events == {o \in Ops : o.type = "event"}
Drains == {o \in Ops : o.type = "drain"}
Starting(r) == {o \in Ops : o.run = r /\ o.type \in {"admitted", "dispatch", "dispatched"}}
Finishing(r) == {o \in Ops : o.run = r /\ o.type = "finish"}

\* A continuation is at the head; one start and one end of a cleanup are queued of
\* a run, one cutoff in all, and the reports are before it.
QueueOK(q) ==
    /\ q \in Seq(Ops)
    /\ q # <<>> => Elems(Tail(q)) \cap Continuing = {}
    /\ \A r \in Runs : Once(q, Starting(r)) /\ Once(q, Finishing(r))
    /\ Once(q, Drains) /\ Before(q, Events, Drains)
Has(r, types) == \E o \in Elems(queue) : o.run = r /\ o.type \in types

-----------------------------------------------------------------------------
(* The invariant.                                                            *)

\* The records of the store make sense by themselves.
Sane(d) ==
    /\ d \in Records
    /\ d.state = "absent" => d.process = "not-started"
    /\ d.state = "running" => d.turn /\ d.process = "live"
    /\ d.state = "starting" => ~d.turn
    /\ d.process = "not-started" => ~d.turn
    /\ d.process = "not-started" <=> d.cleanup = "not-needed"
    /\ d.cleanup = "confirmed" => d.process = "exited"
    /\ Live(d) => d.process \in {"not-started", "live"}
    /\ d.outcome \in {"completed", "failed", "interrupted"} => d.turn
    /\ Evidence(d)
    /\ \A i, j \in Instructions : d.receipts[i] = "pending" /\ d.receipts[j] = "pending" => i = j

\* ... and are true of the world.
TrueOf(d, r) ==
    /\ starts[r] = 1 => d.process # "not-started"
    /\ d.cleanup = "confirmed" => provider[r] = "gone"
    /\ \A i \in Instructions : sent[r][i] > 0 => d.receipts[i] # "none"
    /\ d.state = "cancelled" =>
         CASE d.outcome = "prevented"   -> starts[r] = 0
           [] d.outcome = "termination" -> provider[r] = "gone"
           [] OTHER -> starts[r] = 1
DiskInv == ~refused /\ \A r \in Runs : Sane(disk[r]) /\ TrueOf(disk[r], r)

\* Memory is the store's, or nothing is left to happen in it.
Over(d) == ~Live(d) /\ \A i \in Instructions : d.receipts[i] # "pending"
MemInv == IF fault THEN \A r \in Runs : Over(mem[r]) ELSE mem = disk

\* What was called, and what can only come of it.
WorldOK(r) ==
    /\ starts[r] \in {0, 1} /\ (starts[r] = 1 <=> provider[r] # "none")
    /\ \A i \in Instructions : sent[r][i] <= 1
    /\ adapter[r] # "none" => starts[r] = 1
    /\ cleaning[r] # "none" \/ r \in handles \/ Has(r, {"register", "event"}) => adapter[r] # "none"
    /\ Has(r, {"cancelling"}) => ~fault
    /\ Has(r, {"finish"}) => cleaning[r] = "settled"
    /\ Has(r, {"admitted", "dispatch", "dispatched"}) => timer[r] # "start"
    /\ \A o \in Elems(queue) : o.run = r /\ o.type = "finish" /\ o.arg = "confirmed" => provider[r] = "gone"
WorldInv == \A r \in Runs : WorldOK(r)

\* What is under way for a run while the store is sound.
Begun(r) == timer[r] = "start" \/ Has(r, {"admitted", "dispatch"})
UnderWay(r) ==
    /\ Begun(r) \/ Has(r, {"dispatched"}) => starts[r] = 0 /\ mem[r].state # "absent"
    /\ Begun(r) => mem[r].process = "not-started"
    /\ Has(r, {"dispatched"}) => mem[r].process = "live" /\ mem[r].cleanup = "pending"
    /\ Has(r, {"cancelling"}) => mem[r].state = "cancelling"
    /\ \A o \in Elems(queue) : o.run = r /\ o.type = "steering" =>
         sent[r][o.arg] = 0 /\ mem[r].receipts[o.arg] # "none"
    /\ adapter[r] # "none" /\ (cleaning[r] # "settled" \/ Has(r, {"finish"})) => mem[r].cleanup = "pending"
TaskInv == ~fault => \A r \in Runs : UnderWay(r)

\* Before the cutoff it is queued, and after it nothing reported is.
CutoffInv ==
    /\ closing = "no" => ~drained /\ Elems(queue) \cap Drains = {}
    /\ closing = "closing" /\ ~drained => Elems(queue) \cap Drains # {}
    /\ drained => /\ closing # "no" /\ Elems(queue) \cap (Drains \cup Events \cup Continuing) = {}
                  /\ \A r \in Runs : ~Live(mem[r])
    /\ closing = "done" => drained /\ \A r \in Runs : timer[r] = "none"

IInv == TypeOK /\ QueueOK(queue) /\ DiskInv /\ MemInv /\ WorldInv /\ TaskInv /\ CutoffInv

-----------------------------------------------------------------------------
(* The queue: what is in it was put there, in order.                         *)

LEMMA QueueTypes ==
    ASSUME NEW S, NEW q \in Seq(S)
    PROVE  /\ \A m \in S : Append(q, m) \in Seq(S)
           /\ q # <<>> => Head(q) \in S /\ Tail(q) \in Seq(S)
           /\ Elems(q) \subseteq S
BY DEF Elems

LEMMA Written ==
    ASSUME NEW S, NEW q \in Seq(S), NEW m \in S
    PROVE  Elems(Append(q, m)) = Elems(q) \cup {m}
<1> DEFINE p == Append(q, m)
<1>1. Len(p) = Len(q) + 1 /\ p[Len(q) + 1] = m /\ \A i \in 1..Len(q) : p[i] = q[i]
  OBVIOUS
<1>2. Len(q) \in Nat
  OBVIOUS
<1> HIDE DEF p
<1>3. Elems(p) = Elems(q) \cup {m}
  <2>1. ASSUME NEW x \in Elems(p) PROVE x \in Elems(q) \cup {m}
    BY <1>1, <1>2 DEF Elems
  <2>2. ASSUME NEW x \in Elems(q) PROVE x \in Elems(p)
    <3>1. PICK i \in 1..Len(q) : x = q[i]
      BY DEF Elems
    <3> QED
      BY <3>1, <1>1, <1>2 DEF Elems
  <2>3. m \in Elems(p)
    BY <1>1, <1>2 DEF Elems
  <2> QED
    BY <2>1, <2>2, <2>3
<1> QED
  BY <1>3 DEF p

LEMMA Read ==
    ASSUME NEW S, NEW q \in Seq(S), q # <<>>
    PROVE  Head(q) \in Elems(q) /\ Elems(q) = Elems(Tail(q)) \cup {Head(q)}
<1> DEFINE t == Tail(q)
<1>1. Len(q) \in Nat /\ Len(q) > 0 /\ Len(t) = Len(q) - 1 /\ Head(q) = q[1]
       /\ \A i \in 1..Len(t) : t[i] = q[i + 1]
  OBVIOUS
<1> HIDE DEF t
<1>2. ASSUME NEW x \in Elems(t) PROVE x \in Elems(q)
  <2>1. PICK i \in 1..Len(t) : x = t[i]
    BY DEF Elems
  <2>2. x = q[i + 1] /\ i + 1 \in 1..Len(q)
    BY <1>1, <2>1
  <2> QED
    BY <2>2 DEF Elems
<1>3. Head(q) \in Elems(q)
  BY <1>1 DEF Elems
<1>4. ASSUME NEW x \in Elems(q), x # Head(q) PROVE x \in Elems(t)
  <2>1. PICK i \in 1..Len(q) : x = q[i]
    BY DEF Elems
  <2>2. i - 1 \in 1..Len(t) /\ x = t[i - 1]
    BY <1>1, <1>4, <2>1
  <2> QED
    BY <2>2 DEF Elems
<1> QED
  BY <1>2, <1>3, <1>4 DEF t

LEMMA WrittenOnce ==
    ASSUME NEW S, NEW q \in Seq(S), NEW m \in S, NEW T, Once(q, T), m \notin T \/ Elems(q) \cap T = {}
    PROVE  Once(Append(q, m), T)
<1> DEFINE p == Append(q, m)
<1>1. Len(p) = Len(q) + 1 /\ p[Len(q) + 1] = m /\ Len(q) \in Nat /\ \A i \in 1..Len(q) : p[i] = q[i]
  OBVIOUS
<1> HIDE DEF p
<1>2. ASSUME NEW i \in 1..Len(p), NEW j \in 1..Len(p), p[i] \in T, p[j] \in T
      PROVE  i = j
  <2>1. CASE i \in 1..Len(q) /\ j \in 1..Len(q)
    BY <2>1, <1>1, <1>2 DEF Once
  <2>2. CASE m \notin T
    BY <2>1, <2>2, <1>1, <1>2
  <2>3. CASE Elems(q) \cap T = {}
    <3>1. i \notin 1..Len(q) /\ j \notin 1..Len(q)
      BY <2>3, <1>1, <1>2 DEF Elems
    <3> QED
      BY <3>1, <1>1
  <2> QED
    BY <2>2, <2>3
<1> QED
  BY <1>2 DEF Once, p

LEMMA ReadOnce ==
    ASSUME NEW S, NEW q \in Seq(S), NEW T, Once(q, T), q # <<>>
    PROVE  Once(Tail(q), T) /\ (Head(q) \in T => Elems(Tail(q)) \cap T = {})
<1> DEFINE t == Tail(q)
<1>1. Len(q) \in Nat /\ Len(q) > 0 /\ Len(t) = Len(q) - 1 /\ Head(q) = q[1]
       /\ \A i \in 1..Len(t) : t[i] = q[i + 1]
  OBVIOUS
<1> HIDE DEF t
<1>2. \A i \in 1..Len(t) : i + 1 \in 1..Len(q) /\ i + 1 # 1 /\ t[i] = q[i + 1]
  BY <1>1
<1>3. Once(t, T)
  <2>1. ASSUME NEW i \in 1..Len(t), NEW j \in 1..Len(t), t[i] \in T, t[j] \in T
        PROVE  i = j
    <3>1. i + 1 = j + 1
      BY <1>2, <2>1 DEF Once
    <3> QED
      BY <3>1
  <2> QED
    BY <2>1 DEF Once
<1>4. ASSUME Head(q) \in T, NEW x \in Elems(t), x \in T PROVE FALSE
  <2>1. PICK i \in 1..Len(t) : x = t[i]
    BY DEF Elems
  <2>2. 1 \in 1..Len(q) /\ q[i + 1] \in T /\ q[1] \in T
    BY <1>1, <1>2, <1>4, <2>1
  <2> QED
    BY <1>2, <2>2 DEF Once
<1> QED
  BY <1>3, <1>4 DEF t

LEMMA WrittenAfter ==
    ASSUME NEW X, NEW q \in Seq(X), NEW m \in X, NEW S, NEW T, Before(q, S, T),
           m \in S => m \notin T /\ Elems(q) \cap T = {}
    PROVE  Before(Append(q, m), S, T)
<1> DEFINE p == Append(q, m)
<1>1. Len(p) = Len(q) + 1 /\ p[Len(q) + 1] = m /\ Len(q) \in Nat /\ \A i \in 1..Len(q) : p[i] = q[i]
  OBVIOUS
<1> HIDE DEF p
<1>2. ASSUME NEW i \in 1..Len(p), NEW j \in 1..Len(p), p[i] \in S, p[j] \in T PROVE i < j
  <2>1. CASE i \in 1..Len(q) /\ j \in 1..Len(q)
    BY <2>1, <1>1, <1>2 DEF Before
  <2>2. CASE i \in 1..Len(q) /\ j \notin 1..Len(q)
    BY <2>2, <1>1
  <2>3. CASE i \notin 1..Len(q)
    <3>1. m \in S /\ (j \in 1..Len(q) => q[j] \in Elems(q) \cap T) /\ (j \notin 1..Len(q) => m \in T)
      BY <2>3, <1>1, <1>2 DEF Elems
    <3> QED
      BY <3>1
  <2> QED
    BY <2>1, <2>2, <2>3
<1> QED
  BY <1>2 DEF Before, p

LEMMA ReadAfter ==
    ASSUME NEW X, NEW q \in Seq(X), NEW S, NEW T, Before(q, S, T), q # <<>>
    PROVE  Before(Tail(q), S, T) /\ (Head(q) \in T => Elems(Tail(q)) \cap S = {})
<1> DEFINE t == Tail(q)
<1>1. Len(q) \in Nat /\ Len(q) > 0 /\ Len(t) = Len(q) - 1 /\ Head(q) = q[1]
       /\ \A i \in 1..Len(t) : t[i] = q[i + 1]
  OBVIOUS
<1> HIDE DEF t
<1>2. \A i \in 1..Len(t) : i + 1 \in 1..Len(q) /\ t[i] = q[i + 1]
  BY <1>1
<1>3. Before(t, S, T)
  <2>1. ASSUME NEW i \in 1..Len(t), NEW j \in 1..Len(t), t[i] \in S, t[j] \in T PROVE i < j
    <3>1. i + 1 < j + 1
      BY <1>2, <2>1 DEF Before
    <3> QED
      BY <3>1
  <2> QED
    BY <2>1 DEF Before
<1>4. ASSUME Head(q) \in T, NEW x \in Elems(t), x \in S PROVE FALSE
  <2>1. PICK i \in 1..Len(t) : x = t[i]
    BY DEF Elems
  <2>2. 1 \in 1..Len(q) /\ q[i + 1] \in S /\ q[1] \in T
    BY <1>1, <1>2, <1>4, <2>1
  <2>3. i + 1 < 1
    BY <1>2, <2>2 DEF Before
  <2> QED
    BY <2>3
<1> QED
  BY <1>3, <1>4 DEF t

\* A new head in the place of the old one.
LEMMA Replaced ==
    ASSUME NEW X, NEW q \in Seq(X), q # <<>>, NEW m \in X
    PROVE  LET p == <<m>> \o Tail(q)
           IN  /\ p \in Seq(X) /\ p # <<>> /\ Len(p) = Len(q) /\ p[1] = m
               /\ \A i \in 2..Len(q) : p[i] = q[i]
               /\ Elems(Tail(p)) = Elems(Tail(q)) /\ Elems(p) = Elems(Tail(q)) \cup {m}
<1> DEFINE t == Tail(q)
           p == <<m>> \o t
<1>1. /\ Len(q) \in Nat /\ Len(q) > 0 /\ t \in Seq(X) /\ Len(t) = Len(q) - 1
      /\ \A i \in 1..Len(t) : t[i] = q[i + 1]
  OBVIOUS
<1>2. <<m>> \in Seq(X) /\ Len(<<m>>) = 1
  OBVIOUS
<1> HIDE DEF t
<1>3. p \in Seq(X) /\ Len(p) = Len(t) + 1 /\ p[1] = m /\ \A i \in 1..Len(t) : p[i + 1] = t[i]
  BY <1>1, <1>2
<1> HIDE DEF p
<1>4. p # <<>> /\ Head(p) = m
  BY <1>1, <1>3
<1>5. Len(p) = Len(q)
  BY <1>1, <1>3
<1>6. \A i \in 2..Len(q) : p[i] = q[i]
  <2>1. TAKE i \in 2..Len(q)
  <2>2. i - 1 \in 1..Len(t) /\ (i - 1) + 1 = i
    BY <1>1
  <2> QED
    BY <2>2, <1>1, <1>3
<1>7. Elems(Tail(p)) = Elems(t)
  <2> DEFINE u == Tail(p)
  <2>1. Len(u) = Len(t) /\ \A i \in 1..Len(u) : u[i] = p[i + 1]
    BY <1>1, <1>3, <1>4
  <2> HIDE DEF u
  <2>2. \A i \in 1..Len(u) : u[i] = t[i]
    BY <2>1, <1>3
  <2>3. Elems(u) = Elems(t)
    BY <2>1, <2>2 DEF Elems
  <2> QED
    BY <2>3 DEF u
<1>8. Elems(p) = Elems(Tail(p)) \cup {m}
  BY <1>3, <1>4, Read
<1> QED
  BY <1>3, <1>4, <1>5, <1>6, <1>7, <1>8 DEF p, t

-----------------------------------------------------------------------------
(* The operations in it.                                                     *)

LEMMA OpFacts ==
    ASSUME NEW o \in Ops
    PROVE  /\ o.type \in Plain \cup {"steer", "steering", "settle", "event", "finish", "drain"}
           /\ o \in Continuing <=> o.type \in {"admitted", "cancelling", "steering", "dispatched"}
           /\ o \in Events <=> o.type = "event"
           /\ o \in Drains <=> o.type = "drain"
           /\ \A r : /\ o \in Starting(r) <=> o.run = r /\ o.type \in {"admitted", "dispatch", "dispatched"}
                     /\ o \in Finishing(r) <=> o.run = r /\ o.type = "finish"
           /\ o.type # "drain" => o.run \in Runs
           /\ o.type = "drain" => o.run = "none" /\ o.run \notin Runs
           /\ o.type \in {"steer", "steering"} => o.arg \in Instructions
           /\ o.type = "settle" => o.arg[1] \in Instructions /\ o.arg[2] \in Replies
           /\ o.type = "event" => o.arg \in Reports
           /\ o.type = "finish" => o.arg \in {"confirmed", "unknown"}
BY RunsAssumption DEF Ops, Plain, Continuing, Events, Drains, Starting, Finishing

LEMMA OpsMade ==
    /\ \A r \in Runs :
        /\ \A t \in Plain : Operation(t, r, "none") \in Ops
        /\ \A i \in Instructions :
            /\ Operation("steer", r, i) \in Ops /\ Operation("steering", r, i) \in Ops
            /\ \A y \in Replies : Settlement(r, i, y) \in Ops
        /\ \A what \in Reports : Operation("event", r, what) \in Ops
        /\ \A outcome \in {"confirmed", "unknown"} : Operation("finish", r, outcome) \in Ops
    /\ Operation("drain", "none", "none") \in Ops
    /\ \A t, r, a : LET o == Operation(t, r, a) IN o.type = t /\ o.run = r /\ o.arg = a
    /\ \A r, i, y : LET o == Settlement(r, i, y) IN o.type = "settle" /\ o.run = r /\ o.arg = <<i, y>>
BY DEF Ops, Operation, Settlement

LEMMA Grows ==
    ASSUME NEW q, QueueOK(q), NEW m \in Ops, m \notin Continuing,
           \A r \in Runs : /\ m \in Starting(r) => Elems(q) \cap Starting(r) = {}
                           /\ m \in Finishing(r) => Elems(q) \cap Finishing(r) = {}
           , m \in Drains \cup Events => Elems(q) \cap Drains = {}
    PROVE  QueueOK(Append(q, m)) /\ Elems(Append(q, m)) = Elems(q) \cup {m}
<1> DEFINE p == Append(q, m)
<1>1. q \in Seq(Ops)
  BY DEF QueueOK
<1>2. p \in Seq(Ops) /\ Elems(p) = Elems(q) \cup {m}
  BY <1>1, QueueTypes, Written
<1>3. Elems(Tail(p)) \cap Continuing = {}
  <2>1. CASE q = <<>>
    <3>1. Tail(p) = <<>>
      BY <2>1
    <3> QED
      BY <3>1 DEF Elems
  <2>2. CASE q # <<>>
    <3>1. Tail(p) = Append(Tail(q), m) /\ Tail(q) \in Seq(Ops)
      BY <1>1, <2>2
    <3>2. Elems(Tail(p)) = Elems(Tail(q)) \cup {m}
      BY <3>1, Written
    <3> QED
      BY <3>2, <2>2 DEF QueueOK
  <2> QED
    BY <2>1, <2>2
<1>4. \A r \in Runs : Once(p, Starting(r)) /\ Once(p, Finishing(r))
  BY <1>1, WrittenOnce DEF QueueOK
<1>5. Once(p, Drains)
  BY <1>1, WrittenOnce DEF QueueOK
<1>6. Before(p, Events, Drains)
  BY <1>1, WrittenAfter, OpFacts DEF QueueOK
<1> QED
  BY <1>2, <1>3, <1>4, <1>5, <1>6 DEF QueueOK

LEMMA Shrinks ==
    ASSUME NEW q, QueueOK(q), q # <<>>
    PROVE  /\ QueueOK(Tail(q)) /\ Head(q) \in Ops /\ Head(q) \in Elems(q)
           /\ Elems(q) = Elems(Tail(q)) \cup {Head(q)} /\ Elems(Tail(q)) \subseteq Ops
           /\ Elems(Tail(q)) \cap Continuing = {}
           /\ \A r \in Runs : /\ Head(q) \in Starting(r) => Elems(Tail(q)) \cap Starting(r) = {}
                              /\ Head(q) \in Finishing(r) => Elems(Tail(q)) \cap Finishing(r) = {}
           /\ Head(q) \in Drains => Elems(Tail(q)) \cap (Drains \cup Events) = {}
<1> DEFINE t == Tail(q)
<1>1. q \in Seq(Ops)
  BY DEF QueueOK
<1>2. t \in Seq(Ops) /\ Head(q) \in Ops /\ Elems(t) \subseteq Ops
  BY <1>1, QueueTypes
<1>3. Head(q) \in Elems(q) /\ Elems(q) = Elems(t) \cup {Head(q)}
  BY <1>1, Read
<1>4. Elems(t) \cap Continuing = {}
  BY DEF QueueOK
<1>5. t # <<>> => Elems(Tail(t)) \cap Continuing = {}
  <2>1. t # <<>> => Elems(Tail(t)) \subseteq Elems(t)
    BY <1>2, Read
  <2> QED
    BY <2>1, <1>4
<1>6. \A r \in Runs : /\ Once(t, Starting(r)) /\ Once(t, Finishing(r))
                      /\ Head(q) \in Starting(r) => Elems(t) \cap Starting(r) = {}
                      /\ Head(q) \in Finishing(r) => Elems(t) \cap Finishing(r) = {}
  BY <1>1, ReadOnce DEF QueueOK
<1>7. Once(t, Drains) /\ (Head(q) \in Drains => Elems(t) \cap Drains = {})
  BY <1>1, ReadOnce DEF QueueOK
<1>8. Before(t, Events, Drains) /\ (Head(q) \in Drains => Elems(t) \cap Events = {})
  BY <1>1, ReadAfter DEF QueueOK
<1> QED
  BY <1>2, <1>3, <1>4, <1>5, <1>6, <1>7, <1>8 DEF QueueOK

LEMMA Stays ==
    ASSUME NEW q, QueueOK(q), q # <<>>, NEW m \in Continuing,
           \A r \in Runs : m \in Starting(r) => Elems(Tail(q)) \cap Starting(r) = {}
    PROVE  /\ QueueOK(<<m>> \o Tail(q))
           /\ Elems(<<m>> \o Tail(q)) = Elems(Tail(q)) \cup {m}
<1> DEFINE p == <<m>> \o Tail(q)
<1>1. q \in Seq(Ops) /\ m \in Ops /\ Len(q) \in Nat /\ Len(q) # 0
  BY DEF QueueOK, Continuing
<1>2. /\ p \in Seq(Ops) /\ Len(p) = Len(q) /\ p[1] = m /\ \A i \in 2..Len(q) : p[i] = q[i]
      /\ Elems(Tail(p)) = Elems(Tail(q)) /\ Elems(p) = Elems(Tail(q)) \cup {m}
  BY <1>1, Replaced
<1>3. \A i \in 2..Len(q) : q[i] \in Elems(Tail(q))
  <2>1. TAKE i \in 2..Len(q)
  <2>2. Tail(q)[i - 1] = q[i] /\ i - 1 \in 1..Len(Tail(q))
    BY <1>1
  <2> QED
    BY <2>2 DEF Elems
<1> HIDE DEF p
<1>4. ASSUME NEW S, Once(q, S), m \in S => Elems(Tail(q)) \cap S = {} PROVE Once(p, S)
  <2>1. ASSUME NEW i \in 1..Len(p), NEW j \in 1..Len(p), p[i] \in S, p[j] \in S PROVE i = j
    <3>1. CASE i # 1 /\ j # 1
      BY <3>1, <2>1, <1>1, <1>2, <1>4 DEF Once
    <3>2. CASE i = 1 \/ j = 1
      <4>1. m \in S
        BY <3>2, <2>1, <1>2
      <4>2. \A k \in 2..Len(q) : p[k] \notin S
        BY <4>1, <1>2, <1>3, <1>4
      <4> QED
        BY <4>2, <2>1, <1>1, <1>2
    <3> QED
      BY <3>1, <3>2
  <2> QED
    BY <2>1 DEF Once
<1>5. m \notin Events /\ m \notin Drains /\ \A r : m \notin Finishing(r)
  BY OpFacts DEF Continuing
<1>6. Before(p, Events, Drains)
  <2>1. \A i, j \in 1..Len(p) : p[i] \in Events /\ p[j] \in Drains => i \in 2..Len(q) /\ j \in 2..Len(q)
    BY <1>1, <1>2, <1>5
  <2>2. 2..Len(q) \subseteq 1..Len(q)
    BY <1>1
  <2> QED
    BY <2>1, <2>2, <1>2 DEF QueueOK, Before
<1>7. \A r \in Runs : Once(p, Starting(r)) /\ Once(p, Finishing(r))
  BY <1>4, <1>5 DEF QueueOK
<1>8. Once(p, Drains)
  BY <1>4, <1>5 DEF QueueOK
<1> QED
  BY <1>2, <1>6, <1>7, <1>8 DEF QueueOK, p

-----------------------------------------------------------------------------
(* The records.                                                              *)

LEMMA SaneIsValid == ASSUME NEW d, Sane(d) PROVE Valid(d)
<1> DEFINE P == {i \in Instructions : d.receipts[i] = "pending"}
<1>1. IsFiniteSet(P)
  BY RunsAssumption, FS_Subset
<1>2. Cardinality(P) <= 1
  <2>1. CASE P = {}
    BY <2>1, FS_EmptySet
  <2>2. CASE P # {}
    <3>1. PICK i \in P : TRUE
      BY <2>2
    <3>2. P = {i}
      BY <3>1 DEF Sane
    <3> QED
      BY <3>2, FS_Singleton
  <2> QED
    BY <2>1, <2>2
<1> QED
  BY <1>2 DEF Sane, Valid

LEMMA AbsentSane == Sane(Absent) /\ Over(Absent) /\ Sane(Admitted)
BY DEF Sane, Over, Absent, Admitted, NoReceipts, Records, RunStates, Live, Evidence, TurnEnds, Terminal

\* What the record of a run keeps when its end is not established.
LEMMA UncertainFacts ==
    ASSUME NEW d, Sane(d)
    PROVE  LET u == Uncertain(d)
           IN  /\ Sane(u) /\ Over(u)
               /\ u.process = d.process /\ u.cleanup = d.cleanup /\ u.outcome = d.outcome /\ u.turn = d.turn
               /\ u.state = IF Live(d) THEN "unknown" ELSE d.state
               /\ \A i \in Instructions :
                    u.receipts[i] = IF d.receipts[i] = "pending" THEN "delivery-unknown" ELSE d.receipts[i]
<1> DEFINE u == Uncertain(d)
<1>1. /\ u \in Records /\ u.process = d.process /\ u.cleanup = d.cleanup /\ u.outcome = d.outcome
      /\ u.turn = d.turn /\ u.state = IF Live(d) THEN "unknown" ELSE d.state
      /\ \A i \in Instructions :
           u.receipts[i] = IF d.receipts[i] = "pending" THEN "delivery-unknown" ELSE d.receipts[i]
  BY DEF Uncertain, Sane, Records, RunStates, Terminal
<1> HIDE DEF u
<1>2. Over(u)
  BY <1>1 DEF Over, Live
<1>3. Sane(u)
  <2>1. Evidence(u)
    BY <1>1 DEF Sane, Evidence, Live
  <2> QED
    BY <1>1, <1>2, <2>1 DEF Sane, Over, Live
<1> QED
  BY <1>1, <1>2, <1>3 DEF u

LEMMA UncertainUpdates == ASSUME NEW d, Sane(d) PROVE Updates(d, Uncertain(d))
<1> DEFINE u == Uncertain(d)
<1>1. /\ u.process = d.process /\ u.cleanup = d.cleanup /\ u.outcome = d.outcome /\ u.turn = d.turn
      /\ u.state = IF Live(d) THEN "unknown" ELSE d.state
      /\ \A i \in Instructions :
           u.receipts[i] = IF d.receipts[i] = "pending" THEN "delivery-unknown" ELSE d.receipts[i]
  BY UncertainFacts
<1> HIDE DEF u
<1>2. CanTransition(d.state, u.state)
  BY <1>1 DEF CanTransition, Successors, Live, Terminal
<1> QED
  BY <1>1, <1>2 DEF Updates, u

LEMMA UncertainTrue == ASSUME NEW d, NEW r, Sane(d), TrueOf(d, r) PROVE TrueOf(Uncertain(d), r)
<1> DEFINE u == Uncertain(d)
<1>1. /\ u.process = d.process /\ u.cleanup = d.cleanup /\ u.outcome = d.outcome
      /\ u.state = IF Live(d) THEN "unknown" ELSE d.state
      /\ \A i \in Instructions :
           u.receipts[i] = IF d.receipts[i] = "pending" THEN "delivery-unknown" ELSE d.receipts[i]
  BY UncertainFacts
<1> HIDE DEF u
<1> QED
  BY <1>1 DEF TrueOf, u

LEMMA RecoveredFacts ==
    ASSUME NEW d, NEW r, Sane(d), TrueOf(d, r)
    PROVE  Sane(Recovered(d)) /\ TrueOf(Recovered(d), r)
<1> DEFINE u == Uncertain(d)
           v == Recovered(d)
<1>1. /\ Sane(u) /\ Over(u) /\ TrueOf(u, r) /\ u.process = d.process /\ u.cleanup = d.cleanup
      /\ u.outcome = d.outcome /\ u.state = IF Live(d) THEN "unknown" ELSE d.state
  BY UncertainFacts, UncertainTrue
<1> HIDE DEF u
<1>2. u \in Records
  BY <1>1 DEF Sane
<1>3. CASE Live(d)
  <2>1. v = [u EXCEPT !.process = "unknown", !.cleanup = "unknown"]
    BY <1>3 DEF Recovered, u
  <2>2. /\ v \in Records /\ v.process = "unknown" /\ v.cleanup = "unknown" /\ v.state = "unknown"
        /\ v.turn = u.turn /\ v.outcome = u.outcome /\ v.receipts = u.receipts
    BY <1>1, <1>2, <1>3, <2>1 DEF Records
  <2> HIDE DEF v
  <2>3. Sane(v)
    BY <1>1, <1>3, <2>2 DEF Sane, Live, Evidence
  <2>4. TrueOf(v, r)
    BY <1>1, <2>2 DEF TrueOf
  <2> QED
    BY <2>3, <2>4 DEF v
<1>4. CASE ~Live(d) /\ (d.process = "live" \/ d.cleanup = "pending")
  <2>1. v = [u EXCEPT !.process = IF @ = "live" THEN "unknown" ELSE @, !.cleanup = "unknown"]
    BY <1>4 DEF Recovered, u
  <2>2. /\ v \in Records /\ v.cleanup = "unknown" /\ v.state = u.state
        /\ v.process = IF u.process = "live" THEN "unknown" ELSE u.process
        /\ v.turn = u.turn /\ v.outcome = u.outcome /\ v.receipts = u.receipts
    BY <1>2, <2>1 DEF Records
  <2> HIDE DEF v
  <2>3. u.process # "not-started" /\ ~Live(v) /\ u.state \notin {"starting", "running"}
        /\ u.cleanup # "confirmed"
    BY <1>1, <1>4, <2>2 DEF Sane, Live
  <2>4. Sane(v)
    <3>1. Evidence(v)
      BY <1>1, <2>2, <2>3 DEF Sane, Evidence
    <3> QED
      BY <1>1, <2>2, <2>3, <3>1 DEF Sane
  <2>5. TrueOf(v, r)
    BY <1>1, <2>2, <2>3 DEF TrueOf
  <2> QED
    BY <2>4, <2>5 DEF v
<1>5. CASE ~Live(d) /\ ~(d.process = "live" \/ d.cleanup = "pending")
  BY <1>1, <1>5 DEF Recovered, u
<1> QED
  BY <1>3, <1>4, <1>5

-----------------------------------------------------------------------------
(* The store.                                                                *)

Disposed ==
    /\ cleaning' \in [Runs -> {"none", "disposing", "settled"}]
    /\ \A r \in Runs : \/ cleaning'[r] = cleaning[r]
                       \/ adapter[r] # "none" /\ cleaning[r] = "none" /\ cleaning'[r] = "disposing"
Put(r, run) ==
    \/ fault' = FALSE /\ disk' = [disk EXCEPT ![r] = run] /\ mem' = disk'
    \/ fault' = TRUE /\ disk' \in {disk, [disk EXCEPT ![r] = run]} /\ mem' = AllUncertain

LEMMA Disposes ==
    ASSUME TypeOK, WorldInv, NEW these, \A r \in these : r \in handles \/ adapter[r] # "none",
           Dispose(these)
    PROVE  Disposed
BY DEF TypeOK, WorldInv, WorldOK, Dispose, Disposed

LEMMA WriteStores ==
    ASSUME TypeOK, MemInv, WorldInv, ~fault, NEW r \in Runs, NEW run, NEW these, these \subseteq handles,
           Write(r, run, these)
    PROVE  Put(r, run) /\ Disposed
<1>1. mem = disk
  BY DEF MemInv
<1>2. handles \subseteq handles
  OBVIOUS
<1>3. CASE fault' = TRUE /\ WriteFails([disk EXCEPT ![r] = run])
  BY <1>2, <1>3, Disposes DEF WriteFails, Put
<1>4. CASE /\ StoreOpen /\ disk' = [disk EXCEPT ![r] = run]
           /\ mem' = [mem EXCEPT ![r] = run] /\ Dispose(these) /\ UNCHANGED fault
  BY <1>1, <1>4, Disposes DEF Put, TypeOK
<1> QED
  BY <1>3, <1>4 DEF Write, WriteFails

LEMMA PersistStores ==
    ASSUME TypeOK, MemInv, DiskInv, WorldInv, ~fault, NEW r \in Runs, NEW run, NEW these,
           these \subseteq handles, Sane(run), Updates(disk[r], run), Persist(r, run, these)
    PROVE  Put(r, run) /\ Disposed /\ refused' = FALSE
<1>1. Legal(r, run)
  BY SaneIsValid DEF Legal
<1>2. Write(r, run, these) /\ refused' = (refused \/ ~Legal(r, run)) /\ refused = FALSE
  BY <1>1 DEF Persist, DiskInv, TypeOK
<1>3. refused' = FALSE
  BY <1>1, <1>2
<1> QED
  BY <1>2, <1>3, WriteStores

\* ... and no handle is disposed of afterwards.
LEMMA PersistAlone ==
    ASSUME TypeOK, MemInv, DiskInv, WorldInv, ~fault, NEW r \in Runs, NEW run,
           Sane(run), Updates(disk[r], run), Persist(r, run, {})
    PROVE  Put(r, run) /\ Disposed /\ refused' = FALSE
<1>1. PICK these : these = {}
  OBVIOUS
<1>2. these \subseteq handles /\ Persist(r, run, these)
  BY <1>1
<1> QED
  BY <1>2, PersistStores

StoreTypes == mem \in [Runs -> Records] /\ disk \in [Runs -> Records] /\ fault \in BOOLEAN /\ refused \in BOOLEAN
LEMMA PutKeeps ==
    ASSUME TypeOK, MemInv, DiskInv, ~fault, NEW r \in Runs, NEW run, Put(r, run), refused' = FALSE,
           Sane(run), TrueOf(run, r), UNCHANGED worldVars
    PROVE  StoreTypes' /\ DiskInv' /\ MemInv'
<1>1. disk \in [Runs -> Records] /\ mem = disk /\ run \in Records /\ \A q \in Runs : Sane(disk[q]) /\ TrueOf(disk[q], q)
  BY DEF TypeOK, MemInv, DiskInv, Sane
<1>2. disk' = disk \/ disk' = [disk EXCEPT ![r] = run]
  BY DEF Put
<1>3. disk' \in [Runs -> Records] /\ \A q \in Runs : disk'[q] = disk[q] \/ (q = r /\ disk'[q] = run)
  BY <1>1, <1>2
<1>4. DiskInv'
  <2>1. ASSUME NEW q \in Runs PROVE Sane(disk'[q]) /\ TrueOf(disk'[q], q)
    BY <1>1, <1>3
  <2>2. ASSUME NEW q \in Runs PROVE TrueOf(disk[q], q)'
    BY <2>1 DEF TrueOf, worldVars
  <2>3. ASSUME NEW q \in Runs PROVE Sane(disk[q])'
    BY <2>1 DEF Sane, Evidence, Live
  <2> QED
    BY <2>2, <2>3 DEF DiskInv
<1>5. mem' \in [Runs -> Records] /\ MemInv' /\ fault' \in BOOLEAN
  <2>1. CASE fault' = FALSE /\ mem' = disk'
    <3>1. fault' \in BOOLEAN
      BY <2>1 DEF Put, TypeOK
    <3> QED
      BY <2>1, <3>1, <1>3 DEF MemInv
  <2>2. CASE fault' = TRUE /\ mem' = AllUncertain
    <3>1. \A q \in Runs : Sane(Uncertain(mem[q])) /\ Over(Uncertain(mem[q]))
      BY <1>1, UncertainFacts
    <3>2. mem' \in [Runs -> Records] /\ \A q \in Runs : Over(mem'[q])
      BY <2>2, <3>1 DEF AllUncertain, Sane
    <3> QED
      BY <2>2, <3>2 DEF MemInv, Over, Live
  <2> QED
    BY <2>1, <2>2 DEF Put
<1> QED
  BY <1>3, <1>4, <1>5 DEF StoreTypes

-----------------------------------------------------------------------------
(* What most steps leave alone.                                              *)

LEMMA InvFacts ==
    ASSUME IInv
    PROVE  /\ TypeOK /\ QueueOK(queue) /\ DiskInv /\ MemInv /\ WorldInv /\ TaskInv /\ CutoffInv
           /\ Elems(queue) \subseteq Ops
           /\ \A r \in Runs : mem[r] \in Records /\ (~fault => Sane(mem[r]) /\ TrueOf(mem[r], r) /\ UnderWay(r))
<1>1. queue \in Seq(Ops)
  BY DEF IInv, QueueOK
<1>2. Elems(queue) \subseteq Ops
  BY <1>1, QueueTypes
<1>3. ~fault => mem = disk /\ \A r \in Runs : UnderWay(r)
  BY DEF IInv, MemInv, TaskInv
<1> QED
  BY <1>2, <1>3 DEF IInv, TypeOK, DiskInv

LEMMA ServedFacts ==
    ASSUME IInv, queue # <<>>
    PROVE  /\ QueueOK(Tail(queue)) /\ Head(queue) \in Ops /\ Head(queue) \in Elems(queue)
           /\ Elems(Tail(queue)) \subseteq Elems(queue)
           /\ \A o \in Elems(queue) : o \in Ops /\ (o = Head(queue) \/ o \in Elems(Tail(queue)))
           /\ \A o \in Elems(Tail(queue)) :
                /\ o.type \notin {"admitted", "cancelling", "steering", "dispatched"}
                /\ o.run \in Runs /\ o.run = Head(queue).run =>
                     /\ o.type = "dispatch" => Head(queue).type \notin {"admitted", "dispatch", "dispatched"}
                     /\ o.type = "finish" => Head(queue).type # "finish"
                /\ Head(queue).type = "drain" => o.type \notin {"drain", "event"}
<1>1. QueueOK(queue)
  BY InvFacts
<1>2. /\ QueueOK(Tail(queue)) /\ Head(queue) \in Ops /\ Head(queue) \in Elems(queue)
      /\ Elems(queue) = Elems(Tail(queue)) \cup {Head(queue)} /\ Elems(Tail(queue)) \subseteq Ops
      /\ Elems(Tail(queue)) \cap Continuing = {}
      /\ \A r \in Runs : /\ Head(queue) \in Starting(r) => Elems(Tail(queue)) \cap Starting(r) = {}
                         /\ Head(queue) \in Finishing(r) => Elems(Tail(queue)) \cap Finishing(r) = {}
      /\ Head(queue) \in Drains => Elems(Tail(queue)) \cap (Drains \cup Events) = {}
  BY <1>1, Shrinks
<1>3. ASSUME NEW o \in Elems(Tail(queue))
      PROVE  /\ o.type \notin {"admitted", "cancelling", "steering", "dispatched"}
             /\ Head(queue).type = "drain" => o.type \notin {"drain", "event"}
  BY <1>2, OpFacts
<1>4. ASSUME NEW o \in Elems(Tail(queue)), o.run \in Runs, o.run = Head(queue).run
      PROVE  /\ o.type = "dispatch" => Head(queue).type \notin {"admitted", "dispatch", "dispatched"}
             /\ o.type = "finish" => Head(queue).type # "finish"
  <2>1. o \in Ops /\ Head(queue) \in Ops
    BY <1>2
  <2>2. /\ o \in Starting(o.run) <=> o.type \in {"admitted", "dispatch", "dispatched"}
        /\ o \in Finishing(o.run) <=> o.type = "finish"
        /\ Head(queue) \in Starting(o.run) <=> Head(queue).type \in {"admitted", "dispatch", "dispatched"}
        /\ Head(queue) \in Finishing(o.run) <=> Head(queue).type = "finish"
    BY <2>1, <1>4, OpFacts
  <2> QED
    BY <1>2, <1>4, <2>2
<1> QED
  BY <1>2, <1>3, <1>4

\* The head of the queue was taken; at most the settlement of a steer was added.
Dequeued ==
    /\ queue # <<>> /\ QueueOK(queue') /\ Elems(Tail(queue)) \subseteq Elems(queue')
    /\ \A o \in Elems(queue') : o \in Elems(Tail(queue)) \/ o.type = "settle"

LEMMA Dequeues == ASSUME IInv, queue # <<>>, queue' = Tail(queue) PROVE Dequeued
BY ServedFacts DEF Dequeued

LEMMA PrimedSets ==
    /\ Elems(queue)' = Elems(queue') /\ QueueOK(queue)' = QueueOK(queue')
    /\ Ops' = Ops /\ Drains' = Drains /\ Events' = Events /\ Continuing' = Continuing
BY DEF QueueOK, Elems, Once, Before, Ops, Continuing, Events, Drains, Starting, Finishing

\* A step that stores nothing, and calls nothing.
LEMMA QuietStore ==
    ASSUME IInv, UNCHANGED <<storeVars, provider, starts, sent>>
    PROVE  StoreTypes' /\ DiskInv' /\ MemInv'
<1>1. UNCHANGED <<mem, disk, fault, refused, provider, starts, sent>>
  BY DEF storeVars
<1>2. DiskInv'
  <2>1. ASSUME NEW r \in Runs PROVE Sane(disk[r])' /\ TrueOf(disk[r], r)'
    <3>1. Sane(disk[r]) /\ TrueOf(disk[r], r)
      BY InvFacts DEF DiskInv
    <3>2. Sane(disk[r])'
      BY <3>1, <1>1 DEF Sane, Evidence, Live
    <3>3. TrueOf(disk[r], r)'
      BY <3>1, <1>1 DEF TrueOf
    <3> QED
      BY <3>2, <3>3
  <2> QED
    BY <2>1, <1>1, InvFacts DEF DiskInv
<1>3. MemInv'
  BY <1>1, InvFacts DEF MemInv, Over, Live
<1> QED
  BY <1>1, <1>2, <1>3, InvFacts DEF StoreTypes, TypeOK

OtherTypes ==
    /\ draft \in Runs \cup {"none"} /\ handles \subseteq Runs /\ overflow \subseteq Runs
    /\ cleaning \in [Runs -> {"none", "disposing", "settled"}]
    /\ timer \in [Runs -> {"none", "start", "deadline", "grace"}]
    /\ waiting \in [Runs -> Instructions \cup {"none"}]
    /\ closing \in {"no", "closing", "done"} /\ drained \in BOOLEAN
    /\ adapter \in [Runs -> {"none", "starting", "settled"}]
    /\ provider \in [Runs -> {"none", "live", "gone"}]
    /\ starts \in [Runs -> Nat] /\ sent \in [Runs -> [Instructions -> Nat]]
LEMMA TypesSplit == TypeOK <=> StoreTypes /\ OtherTypes
BY DEF TypeOK, StoreTypes, OtherTypes

\* What an operation of the queue does to the record of a run when another step
\* of that run is under way.
Follows(r) ==
    /\ mem'[r].state = "absent" => mem[r].state = "absent"
    /\ Begun(r)' => mem'[r].process = mem[r].process
    /\ adapter[r] # "none" /\ (cleaning'[r] # "settled" \/ Has(r, {"finish"})') =>
         mem'[r].cleanup = mem[r].cleanup

LEMMA ServedKeeps ==
    ASSUME IInv, Dequeued, Head(queue).type # "drain",
           UNCHANGED <<overflow, lifeVars, adapter, provider, starts>>, draft' \in Runs \cup {"none"},
           waiting' \in [Runs -> Instructions \cup {"none"}], sent' \in [Runs -> [Instructions -> Nat]],
           \A r \in Runs : \A i \in Instructions : sent'[r][i] <= 1,
           handles' \subseteq Runs, \A r \in handles' : r \in handles \/ adapter[r] # "none",
           StoreTypes', DiskInv', MemInv', Disposed, fault => fault',
           timer' \in [Runs -> {"none", "start", "deadline", "grace"}],
           \A r \in Runs : \/ timer'[r] \in {timer[r], "none"}
                           \/ timer'[r] = "grace" /\ Head(queue) \in Continuing
                           \/ timer'[r] = "start" /\ Head(queue).type = "admitted" /\ Head(queue).run = r,
           ~fault' => \A r \in Runs : Follows(r),
           drained => \A r \in Runs : ~Live(mem'[r])
    PROVE  IInv'
<1>1. /\ TypeOK /\ QueueOK(queue) /\ WorldInv /\ CutoffInv /\ OtherTypes
      /\ UNCHANGED <<closing, drained, adapter, provider, starts>>
  BY InvFacts, TypesSplit DEF lifeVars
<1>2. TypeOK'
  BY <1>1 DEF TypeOK, StoreTypes, OtherTypes, Disposed
<1>3. /\ QueueOK(queue') /\ queue # <<>> /\ Elems(Tail(queue)) \subseteq Elems(queue')
      /\ \A o \in Elems(queue') :
           /\ o.type \notin {"admitted", "cancelling", "steering", "dispatched"}
           /\ o.type # "settle" => o \in Elems(Tail(queue)) /\ o \in Elems(queue)
  BY ServedFacts DEF Dequeued
<1>4. WorldInv'
  <2> SUFFICES ASSUME NEW r \in Runs PROVE WorldOK(r)'
    BY DEF WorldInv
  <2>1. WorldOK(r)
    BY <1>1 DEF WorldInv
  <2>2. \A o \in Elems(queue)' : o.type # "settle" => o \in Elems(queue)
    BY <1>3, PrimedSets
  <2>3. cleaning'[r] # "none" => cleaning[r] # "none" \/ adapter[r] # "none"
    BY DEF Disposed
  <2>4. cleaning[r] = "settled" => cleaning'[r] = "settled"
    BY DEF Disposed
  <2>5. Has(r, {"admitted", "dispatch", "dispatched"})' => timer'[r] # "start"
    <3> SUFFICES ASSUME NEW o \in Elems(queue'), o.run = r, o.type \in {"admitted", "dispatch", "dispatched"}
                 PROVE  timer'[r] # "start"
      BY PrimedSets DEF Has
    <3>1. o.type = "dispatch" /\ o \in Elems(Tail(queue)) /\ o \in Elems(queue)
      BY <1>3
    <3>2. timer[r] # "start"
      BY <2>1, <3>1 DEF WorldOK, Has
    <3>3. ~(Head(queue).type = "admitted" /\ Head(queue).run = r)
      BY <1>3, <3>1, ServedFacts
    <3> QED
      BY <3>2, <3>3
  <2>6. ~Has(r, {"cancelling"})'
    BY <1>3, PrimedSets DEF Has
  <2>7. (Has(r, {"register", "event"})' => Has(r, {"register", "event"}))
        /\ (Has(r, {"finish"})' => Has(r, {"finish"}))
    BY <2>2 DEF Has
  <2> QED
    BY <1>1, <2>1, <2>2, <2>3, <2>4, <2>5, <2>6, <2>7 DEF WorldOK
<1>5. TaskInv'
  <2> SUFFICES ASSUME ~fault', NEW r \in Runs PROVE UnderWay(r)'
    BY DEF TaskInv
  <2>1. UnderWay(r) /\ Follows(r)
    BY InvFacts
  <2>2. \A o \in Elems(queue)' : /\ o.type \notin {"admitted", "cancelling", "steering", "dispatched"}
                                 /\ o.type # "settle" => o \in Elems(queue)
    BY <1>3, PrimedSets
  <2>3. timer'[r] = "start" => timer[r] = "start" \/ Has(r, {"admitted", "dispatch"})
    BY <1>3, ServedFacts DEF Has
  <2>4. cleaning[r] = "settled" => cleaning'[r] = "settled"
    BY DEF Disposed
  <2>5. Begun(r)' => Begun(r)
    BY <2>2, <2>3 DEF Begun, Has
  <2>6. Has(r, {"finish"})' => Has(r, {"finish"})
    BY <2>2 DEF Has
  <2>7. ~Has(r, {"dispatched"})' /\ ~Has(r, {"cancelling"})'
        /\ \A o \in Elems(queue)' : ~(o.run = r /\ o.type = "steering")
    BY <2>2 DEF Has
  <2> QED
    BY <1>1, <2>1, <2>4, <2>5, <2>6, <2>7 DEF UnderWay, Follows
<1>6. CutoffInv'
  <2>1. Head(queue) \in Elems(queue) /\ Head(queue) \in Ops /\ Head(queue) \notin Drains
        /\ \A o \in Elems(queue') : o \in Ops
    <3>1. queue' \in Seq(Ops)
      BY <1>3 DEF QueueOK
    <3>2. Elems(queue') \subseteq Ops
      BY <3>1, QueueTypes
    <3> QED
      BY <1>3, <3>2, ServedFacts, OpFacts
  <2>2. Elems(queue') \cap Drains = Elems(queue) \cap Drains
    <3>1. \A o \in Elems(queue') \cap Drains : o \in Elems(queue)
      BY <1>3, <2>1, OpFacts
    <3>2. \A o \in Elems(queue) \cap Drains : o \in Elems(queue')
      BY <1>3, <2>1, ServedFacts
    <3> QED
      BY <3>1, <3>2
  <2>3. Elems(queue') \cap (Drains \cup Events \cup Continuing) \subseteq Elems(queue)
    BY <1>3, <2>1, OpFacts
  <2>4. drained => Head(queue) \notin Continuing /\ Head(queue).type # "admitted"
    BY <1>1, <2>1, OpFacts DEF CutoffInv
  <2>5. closing = "done" => drained /\ \A r \in Runs : timer'[r] = "none"
    BY <1>1, <2>4 DEF CutoffInv
  <2>6. drained => \A r \in Runs : ~Live(mem[r])'
    BY DEF Live
  <2> QED
    BY <1>1, <2>2, <2>3, <2>5, <2>6, PrimedSets DEF CutoffInv
<1> QED
  BY <1>2, <1>3, <1>4, <1>5, <1>6, PrimedSets DEF IInv, StoreTypes

LEMMA ServedQuiet ==
    ASSUME IInv, Dequeued, Head(queue).type # "drain",
           UNCHANGED <<overflow, waiting, lifeVars, worldVars, storeVars>>, Disposed,
           draft' \in Runs \cup {"none"}, timer' \in [Runs -> {"none", "start", "deadline", "grace"}],
           handles' \subseteq Runs, \A r \in handles' : r \in handles \/ adapter[r] # "none",
           \A r \in Runs : \/ timer'[r] \in {timer[r], "none"}
                           \/ timer'[r] = "grace" /\ Head(queue) \in Continuing
                           \/ timer'[r] = "start" /\ Head(queue).type = "admitted" /\ Head(queue).run = r
    PROVE  IInv'
<1>1. TypeOK /\ CutoffInv /\ WorldInv
  BY InvFacts
<1>2. StoreTypes' /\ DiskInv' /\ MemInv'
  BY QuietStore DEF worldVars
<1>3. mem' = mem /\ fault' = fault
  BY DEF storeVars
<1>4. \A r \in Runs : Follows(r)
  BY <1>3 DEF Follows
<1>5. drained => \A r \in Runs : ~Live(mem'[r])
  BY <1>1, <1>3 DEF CutoffInv
<1> QED
  BY <1>1, <1>2, <1>3, <1>4, <1>5, ServedKeeps DEF TypeOK, WorldInv, WorldOK, worldVars

LEMMA ServedPut ==
    ASSUME IInv, ~fault, queue # <<>>, queue' = Tail(queue), Head(queue).type # "drain",
           UNCHANGED <<overflow, waiting, lifeVars, worldVars>>, draft' \in Runs \cup {"none"},
           handles' \subseteq handles,
           NEW r \in Runs, NEW run, Put(r, run), refused' = FALSE, Disposed, Sane(run), TrueOf(run, r),
           timer' \in [Runs -> {"none", "start", "deadline", "grace"}],
           \A q \in Runs : \/ timer'[q] \in {timer[q], "none"}
                           \/ timer'[q] = "grace" /\ Head(queue) \in Continuing,
           run.state = "absent" => mem[r].state = "absent",
           run.process = mem[r].process \/ starts[r] # 0,
           run.cleanup = mem[r].cleanup \/ Head(queue) \in Finishing(r),
           drained => ~Live(run)
    PROVE  IInv'
<1>1. TypeOK /\ CutoffInv /\ WorldInv /\ DiskInv /\ MemInv /\ mem = disk
  BY InvFacts DEF MemInv
<1>2. StoreTypes' /\ DiskInv' /\ MemInv'
  BY <1>1, PutKeeps
<1>3. fault' = FALSE => mem' = [mem EXCEPT ![r] = run]
  BY <1>1 DEF Put
<1>4. ASSUME ~fault', NEW q \in Runs PROVE Follows(q)
  <2>1. mem'[q] = IF q = r THEN run ELSE mem[q]
    BY <1>1, <1>3, <1>4 DEF Put, TypeOK
  <2>2. Begun(q)' => starts[q] = 0
    <3>1. Begun(q)' => Begun(q)
      BY ServedFacts DEF Begun, Has, Elems
    <3> QED
      BY <3>1, InvFacts DEF UnderWay
  <2>3. ASSUME q = r, Head(queue) \in Finishing(r)
        PROVE  cleaning'[q] = "settled" /\ ~Has(q, {"finish"})'
    <3>1. Head(queue).type = "finish" /\ Head(queue).run = r /\ Head(queue) \in Elems(queue)
      BY <2>3, ServedFacts, OpFacts
    <3>2. cleaning[r] = "settled"
      BY <3>1, InvFacts DEF WorldInv, WorldOK, Has
    <3>3. \A o \in Elems(Tail(queue)) : ~(o.run = r /\ o.type = "finish")
      BY <3>1, ServedFacts
    <3>4. ~Has(q, {"finish"})'
      BY <2>3, <3>3 DEF Has, Elems
    <3> QED
      BY <3>2, <3>4, <2>3 DEF Disposed
  <2> QED
    BY <2>1, <2>2, <2>3 DEF Follows
<1>5. drained => \A q \in Runs : ~Live(mem'[q])
  <2>1. CASE fault' = FALSE
    <3>1. \A q \in Runs : mem'[q] = IF q = r THEN run ELSE mem[q]
      BY <1>1, <1>3, <2>1 DEF TypeOK
    <3> QED
      BY <3>1, <1>1 DEF CutoffInv
  <2>2. CASE fault' = TRUE
    BY <2>2, <1>2 DEF MemInv, Over, Live
  <2> QED
    BY <2>1, <2>2 DEF Put
<1> QED
  BY <1>1, <1>2, <1>4, <1>5, Dequeues, ServedKeeps DEF TypeOK, Put, WorldInv, WorldOK, worldVars

\* An operation that puts its continuation in its place.
LEMMA ContinuesPut ==
    ASSUME IInv, ~fault, ~drained, queue # <<>>, Head(queue).type # "drain",
           NEW r \in Runs, NEW m \in Continuing, m.run = r, queue' = <<m>> \o Tail(queue),
           UNCHANGED <<timer, handles, overflow, waiting, lifeVars, worldVars>>,
           draft' \in Runs \cup {"none"},
           NEW run, Put(r, run), refused' = FALSE, Disposed, Sane(run), TrueOf(run, r),
           run.state # "absent",
           m.type \in {"admitted", "dispatched"} =>
               /\ \A o \in Elems(Tail(queue)) : ~(o.run = r /\ o.type = "dispatch")
               /\ starts[r] = 0 /\ timer[r] # "start",
           m.type = "admitted" => run.process = "not-started",
           m.type = "dispatched" => run.process = "live" /\ run.cleanup = "pending",
           m.type = "cancelling" => run.state = "cancelling" /\ fault' = FALSE,
           m.type = "steering" => sent[r][m.arg] = 0 /\ run.receipts[m.arg] # "none",
           m.type \notin {"admitted", "dispatched"} =>
               run.process = mem[r].process /\ run.cleanup = mem[r].cleanup
    PROVE  IInv'
<1>1. /\ TypeOK /\ QueueOK(queue) /\ WorldInv /\ CutoffInv /\ DiskInv /\ MemInv /\ OtherTypes /\ mem = disk
      /\ UNCHANGED <<closing, drained, adapter, provider, starts, sent>>
  BY InvFacts, TypesSplit DEF lifeVars, worldVars, MemInv
<1>2. StoreTypes' /\ DiskInv' /\ MemInv'
  BY <1>1, PutKeeps
<1>3. TypeOK'
  BY <1>1, <1>2 DEF TypeOK, StoreTypes, OtherTypes, Disposed
<1>4. m \in Ops /\ m.type \in {"admitted", "cancelling", "steering", "dispatched"}
  BY OpFacts DEF Continuing
<1>5. QueueOK(queue') /\ Elems(queue') = Elems(Tail(queue)) \cup {m}
  <2>1. ASSUME NEW q \in Runs, m \in Starting(q) PROVE Elems(Tail(queue)) \cap Starting(q) = {}
    <3>1. q = r /\ m.type \in {"admitted", "dispatched"}
      BY <1>4, <2>1, OpFacts
    <3>2. \A o \in Elems(Tail(queue)) : o \in Ops /\ ~(o.run = r /\ o.type \in {"admitted", "dispatch", "dispatched"})
      BY <3>1, ServedFacts
    <3> QED
      BY <3>1, <3>2, OpFacts
  <2> QED
    BY <1>1, <2>1, Stays
<1>6. \A o \in Elems(queue') : o # m =>
        o \in Elems(queue) /\ o.type \notin {"admitted", "cancelling", "steering", "dispatched"}
  <2>1. \A o \in Elems(Tail(queue)) :
          o \in Elems(queue) /\ o.type \notin {"admitted", "cancelling", "steering", "dispatched"}
    BY ServedFacts
  <2> QED
    BY <2>1, <1>5
<1>7. WorldInv'
  <2> SUFFICES ASSUME NEW q \in Runs PROVE WorldOK(q)'
    BY DEF WorldInv
  <2>1. WorldOK(q)
    BY <1>1 DEF WorldInv
  <2>2. cleaning'[q] # "none" => cleaning[q] # "none" \/ adapter[q] # "none"
    BY DEF Disposed
  <2>3. cleaning[q] = "settled" => cleaning'[q] = "settled"
    BY DEF Disposed
  <2>4. Has(q, {"register", "event"})' => Has(q, {"register", "event"})
    BY <1>4, <1>6, PrimedSets DEF Has
  <2>5. Has(q, {"finish"})' => Has(q, {"finish"})
    BY <1>4, <1>6, PrimedSets DEF Has
  <2>6. \A o \in Elems(queue)' : o.type = "finish" => o \in Elems(queue)
    BY <1>4, <1>6, PrimedSets
  <2>7. Has(q, {"admitted", "dispatch", "dispatched"})' => timer[q] # "start"
    <3> SUFFICES ASSUME NEW o \in Elems(queue'), o.run = q, o.type \in {"admitted", "dispatch", "dispatched"}
                 PROVE  timer[q] # "start"
      BY PrimedSets DEF Has
    <3>1. CASE o = m
      BY <3>1, <1>4
    <3>2. CASE o # m
      BY <3>2, <1>6, <2>1 DEF WorldOK, Has
    <3> QED
      BY <3>1, <3>2
  <2>8. Has(q, {"cancelling"})' => fault' = FALSE
    BY <1>6, PrimedSets DEF Has
  <2> QED
    BY <1>1, <2>1, <2>2, <2>3, <2>4, <2>5, <2>6, <2>7, <2>8 DEF WorldOK
<1>8. TaskInv'
  <2> SUFFICES ASSUME ~fault', NEW q \in Runs PROVE UnderWay(q)'
    BY DEF TaskInv
  <2>1. UnderWay(q) /\ mem'[q] = IF q = r THEN run ELSE mem[q]
    BY <1>1, InvFacts DEF Put, TypeOK
  <2>2. cleaning[q] = "settled" => cleaning'[q] = "settled"
    BY DEF Disposed
  <2>3. Has(q, {"finish"})' => Has(q, {"finish"})
    BY <1>4, <1>6, PrimedSets DEF Has
  <2>4. CASE q # r
    <3>1. \A o \in Elems(queue') : o.run = q =>
            o \in Elems(queue) /\ o.type \notin {"admitted", "cancelling", "steering", "dispatched"}
      BY <2>4, <1>6
    <3>2. Begun(q)' => Begun(q)
      BY <3>1, PrimedSets DEF Begun, Has
    <3>3. ~Has(q, {"dispatched"})' /\ ~Has(q, {"cancelling"})'
          /\ \A o \in Elems(queue)' : ~(o.run = q /\ o.type = "steering")
      BY <3>1, PrimedSets DEF Has
    <3> QED
      BY <2>1, <2>2, <2>3, <2>4, <3>2, <3>3, <1>1 DEF UnderWay
  <2>5. CASE q = r
    <3>1. \A o \in Elems(queue') : o.type \in {"admitted", "cancelling", "steering", "dispatched"} => o = m
      BY <1>6
    <3>2. CASE m.type \in {"admitted", "dispatched"}
      <4>1. adapter[r] = "none"
        BY <1>1, <3>2 DEF WorldInv, WorldOK
      <4>2. ~Has(r, {"dispatch"})'
        BY <1>5, <3>2, PrimedSets DEF Has
      <4>3. Begun(r)' => m.type = "admitted"
        BY <3>1, <3>2, <4>2, PrimedSets DEF Begun, Has
      <4>4. Has(r, {"dispatched"})' => m.type = "dispatched"
        BY <3>1, PrimedSets DEF Has
      <4>5. ~Has(r, {"cancelling"})' /\ \A o \in Elems(queue)' : ~(o.run = q /\ o.type = "steering")
        BY <3>1, <3>2, PrimedSets DEF Has
      <4> QED
        BY <1>1, <2>1, <2>5, <3>2, <4>1, <4>3, <4>4, <4>5 DEF UnderWay
    <3>3. CASE m.type \in {"cancelling", "steering"}
      <4>1. Begun(r)' => Begun(r)
        BY <1>6, <3>3, PrimedSets DEF Begun, Has
      <4>2. ~Has(r, {"dispatched"})'
        BY <3>1, <3>3, PrimedSets DEF Has
      <4>3. Has(r, {"cancelling"})' => m.type = "cancelling"
        BY <3>1, PrimedSets DEF Has
      <4>4. \A o \in Elems(queue)' : o.type = "steering" => o = m
        BY <3>1, PrimedSets
      <4> QED
        BY <1>1, <2>1, <2>2, <2>3, <2>5, <3>3, <4>1, <4>2, <4>3, <4>4 DEF UnderWay
    <3> QED
      BY <3>2, <3>3, <1>4
  <2> QED
    BY <2>4, <2>5
<1>9. CutoffInv'
  <2>1. Elems(queue') \cap Drains = Elems(queue) \cap Drains
    <3>1. m \notin Drains /\ Head(queue) \notin Drains
      BY <1>4, ServedFacts, OpFacts
    <3> QED
      BY <3>1, <1>5, ServedFacts
  <2> QED
    BY <1>1, <2>1, PrimedSets DEF CutoffInv
<1> QED
  BY <1>2, <1>3, <1>5, <1>7, <1>8, <1>9, PrimedSets DEF IInv

\* A step outside the queue that adds an operation to it.
LEMMA AddKeeps ==
    ASSUME IInv, NEW m \in Ops, queue' = Append(queue, m),
           m.type \notin {"admitted", "cancelling", "steering", "dispatched", "finish", "drain"},
           UNCHANGED <<storeVars, lifeVars, provider, starts, sent, handles, draft>>, Disposed,
           overflow' \subseteq Runs, waiting' \in [Runs -> Instructions \cup {"none"}],
           adapter' \in [Runs -> {"none", "starting", "settled"}],
           \A r \in Runs : adapter'[r] = "none" <=> adapter[r] = "none",
           timer' \in [Runs -> {"none", "start", "deadline", "grace"}],
           \A r \in Runs : timer'[r] \in {timer[r], "none"},
           m.type = "event" => closing = "no",
           m.type \in {"register", "event"} => adapter[m.run] # "none",
           m.type = "dispatch" => timer[m.run] = "start" /\ timer'[m.run] = "none"
    PROVE  IInv'
<1>1. /\ TypeOK /\ QueueOK(queue) /\ WorldInv /\ CutoffInv
      /\ UNCHANGED <<closing, drained, provider, starts, sent, mem, fault, handles>>
  BY InvFacts DEF lifeVars, storeVars
<1>2. StoreTypes' /\ DiskInv' /\ MemInv'
  BY QuietStore
<1>3. TypeOK'
  BY <1>1, <1>2 DEF TypeOK, StoreTypes, Disposed
<1>4. m.run \in Runs /\ m \notin Continuing /\ m \notin Drains /\ (m \in Events => m.type = "event")
  BY OpFacts
<1>5. QueueOK(queue') /\ Elems(queue') = Elems(queue) \cup {m}
  <2>1. ASSUME NEW r \in Runs
        PROVE  /\ m \in Starting(r) => Elems(queue) \cap Starting(r) = {}
               /\ m \in Finishing(r) => Elems(queue) \cap Finishing(r) = {}
    <3>1. m \notin Finishing(r)
      BY OpFacts
    <3>2. ASSUME m \in Starting(r) PROVE Elems(queue) \cap Starting(r) = {}
      <4>1. m.run = r /\ timer[r] = "start"
        BY <3>2, OpFacts
      <4>2. ~Has(r, {"admitted", "dispatch", "dispatched"})
        BY <1>1, <4>1 DEF WorldInv, WorldOK
      <4> QED
        BY <4>2, InvFacts, OpFacts DEF Has
    <3> QED
      BY <3>1, <3>2
  <2>2. m \in Drains \cup Events => Elems(queue) \cap Drains = {}
    BY <1>1, <1>4 DEF CutoffInv
  <2> QED
    BY <1>1, <1>4, <2>1, <2>2, Grows
<1>6. WorldInv'
  <2> SUFFICES ASSUME NEW r \in Runs PROVE WorldOK(r)'
    BY DEF WorldInv
  <2>1. WorldOK(r)
    BY <1>1 DEF WorldInv
  <2>2. cleaning'[r] # "none" => cleaning[r] # "none" \/ adapter[r] # "none"
    BY DEF Disposed
  <2>3. cleaning[r] = "settled" => cleaning'[r] = "settled"
    BY DEF Disposed
  <2>4. Has(r, {"register", "event"})' => adapter[r] # "none"
    BY <1>5, <2>1, PrimedSets DEF Has, WorldOK
  <2>5. Has(r, {"finish"})' => Has(r, {"finish"})
    BY <1>5, PrimedSets DEF Has
  <2>6. \A o \in Elems(queue)' : o.type = "finish" => o \in Elems(queue)
    BY <1>5, PrimedSets
  <2>7. Has(r, {"admitted", "dispatch", "dispatched"})' => timer'[r] # "start"
    <3> SUFFICES ASSUME NEW o \in Elems(queue'), o.run = r, o.type \in {"admitted", "dispatch", "dispatched"}
                 PROVE  timer'[r] # "start"
      BY PrimedSets DEF Has
    <3>1. CASE o = m
      BY <3>1
    <3>2. CASE o # m
      <4>1. timer[r] # "start"
        BY <3>2, <1>5, <2>1 DEF WorldOK, Has
      <4> QED
        BY <4>1
    <3> QED
      BY <3>1, <3>2
  <2>8. Has(r, {"cancelling"})' => Has(r, {"cancelling"})
    BY <1>5, PrimedSets DEF Has
  <2> QED
    BY <1>1, <2>1, <2>2, <2>3, <2>4, <2>5, <2>6, <2>7, <2>8 DEF WorldOK
<1>7. TaskInv'
  <2> SUFFICES ASSUME ~fault', NEW r \in Runs PROVE UnderWay(r)'
    BY DEF TaskInv
  <2>1. UnderWay(r)
    BY <1>1, InvFacts
  <2>2. cleaning[r] = "settled" => cleaning'[r] = "settled"
    BY DEF Disposed
  <2>3. Has(r, {"finish"})' => Has(r, {"finish"})
    BY <1>5, PrimedSets DEF Has
  <2>4. Begun(r)' => Begun(r)
    BY <1>5, PrimedSets DEF Begun, Has
  <2>5. /\ Has(r, {"dispatched"})' => Has(r, {"dispatched"})
        /\ Has(r, {"cancelling"})' => Has(r, {"cancelling"})
        /\ \A o \in Elems(queue)' : o.type = "steering" => o \in Elems(queue)
    BY <1>5, PrimedSets DEF Has
  <2> QED
    BY <1>1, <2>1, <2>2, <2>3, <2>4, <2>5 DEF UnderWay
<1>8. CutoffInv'
  <2>1. Elems(queue') \cap Drains = Elems(queue) \cap Drains
    BY <1>4, <1>5
  <2>2. drained => Elems(queue') \cap (Drains \cup Events \cup Continuing) = {}
    BY <1>1, <1>4, <1>5 DEF CutoffInv
  <2>3. \A r \in Runs : Live(mem[r])' <=> Live(mem[r])
    BY <1>1 DEF Live
  <2> QED
    BY <1>1, <2>1, <2>2, <2>3, PrimedSets DEF CutoffInv
<1> QED
  BY <1>2, <1>3, <1>5, <1>6, <1>7, <1>8, PrimedSets DEF IInv

\* A step that touches nothing the invariant speaks of but timers and cleanups.
LEMMA AsideKeeps ==
    ASSUME IInv, UNCHANGED <<storeVars, lifeVars, worldVars, handles>>, Disposed,
           QueueOK(queue'), Elems(queue') = Elems(queue),
           draft' \in Runs \cup {"none"}, overflow' \subseteq Runs,
           waiting' \in [Runs -> Instructions \cup {"none"}],
           timer' \in [Runs -> {"none", "start", "deadline", "grace"}],
           \A r \in Runs : timer'[r] \in {timer[r], "none"}
    PROVE  IInv'
<1>1. /\ TypeOK /\ QueueOK(queue) /\ WorldInv /\ CutoffInv
      /\ UNCHANGED <<closing, drained, adapter, provider, starts, sent, mem, fault, handles>>
  BY InvFacts DEF lifeVars, storeVars, worldVars
<1>2. StoreTypes' /\ DiskInv' /\ MemInv'
  BY QuietStore DEF worldVars
<1>3. TypeOK'
  BY <1>1, <1>2 DEF TypeOK, StoreTypes, Disposed
<1>4. Elems(queue)' = Elems(queue)
  BY <1>1, PrimedSets
<1>5. WorldInv'
  <2> SUFFICES ASSUME NEW r \in Runs PROVE WorldOK(r)'
    BY DEF WorldInv
  <2>1. WorldOK(r)
    BY <1>1 DEF WorldInv
  <2>2. cleaning'[r] # "none" => cleaning[r] # "none" \/ adapter[r] # "none"
    BY DEF Disposed
  <2>3. cleaning[r] = "settled" => cleaning'[r] = "settled"
    BY DEF Disposed
  <2> QED
    BY <1>1, <1>4, <2>1, <2>2, <2>3 DEF WorldOK, Has
<1>6. TaskInv'
  <2> SUFFICES ASSUME ~fault', NEW r \in Runs PROVE UnderWay(r)'
    BY DEF TaskInv
  <2>1. UnderWay(r) /\ (Begun(r)' => Begun(r))
    BY <1>1, <1>4, InvFacts DEF Begun, Has
  <2>2. cleaning[r] = "settled" => cleaning'[r] = "settled"
    BY DEF Disposed
  <2> QED
    BY <1>1, <1>4, <2>1, <2>2 DEF UnderWay, Has
<1>7. CutoffInv'
  <2>1. \A r \in Runs : Live(mem[r])' <=> Live(mem[r])
    BY <1>1 DEF Live
  <2> QED
    BY <1>1, <1>4, <2>1, PrimedSets DEF CutoffInv
<1> QED
  BY <1>1, <1>2, <1>3, <1>5, <1>6, <1>7, PrimedSets DEF IInv

-----------------------------------------------------------------------------
(* The commands.                                                             *)

LEMMA Adds ==
    ASSUME IInv, NEW type, NEW r \in Runs, NEW arg, UNCHANGED <<storeVars, runVars, lifeVars, worldVars, cleaning, draft>>,
           Operation(type, r, arg) \in Ops, Enqueue(Operation(type, r, arg)),
           type \in {"prepare", "launch", "cancel", "steer", "unknown"}
    PROVE  IInv'
<1> DEFINE m == Operation(type, r, arg)
<1>1. m \in Ops /\ queue' = Append(queue, m) /\ m.type = type
  BY OpsMade DEF Enqueue
<1>2. TypeOK /\ Disposed
  BY InvFacts DEF TypeOK, Disposed
<1> HIDE DEF m
<1> QED
  BY <1>1, <1>2, AddKeeps DEF TypeOK, runVars, worldVars

LEMMA RequestKeeps ==
    ASSUME IInv, Requests
    PROVE  IInv'
<1>1. ASSUME NEW r \in Runs, NEW type \in {"prepare", "launch", "cancel"}, Request(type, r, "none") PROVE IInv'
  <2>1. Operation(type, r, "none") \in Ops
    BY OpsMade DEF Plain
  <2> QED
    BY <1>1, <2>1, Adds DEF Request
<1>2. ASSUME NEW r \in Runs, NEW i \in Instructions, Request("steer", r, i) PROVE IInv'
  <2>1. Operation("steer", r, i) \in Ops
    BY OpsMade
  <2> QED
    BY <1>2, <2>1, Adds DEF Request
<1> QED
  BY <1>1, <1>2 DEF Requests

\* An operation that changes nothing.
LEMMA ServedIdle ==
    ASSUME IInv, queue # <<>>, Served, Head(queue).type # "drain",
           UNCHANGED <<storeVars, runVars, lifeVars, worldVars, cleaning>>, draft' \in Runs \cup {"none"}
    PROVE  IInv'
<1>1. Dequeued
  BY Dequeues DEF Served
<1>2. TypeOK /\ Disposed
  BY InvFacts DEF TypeOK, Disposed
<1> QED
  BY <1>1, <1>2, ServedQuiet DEF TypeOK, runVars

LEMMA PrepareKeeps == ASSUME IInv, NEW r \in Runs, Prepare(r) PROVE IInv'
<1>1. draft' \in Runs \cup {"none"}
  BY InvFacts DEF Prepare, TypeOK
<1>2. queue # <<>> /\ Head(queue).type # "drain" /\ Served
      /\ UNCHANGED <<storeVars, runVars, lifeVars, worldVars, cleaning>>
  BY DEF Prepare, Serving, NoChange
<1> QED
  BY <1>1, <1>2, ServedIdle

LEMMA LaunchKeeps == ASSUME IInv, NEW r \in Runs, Launch(r) PROVE IInv'
<1>1. TypeOK /\ queue # <<>> /\ Head(queue).type = "launch" /\ Head(queue).run = r
      /\ UNCHANGED <<runVars, lifeVars, worldVars>> /\ MemInv /\ WorldInv /\ DiskInv
  BY InvFacts DEF Launch, Serving
<1>2. CASE Served /\ NoChange /\ UNCHANGED draft
  BY <1>1, <1>2, ServedIdle DEF NoChange, TypeOK
<1>3. CASE /\ mem[r] = Absent /\ ~Blocked
           /\ Write(r, Admitted, {}) /\ UNCHANGED refused
           /\ IF fault' THEN Served /\ UNCHANGED draft
              ELSE Continues(Operation("admitted", r, "none")) /\ draft' = "none"
  <2>1. ~fault /\ closing = "no" /\ ~drained
    BY <1>3, InvFacts DEF Blocked, CutoffInv
  <2>2. Put(r, Admitted) /\ Disposed /\ refused' = FALSE
    BY <1>1, <1>3, <2>1, WriteStores DEF DiskInv, TypeOK
  <2>3. /\ Admitted.state = "starting" /\ Admitted.process = "not-started"
        /\ Admitted.cleanup = "not-needed" /\ Admitted.receipts = NoReceipts
        /\ mem[r].state = "absent" /\ mem[r].process = "not-started"
        /\ mem[r].cleanup = "not-needed" /\ mem[r].receipts = NoReceipts
    BY <1>3 DEF Admitted, Absent
  <2>4. starts[r] = 0 /\ TrueOf(mem[r], r) /\ UnderWay(r)
    BY <1>1, <2>1, <2>3, InvFacts DEF TrueOf, WorldInv, WorldOK
  <2>5. TrueOf(Admitted, r) /\ Sane(Admitted)
    BY <2>3, <2>4, AbsentSane DEF TrueOf
  <2>6. CASE fault'
    BY <1>1, <1>3, <2>1, <2>2, <2>3, <2>5, <2>6, ServedPut DEF Served, runVars, TypeOK
  <2>7. CASE ~fault'
    <3> DEFINE m == Operation("admitted", r, "none")
    <3>1. m \in Continuing /\ m.run = r /\ m.type = "admitted"
      BY OpsMade, OpFacts DEF Plain
    <3>2. queue' = <<m>> \o Tail(queue) /\ draft' = "none"
      BY <1>3, <2>7 DEF Continues
    <3>3. timer[r] # "start" /\ \A o \in Elems(Tail(queue)) : ~(o.run = r /\ o.type = "dispatch")
      BY <1>1, <2>3, <2>4, ServedFacts DEF UnderWay, Begun, Has
    <3> HIDE DEF m
    <3> QED
      BY <1>1, <2>1, <2>2, <2>3, <2>4, <2>5, <3>1, <3>2, <3>3, ContinuesPut DEF runVars
  <2> QED
    BY <2>6, <2>7
<1> QED
  BY <1>2, <1>3 DEF Launch

LEMMA LaunchAdmittedKeeps == ASSUME IInv, NEW r \in Runs, LaunchAdmitted(r) PROVE IInv'
<1>1. TypeOK /\ queue # <<>> /\ Head(queue).type = "admitted" /\ Head(queue).run = r /\ Dequeued
  BY InvFacts, Dequeues DEF LaunchAdmitted, Serving, Served
<1>2. /\ timer' \in [Runs -> {"none", "start", "deadline", "grace"}]
      /\ \A q \in Runs : timer'[q] = timer[q] \/ (timer'[q] = "start" /\ Head(queue).run = q)
  BY <1>1 DEF LaunchAdmitted, TypeOK
<1>3. Disposed /\ UNCHANGED <<overflow, waiting, lifeVars, worldVars, storeVars, handles, draft>>
  BY <1>1 DEF LaunchAdmitted, NoChange, Disposed, TypeOK
<1> QED
  BY <1>1, <1>2, <1>3, ServedQuiet DEF TypeOK

\* A record that differs in its state or in its receipts only.
LEMMA StateChanged ==
    ASSUME NEW d, Sane(d), Live(d)
    PROVE  LET c == [d EXCEPT !.state = "cancelling"]
               p == [d EXCEPT !.state = "cancelled", !.outcome = "prevented"]
           IN  /\ Sane(c) /\ Updates(d, c) /\ c.state = "cancelling" /\ c.process = d.process
               /\ c.cleanup = d.cleanup /\ c.receipts = d.receipts
               /\ d.process = "not-started" /\ d.state = "cancelling" =>
                    /\ Sane(p) /\ Updates(d, p) /\ p.state = "cancelled" /\ p.process = d.process
                    /\ p.cleanup = d.cleanup /\ p.receipts = d.receipts /\ p.outcome = "prevented"
<1> DEFINE c == [d EXCEPT !.state = "cancelling"]
           p == [d EXCEPT !.state = "cancelled", !.outcome = "prevented"]
<1>1. /\ c \in Records /\ c.state = "cancelling" /\ c.process = d.process /\ c.cleanup = d.cleanup
      /\ c.receipts = d.receipts /\ c.turn = d.turn /\ c.outcome = d.outcome
  BY DEF Sane, Records, RunStates
<1>2. /\ p \in Records /\ p.state = "cancelled" /\ p.process = d.process /\ p.cleanup = d.cleanup
      /\ p.receipts = d.receipts /\ p.turn = d.turn /\ p.outcome = "prevented"
  BY DEF Sane, Records, RunStates, Terminal
<1> HIDE DEF c, p
<1>3. Sane(c)
  <2>1. c.outcome = "none"
    BY <1>1 DEF Sane, Evidence, Live
  <2> QED
    BY <1>1, <2>1 DEF Sane, Evidence, Live
<1>4. Updates(d, c)
  BY <1>1 DEF Updates, CanTransition, Successors, Live, Terminal, Sane
<1>5. ASSUME d.process = "not-started", d.state = "cancelling" PROVE Sane(p) /\ Updates(d, p)
  <2>1. Sane(p)
    BY <1>2, <1>5 DEF Sane, Evidence, Live
  <2>2. Updates(d, p)
    BY <1>2, <1>5 DEF Updates, CanTransition, Successors, Terminal, Sane
  <2> QED
    BY <2>1, <2>2
<1> QED
  BY <1>1, <1>2, <1>3, <1>4, <1>5 DEF c, p

LEMMA CancelKeeps == ASSUME IInv, NEW r \in Runs, Cancel(r) PROVE IInv'
<1>1. TypeOK /\ queue # <<>> /\ Head(queue).type = "cancel" /\ Head(queue).run = r
      /\ UNCHANGED <<runVars, lifeVars, worldVars, draft>> /\ MemInv /\ WorldInv /\ DiskInv
  BY InvFacts DEF Cancel, Serving
<1>2. CASE Served /\ NoChange
  BY <1>1, <1>2, ServedIdle DEF NoChange, TypeOK
<1>3. CASE /\ mem[r].state \in {"starting", "running"} /\ closing = "no" /\ ~fault
           /\ Persist(r, [mem[r] EXCEPT !.state = "cancelling"], {})
           /\ IF fault' THEN Served ELSE Continues(Operation("cancelling", r, "none"))
  <2>0. PICK run : run = [mem[r] EXCEPT !.state = "cancelling"]
    OBVIOUS
  <2>1. ~fault /\ ~drained /\ mem = disk /\ Sane(mem[r]) /\ TrueOf(mem[r], r) /\ Live(mem[r])
    BY <1>1, <1>3, InvFacts DEF CutoffInv, MemInv, Live
  <2>2. /\ Sane(run) /\ Updates(disk[r], run) /\ run.state = "cancelling" /\ run.process = mem[r].process
        /\ run.cleanup = mem[r].cleanup /\ run.receipts = mem[r].receipts
    BY <2>0, <2>1, StateChanged
  <2>3. Persist(r, run, {})
    BY <1>3, <2>0
  <2>4. Put(r, run) /\ Disposed /\ refused' = FALSE
    BY <1>1, <2>1, <2>2, <2>3, PersistAlone
  <2>5. TrueOf(run, r)
    BY <2>1, <2>2 DEF TrueOf
  <2>6. CASE fault'
    BY <1>1, <1>3, <2>1, <2>2, <2>4, <2>5, <2>6, ServedPut DEF Served, runVars, TypeOK
  <2>7. CASE ~fault'
    <3> DEFINE m == Operation("cancelling", r, "none")
    <3>1. m \in Continuing /\ m.run = r /\ m.type = "cancelling"
      BY OpsMade, OpFacts DEF Plain
    <3>2. queue' = <<m>> \o Tail(queue) /\ fault' = FALSE
      BY <1>3, <2>4, <2>7 DEF Continues, Put
    <3> HIDE DEF m
    <3> QED
      BY <1>1, <2>1, <2>2, <2>4, <2>5, <3>1, <3>2, ContinuesPut DEF runVars, TypeOK
  <2> QED
    BY <2>6, <2>7
<1> QED
  BY <1>2, <1>3 DEF Cancel

LEMMA CancelRecordedKeeps == ASSUME IInv, NEW r \in Runs, CancelRecorded(r) PROVE IInv'
<1>1. /\ TypeOK /\ queue # <<>> /\ Head(queue).type = "cancelling" /\ Head(queue).run = r /\ Dequeued
      /\ UNCHANGED <<handles, waiting, overflow, lifeVars, worldVars, draft>>
      /\ MemInv /\ WorldInv /\ DiskInv /\ queue' = Tail(queue)
  BY InvFacts, Dequeues DEF CancelRecorded, Serving, Served
<1>2. Head(queue) \in Continuing /\ Head(queue) \in Elems(queue)
  BY <1>1, ServedFacts, OpFacts
<1>3. Has(r, {"cancelling"})
  BY <1>1, <1>2 DEF Has
<1>4. ~fault /\ mem = disk /\ Sane(mem[r]) /\ TrueOf(mem[r], r) /\ mem[r].state = "cancelling"
  BY <1>1, <1>3, InvFacts DEF WorldInv, WorldOK, MemInv, UnderWay
<1>5. CASE mem[r].process = "not-started"
  <2>0. PICK run : run = [mem[r] EXCEPT !.state = "cancelled", !.outcome = "prevented"]
    OBVIOUS
  <2>1. /\ Sane(run) /\ Updates(disk[r], run) /\ run.state = "cancelled" /\ run.process = mem[r].process
        /\ run.cleanup = mem[r].cleanup /\ run.receipts = mem[r].receipts /\ run.outcome = "prevented"
    BY <2>0, <1>4, <1>5, StateChanged DEF Live
  <2>2. Persist(r, run, {})
    BY <2>0, <1>5 DEF CancelRecorded
  <2>3. Put(r, run) /\ Disposed /\ refused' = FALSE
    BY <1>1, <1>4, <2>1, <2>2, PersistAlone
  <2>4. TrueOf(run, r)
    BY <1>1, <1>4, <1>5, <2>1 DEF TrueOf, WorldInv, WorldOK
  <2>5. timer' = [timer EXCEPT ![r] = "none"]
    BY <1>5 DEF CancelRecorded
  <2>6. timer' \in [Runs -> {"none", "start", "deadline", "grace"}] /\ \A q \in Runs : timer'[q] \in {timer[q], "none"}
    BY <1>1, <2>5 DEF TypeOK
  <2> QED
    BY <1>1, <1>4, <2>1, <2>3, <2>4, <2>6, ServedPut DEF TypeOK, Live
<1>6. CASE mem[r].process # "not-started"
  <2>1. timer' = [timer EXCEPT ![r] = "grace"] /\ NoChange
    BY <1>6 DEF CancelRecorded
  <2>2. /\ timer' \in [Runs -> {"none", "start", "deadline", "grace"}]
        /\ \A q \in Runs : timer'[q] \in {timer[q], "none"} \/ timer'[q] = "grace"
    BY <1>1, <2>1 DEF TypeOK
  <2>3. Disposed /\ UNCHANGED storeVars
    BY <1>1, <2>1 DEF NoChange, Disposed, TypeOK
  <2> QED
    BY <1>1, <1>2, <2>2, <2>3, ServedQuiet DEF TypeOK
<1> QED
  BY <1>5, <1>6

-----------------------------------------------------------------------------
(* Steering.                                                                 *)

LEMMA ReceiptChanged ==
    ASSUME NEW d, Sane(d), NEW i \in Instructions, NEW y \in Replies \cup {"pending"},
           y = "pending" => \A j \in Instructions : d.receipts[j] # "pending"
    PROVE  LET n == [d EXCEPT !.receipts[i] = y]
           IN  /\ Sane(n) /\ n.state = d.state /\ n.process = d.process /\ n.cleanup = d.cleanup
               /\ n.outcome = d.outcome
               /\ \A j \in Instructions : n.receipts[j] = IF j = i THEN y ELSE d.receipts[j]
<1> DEFINE n == [d EXCEPT !.receipts[i] = y]
<1>1. /\ d \in Records /\ d.receipts \in [Instructions -> {"none", "pending", "accepted", "rejected", "delivery-unknown"}]
      /\ n = [d EXCEPT !.receipts = [d.receipts EXCEPT ![i] = y]]
  BY DEF Sane, Records
<1>2. /\ n \in Records /\ n.state = d.state /\ n.process = d.process /\ n.cleanup = d.cleanup
      /\ n.outcome = d.outcome /\ n.turn = d.turn
      /\ \A j \in Instructions : n.receipts[j] = IF j = i THEN y ELSE d.receipts[j]
  BY <1>1 DEF Records, Replies
<1> HIDE DEF n
<1>3. \A j, k \in Instructions : n.receipts[j] = "pending" /\ n.receipts[k] = "pending" => j = k
  BY <1>2 DEF Sane, Replies
<1>4. Sane(n)
  BY <1>2, <1>3 DEF Sane, Evidence, Live
<1> QED
  BY <1>2, <1>4 DEF n

LEMMA SteerKeeps == ASSUME IInv, NEW r \in Runs, NEW i \in Instructions, Steer(r, i) PROVE IInv'
<1>1. TypeOK /\ queue # <<>> /\ Head(queue).type = "steer" /\ Head(queue).run = r
      /\ UNCHANGED <<runVars, lifeVars, worldVars, draft>> /\ MemInv /\ WorldInv /\ DiskInv
  BY InvFacts DEF Steer, Serving
<1>2. CASE Served /\ NoChange
  BY <1>1, <1>2, ServedIdle DEF NoChange, TypeOK
<1>3. CASE /\ ~Known(r, i) /\ Steerable(r)
           /\ Write(r, [mem[r] EXCEPT !.receipts[i] = "pending"], {}) /\ UNCHANGED refused
           /\ IF fault' THEN Served ELSE Continues(Operation("steering", r, i))
  <2>0. PICK run : run = [mem[r] EXCEPT !.receipts[i] = "pending"]
    OBVIOUS
  <2>1. /\ ~fault /\ ~drained /\ mem = disk /\ Sane(mem[r]) /\ TrueOf(mem[r], r) /\ mem[r].state = "running"
        /\ mem[r].receipts[i] = "none" /\ \A j \in Instructions : mem[r].receipts[j] # "pending"
    BY <1>1, <1>3, InvFacts DEF CutoffInv, MemInv, Steerable, Known
  <2>2. /\ Sane(run) /\ run.state = "running" /\ run.process = mem[r].process
        /\ run.cleanup = mem[r].cleanup /\ run.outcome = mem[r].outcome
        /\ \A j \in Instructions : run.receipts[j] = IF j = i THEN "pending" ELSE mem[r].receipts[j]
    BY <2>0, <2>1, ReceiptChanged
  <2>3. Write(r, run, {})
    BY <1>3, <2>0
  <2>4. Put(r, run) /\ Disposed /\ refused' = FALSE
    BY <1>1, <1>3, <2>1, <2>3, WriteStores DEF DiskInv, TypeOK
  <2>5. TrueOf(run, r) /\ sent[r][i] = 0
    <3>1. sent[r][i] \in Nat /\ ~(sent[r][i] > 0)
      BY <1>1, <2>1 DEF TrueOf, TypeOK
    <3>2. TrueOf(run, r)
      BY <2>1, <2>2 DEF TrueOf
    <3> QED
      BY <3>1, <3>2
  <2>6. CASE fault'
    BY <1>1, <1>3, <2>1, <2>2, <2>4, <2>5, <2>6, ServedPut DEF Served, runVars, TypeOK
  <2>7. CASE ~fault'
    <3> DEFINE m == Operation("steering", r, i)
    <3>1. m \in Continuing /\ m.run = r /\ m.type = "steering" /\ m.arg = i
      BY OpsMade, OpFacts
    <3>2. queue' = <<m>> \o Tail(queue)
      BY <1>3, <2>7 DEF Continues
    <3> HIDE DEF m
    <3> QED
      BY <1>1, <2>1, <2>2, <2>4, <2>5, <3>1, <3>2, ContinuesPut DEF runVars, TypeOK
  <2> QED
    BY <2>6, <2>7
<1> QED
  BY <1>2, <1>3 DEF Steer

LEMMA SteerRecordedKeeps == ASSUME IInv, NEW r \in Runs, NEW i \in Instructions, SteerRecorded(r, i) PROVE IInv'
<1>1. /\ TypeOK /\ queue # <<>> /\ Head(queue).type = "steering" /\ Head(queue).run = r /\ Head(queue).arg = i
      /\ UNCHANGED <<handles, timer, overflow, lifeVars, adapter, provider, starts, crashes, draft, storeVars, cleaning>>
      /\ MemInv /\ WorldInv /\ DiskInv /\ CutoffInv
  BY InvFacts DEF SteerRecorded, Serving, NoChange
<1>2. Disposed /\ (UNCHANGED <<sent, waiting>> => UNCHANGED worldVars)
  BY <1>1 DEF Disposed, TypeOK, worldVars
<1>3. CASE queue' = Append(Tail(queue), Settlement(r, i, "delivery-unknown")) /\ UNCHANGED <<sent, waiting>>
  <2> DEFINE m == Settlement(r, i, "delivery-unknown")
             q == Tail(queue)
  <2>1. m \in Ops /\ m.type = "settle"
    BY OpsMade DEF Replies
  <2> HIDE DEF m
  <2>2. QueueOK(q) /\ m \notin Continuing \cup Drains \cup Events
        /\ \A s \in Runs : m \notin Starting(s) /\ m \notin Finishing(s)
    BY <1>1, <2>1, ServedFacts, OpFacts
  <2> HIDE DEF q
  <2>3. QueueOK(Append(q, m)) /\ Elems(Append(q, m)) = Elems(q) \cup {m}
    BY <2>1, <2>2, Grows
  <2>4. Dequeued
    BY <1>1, <1>3, <2>1, <2>3 DEF Dequeued, m, q
  <2> QED
    BY <1>1, <1>2, <1>3, <2>4, ServedQuiet DEF TypeOK
<1>4. CASE Served /\ ~fault /\ sent' = [sent EXCEPT ![r][i] = @ + 1] /\ waiting' = [waiting EXCEPT ![r] = i]
  <2>1. Head(queue) \in Elems(queue) /\ UnderWay(r) /\ mem = disk
    BY <1>1, <1>4, ServedFacts, InvFacts DEF MemInv
  <2>2. sent[r][i] = 0 /\ disk[r].receipts[i] # "none"
    BY <1>1, <2>1 DEF UnderWay
  <2>3. sent' \in [Runs -> [Instructions -> Nat]] /\ waiting' \in [Runs -> Instructions \cup {"none"}]
    BY <1>1, <1>4 DEF TypeOK
  <2>4. \A q \in Runs : \A j \in Instructions : sent'[q][j] = IF q = r /\ j = i THEN 1 ELSE sent[q][j]
    BY <1>1, <1>4, <2>2 DEF TypeOK
  <2>5. \A q \in Runs : \A j \in Instructions : sent'[q][j] <= 1
    BY <1>1, <2>4 DEF WorldInv, WorldOK
  <2>6. UNCHANGED <<mem, disk, fault, refused>>
    BY <1>1 DEF storeVars
  <2>7. DiskInv'
    <3> SUFFICES ASSUME NEW q \in Runs PROVE Sane(disk[q])' /\ TrueOf(disk[q], q)'
      BY <1>1, <2>6 DEF DiskInv
    <3>1. Sane(disk[q]) /\ TrueOf(disk[q], q)
      BY <1>1 DEF DiskInv
    <3>2. Sane(disk[q])'
      BY <3>1, <2>6 DEF Sane, Evidence, Live
    <3>3. TrueOf(disk[q], q)'
      BY <1>1, <3>1, <2>2, <2>4, <2>6 DEF TrueOf
    <3> QED
      BY <3>2, <3>3
  <2>8. MemInv' /\ StoreTypes'
    BY <1>1, <2>6 DEF MemInv, StoreTypes, TypeOK, Over, Live
  <2>9. Dequeued /\ (\A q \in Runs : Follows(q)) /\ (drained => \A q \in Runs : ~Live(mem'[q]))
    BY <1>1, <1>4, <2>6, Dequeues DEF Served, Follows, CutoffInv
  <2> QED
    BY <1>1, <1>2, <2>3, <2>5, <2>6, <2>7, <2>8, <2>9, ServedKeeps DEF TypeOK
<1> QED
  BY <1>3, <1>4 DEF SteerRecorded

LEMMA SteerAnsweredKeeps == ASSUME IInv, NEW r \in Runs, NEW reply \in Replies, SteerAnswered(r, reply) PROVE IInv'
<1>1. TypeOK /\ waiting[r] \in Instructions
  BY InvFacts DEF SteerAnswered, TypeOK
<1> DEFINE m == Settlement(r, waiting[r], reply)
<1>2. m \in Ops /\ m.type = "settle" /\ queue' = Append(queue, m)
  BY <1>1, OpsMade DEF SteerAnswered, Enqueue
<1> HIDE DEF m
<1>3. waiting' \in [Runs -> Instructions \cup {"none"}] /\ Disposed
  BY <1>1 DEF SteerAnswered, TypeOK, NoChange, Disposed
<1>4. UNCHANGED <<storeVars, lifeVars, adapter, provider, starts, sent, handles, draft, overflow, timer>>
  BY DEF SteerAnswered, NoChange, worldVars
<1> QED
  BY <1>1, <1>2, <1>3, <1>4, AddKeeps DEF TypeOK

LEMMA SteerSettlesKeeps == ASSUME IInv, NEW r \in Runs, SteerSettles(r) PROVE IInv'
<1>1. /\ TypeOK /\ queue # <<>> /\ Head(queue).type = "settle" /\ Head(queue).run = r
      /\ UNCHANGED <<runVars, lifeVars, worldVars, draft>> /\ Served
      /\ MemInv /\ WorldInv /\ DiskInv /\ CutoffInv
  BY InvFacts DEF SteerSettles, Serving
<1>2. PICK i \in Instructions, y \in Replies : i = Head(queue).arg[1] /\ y = Head(queue).arg[2]
  BY <1>1, ServedFacts, OpFacts
<1>3. CASE NoChange
  BY <1>1, <1>3, ServedIdle DEF NoChange, TypeOK
<1>4. CASE mem[r].receipts[i] = "pending" /\ Write(r, [mem[r] EXCEPT !.receipts[i] = y], {}) /\ UNCHANGED refused
  <2>0. PICK run : run = [mem[r] EXCEPT !.receipts[i] = y]
    OBVIOUS
  <2>1. ~fault /\ mem = disk /\ Sane(mem[r]) /\ TrueOf(mem[r], r)
    BY <1>1, <1>4, InvFacts DEF MemInv, Over
  <2>2. /\ Sane(run) /\ run.state = mem[r].state /\ run.process = mem[r].process
        /\ run.cleanup = mem[r].cleanup /\ run.outcome = mem[r].outcome
        /\ \A j \in Instructions : run.receipts[j] = IF j = i THEN y ELSE mem[r].receipts[j]
    <3>1. y # "pending" /\ y \in Replies \cup {"pending"}
      BY DEF Replies
    <3> QED
      BY <2>0, <2>1, <3>1, ReceiptChanged
  <2>3. Write(r, run, {})
    BY <1>4, <2>0
  <2>4. Put(r, run) /\ Disposed /\ refused' = FALSE
    BY <1>1, <1>4, <2>1, <2>3, WriteStores DEF DiskInv, TypeOK
  <2>5. TrueOf(run, r) /\ (drained => ~Live(run))
    BY <1>1, <2>1, <2>2 DEF TrueOf, Replies, CutoffInv, Live
  <2> QED
    BY <1>1, <2>1, <2>2, <2>4, <2>5, ServedPut DEF Served, runVars, TypeOK
<1> QED
  BY <1>2, <1>3, <1>4 DEF SteerSettles

-----------------------------------------------------------------------------
(* Dispatch, and what the adapter reports.                                   *)

LEMMA DispatchKeeps == ASSUME IInv, NEW r \in Runs, Dispatch(r) PROVE IInv'
<1>1. TypeOK /\ queue # <<>> /\ Head(queue).type = "dispatch" /\ Head(queue).run = r
      /\ UNCHANGED <<runVars, lifeVars, worldVars, draft>> /\ MemInv /\ WorldInv /\ DiskInv
  BY InvFacts DEF Dispatch, Serving
<1>2. CASE Served /\ NoChange
  BY <1>1, <1>2, ServedIdle DEF NoChange, TypeOK
<1>3. CASE /\ ~(closing # "no" \/ fault \/ mem[r].state # "starting")
           /\ Persist(r, Dispatched(mem[r]), {}) /\ Continues(Operation("dispatched", r, "none"))
  <2>0. PICK run : run = Dispatched(mem[r])
    OBVIOUS
  <2>1. /\ ~fault /\ ~drained /\ mem = disk /\ Sane(mem[r]) /\ TrueOf(mem[r], r) /\ mem[r].state = "starting"
        /\ UnderWay(r) /\ Head(queue) \in Elems(queue)
    BY <1>1, <1>3, InvFacts, ServedFacts DEF CutoffInv, MemInv
  <2>2. mem[r].process = "not-started" /\ starts[r] = 0 /\ timer[r] # "start"
    BY <1>1, <2>1 DEF UnderWay, Begun, Has, WorldInv, WorldOK
  <2>3. /\ run \in Records /\ run.state = "starting" /\ run.process = "live" /\ run.cleanup = "pending"
        /\ run.turn = mem[r].turn /\ run.outcome = mem[r].outcome /\ run.receipts = mem[r].receipts
    BY <2>0, <2>1 DEF Dispatched, Sane, Records
  <2>4. Sane(run)
    BY <2>1, <2>3 DEF Sane, Evidence, Live
  <2>5. TrueOf(run, r)
    BY <2>1, <2>3 DEF TrueOf
  <2>6. Updates(disk[r], run)
    BY <2>1, <2>2, <2>3 DEF Updates, CanTransition, Sane, Terminal
  <2>7. Persist(r, run, {})
    BY <1>3, <2>0
  <2>8. Put(r, run) /\ Disposed /\ refused' = FALSE
    BY <1>1, <2>1, <2>4, <2>6, <2>7, PersistAlone
  <2> DEFINE m == Operation("dispatched", r, "none")
  <2>9. m \in Continuing /\ m.run = r /\ m.type = "dispatched"
    BY OpsMade, OpFacts DEF Plain
  <2>10. queue' = <<m>> \o Tail(queue)
    BY <1>3 DEF Continues
  <2>11. \A o \in Elems(Tail(queue)) : ~(o.run = r /\ o.type = "dispatch")
    BY <1>1, ServedFacts
  <2> HIDE DEF m
  <2> QED
    BY <1>1, <2>1, <2>2, <2>3, <2>4, <2>5, <2>8, <2>9, <2>10, <2>11, ContinuesPut DEF runVars, TypeOK
<1> QED
  BY <1>2, <1>3 DEF Dispatch

LEMMA AdapterStartsKeeps == ASSUME IInv, NEW r \in Runs, AdapterStarts(r) PROVE IInv'
<1>1. /\ TypeOK /\ queue # <<>> /\ Head(queue).type = "dispatched" /\ Head(queue).run = r /\ Served
      /\ UNCHANGED <<handles, waiting, overflow, lifeVars, sent, crashes, draft, storeVars, cleaning>>
      /\ MemInv /\ WorldInv /\ DiskInv /\ CutoffInv
  BY InvFacts DEF AdapterStarts, Serving, NoChange
<1>2. CASE UNCHANGED <<timer, adapter, provider, starts>>
  BY <1>1, <1>2, ServedIdle DEF runVars, worldVars, TypeOK
<1>3. CASE /\ closing = "no" /\ ~fault /\ timer' = [timer EXCEPT ![r] = "deadline"]
           /\ adapter' = [adapter EXCEPT ![r] = "starting"]
           /\ provider' = [provider EXCEPT ![r] = "live"]
           /\ starts' = [starts EXCEPT ![r] = @ + 1]
  <2>1. /\ mem = disk /\ UnderWay(r) /\ Head(queue) \in Elems(queue) /\ ~drained
        /\ UNCHANGED <<mem, disk, fault, refused, closing, drained, sent, handles, cleaning>>
    BY <1>1, <1>3, ServedFacts, InvFacts DEF MemInv, storeVars, lifeVars, CutoffInv
  <2>2. starts[r] = 0 /\ disk[r].process = "live" /\ disk[r].cleanup = "pending" /\ disk[r].state # "absent"
    BY <1>1, <2>1 DEF UnderWay, Has
  <2>3. adapter[r] = "none" /\ ~Has(r, {"finish"})
    BY <1>1, <2>2 DEF WorldInv, WorldOK
  <2>4. \A q \in Runs : /\ starts'[q] = IF q = r THEN 1 ELSE starts[q]
                        /\ provider'[q] = IF q = r THEN "live" ELSE provider[q]
                        /\ adapter'[q] = IF q = r THEN "starting" ELSE adapter[q]
                        /\ timer'[q] = IF q = r THEN "deadline" ELSE timer[q]
    BY <1>1, <1>3, <2>2 DEF TypeOK
  <2>5. TypeOK'
    BY <1>1, <1>3, <2>1 DEF TypeOK
  <2>6. DiskInv'
    <3> SUFFICES ASSUME NEW q \in Runs PROVE Sane(disk[q])' /\ TrueOf(disk[q], q)'
      BY <1>1, <2>1 DEF DiskInv
    <3>1. Sane(disk[q]) /\ TrueOf(disk[q], q)
      BY <1>1 DEF DiskInv
    <3>2. Sane(disk[q])'
      BY <3>1, <2>1 DEF Sane, Evidence, Live
    <3>3. CASE q = r
      <4>1. disk[r].state = "cancelled" => disk[r].outcome \notin {"prevented", "termination"}
        BY <3>1, <3>3, <2>2 DEF Sane, Evidence
      <4> QED
        BY <4>1, <3>1, <3>3, <2>1, <2>2, <2>4 DEF TrueOf
    <3>4. CASE q # r
      BY <3>1, <3>4, <2>1, <2>4 DEF TrueOf
    <3> QED
      BY <3>2, <3>3, <3>4
  <2>7. MemInv'
    BY <1>1, <2>1 DEF MemInv, Over, Live
  <2>8. /\ QueueOK(queue') /\ Elems(queue') \subseteq Elems(queue)
        /\ \A o \in Elems(queue') : o.type \notin {"admitted", "cancelling", "steering", "dispatched"}
        /\ \A o \in Elems(queue') : ~(o.run = r /\ o.type = "dispatch")
    BY <1>1, ServedFacts DEF Served
  <2>9. \A o \in Elems(queue)' :
           o \in Elems(queue) /\ o.type \notin {"admitted", "cancelling", "steering", "dispatched"}
    BY <2>8, PrimedSets
  <2>10. WorldInv'
    <3> SUFFICES ASSUME NEW q \in Runs PROVE WorldOK(q)'
      BY DEF WorldInv
    <3>1. WorldOK(q) /\ (\A types : Has(q, types)' => Has(q, types)) /\ ~Has(q, {"cancelling"})'
      BY <1>1, <2>9 DEF WorldInv, Has
    <3>2. CASE q = r
      <4>1. ~Has(r, {"finish"})'
        BY <3>1, <3>2, <2>3
      <4> QED
        BY <3>1, <3>2, <4>1, <2>1, <2>4 DEF WorldOK, Has
    <3>3. CASE q # r
      BY <3>1, <3>3, <2>1, <2>4, <2>9 DEF WorldOK
    <3> QED
      BY <3>2, <3>3
  <2>11. TaskInv'
    <3> SUFFICES ASSUME ~fault', NEW q \in Runs PROVE UnderWay(q)'
      BY DEF TaskInv
    <3>1. UnderWay(q) /\ (Has(q, {"finish"})' => Has(q, {"finish"}))
          /\ ~Has(q, {"dispatched"})' /\ ~Has(q, {"cancelling"})'
          /\ \A o \in Elems(queue)' : ~(o.run = q /\ o.type = "steering")
      BY <1>3, <2>9, InvFacts DEF Has
    <3>2. CASE q = r
      <4>1. ~Begun(r)'
        BY <2>4, <2>8, PrimedSets DEF Begun, Has
      <4> QED
        BY <3>1, <3>2, <4>1, <2>1, <2>2 DEF UnderWay
    <3>3. CASE q # r
      <4>1. Begun(q)' => Begun(q)
        BY <3>3, <2>4, <2>9 DEF Begun, Has
      <4> QED
        BY <3>1, <3>3, <4>1, <2>1, <2>4 DEF UnderWay
    <3> QED
      BY <3>2, <3>3
  <2>12. CutoffInv'
    <3>1. Elems(queue') \cap Drains = {}
      BY <1>1, <1>3, <2>8 DEF CutoffInv
    <3> QED
      BY <1>1, <1>3, <2>1, <3>1, PrimedSets DEF CutoffInv
  <2> QED
    BY <2>5, <2>6, <2>7, <2>8, <2>10, <2>11, <2>12, PrimedSets DEF IInv
<1> QED
  BY <1>2, <1>3 DEF AdapterStarts

LEMMA AdapterSettlesKeeps == ASSUME IInv, NEW r \in Runs, AdapterSettles(r) PROVE IInv'
<1>1. TypeOK /\ adapter[r] = "starting" /\ adapter' = [adapter EXCEPT ![r] = "settled"]
      /\ UNCHANGED <<runVars, lifeVars, provider, starts, sent, draft, storeVars, cleaning>>
  BY InvFacts DEF AdapterSettles, NoChange
<1>2. PICK m \in Ops : queue' = Append(queue, m) /\ m.type \in {"register", "unknown"} /\ m.run = r
  BY OpsMade DEF AdapterSettles, Enqueue, Plain
<1>3. Disposed /\ adapter' \in [Runs -> {"none", "starting", "settled"}]
      /\ \A q \in Runs : adapter'[q] = "none" <=> adapter[q] = "none"
  BY <1>1 DEF TypeOK, Disposed
<1> QED
  BY <1>1, <1>2, <1>3, AddKeeps DEF TypeOK, runVars

LEMMA RegisterKeeps == ASSUME IInv, NEW r \in Runs, Register(r) PROVE IInv'
<1>1. /\ TypeOK /\ queue # <<>> /\ Head(queue).type = "register" /\ Head(queue).run = r
      /\ handles' = handles \cup {r} /\ WorldInv /\ Dequeued
      /\ UNCHANGED <<storeVars, timer, waiting, overflow, lifeVars, worldVars, draft>>
  BY InvFacts, Dequeues DEF Register, Serving, Served
<1>2. adapter[r] # "none"
  BY <1>1, ServedFacts DEF WorldInv, WorldOK, Has
<1>3. Disposed
  <2>1. CASE UNCHANGED cleaning
    BY <1>1, <2>1 DEF Disposed, TypeOK
  <2>2. CASE Dispose({r})
    <3>1. PICK these : these = {r}
      OBVIOUS
    <3> QED
      BY <1>1, <1>2, <2>2, <3>1, Disposes
  <2> QED
    BY <2>1, <2>2 DEF Register
<1> QED
  BY <1>1, <1>2, <1>3, ServedQuiet DEF TypeOK

LEMMA ProviderReportsKeeps ==
    ASSUME IInv, NEW r \in Runs, NEW what \in Reports, ProviderReports(r, what)
    PROVE  IInv'
<1>1. TypeOK /\ adapter[r] # "none" /\ closing = "no"
      /\ UNCHANGED <<handles, timer, waiting, lifeVars, worldVars, draft, storeVars, cleaning>>
  BY InvFacts DEF ProviderReports, NoChange
<1>2. PICK m \in Ops : queue' = Append(queue, m) /\ m.type \in {"event", "unknown"} /\ m.run = r
  BY OpsMade DEF ProviderReports, Enqueue, Plain
<1>3. Disposed /\ overflow' \subseteq Runs
  BY <1>1 DEF TypeOK, Disposed, ProviderReports
<1> QED
  BY <1>1, <1>2, <1>3, AddKeeps DEF TypeOK, worldVars

-----------------------------------------------------------------------------
(* What the provider reports.                                                *)

\* An operation that stores a record its schema and its store accept.
LEMMA ServedPersist ==
    ASSUME IInv, ~fault, queue # <<>>, Served, Head(queue).type # "drain",
           UNCHANGED <<overflow, waiting, lifeVars, worldVars, draft>>, handles' \subseteq handles,
           NEW r \in Runs, NEW run, NEW these, these \subseteq handles, Persist(r, run, these),
           Sane(run), TrueOf(run, r), Updates(mem[r], run),
           timer' \in {timer, [timer EXCEPT ![r] = "none"]},
           run.state = "absent" => mem[r].state = "absent",
           run.process = mem[r].process \/ starts[r] # 0,
           run.cleanup = mem[r].cleanup \/ Head(queue) \in Finishing(r),
           drained => ~Live(run)
    PROVE  IInv'
<1>1. TypeOK /\ MemInv /\ DiskInv /\ WorldInv /\ mem = disk
  BY InvFacts DEF MemInv
<1>2. Put(r, run) /\ Disposed /\ refused' = FALSE
  BY <1>1, PersistStores
<1>3. /\ timer' \in [Runs -> {"none", "start", "deadline", "grace"}]
      /\ \A q \in Runs : timer'[q] \in {timer[q], "none"}
  BY <1>1 DEF TypeOK
<1> QED
  BY <1>1, <1>2, <1>3, ServedPut DEF Served, TypeOK

LEMMA MarkUnknownKeeps ==
    ASSUME IInv, NEW r \in Runs, MarkUnknown(r), queue # <<>>, Served, Head(queue).type # "drain",
           UNCHANGED <<handles, waiting, overflow, lifeVars, worldVars, draft>>
    PROVE  IInv'
<1>1. TypeOK /\ WorldInv /\ Dequeued /\ timer' = [timer EXCEPT ![r] = "none"]
  BY InvFacts, Dequeues DEF MarkUnknown, Served
<1>2. PICK these : these = {r} \cap handles
  OBVIOUS
<1>3. CASE fault
  <2>1. Dispose(these) /\ UNCHANGED storeVars
    BY <1>2, <1>3 DEF MarkUnknown
  <2>2. Disposed
    BY <1>1, <1>2, <2>1, Disposes
  <2>3. /\ timer' \in [Runs -> {"none", "start", "deadline", "grace"}]
        /\ \A q \in Runs : timer'[q] \in {timer[q], "none"}
    BY <1>1 DEF TypeOK
  <2> QED
    BY <1>1, <2>1, <2>2, <2>3, ServedQuiet DEF TypeOK
<1>4. CASE ~fault
  <2>1. PICK run : run = Uncertain(mem[r])
    OBVIOUS
  <2>2. Persist(r, run, these)
    BY <1>2, <1>4, <2>1 DEF MarkUnknown
  <2>3. Sane(mem[r]) /\ TrueOf(mem[r], r)
    BY <1>4, InvFacts
  <2>4. /\ Sane(run) /\ Over(run) /\ TrueOf(run, r) /\ Updates(mem[r], run)
        /\ run.process = mem[r].process /\ run.cleanup = mem[r].cleanup
        /\ run.state = IF Live(mem[r]) THEN "unknown" ELSE mem[r].state
    BY <2>1, <2>3, UncertainFacts, UncertainTrue, UncertainUpdates
  <2>5. ~Live(run) /\ (run.state = "absent" => mem[r].state = "absent")
    BY <2>4 DEF Over
  <2> QED
    BY <1>1, <1>2, <1>4, <2>2, <2>4, <2>5, ServedPersist
<1> QED
  BY <1>3, <1>4

LEMMA UnknownKeeps == ASSUME IInv, NEW r \in Runs, Unknown(r) PROVE IInv'
BY MarkUnknownKeeps DEF Unknown, Serving

\* The end of the process.
LEMMA ExitFacts ==
    ASSUME NEW d, Sane(d), NEW r, TrueOf(d, r), starts[r] = 1
    PROVE  LET e == [Uncertain(d) EXCEPT !.process = "exited"]
           IN  /\ Sane(e) /\ Updates(d, e) /\ TrueOf(e, r) /\ ~Live(e) /\ e.cleanup = d.cleanup
               /\ e.state = IF Live(d) THEN "unknown" ELSE d.state
<1> DEFINE u == Uncertain(d)
           e == [u EXCEPT !.process = "exited"]
<1>1. /\ Sane(u) /\ Over(u) /\ TrueOf(u, r) /\ u.process = d.process /\ u.cleanup = d.cleanup
      /\ u.outcome = d.outcome /\ u.turn = d.turn
      /\ u.state = IF Live(d) THEN "unknown" ELSE d.state
      /\ \A i \in Instructions :
           u.receipts[i] = IF d.receipts[i] = "pending" THEN "delivery-unknown" ELSE d.receipts[i]
  BY UncertainFacts, UncertainTrue
<1> HIDE DEF u
<1>2. u \in Records /\ d.process # "not-started"
  BY <1>1 DEF Sane, TrueOf
<1>3. /\ e \in Records /\ e.process = "exited" /\ e.cleanup = u.cleanup /\ e.outcome = u.outcome
      /\ e.turn = u.turn /\ e.state = u.state /\ e.receipts = u.receipts
  BY <1>2 DEF Records
<1> HIDE DEF e
<1>4. ~Live(e)
  BY <1>1, <1>3 DEF Over, Live
<1>5. Sane(e)
  <2>1. e.state # "running" /\ e.state # "starting"
    BY <1>4 DEF Live
  <2>2. Evidence(e)
    BY <1>1, <1>2, <1>3 DEF Sane, Evidence
  <2> QED
    BY <1>1, <1>2, <1>3, <1>4, <2>1, <2>2 DEF Sane
<1>6. TrueOf(e, r)
  BY <1>1, <1>2, <1>3 DEF TrueOf
<1>7. Updates(d, e)
  <2>1. CanTransition(d.state, e.state)
    BY <1>1, <1>3 DEF CanTransition, Successors, Live, Terminal
  <2> QED
    BY <1>1, <1>3, <2>1 DEF Updates
<1> QED
  BY <1>1, <1>3, <1>4, <1>5, <1>6, <1>7 DEF e, u

\* The identity of the turn, and its end.
LEMMA TurnFacts ==
    ASSUME NEW d, Sane(d), Live(d), ~d.turn, NEW r, TrueOf(d, r), starts[r] = 1
    PROVE  LET t == [d EXCEPT !.turn = TRUE, !.state = IF @ = "cancelling" THEN @ ELSE "running"]
           IN  /\ Sane(t) /\ Updates(d, t) /\ TrueOf(t, r) /\ t.state # "absent"
               /\ t.process = d.process /\ t.cleanup = d.cleanup
<1> DEFINE t == [d EXCEPT !.turn = TRUE, !.state = IF @ = "cancelling" THEN @ ELSE "running"]
<1>1. d \in Records /\ d.process = "live" /\ d.outcome = "none" /\ d.state \in {"starting", "cancelling"}
  BY DEF Sane, TrueOf, Live, Evidence
<1>2. /\ t \in Records /\ t.turn = TRUE /\ t.state = (IF d.state = "cancelling" THEN d.state ELSE "running")
      /\ t.process = d.process /\ t.cleanup = d.cleanup /\ t.outcome = d.outcome /\ t.receipts = d.receipts
  BY <1>1 DEF Records, RunStates
<1> HIDE DEF t
<1>3. Sane(t)
  <2>1. Evidence(t)
    BY <1>1, <1>2 DEF Evidence
  <2> QED
    BY <1>1, <1>2, <2>1 DEF Sane
<1>4. TrueOf(t, r)
  BY <1>1, <1>2 DEF TrueOf
<1>5. Updates(d, t)
  <2>1. CanTransition(d.state, t.state)
    BY <1>1, <1>2 DEF CanTransition, Successors
  <2>2. d.state \notin Terminal
    BY <1>1 DEF Terminal
  <2> QED
    BY <1>1, <1>2, <2>1, <2>2 DEF Updates
<1> QED
  BY <1>1, <1>2, <1>3, <1>4, <1>5 DEF t

LEMMA EndedFacts ==
    ASSUME NEW d, Sane(d), Live(d), NEW r, TrueOf(d, r), starts[r] = 1,
           NEW what \in TurnEnds \cup {"rejected"}, what \in TurnEnds => d.turn
    PROVE  LET e == Ended(d, what)
           IN  /\ Sane(e) /\ Updates(d, e) /\ TrueOf(e, r) /\ e.state # "absent"
               /\ e.process = d.process /\ e.cleanup = d.cleanup
<1> DEFINE e == Ended(d, what)
<1>1. /\ d \in Records /\ d.process = "live" /\ d.outcome = "none" /\ what \in Reports
      /\ what \in TurnEnds => d.state # "starting"
  BY DEF Sane, TrueOf, Live, Evidence, Reports
<1>2. /\ e \in Records /\ e.outcome = what
      /\ e.state = (IF what = "interrupted" THEN "cancelled" ELSE IF what = "rejected" THEN "failed" ELSE what)
      /\ e.process = d.process /\ e.cleanup = d.cleanup /\ e.turn = d.turn /\ e.receipts = d.receipts
  BY <1>1 DEF Ended, Records, RunStates, Terminal, TurnEnds
<1> HIDE DEF e
<1>3. e.state \in {"cancelled", "failed", "completed"}
  BY <1>2 DEF TurnEnds
<1>4. Sane(e)
  <2>1. Evidence(e)
    BY <1>1, <1>2, <1>3 DEF Evidence, TurnEnds
  <2> QED
    BY <1>1, <1>2, <1>3, <2>1 DEF Sane, Live, TurnEnds
<1>5. TrueOf(e, r)
  BY <1>1, <1>2, <1>3 DEF TrueOf, TurnEnds
<1>6. Updates(d, e)
  <2>1. CanTransition(d.state, e.state)
    BY <1>1, <1>2, <1>3 DEF CanTransition, Successors, Live, Terminal, TurnEnds
  <2>2. d.state \notin Terminal
    BY DEF Terminal, Live
  <2> QED
    BY <1>1, <1>2, <2>1, <2>2 DEF Updates
<1> QED
  BY <1>2, <1>3, <1>4, <1>5, <1>6 DEF e

LEMMA EventKeeps == ASSUME IInv, NEW r \in Runs, Event(r) PROVE IInv'
<1>1. /\ TypeOK /\ WorldInv /\ queue # <<>> /\ Served /\ Dequeued
      /\ Head(queue).type = "event" /\ Head(queue).run = r
      /\ UNCHANGED <<handles, waiting, overflow, lifeVars, worldVars, draft>>
  BY InvFacts, Dequeues DEF Event, Serving, Served
<1>2. Head(queue) \in Events /\ Head(queue) \in Elems(queue)
  BY <1>1, ServedFacts, OpFacts
<1>3. ~drained /\ starts[r] = 1
  <2>1. adapter[r] # "none"
    BY <1>1, <1>2 DEF WorldInv, WorldOK, Has
  <2> QED
    BY <1>1, <1>2, <2>1, InvFacts DEF CutoffInv, WorldInv, WorldOK
<1>4. ASSUME ~fault PROVE Sane(mem[r]) /\ TrueOf(mem[r], r)
  BY <1>4, InvFacts
<1> DEFINE what == Head(queue).arg
<1>5. CASE NoChange /\ UNCHANGED timer
  BY <1>1, <1>5, ServedIdle DEF NoChange, runVars, TypeOK
<1>6. CASE ~fault /\ Persist(r, [Uncertain(mem[r]) EXCEPT !.process = "exited"], {r} \cap handles) /\ UNCHANGED timer
  <2>1. PICK run, these : run = [Uncertain(mem[r]) EXCEPT !.process = "exited"] /\ these = {r} \cap handles
    OBVIOUS
  <2>2. /\ Sane(run) /\ Updates(mem[r], run) /\ TrueOf(run, r) /\ ~Live(run) /\ run.cleanup = mem[r].cleanup
        /\ run.state = IF Live(mem[r]) THEN "unknown" ELSE mem[r].state
    BY <1>3, <1>4, <1>6, <2>1, ExitFacts
  <2>3. Persist(r, run, these) /\ these \subseteq handles /\ (run.state = "absent" => mem[r].state = "absent")
    BY <1>6, <2>1, <2>2
  <2> QED
    BY <1>1, <1>3, <1>6, <2>2, <2>3, ServedPersist
<1>7. CASE /\ ~fault /\ Live(mem[r]) /\ ~mem[r].turn /\ UNCHANGED timer
           /\ Persist(r, [mem[r] EXCEPT !.turn = TRUE,
                            !.state = IF @ = "cancelling" THEN @ ELSE "running"], {})
  <2>1. PICK run, these :
           run = [mem[r] EXCEPT !.turn = TRUE, !.state = IF @ = "cancelling" THEN @ ELSE "running"] /\ these = {}
    OBVIOUS
  <2>2. /\ Sane(run) /\ Updates(mem[r], run) /\ TrueOf(run, r) /\ run.state # "absent"
        /\ run.process = mem[r].process /\ run.cleanup = mem[r].cleanup
    BY <1>3, <1>4, <1>7, <2>1, TurnFacts
  <2>3. Persist(r, run, these) /\ these \subseteq handles
    BY <1>7, <2>1
  <2> QED
    BY <1>1, <1>3, <1>7, <2>2, <2>3, ServedPersist
<1>8. CASE ~fault /\ Live(mem[r]) /\ Write(r, mem[r], {}) /\ UNCHANGED <<refused, timer>>
  <2>1. PICK run, these : run = mem[r] /\ these = {}
    OBVIOUS
  <2>2. Put(r, run) /\ Disposed /\ refused' = FALSE
    <3>1. Write(r, run, these) /\ these \subseteq handles /\ MemInv /\ DiskInv
      BY <1>8, <2>1, InvFacts
    <3>2. refused' = FALSE
      BY <1>1, <1>8, <3>1 DEF DiskInv, TypeOK
    <3> QED
      BY <1>1, <1>8, <3>1, <3>2, WriteStores
  <2>3. Sane(run) /\ TrueOf(run, r) /\ run = mem[r]
    BY <1>4, <1>8, <2>1
  <2> QED
    BY <1>1, <1>3, <1>8, <2>2, <2>3, ServedPut DEF Served, TypeOK
<1>9. CASE MarkUnknown(r)
  BY <1>1, <1>9, MarkUnknownKeeps
<1>10. CASE /\ ~fault /\ Live(mem[r]) /\ (what = "rejected" \/ (what \in TurnEnds /\ mem[r].turn))
            /\ Persist(r, Ended(mem[r], what), {r} \cap handles)
            /\ timer' = [timer EXCEPT ![r] = "none"]
  <2>1. PICK run, these : run = Ended(mem[r], what) /\ these = {r} \cap handles
    OBVIOUS
  <2>2. /\ Sane(run) /\ Updates(mem[r], run) /\ TrueOf(run, r) /\ run.state # "absent"
        /\ run.process = mem[r].process /\ run.cleanup = mem[r].cleanup
    BY <1>3, <1>4, <1>10, <2>1, EndedFacts DEF TurnEnds
  <2>3. Persist(r, run, these) /\ these \subseteq handles
    BY <1>10, <2>1
  <2> QED
    BY <1>1, <1>3, <1>10, <2>2, <2>3, ServedPersist
<1> QED
  BY <1>5, <1>6, <1>7, <1>8, <1>9, <1>10 DEF Event

-----------------------------------------------------------------------------
(* Timers, and the acknowledgement of a steer.                               *)

LEMMA TimerAdds ==
    ASSUME IInv, NEW r \in Runs, NEW type, timer' = [timer EXCEPT ![r] = "none"],
           type = "unknown" \/ (type = "dispatch" /\ timer[r] = "start"),
           Enqueue(Operation(type, r, "none")),
           UNCHANGED <<storeVars, cleaning, handles, waiting, overflow, lifeVars, worldVars, draft>>
    PROVE  IInv'
<1> DEFINE m == Operation(type, r, "none")
<1>1. m \in Ops /\ m.type = type /\ m.run = r /\ queue' = Append(queue, m)
  BY OpsMade DEF Enqueue, Plain
<1>2. TypeOK /\ Disposed
  BY InvFacts DEF TypeOK, Disposed
<1>3. /\ timer' \in [Runs -> {"none", "start", "deadline", "grace"}] /\ timer'[r] = "none"
      /\ \A q \in Runs : timer'[q] \in {timer[q], "none"}
  BY <1>2 DEF TypeOK
<1> HIDE DEF m
<1> QED
  BY <1>1, <1>2, <1>3, AddKeeps DEF TypeOK, worldVars

LEMMA TimersKeep == ASSUME IInv, NEW r \in Runs, Timers(r) PROVE IInv'
<1>1. CASE StartFires(r)
  BY <1>1, TimerAdds DEF StartFires, NoChange
<1>2. CASE DeadlineFires(r)
  BY <1>2, TimerAdds DEF DeadlineFires, NoChange
<1>3. CASE GraceFires(r)
  <2>1. TypeOK /\ WorldInv /\ QueueOK(queue) /\ timer' = [timer EXCEPT ![r] = "none"]
        /\ UNCHANGED <<storeVars, handles, waiting, overflow, lifeVars, worldVars, draft>>
    BY <1>3, InvFacts DEF GraceFires
  <2>2. CASE r \in handles /\ Dispose({r}) /\ UNCHANGED queue
    <3>1. PICK these : these = {r}
      OBVIOUS
    <3>2. Disposed
      BY <2>1, <2>2, <3>1, Disposes
    <3>3. /\ timer' \in [Runs -> {"none", "start", "deadline", "grace"}]
          /\ \A q \in Runs : timer'[q] \in {timer[q], "none"}
      BY <2>1 DEF TypeOK
    <3> QED
      BY <2>1, <2>2, <3>2, <3>3, AsideKeeps DEF TypeOK
  <2>3. CASE WithoutHandle(r) /\ UNCHANGED cleaning
    BY <2>1, <2>3, TimerAdds DEF WithoutHandle
  <2> QED
    BY <1>3, <2>2, <2>3 DEF GraceFires
<1> QED
  BY <1>1, <1>2, <1>3 DEF Timers

-----------------------------------------------------------------------------
(* Cleanup.                                                                  *)

LEMMA DisposeSettlesKeeps ==
    ASSUME IInv, NEW r \in Runs, NEW outcome \in {"confirmed", "unknown"}, DisposeSettles(r, outcome)
    PROVE  IInv'
<1> DEFINE m == Operation("finish", r, outcome)
<1>1. /\ TypeOK /\ QueueOK(queue) /\ WorldInv /\ CutoffInv /\ DiskInv /\ MemInv
      /\ cleaning[r] = "disposing" /\ cleaning' = [cleaning EXCEPT ![r] = "settled"]
      /\ queue' = Append(queue, m)
      /\ UNCHANGED <<mem, disk, fault, refused, handles, timer, waiting, overflow, closing, drained,
                     adapter, starts, sent, draft>>
  BY InvFacts DEF DisposeSettles, Enqueue, storeVars, runVars, lifeVars
<1>2. /\ m \in Ops /\ m.type = "finish" /\ m.run = r /\ m.arg = outcome
      /\ m \notin Continuing /\ m \notin Drains /\ m \notin Events
  BY OpsMade, OpFacts
<1> HIDE DEF m
<1>3. ~Has(r, {"finish"}) /\ adapter[r] # "none"
  BY <1>1 DEF WorldInv, WorldOK
<1>4. QueueOK(queue') /\ Elems(queue') = Elems(queue) \cup {m}
  <2>1. ASSUME NEW q \in Runs
        PROVE  /\ m \in Starting(q) => Elems(queue) \cap Starting(q) = {}
               /\ m \in Finishing(q) => Elems(queue) \cap Finishing(q) = {}
    <3>1. m \notin Starting(q) /\ (m \in Finishing(q) => q = r)
      BY <1>2, OpFacts
    <3>2. Elems(queue) \cap Finishing(r) = {}
      BY <1>3, InvFacts, OpFacts DEF Has
    <3> QED
      BY <3>1, <3>2
  <2> QED
    BY <1>1, <1>2, <2>1, Grows
<1>5. /\ cleaning' \in [Runs -> {"none", "disposing", "settled"}] /\ provider' \in [Runs -> {"none", "live", "gone"}]
      /\ \A q \in Runs : cleaning'[q] = IF q = r THEN "settled" ELSE cleaning[q]
      /\ \A q \in Runs : provider'[q] = provider[q] \/ (q = r /\ provider'[q] = "gone")
      /\ outcome = "confirmed" => provider'[r] = "gone"
  BY <1>1 DEF DisposeSettles, TypeOK
<1>6. TypeOK'
  BY <1>1, <1>5 DEF TypeOK
<1>7. DiskInv'
  <2> SUFFICES ASSUME NEW q \in Runs PROVE Sane(disk[q])' /\ TrueOf(disk[q], q)'
    BY <1>1 DEF DiskInv
  <2>1. Sane(disk[q]) /\ TrueOf(disk[q], q)
    BY <1>1 DEF DiskInv
  <2>2. Sane(disk[q])'
    BY <2>1, <1>1 DEF Sane, Evidence, Live
  <2>3. TrueOf(disk[q], q)'
    BY <2>1, <1>1, <1>5 DEF TrueOf
  <2> QED
    BY <2>2, <2>3
<1>8. MemInv'
  BY <1>1 DEF MemInv, Over, Live
<1>9. \A o \in Elems(queue)' : o \in Elems(queue) \/ o = m
  BY <1>4, PrimedSets
<1>10. WorldInv'
  <2> SUFFICES ASSUME NEW q \in Runs PROVE WorldOK(q)'
    BY DEF WorldInv
  <2>1. WorldOK(q) /\ WorldOK(r)
    BY <1>1 DEF WorldInv
  <2>2. \A types : Has(q, types)' => Has(q, types) \/ (q = r /\ "finish" \in types)
    BY <1>2, <1>9 DEF Has
  <2>3. Has(q, {"finish"})' => cleaning'[q] = "settled"
    BY <2>1, <2>2, <1>5 DEF WorldOK
  <2>4. \A o \in Elems(queue)' : o.run = q /\ o.type = "finish" /\ o.arg = "confirmed" => provider'[q] = "gone"
    BY <2>1, <1>2, <1>5, <1>9 DEF WorldOK
  <2>5. starts[q] = 1 <=> provider'[q] # "none"
    BY <2>1, <1>3, <1>5 DEF WorldOK
  <2>6. cleaning'[q] # "none" \/ q \in handles \/ Has(q, {"register", "event"})' => adapter[q] # "none"
    BY <2>1, <2>2, <1>3, <1>5 DEF WorldOK
  <2>7. (Has(q, {"cancelling"})' => ~fault) /\ (Has(q, {"admitted", "dispatch", "dispatched"})' => timer[q] # "start")
    BY <2>1, <2>2 DEF WorldOK
  <2> QED
    BY <1>1, <2>1, <2>3, <2>4, <2>5, <2>6, <2>7 DEF WorldOK
<1>11. TaskInv'
  <2> SUFFICES ASSUME ~fault', NEW q \in Runs PROVE UnderWay(q)'
    BY DEF TaskInv
  <2>1. UnderWay(q)
    BY <1>1, InvFacts
  <2>2. \A types : Has(q, types)' => Has(q, types) \/ (q = r /\ "finish" \in types)
    BY <1>2, <1>9 DEF Has
  <2>3. Begun(q)' => Begun(q)
    BY <1>1, <2>2 DEF Begun
  <2>4. (Has(q, {"dispatched"})' => Has(q, {"dispatched"})) /\ (Has(q, {"cancelling"})' => Has(q, {"cancelling"}))
    BY <2>2
  <2>5. adapter[q] # "none" /\ (cleaning'[q] # "settled" \/ Has(q, {"finish"})') => mem[q].cleanup = "pending"
    BY <1>1, <1>5, <2>1, <2>2 DEF UnderWay
  <2>6. \A o \in Elems(queue)' : o.type = "steering" => o \in Elems(queue)
    BY <1>2, <1>9
  <2> QED
    BY <1>1, <2>1, <2>3, <2>4, <2>5, <2>6 DEF UnderWay
<1>12. CutoffInv'
  <2>1. Elems(queue') \cap (Drains \cup Events \cup Continuing) = Elems(queue) \cap (Drains \cup Events \cup Continuing)
        /\ Elems(queue') \cap Drains = Elems(queue) \cap Drains
    BY <1>2, <1>4
  <2>2. \A q \in Runs : Live(mem[q])' <=> Live(mem[q])
    BY <1>1 DEF Live
  <2> QED
    BY <1>1, <2>1, <2>2, PrimedSets DEF CutoffInv
<1> QED
  BY <1>4, <1>6, <1>7, <1>8, <1>10, <1>11, <1>12, PrimedSets DEF IInv

\* What a cleanup that ended says of its run.
LEMMA FinishFacts ==
    ASSUME NEW d, Sane(d), NEW r, TrueOf(d, r), starts[r] = 1, d.cleanup = "pending",
           NEW outcome \in {"confirmed", "unknown"}, outcome = "confirmed" => provider[r] = "gone"
    PROVE  LET f == [Cleaned(d, outcome) EXCEPT !.cleanup = outcome,
                        !.process = IF outcome = "confirmed" THEN "exited" ELSE "unknown"]
           IN  Sane(f) /\ Updates(d, f) /\ TrueOf(f, r) /\ ~Live(f) /\ (f.state = "absent" => d.state = "absent")
<1>1. PICK b : b = IF closing = "no" /\ d.state = "cancelling" /\ outcome = "confirmed"
                   THEN [d EXCEPT !.state = "cancelled", !.outcome = "termination"] ELSE d
  OBVIOUS
<1>2. /\ b \in Records /\ b.process = d.process /\ b.cleanup = d.cleanup /\ b.turn = d.turn /\ b.receipts = d.receipts
      /\ \/ b.state = d.state /\ b.outcome = d.outcome
         \/ d.state = "cancelling" /\ outcome = "confirmed" /\ b.state = "cancelled" /\ b.outcome = "termination"
  BY <1>1 DEF Sane, Records, RunStates, Terminal
<1>3. PICK f : f = [Uncertain(b) EXCEPT !.cleanup = outcome,
                      !.process = IF outcome = "confirmed" THEN "exited" ELSE "unknown"]
  OBVIOUS
<1>4. /\ f \in Records /\ f.cleanup = outcome /\ f.turn = d.turn /\ f.outcome = b.outcome
      /\ f.process = (IF outcome = "confirmed" THEN "exited" ELSE "unknown")
      /\ f.state = (IF Live(b) THEN "unknown" ELSE b.state)
      /\ \A i \in Instructions :
           f.receipts[i] = IF d.receipts[i] = "pending" THEN "delivery-unknown" ELSE d.receipts[i]
  BY <1>2, <1>3 DEF Uncertain, Records, RunStates, Terminal
<1>5. ~Live(f) /\ f.process # "not-started" /\ d.process # "not-started"
  BY <1>4 DEF Live, TrueOf
<1>6. Sane(f)
  <2>1. Evidence(f)
    BY <1>2, <1>4, <1>5 DEF Sane, Evidence, Live
  <2>2. f.outcome \in {"completed", "failed", "interrupted"} => f.turn
    BY <1>2, <1>4 DEF Sane
  <2>3. f.state # "running" /\ f.state # "starting" /\ f.state # "absent"
    BY <1>2, <1>4, <1>5 DEF Live, Sane
  <2> QED
    BY <1>4, <1>5, <2>1, <2>2, <2>3 DEF Sane
<1>7. TrueOf(f, r)
  <2>1. f.state = "cancelled" => f.outcome # "prevented" /\ (f.outcome = "termination" => outcome = "confirmed")
    <3>1. CASE b.state = d.state /\ b.outcome = d.outcome
      BY <1>4, <1>5, <3>1 DEF Sane, Evidence, Live
    <3>2. CASE b.outcome = "termination" /\ outcome = "confirmed"
      BY <1>4, <3>2
    <3> QED
      BY <1>2, <3>1, <3>2
  <2> QED
    BY <1>4, <1>5, <2>1 DEF TrueOf
<1>8. Updates(d, f)
  <2>1. CanTransition(d.state, f.state)
    BY <1>2, <1>4 DEF CanTransition, Successors, Live, Terminal
  <2>2. d.state \in Terminal => f.outcome = d.outcome
    BY <1>2, <1>4 DEF Terminal
  <2> QED
    BY <1>4, <1>5, <2>1, <2>2 DEF Updates
<1>9. f.state = "absent" => d.state = "absent"
  BY <1>2, <1>4
<1> QED
  BY <1>1, <1>3, <1>5, <1>6, <1>7, <1>8, <1>9 DEF Cleaned

LEMMA FinishKeeps == ASSUME IInv, NEW r \in Runs, Finish(r) PROVE IInv'
<1> DEFINE outcome == Head(queue).arg
           cleaned == [Cleaned(mem[r], outcome) EXCEPT !.cleanup = outcome,
                         !.process = IF outcome = "confirmed" THEN "exited" ELSE "unknown"]
<1>1. /\ TypeOK /\ QueueOK(queue) /\ WorldInv /\ CutoffInv /\ MemInv /\ queue # <<>>
      /\ Head(queue).type = "finish" /\ Head(queue).run = r
      /\ UNCHANGED <<waiting, overflow, lifeVars, worldVars, draft>>
  BY InvFacts DEF Finish, Serving
<1>2. Head(queue) \in Ops /\ Head(queue) \in Elems(queue) /\ Head(queue) \in Finishing(r)
      /\ outcome \in {"confirmed", "unknown"}
  BY <1>1, ServedFacts, OpFacts
<1>3. Has(r, {"finish"}) /\ cleaning[r] = "settled" /\ adapter[r] # "none" /\ starts[r] = 1
      /\ (outcome = "confirmed" => provider[r] = "gone")
  <2>1. Has(r, {"finish"})
    BY <1>1, <1>2 DEF Has
  <2> QED
    BY <1>1, <1>2, <2>1 DEF WorldInv, WorldOK
<1>4. CASE Yields
  <2>1. queue' = Append(Tail(queue), Head(queue)) /\ UNCHANGED <<storeVars, cleaning, timer, handles>>
    BY <1>4 DEF Finish, NoChange
  <2>2. /\ QueueOK(Tail(queue)) /\ Elems(queue) = Elems(Tail(queue)) \cup {Head(queue)}
        /\ Elems(Tail(queue)) \cap Finishing(r) = {}
    BY <1>1, <1>2, Shrinks
  <2>3. /\ Head(queue) \notin Continuing /\ Head(queue) \notin Drains \cup Events
        /\ \A q \in Runs : Head(queue) \notin Starting(q) /\ (Head(queue) \in Finishing(q) => q = r)
    BY <1>1, <1>2, OpFacts
  <2>4. QueueOK(queue') /\ Elems(queue') = Elems(queue)
    BY <1>2, <2>1, <2>2, <2>3, Grows
  <2>5. Disposed
    BY <1>1, <2>1 DEF Disposed, TypeOK
  <2> QED
    BY <1>1, <2>1, <2>4, <2>5, AsideKeeps DEF TypeOK
<1>5. ASSUME ~Yields
      PROVE  /\ Served /\ handles' = handles \ {r} /\ timer' = [timer EXCEPT ![r] = "none"]
             /\ IF fault THEN mem' = [mem EXCEPT ![r] = cleaned] /\ UNCHANGED <<disk, fault, refused, cleaning>>
                         ELSE Persist(r, cleaned, {})
  BY <1>5 DEF Finish
<1>6. CASE ~Yields /\ ~fault
  <2>1. PICK run, these : run = cleaned /\ these = {}
    OBVIOUS
  <2>2. Sane(mem[r]) /\ TrueOf(mem[r], r) /\ mem[r].cleanup = "pending"
    BY <1>3, <1>6, InvFacts DEF UnderWay
  <2>3. /\ Sane(run) /\ Updates(mem[r], run) /\ TrueOf(run, r) /\ ~Live(run)
        /\ (run.state = "absent" => mem[r].state = "absent")
    BY <1>2, <1>3, <2>1, <2>2, FinishFacts
  <2>4. Persist(r, run, these) /\ these \subseteq handles /\ handles' \subseteq handles
    BY <1>5, <1>6, <2>1
  <2>5. Served /\ timer' = [timer EXCEPT ![r] = "none"]
    BY <1>5, <1>6
  <2>6. /\ queue # <<>> /\ Head(queue).type # "drain" /\ Head(queue) \in Finishing(r) /\ starts[r] # 0 /\ ~fault
        /\ UNCHANGED <<overflow, waiting, lifeVars, worldVars, draft>>
    BY <1>1, <1>2, <1>3, <1>6
  <2> HIDE DEF cleaned, outcome
  <2> QED
    BY <2>3, <2>4, <2>5, <2>6, ServedPersist
<1>7. CASE ~Yields /\ fault
  <2>1. /\ mem' = [mem EXCEPT ![r] = cleaned] /\ UNCHANGED <<disk, fault, refused, cleaning>>
        /\ queue' = Tail(queue) /\ handles' = handles \ {r} /\ timer' = [timer EXCEPT ![r] = "none"]
    BY <1>5, <1>7 DEF Served
  <2>2. mem[r] \in Records /\ Over(mem[r]) /\ \A q \in Runs : Over(mem[q])
    BY <1>1, <1>7 DEF TypeOK, MemInv
  <2>3. PICK run : run = cleaned
    OBVIOUS
  <2>4. run \in Records /\ Over(run)
    <3>1. PICK u : u = Uncertain(mem[r])
      OBVIOUS
    <3>2. Cleaned(mem[r], outcome) = u
      BY <2>2, <3>1 DEF Cleaned, Over, Live
    <3>3. u \in Records /\ u.state = mem[r].state /\ \A i \in Instructions : u.receipts[i] = mem[r].receipts[i]
      BY <2>2, <3>1 DEF Uncertain, Records, Over
    <3>4. run = [u EXCEPT !.cleanup = outcome, !.process = IF outcome = "confirmed" THEN "exited" ELSE "unknown"]
      BY <2>3, <3>2
    <3>5. run \in Records /\ run.state = u.state /\ run.receipts = u.receipts
      BY <1>2, <3>3, <3>4 DEF Records
    <3> QED
      BY <2>2, <3>3, <3>5 DEF Over, Live
  <2> HIDE DEF cleaned
  <2>5. mem' \in [Runs -> Records] /\ \A q \in Runs : Over(mem'[q])
    BY <1>1, <2>1, <2>2, <2>3, <2>4 DEF TypeOK
  <2>6. StoreTypes' /\ MemInv' /\ Disposed
    BY <1>1, <1>7, <2>1, <2>5 DEF TypeOK, StoreTypes, MemInv, Over, Live, Disposed
  <2>7. DiskInv'
    <3> SUFFICES ASSUME NEW q \in Runs PROVE Sane(disk[q])' /\ TrueOf(disk[q], q)'
      BY <2>1, InvFacts DEF DiskInv
    <3>1. Sane(disk[q]) /\ TrueOf(disk[q], q)
      BY InvFacts DEF DiskInv
    <3>2. Sane(disk[q])'
      BY <3>1, <2>1 DEF Sane, Evidence, Live
    <3>3. TrueOf(disk[q], q)'
      BY <3>1, <1>1, <2>1 DEF TrueOf, worldVars
    <3> QED
      BY <3>2, <3>3
  <2>8. Dequeued /\ fault' /\ (drained => \A q \in Runs : ~Live(mem'[q]))
    BY <1>1, <1>7, <2>1, <2>5, Dequeues DEF Over
  <2>9. /\ timer' \in [Runs -> {"none", "start", "deadline", "grace"}]
        /\ \A q \in Runs : timer'[q] \in {timer[q], "none"}
    BY <1>1, <2>1 DEF TypeOK
  <2>10. /\ UNCHANGED <<waiting, overflow, lifeVars, adapter, provider, starts, sent, draft>>
         /\ handles' \subseteq handles
    BY <1>1, <2>1 DEF worldVars
  <2> QED
    BY <1>1, <2>6, <2>7, <2>8, <2>9, <2>10, ServedKeeps DEF TypeOK, WorldInv, WorldOK
<1> QED
  BY <1>4, <1>6, <1>7

-----------------------------------------------------------------------------
(* Shutdown, and the restart.                                                *)

LEMMA ShutdownKeeps == ASSUME IInv, Shutdown PROVE IInv'
<1> DEFINE m == Operation("drain", "none", "none")
<1>1. /\ TypeOK /\ QueueOK(queue) /\ WorldInv /\ CutoffInv /\ closing = "no" /\ closing' = "closing"
      /\ draft' = "none" /\ timer' = NoTimers /\ queue' = Append(queue, m) /\ Dispose(handles)
      /\ UNCHANGED <<storeVars, mem, disk, fault, refused, handles, waiting, overflow, drained, worldVars,
                     adapter, provider, starts, sent>>
  BY InvFacts DEF Shutdown, Enqueue, storeVars, worldVars
<1>2. m \in Ops /\ m.type = "drain" /\ m.run \notin Runs /\ m \in Drains /\ m \notin Continuing
      /\ \A q \in Runs : m \notin Starting(q) /\ m \notin Finishing(q)
  BY OpsMade, OpFacts
<1> HIDE DEF m
<1>3. Disposed
  BY <1>1, Disposes
<1>4. StoreTypes' /\ DiskInv' /\ MemInv'
  BY <1>1, QuietStore
<1>5. TypeOK'
  BY <1>1, <1>3, <1>4 DEF TypeOK, StoreTypes, Disposed, NoTimers
<1>6. QueueOK(queue') /\ Elems(queue') = Elems(queue) \cup {m}
  BY <1>1, <1>2, Grows DEF CutoffInv
<1>7. /\ \A o \in Elems(queue)' : o \in Elems(queue) \/ o = m
      /\ \A q \in Runs : timer'[q] = "none"
  BY <1>1, <1>6, PrimedSets DEF NoTimers
<1>8. WorldInv'
  <2> SUFFICES ASSUME NEW q \in Runs PROVE WorldOK(q)'
    BY DEF WorldInv
  <2>1. WorldOK(q) /\ \A types : Has(q, types)' => Has(q, types)
    BY <1>1, <1>2, <1>7 DEF WorldInv, Has
  <2>2. cleaning'[q] # "none" => cleaning[q] # "none" \/ adapter[q] # "none"
    BY <1>3 DEF Disposed
  <2>3. cleaning[q] = "settled" => cleaning'[q] = "settled"
    BY <1>3 DEF Disposed
  <2>4. \A o \in Elems(queue)' : o.run = q => o \in Elems(queue)
    BY <1>2, <1>7
  <2> QED
    BY <1>1, <1>7, <2>1, <2>2, <2>3, <2>4 DEF WorldOK
<1>9. TaskInv'
  <2> SUFFICES ASSUME ~fault', NEW q \in Runs PROVE UnderWay(q)'
    BY DEF TaskInv
  <2>1. UnderWay(q) /\ \A types : Has(q, types)' => Has(q, types)
    BY <1>1, <1>2, <1>7, InvFacts DEF Has
  <2>2. Begun(q)' => Begun(q)
    BY <1>7, <2>1 DEF Begun
  <2>3. cleaning[q] = "settled" => cleaning'[q] = "settled"
    BY <1>3 DEF Disposed
  <2>4. \A o \in Elems(queue)' : o.run = q => o \in Elems(queue)
    BY <1>2, <1>7
  <2> QED
    BY <1>1, <2>1, <2>2, <2>3, <2>4 DEF UnderWay
<1>10. CutoffInv'
  <2>1. Elems(queue') \cap Drains # {} /\ ~drained
    BY <1>1, <1>2, <1>6 DEF CutoffInv
  <2> QED
    BY <1>1, <2>1, PrimedSets DEF CutoffInv
<1> QED
  BY <1>4, <1>5, <1>6, <1>8, <1>9, <1>10, PrimedSets DEF IInv

LEMMA DrainKeeps == ASSUME IInv, Drain PROVE IInv'
<1>1. /\ TypeOK /\ QueueOK(queue) /\ WorldInv /\ CutoffInv /\ DiskInv /\ MemInv /\ queue # <<>>
      /\ Head(queue).type = "drain" /\ queue' = Tail(queue) /\ drained' = TRUE
      /\ UNCHANGED <<handles, timer, waiting, overflow, closing, worldVars, adapter, provider, starts, sent, draft>>
  BY InvFacts DEF Drain, Serving, Served, runVars, worldVars
<1>2. /\ QueueOK(queue') /\ Elems(queue') \subseteq Elems(queue)
      /\ Elems(queue') \cap (Drains \cup Events \cup Continuing) = {}
      /\ \A o \in Elems(queue') : o.type \notin {"admitted", "cancelling", "steering", "dispatched"}
  <2>1. Head(queue) \in Drains /\ Head(queue) \in Elems(queue)
    BY <1>1, ServedFacts, OpFacts
  <2> QED
    BY <1>1, <2>1, Shrinks, ServedFacts
<1>3. closing = "closing"
  <2>1. Elems(queue) \cap Drains # {}
    BY <1>1, ServedFacts, OpFacts
  <2> QED
    BY <1>1, <2>1 DEF CutoffInv, TypeOK
<1>4. ASSUME ~fault, NEW q \in Runs
      PROVE  /\ Sane(mem[q]) /\ TrueOf(mem[q], q) /\ mem[q] = disk[q]
             /\ Sane(Uncertain(mem[q])) /\ Over(Uncertain(mem[q])) /\ TrueOf(Uncertain(mem[q]), q)
             /\ Legal(q, Uncertain(mem[q]))
  <2>1. Sane(mem[q]) /\ TrueOf(mem[q], q) /\ mem[q] = disk[q]
    BY <1>1, <1>4, InvFacts DEF MemInv
  <2>2. Sane(Uncertain(mem[q])) /\ Over(Uncertain(mem[q])) /\ TrueOf(Uncertain(mem[q]), q)
        /\ Updates(mem[q], Uncertain(mem[q]))
    BY <2>1, UncertainFacts, UncertainTrue, UncertainUpdates
  <2> QED
    BY <2>1, <2>2, SaneIsValid DEF Legal
<1>5. /\ refused' = FALSE /\ fault' \in BOOLEAN /\ (fault => fault' /\ mem' = mem /\ disk' = disk)
      /\ ~fault => /\ mem' = AllUncertain
                   /\ \A q \in Runs : disk'[q] = disk[q] \/ disk'[q] = Uncertain(mem[q])
                   /\ disk' \in [Runs -> Records] /\ (fault' \/ disk' = mem')
      /\ Disposed
  <2>1. CASE fault /\ NoChange
    BY <1>1, <2>1 DEF NoChange, storeVars, TypeOK, DiskInv, Disposed
  <2>2. CASE /\ ~fault /\ mem' = AllUncertain /\ disk' = mem'
             /\ refused' = (refused \/ \E r \in Runs : mem[r] # Absent /\ ~Legal(r, Uncertain(mem[r])))
             /\ UNCHANGED <<fault, cleaning>>
    <3>1. refused' = FALSE
      BY <1>1, <1>4, <2>2 DEF DiskInv, TypeOK
    <3>2. AllUncertain \in [Runs -> Records] /\ \A q \in Runs : AllUncertain[q] = Uncertain(mem[q])
      BY <1>4, <2>2 DEF AllUncertain, Sane
    <3>3. Disposed
      BY <1>1, <2>2 DEF TypeOK, Disposed
    <3> QED
      BY <1>1, <2>2, <3>1, <3>2, <3>3 DEF TypeOK
  <2>3. CASE /\ ~fault /\ UNCHANGED refused
             /\ \E done \in SUBSET Runs :
                   WriteFails([r \in Runs |-> IF r \in done THEN Uncertain(mem[r]) ELSE disk[r]])
    <3>1. PICK done \in SUBSET Runs :
             WriteFails([r \in Runs |-> IF r \in done THEN Uncertain(mem[r]) ELSE disk[r]])
      BY <2>3
    <3>2. PICK d : d = [r \in Runs |-> IF r \in done THEN Uncertain(mem[r]) ELSE disk[r]]
      OBVIOUS
    <3>3. d \in [Runs -> Records] /\ \A q \in Runs : d[q] = disk[q] \/ d[q] = Uncertain(mem[q])
      BY <1>1, <1>4, <2>3, <3>2 DEF TypeOK, Sane
    <3>4. /\ disk' \in {disk, d} /\ fault' = TRUE /\ mem' = AllUncertain /\ Dispose(handles)
      BY <3>1, <3>2 DEF WriteFails
    <3>5. Disposed /\ refused' = FALSE
      BY <1>1, <2>3, <3>4, Disposes DEF DiskInv, TypeOK
    <3>6. disk' \in [Runs -> Records] /\ \A q \in Runs : disk'[q] = disk[q] \/ disk'[q] = Uncertain(mem[q])
      BY <1>1, <3>3, <3>4 DEF TypeOK
    <3> QED
      BY <2>3, <3>4, <3>5, <3>6
  <2> QED
    BY <2>1, <2>2, <2>3 DEF Drain
<1>6. \A q \in Runs : Over(mem'[q])
  BY <1>1, <1>4, <1>5 DEF MemInv, AllUncertain
<1>7. /\ mem' \in [Runs -> Records] /\ disk' \in [Runs -> Records]
      /\ \A q \in Runs : mem'[q] = IF fault THEN mem[q] ELSE Uncertain(mem[q])
  BY <1>1, <1>4, <1>5 DEF TypeOK, AllUncertain, Sane
<1>8. TypeOK'
  BY <1>1, <1>5, <1>7 DEF TypeOK, Disposed
<1>9. DiskInv'
  <2> SUFFICES ASSUME NEW q \in Runs PROVE Sane(disk[q])' /\ TrueOf(disk[q], q)'
    BY <1>5 DEF DiskInv
  <2>1. Sane(disk'[q]) /\ TrueOf(disk'[q], q)
    BY <1>1, <1>4, <1>5 DEF DiskInv
  <2>2. Sane(disk[q])'
    BY <2>1 DEF Sane, Evidence, Live
  <2>3. TrueOf(disk[q], q)'
    BY <2>1, <1>1 DEF TrueOf
  <2> QED
    BY <2>2, <2>3
<1>10. MemInv'
  BY <1>5, <1>6 DEF MemInv, Over, Live
<1>11. /\ \A o \in Elems(queue)' : o \in Elems(queue)
       /\ \A o \in Elems(queue)' : o.type \notin {"admitted", "cancelling", "steering", "dispatched"}
  BY <1>2, PrimedSets
<1>12. WorldInv'
  <2> SUFFICES ASSUME NEW q \in Runs PROVE WorldOK(q)'
    BY DEF WorldInv
  <2>1. WorldOK(q) /\ (\A types : Has(q, types)' => Has(q, types)) /\ ~Has(q, {"cancelling"})'
    BY <1>1, <1>11 DEF WorldInv, Has
  <2>2. cleaning'[q] # "none" => cleaning[q] # "none" \/ adapter[q] # "none"
    BY <1>5 DEF Disposed
  <2>3. cleaning[q] = "settled" => cleaning'[q] = "settled"
    BY <1>5 DEF Disposed
  <2> QED
    BY <1>1, <1>11, <2>1, <2>2, <2>3 DEF WorldOK
<1>13. TaskInv'
  <2> SUFFICES ASSUME ~fault', NEW q \in Runs PROVE UnderWay(q)'
    BY DEF TaskInv
  <2>1. /\ ~fault /\ UnderWay(q) /\ (\A types : Has(q, types)' => Has(q, types))
        /\ ~Has(q, {"dispatched"})' /\ ~Has(q, {"cancelling"})'
        /\ \A o \in Elems(queue)' : ~(o.run = q /\ o.type = "steering")
    BY <1>5, <1>11, InvFacts DEF Has
  <2>2. Begun(q)' => Begun(q)
    BY <1>1, <2>1 DEF Begun
  <2>3. cleaning[q] = "settled" => cleaning'[q] = "settled"
    BY <1>5 DEF Disposed
  <2>4. /\ mem'[q].process = mem[q].process /\ mem'[q].cleanup = mem[q].cleanup
        /\ (mem'[q].state = "absent" => mem[q].state = "absent")
    <3>1. Sane(mem[q]) /\ mem'[q] = Uncertain(mem[q])
      BY <1>4, <1>7, <2>1
    <3> QED
      BY <3>1, UncertainFacts
  <2> QED
    BY <1>1, <2>1, <2>2, <2>3, <2>4 DEF UnderWay
<1>14. CutoffInv'
  <2>1. \A q \in Runs : ~Live(mem[q])'
    BY <1>6 DEF Over, Live
  <2> QED
    BY <1>1, <1>2, <1>3, <2>1, PrimedSets DEF CutoffInv
<1> QED
  BY <1>2, <1>8, <1>9, <1>10, <1>12, <1>13, <1>14, PrimedSets DEF IInv

LEMMA ShutdownEndsKeeps == ASSUME IInv, ShutdownEnds PROVE IInv'
<1>1. /\ TypeOK /\ QueueOK(queue) /\ WorldInv /\ CutoffInv /\ drained /\ closing' = "done" /\ timer' = NoTimers
      /\ UNCHANGED <<storeVars, mem, disk, fault, refused, cleaning, queue, handles, waiting, overflow, drained,
                     adapter, provider, starts, sent, draft>>
  BY InvFacts DEF ShutdownEnds, TimersAtEnd, NoChange, storeVars, worldVars
<1>2. StoreTypes' /\ DiskInv' /\ MemInv'
  BY <1>1, QuietStore
<1>3. TypeOK' /\ \A r \in Runs : timer'[r] = "none"
  BY <1>1, <1>2 DEF TypeOK, StoreTypes, NoTimers
<1>4. Elems(queue)' = Elems(queue) /\ QueueOK(queue)'
  BY <1>1, PrimedSets
<1>5. WorldInv'
  <2> SUFFICES ASSUME NEW r \in Runs PROVE WorldOK(r)'
    BY DEF WorldInv
  <2>1. WorldOK(r)
    BY <1>1 DEF WorldInv
  <2> QED
    BY <1>1, <1>3, <1>4, <2>1 DEF WorldOK, Has
<1>6. TaskInv'
  <2> SUFFICES ASSUME ~fault', NEW r \in Runs PROVE UnderWay(r)'
    BY DEF TaskInv
  <2>1. UnderWay(r) /\ (Begun(r)' => Begun(r))
    BY <1>1, <1>3, <1>4, InvFacts DEF Begun, Has
  <2> QED
    BY <1>1, <1>4, <2>1 DEF UnderWay, Has
<1>7. CutoffInv'
  <2>1. \A r \in Runs : Live(mem[r])' <=> Live(mem[r])
    BY <1>1 DEF Live
  <2> QED
    BY <1>1, <1>3, <1>4, <2>1, PrimedSets DEF CutoffInv
<1> QED
  BY <1>2, <1>3, <1>4, <1>5, <1>6, <1>7 DEF IInv

LEMMA EmptyQueue == QueueOK(<<>>) /\ Elems(<<>>) = {}
BY DEF QueueOK, Elems, Once, Before

LEMMA RestartKeeps == ASSUME IInv, Restart PROVE IInv'
<1>1. /\ TypeOK /\ WorldInv /\ DiskInv /\ mem' = disk' /\ disk' = [r \in Runs |-> Recovered(disk[r])]
      /\ fault' = FALSE /\ refused' = FALSE /\ queue' = <<>> /\ closing' = "no" /\ drained' = FALSE
      /\ handles' = {} /\ overflow' = {} /\ draft' = "none"
      /\ cleaning' = [r \in Runs |-> "none"] /\ timer' = [r \in Runs |-> "none"]
      /\ waiting' = [r \in Runs |-> "none"] /\ adapter' = [r \in Runs |-> "none"]
      /\ UNCHANGED <<provider, starts, sent>>
  BY InvFacts DEF Restart, NoTimers, DiskInv, TypeOK
<1>2. \A r \in Runs : disk'[r] = Recovered(disk[r]) /\ Sane(disk'[r]) /\ TrueOf(disk'[r], r)
  BY <1>1, RecoveredFacts DEF DiskInv
<1>3. disk' \in [Runs -> Records]
  BY <1>1, <1>2 DEF Sane
<1>4. TypeOK'
  BY <1>1, <1>3 DEF TypeOK
<1>5. DiskInv'
  <2> SUFFICES ASSUME NEW r \in Runs PROVE Sane(disk[r])' /\ TrueOf(disk[r], r)'
    BY <1>1 DEF DiskInv
  <2>1. Sane(disk[r])'
    BY <1>2 DEF Sane, Evidence, Live
  <2>2. TrueOf(disk[r], r)'
    BY <1>1, <1>2 DEF TrueOf
  <2> QED
    BY <2>1, <2>2
<1>6. MemInv'
  BY <1>1 DEF MemInv
<1>7. QueueOK(queue)' /\ Elems(queue)' = {} /\ Elems(queue') = {}
  BY <1>1, EmptyQueue, PrimedSets
<1>8. \A r, types : ~Has(r, types)'
  BY <1>7 DEF Has
<1>9. WorldInv'
  <2> SUFFICES ASSUME NEW r \in Runs PROVE WorldOK(r)'
    BY DEF WorldInv
  <2>1. WorldOK(r)
    BY <1>1 DEF WorldInv
  <2> QED
    BY <1>1, <1>7, <1>8, <2>1 DEF WorldOK
<1>10. TaskInv'
  BY <1>1, <1>7, <1>8 DEF TaskInv, UnderWay, Begun
<1>11. CutoffInv'
  BY <1>1, <1>7, PrimedSets DEF CutoffInv
<1> QED
  BY <1>4, <1>5, <1>6, <1>7, <1>9, <1>10, <1>11 DEF IInv

-----------------------------------------------------------------------------
(* The theorems.                                                             *)

LEMMA InitHolds == Init => IInv
<1> SUFFICES ASSUME Init PROVE IInv
  OBVIOUS
<1>1. \A r \in Runs : mem[r] = Absent /\ disk[r] = Absent
  BY DEF Init
<1>2. mem \in [Runs -> Records] /\ disk \in [Runs -> Records] /\ Sane(Absent)
  BY AbsentSane DEF Init, Sane
<1>3. TypeOK
  BY <1>2 DEF Init, TypeOK
<1>4. DiskInv
  <2>1. \A r \in Runs : TrueOf(Absent, r)
    BY DEF Init, TrueOf, Absent
  <2> QED
    BY <1>1, <1>2, <2>1 DEF DiskInv, Init
<1>5. QueueOK(queue) /\ Elems(queue) = {}
  BY EmptyQueue DEF Init
<1>6. \A r, types : ~Has(r, types)
  BY <1>5 DEF Has
<1>7. WorldInv
  BY <1>5, <1>6 DEF Init, WorldInv, WorldOK
<1>8. TaskInv
  BY <1>5, <1>6 DEF Init, TaskInv, UnderWay, Begun
<1>9. CutoffInv /\ MemInv
  BY <1>5 DEF Init, CutoffInv, MemInv
<1> QED
  BY <1>3, <1>4, <1>5, <1>7, <1>8, <1>9 DEF IInv

LEMMA ServeKeeps == ASSUME IInv, Serve PROVE IInv'
<1>1. CASE Drain
  BY <1>1, DrainKeeps
<1>2. ASSUME NEW r \in Runs, Prepare(r) \/ Launch(r) \/ LaunchAdmitted(r) \/ Cancel(r) \/ CancelRecorded(r) PROVE IInv'
  BY <1>2, PrepareKeeps, LaunchKeeps, LaunchAdmittedKeeps, CancelKeeps, CancelRecordedKeeps
<1>3. ASSUME NEW r \in Runs, NEW i \in Instructions, Steer(r, i) \/ SteerRecorded(r, i) PROVE IInv'
  BY <1>3, SteerKeeps, SteerRecordedKeeps
<1>4. ASSUME NEW r \in Runs, SteerSettles(r) \/ Dispatch(r) \/ AdapterStarts(r) \/ Register(r) PROVE IInv'
  BY <1>4, SteerSettlesKeeps, DispatchKeeps, AdapterStartsKeeps, RegisterKeeps
<1>5. ASSUME NEW r \in Runs, Event(r) \/ Unknown(r) \/ Finish(r) PROVE IInv'
  BY <1>5, EventKeeps, UnknownKeeps, FinishKeeps
<1> QED
  BY <1>1, <1>2, <1>3, <1>4, <1>5 DEF Serve

LEMMA StepHolds == IInv /\ [Next]_vars => IInv'
<1> SUFFICES ASSUME IInv, [Next]_vars PROVE IInv'
  OBVIOUS
<1>1. CASE Requests \/ Serve \/ Shutdown \/ ShutdownEnds \/ Restart
  BY <1>1, RequestKeeps, ServeKeeps, ShutdownKeeps, ShutdownEndsKeeps, RestartKeeps
<1>2. ASSUME NEW r \in Runs, Timers(r) \/ AdapterSettles(r) PROVE IInv'
  BY <1>2, TimersKeep, AdapterSettlesKeeps
<1>3. ASSUME NEW r \in Runs, NEW what \in Reports, ProviderReports(r, what) PROVE IInv'
  BY <1>3, ProviderReportsKeeps
<1>4. ASSUME NEW r \in Runs, NEW outcome \in {"confirmed", "unknown"}, DisposeSettles(r, outcome) PROVE IInv'
  BY <1>4, DisposeSettlesKeeps
<1>5. ASSUME NEW r \in Runs, NEW reply \in {"accepted", "rejected", "delivery-unknown"}, SteerAnswered(r, reply)
      PROVE  IInv'
  BY <1>5, SteerAnsweredKeeps DEF Replies
<1>6. CASE UNCHANGED vars
  <2>1. /\ TypeOK /\ QueueOK(queue)
        /\ UNCHANGED <<storeVars, lifeVars, worldVars, handles, cleaning, queue, draft, overflow, waiting, timer>>
    BY <1>6, InvFacts DEF vars, runVars
  <2>2. Disposed
    BY <2>1 DEF TypeOK, Disposed
  <2> QED
    BY <2>1, <2>2, AsideKeeps DEF TypeOK
<1> QED
  BY <1>1, <1>2, <1>3, <1>4, <1>5, <1>6 DEF Next

THEOREM InvHolds == Spec => []IInv
BY InitHolds, StepHolds, PTL DEF Spec

\* What the history says of a run is true of its provider: it was dispatched at
\* most once and only after the record said so, a cancelled run is stopped, and
\* no update of the record is ever refused by the schema or the store.
THEOREM RecordIsTrueHolds == Spec => []RecordIsTrue
<1>1. ASSUME IInv PROVE RecordIsTrue
  <2>1. TypeOK /\ DiskInv /\ WorldInv
    BY <1>1, InvFacts
  <2>2. ASSUME NEW r \in Runs
        PROVE  /\ starts[r] <= 1 /\ (starts[r] > 0 => disk[r].process # "not-started")
               /\ \A i \in Instructions :
                    sent[r][i] <= 1 /\ (sent[r][i] > 0 => disk[r].receipts[i] # "none")
    BY <2>1 DEF DiskInv, TrueOf, WorldInv, WorldOK
  <2>3. CancelledMeansStopped
    BY <2>1 DEF DiskInv, TrueOf, CancelledMeansStopped
  <2> QED
    BY <2>1, <2>2, <2>3 DEF RecordIsTrue, EffectsOnRecord, NoRefusedUpdate, DiskInv
<1> QED
  BY <1>1, InvHolds, PTL

\* A new run is not launched before the processes of every earlier run are known
\* to be gone, those of a run whose core died included.
THEOREM LaunchNeedsProofHolds == Spec => []LaunchNeedsProof
<1>1. ASSUME IInv PROVE LaunchNeedsProof
  <2> SUFFICES ASSUME ~Blocked, ~Active, NEW r \in Runs, provider[r] = "live" PROVE FALSE
    BY DEF LaunchNeedsProof
  <2>1. ~fault /\ Sane(mem[r]) /\ TrueOf(mem[r], r) /\ starts[r] = 1
    BY <1>1, InvFacts DEF Blocked, WorldInv, WorldOK
  <2>2. mem[r].cleanup \in {"pending", "unknown"}
    BY <2>1 DEF Sane, TrueOf, Records
  <2>3. mem[r].state \in Terminal
    BY <2>1 DEF Sane, TrueOf, Records, RunStates, Active, Live
  <2> QED
    BY <2>2, <2>3 DEF Blocked
<1> QED
  BY <1>1, InvHolds, PTL

\* shutdown() lets the end of a turn that was reported before it count, and once
\* it has resolved no run is live and no timer is armed.
THEOREM ShutdownInOrderHolds == Spec => ShutdownInOrder
<1>1. ASSUME IInv PROVE ShutdownIsQuiet
  BY <1>1, InvFacts DEF CutoffInv, ShutdownIsQuiet
<1>2. ASSUME IInv, [Next]_vars PROVE EvidenceBeforeCutoff
  <2> SUFFICES ASSUME NEW r \in Runs, crashes' = crashes, closing # "no", Live(mem[r]), mem'[r].state = "unknown",
                      Serving("finish", r) \/ Serving("drain", "none"), NEW k \in DOMAIN queue,
                      queue[k].type = "event"
               PROVE  FALSE
    BY DEF EvidenceBeforeCutoff
  <2>1. QueueOK(queue) /\ CutoffInv /\ TypeOK /\ queue # <<>>
    BY <1>2, InvFacts DEF Serving
  <2>2. CASE Serving("drain", "none")
    <3>1. /\ queue \in Seq(Ops) /\ Len(queue) \in Nat /\ k \in 1..Len(queue) /\ 1 \in 1..Len(queue)
          /\ Head(queue) = queue[1]
      BY <2>1 DEF QueueOK
    <3>2. queue[k] \in Events /\ queue[1] \in Drains
      BY <2>2, <3>1, OpFacts DEF Serving
    <3> QED
      BY <2>1, <3>1, <3>2 DEF QueueOK, Before
  <2>3. CASE Serving("finish", r)
    <3>1. Yields
      BY <2>1 DEF Yields, CutoffInv
    <3>2. Finish(r) => mem' = mem
      BY <3>1 DEF Finish, NoChange, storeVars
    <3>3. mem' = mem
      <4>1. CASE Requests \/ Shutdown \/ ShutdownEnds
        BY <4>1 DEF Requests, Request, Shutdown, ShutdownEnds, NoChange, storeVars
      <4>2. CASE Serve
        <5>1. Head(queue).type = "finish" /\ Head(queue).run = r
          BY <2>3 DEF Serving
        <5>2. ASSUME NEW q \in Runs, Finish(q) PROVE Finish(r)
          BY <5>1, <5>2 DEF Finish, Serving
        <5>3. ASSUME NEW q \in Runs PROVE ~Prepare(q) /\ ~Launch(q) /\ ~LaunchAdmitted(q)
          BY <5>1 DEF Prepare, Launch, LaunchAdmitted, Serving
        <5>4. ASSUME NEW q \in Runs PROVE ~Cancel(q) /\ ~CancelRecorded(q)
          BY <5>1 DEF Cancel, CancelRecorded, Serving
        <5>5. ASSUME NEW q \in Runs, NEW i \in Instructions PROVE ~Steer(q, i) /\ ~SteerRecorded(q, i)
          BY <5>1 DEF Steer, SteerRecorded, Serving
        <5>6. ASSUME NEW q \in Runs PROVE ~SteerSettles(q) /\ ~Dispatch(q) /\ ~AdapterStarts(q) /\ ~Register(q)
          BY <5>1 DEF SteerSettles, Dispatch, AdapterStarts, Register, Serving
        <5>7. ASSUME NEW q \in Runs PROVE ~Event(q) /\ ~Unknown(q)
          BY <5>1 DEF Event, Unknown, Serving
        <5>8. ~Drain
          BY <5>1 DEF Drain, Serving
        <5> QED
          BY <3>2, <4>2, <5>2, <5>3, <5>4, <5>5, <5>6, <5>7, <5>8 DEF Serve
      <4>3. ASSUME Restart PROVE FALSE
        BY <4>3 DEF Restart
      <4>4. ASSUME NEW q \in Runs, Timers(q) \/ AdapterSettles(q) PROVE mem' = mem
        BY <4>4 DEF Timers, StartFires, DeadlineFires, GraceFires, AdapterSettles, NoChange, storeVars
      <4>5. ASSUME NEW q \in Runs,
                   \/ \E what \in Reports : ProviderReports(q, what)
                   \/ \E outcome \in {"confirmed", "unknown"} : DisposeSettles(q, outcome)
                   \/ \E reply \in {"accepted", "rejected", "delivery-unknown"} : SteerAnswered(q, reply)
            PROVE  mem' = mem
        BY <4>5 DEF ProviderReports, DisposeSettles, SteerAnswered, NoChange, storeVars
      <4>6. CASE UNCHANGED vars
        BY <4>6 DEF vars, storeVars
      <4> QED
        BY <1>2, <4>1, <4>2, <4>3, <4>4, <4>5, <4>6 DEF Next
    <3> QED
      BY <3>3 DEF Live
  <2> QED
    BY <2>2, <2>3
<1> QED
  BY <1>1, <1>2, InvHolds, StepHolds, PTL DEF Spec, ShutdownInOrder
=============================================================================
