-------------------------- MODULE WorkspaceProofs ---------------------------
(***************************************************************************)
(* What WorkspaceSwitch promises for any worktrees, sessions, selections   *)
(* and replacements of the core: one working tree is observed, the one the *)
(* window shows, and a reported shutdown has closed every runtime.         *)
(***************************************************************************)
EXTENDS WorkspaceSwitch, SequenceTheorems, TLAPS

-----------------------------------------------------------------------------
(* Types.                                                                    *)

SomeRoot == Roots \cup {None}
Targets == Sessions \cup {Null}
SomeSession == Targets \cup {None}
Requests == [kind : {"open", "identity", "file", "start", "prepare"}, session : SomeSession,
             root : SomeRoot, gen : Nat, found : SomeRoot,
             step : {"primary", "resolving", "opening", "context", "done"},
             answer : {"none", "ok", "error", "sent"}]
Cores == [primary : {"resolving", "opening", "ready", "failed"},
          runtime : [Roots -> {"none", "opening", "ready", "shut"}],
          selected : [Roots -> SomeSession], interest : SUBSET Roots, active : SomeRoot,
          newest : Nat, stopping : BOOLEAN, late : BOOLEAN, reported : BOOLEAN]
Windows == [shown : SomeRoot, session : SomeSession, root : SomeRoot]
Attachments == [sent : BOOLEAN, req : Nat, for : SomeRoot, fresh : BOOLEAN]
Switches == [at : {"none", "launch", "destination"}, req : Nat, session : SomeSession, moved : BOOLEAN]

RouterTypes == registry \in [Sessions -> SomeRoot] /\ core \in Cores /\ reqs \in Seq(Requests)
WindowTypes == window \in Windows /\ attach \in Attachments /\ switch \in Switches /\ left \in BOOLEAN

-----------------------------------------------------------------------------
(* The invariant of the router.                                              *)

AllNone == \A w \in Roots : core.runtime[w] = "none"

\* The life of a core: nothing, the launch worktree alone, then one active
\* worktree of which the runtime is open.
CoreInv ==
    /\ core.primary \in {"resolving", "failed"} => AllNone /\ core.interest = {} /\ core.active = None
    /\ core.primary = "opening" =>
         /\ core.runtime[Launch] = "opening" /\ \A w \in Roots : w # Launch => core.runtime[w] = "none"
         /\ core.interest = {Launch} /\ core.active = None
    /\ core.primary = "ready" =>
         /\ core.active \in Roots /\ core.interest \subseteq {core.active}
         /\ core.runtime[core.active] \in {"ready", "shut"} /\ core.runtime[Launch] \in {"ready", "shut"}
         /\ ~core.stopping => core.interest = {core.active} /\ core.runtime[core.active] = "ready"
                              /\ core.runtime[Launch] = "ready"
    /\ \A w \in core.interest : core.runtime[w] \in {"opening", "ready"}

ReportInv ==
    core.reported => core.stopping /\ core.primary \in {"ready", "failed"}
                     /\ \A w \in Roots : core.runtime[w] \in {"none", "shut"}

\* A request behind a primary runtime in state p: where it may wait, and what its
\* answer means.
RequestInv(r, p) ==
    /\ Opening(r) => r.session \in Targets /\ (r.session = Null => r.found \in {None, Launch})
    /\ ~Opening(r) => r.root \in Roots
    /\ r.step # "done" => r.answer = "none"
    /\ r.step = "opening" => Opening(r) /\ r.found \in Roots
    /\ r.step = "context" => ~Opening(r)
    /\ r.answer = "ok" => Opening(r) /\ r.found \in Roots /\ p = "ready"
    /\ p # "ready" => r.step \in {"primary", "done"}

\* Selections are counted; the newest one, once answered, is the active one.
Newest(r, c) == Selecting(r) /\ r.gen = c.newest /\ ~c.stopping
Chosen(r, c) == Newest(r, c) /\ r.answer = "ok" => c.active = r.found

SelectionInv ==
    /\ \A i \in DOMAIN reqs : Selecting(reqs[i]) => reqs[i].gen <= core.newest /\ (reqs[i].gen = 0 => core.stopping)
    /\ \A i, j \in DOMAIN reqs : Newest(reqs[i], core) /\ Newest(reqs[j], core) => i = j

RouterInv ==
    /\ RouterTypes /\ CoreInv /\ ReportInv
    /\ \A i \in DOMAIN reqs : RequestInv(reqs[i], core.primary) /\ Chosen(reqs[i], core)
    /\ SelectionInv

-----------------------------------------------------------------------------
(* The invariant of the window.                                              *)

\* A request the window waits for is one it sent to this core.
Asked(i) == i \in DOMAIN reqs /\ Selecting(reqs[i])

WaitInv ==
    /\ attach.req # 0 => attach.sent /\ Asked(attach.req)
    /\ switch.at = "none" => switch = NoSwitch
    /\ switch.at # "none" => switch.session \in Targets /\ attach.sent /\ Asked(switch.req) /\ switch.req # attach.req
    /\ ~attach.sent => \A i \in DOMAIN reqs : ~Selecting(reqs[i])

\* What the window shows was answered, and stays what it was recovered for.
ShownInv ==
    /\ window.shown # None => window.root = window.shown /\ window.session # None
    /\ attach.req # 0 /\ window.session = None => reqs[attach.req].session = Null
    /\ attach.req # 0 /\ attach.fresh => attach.for = window.shown \/ window.shown = None
    /\ switch.at = "launch" =>
         /\ window.shown \in {None, Launch} /\ reqs[switch.req].session = Null
         /\ attach.req # 0 => reqs[attach.req].session = Null

\* The newest selection is waited for by the recovery or by the switch, or it is
\* over and is what the window shows or has left.
Recovering(i) == attach.req = i /\ attach.fresh /\ switch = NoSwitch
Switching(i) == switch # NoSwitch /\ switch.req = i
Over(i) == /\ switch = NoSwitch /\ attach.req # i /\ reqs[i].step = "done"
           /\ reqs[i].answer = "ok" => left \/ window.shown = reqs[i].found

NewestInv == \A i \in DOMAIN reqs : Newest(reqs[i], core) => Recovering(i) \/ Switching(i) \/ Over(i)

IInv == RouterInv /\ WindowTypes /\ WaitInv /\ ShownInv /\ NewestInv

-----------------------------------------------------------------------------
(* What the helpers do.                                                      *)

\* A request that becomes another one keeps what it is.
SameRequest(r, s) ==
    /\ s \in Requests /\ s.kind = r.kind /\ s.gen = r.gen /\ s.root = r.root
    /\ Opening(r) => s.session = r.session

LEMMA AnswerFacts ==
    ASSUME NEW r \in Requests, NEW a \in {"ok", "error", "sent"}
    PROVE  /\ SameRequest(r, Answer(r, a)) /\ Answer(r, a).found = r.found
           /\ Answer(r, a).step = "done" /\ Answer(r, a).answer = a
BY DEF Requests, Answer, SameRequest, Opening

LEMMA SeenFacts ==
    ASSUME NEW c, NEW r \in Requests, r.answer = "none"
    PROVE  LET s == Seen(c, r) IN
           /\ SameRequest(r, s) /\ s.found = r.found
           /\ s.step \in {"done", "resolving"} /\ (s.step = "resolving" => ~Opening(r) /\ s.answer = "none")
           /\ s.answer = "ok" => Opening(r) /\ ~c.stopping
           /\ Opening(r) /\ ~c.stopping => s.answer = "ok"
<1>1. SameRequest(r, [r EXCEPT !.step = "resolving"]) /\ [r EXCEPT !.step = "resolving"].found = r.found
      /\ [r EXCEPT !.step = "resolving"].step = "resolving" /\ [r EXCEPT !.step = "resolving"].answer = "none"
  BY DEF Requests, SameRequest
<1> QED
  BY <1>1, AnswerFacts DEF Seen, Opening

LEMMA AdmittedFacts ==
    ASSUME NEW c \in Cores, NEW r \in Requests, r.answer = "none", ~Opening(r) => r.root \in Roots
    PROVE  LET s == Admitted(c, r) IN
           /\ SameRequest(r, s) /\ s.found = r.found
           /\ s.step \in {"primary", "resolving", "context", "done"}
           /\ s.step # "done" => s.answer = "none"
           /\ s.step = "context" => ~Opening(r)
           /\ s.answer # "ok" /\ (c.primary # "ready" => s.step \in {"primary", "done"})
<1>1. ASSUME NEW p \in {"primary", "resolving", "context"}
      PROVE  /\ SameRequest(r, [r EXCEPT !.step = p]) /\ [r EXCEPT !.step = p].found = r.found
             /\ [r EXCEPT !.step = p].step = p /\ [r EXCEPT !.step = p].answer = "none"
  BY DEF Requests, SameRequest
<1>2. ASSUME ~Opening(r) PROVE c.selected[r.root] \in SomeSession
  BY <1>2 DEF Cores
<1>3. CASE c.stopping \/ c.primary = "failed"
  BY <1>3, AnswerFacts DEF Admitted
<1>4. CASE ~c.stopping /\ c.primary \notin {"failed", "ready"}
  BY <1>1, <1>4 DEF Admitted
<1>5. CASE ~c.stopping /\ c.primary = "ready" /\ Opening(r)
  BY <1>1, <1>5 DEF Admitted
<1>6. CASE ~c.stopping /\ c.primary = "ready" /\ ~Opening(r)
  <2>1. Admitted(c, r) = Routed(c, r)
    BY <1>6 DEF Admitted
  <2>2. PICK t \in SomeSession : t = c.selected[r.root]
    BY <1>2, <1>6
  <2> DEFINE Named(p) == [[r EXCEPT !.session = t] EXCEPT !.step = p]
  <2>3. \A p \in {"resolving", "context"} :
          /\ SameRequest(r, Named(p)) /\ Named(p).found = r.found
          /\ Named(p).step = p /\ Named(p).answer = "none"
    BY <1>6 DEF Requests, SameRequest, Opening
  <2>4. \/ \E a \in {"error", "sent"} : Admitted(c, r) = Answer(r, a)
        \/ Admitted(c, r) = [r EXCEPT !.step = "context"]
        \/ \E p \in {"resolving", "context"} : Admitted(c, r) = Named(p)
    BY <2>1, <2>2 DEF Routed
  <2> HIDE DEF Named
  <2>5. CASE \E a \in {"error", "sent"} : Admitted(c, r) = Answer(r, a)
    BY <1>6, <2>5, AnswerFacts
  <2>6. CASE Admitted(c, r) = [r EXCEPT !.step = "context"]
    BY <1>1, <1>6, <2>6
  <2>7. CASE \E p \in {"resolving", "context"} : Admitted(c, r) = Named(p)
    BY <1>6, <2>3, <2>7
  <2> QED
    BY <2>4, <2>5, <2>6, <2>7
<1> QED
  BY <1>3, <1>4, <1>5, <1>6

LEMMA SelectedFacts ==
    ASSUME NEW c \in Cores, NEW w \in Roots, NEW rs
    PROVE  LET d == Selected(c, w, rs) IN
           /\ d \in Cores
           /\ d.primary = c.primary /\ d.runtime = c.runtime /\ d.newest = c.newest
           /\ d.stopping = c.stopping /\ d.late = c.late /\ d.reported = c.reported
           /\ \/ d.active = c.active /\ d.interest = c.interest
              \/ d.active = w /\ d.interest = (c.interest \ {c.active}) \cup {w}
           /\ (\E r \in rs : Selecting(r) /\ r.gen = c.newest) => d.active = w
           /\ ~(\E r \in rs : Selecting(r) /\ r.gen = c.newest) => d = c
<1>1. [c EXCEPT !.interest = (@ \ {c.active}) \cup {w}, !.active = w] \in Cores
  BY DEF Cores, SomeRoot
<1> QED
  BY <1>1 DEF Selected, Cores

LEMMA SeqFacts ==
    ASSUME NEW S, NEW s \in Seq(S), NEW f, f = [i \in DOMAIN s |-> f[i]], \A i \in DOMAIN s : f[i] \in S
    PROVE  f \in Seq(S) /\ DOMAIN f = DOMAIN s /\ Len(f) = Len(s)
<1>1. DOMAIN s = 1 .. Len(s) /\ Len(s) \in Nat
  OBVIOUS
<1>2. f \in [1 .. Len(s) -> S]
  BY <1>1
<1> QED
  BY <1>1, <1>2

-----------------------------------------------------------------------------
(* The core keeps its part.                                                  *)

CoreMoves ==
    /\ core' \in Cores /\ CoreInv' /\ ReportInv'
    /\ core'.newest = core.newest /\ (core.stopping => core'.stopping)
    /\ core.primary = "ready" => core'.primary = "ready"

LEMMA ResolvedMoves == ASSUME RouterInv, PrimaryResolved PROVE CoreMoves
<1>0. core \in Cores /\ CoreInv /\ ReportInv /\ core.primary = "resolving" /\ Launch \in Roots
  BY RouterAssumption DEF RouterInv, RouterTypes, PrimaryResolved
<1>1. CASE core.stopping
  <2>0. core' = [core EXCEPT !.primary = "failed"]
    BY <1>1 DEF PrimaryResolved
  <2>1. /\ core' \in Cores /\ core'.primary = "failed" /\ core'.runtime = core.runtime
        /\ core'.interest = core.interest /\ core'.active = core.active /\ core'.newest = core.newest
        /\ core'.stopping = core.stopping /\ core'.reported = core.reported
    BY <1>0, <2>0 DEF Cores
  <2> QED
    BY <1>0, <1>1, <2>1 DEF CoreMoves, CoreInv, ReportInv, AllNone
<1>2. CASE ~core.stopping
  <2>0. core' = [core EXCEPT !.primary = "opening", !.runtime[Launch] = "opening",
                             !.selected[Launch] = Null, !.interest = {Launch}]
    BY <1>2 DEF PrimaryResolved
  <2>1. /\ core' \in Cores /\ core'.primary = "opening"
        /\ core'.runtime = [core.runtime EXCEPT ![Launch] = "opening"]
        /\ core'.interest = {Launch} /\ core'.active = core.active /\ core'.newest = core.newest
        /\ core'.stopping = core.stopping /\ core'.reported = core.reported
    BY <1>0, <2>0 DEF Cores, SomeSession, Targets
  <2>2. core.runtime \in [Roots -> {"none", "opening", "ready", "shut"}]
    BY <1>0 DEF Cores
  <2> QED
    BY <1>0, <1>2, <2>1, <2>2 DEF CoreMoves, CoreInv, ReportInv, AllNone
<1> QED
  BY <1>1, <1>2

LEMMA OpenedMoves == ASSUME RouterInv, NEW i \in DOMAIN reqs, Opened(i) PROVE CoreMoves
<1> USE RouterAssumption DEF RouterInv, RouterTypes
<1> DEFINE r == [reqs[i] EXCEPT !.found = Found(reqs[i])]
           w == r.found
           c == IF core.runtime[w] = "none" THEN [core EXCEPT !.runtime[w] = "opening"] ELSE core
           d == [c EXCEPT !.selected[w] = r.session]
<1>1. reqs[i] \in Requests /\ RequestInv(reqs[i], core.primary) /\ Opening(reqs[i])
  <2>1. reqs[i] \in Requests /\ RequestInv(reqs[i], core.primary)
    OBVIOUS
  <2>2. r.kind = reqs[i].kind
    BY <2>1 DEF Requests
  <2> QED
    BY <2>1, <2>2 DEF Opened, Opening
<1>2. w \in Roots /\ r.session \in SomeSession /\ r.session = reqs[i].session /\ w = Found(reqs[i])
  BY <1>1 DEF Opened, RequestInv, Found, Requests, SomeRoot, Targets, SomeSession
<1>3. core.primary = "ready" /\ ~core.stopping
  BY <1>1 DEF Opened, RequestInv, Serving
<1>4. core.runtime \in [Roots -> {"none", "opening", "ready", "shut"}]
  BY DEF Cores
<1>5. /\ d \in Cores /\ d.primary = core.primary
      /\ d.runtime = IF core.runtime[w] = "none" THEN [core.runtime EXCEPT ![w] = "opening"] ELSE core.runtime
      /\ d.interest = core.interest /\ d.active = core.active /\ d.newest = core.newest
      /\ d.stopping = core.stopping /\ d.reported = core.reported
  BY <1>2 DEF Cores
<1>6. core' = IF core.runtime[w] = "ready" THEN Selected(d, w, {r}) ELSE d
  BY DEF Opened
<1> HIDE DEF d, c, w, r
<1>7. /\ core' \in Cores /\ core'.primary = d.primary /\ core'.runtime = d.runtime /\ core'.newest = d.newest
      /\ core'.stopping = d.stopping /\ core'.reported = d.reported
      /\ \/ core'.active = d.active /\ core'.interest = d.interest
         \/ core.runtime[w] = "ready" /\ core'.active = w /\ core'.interest = (d.interest \ {d.active}) \cup {w}
  <2>1. CASE core.runtime[w] = "ready"
    <3>1. PICK rs : core' = Selected(d, w, rs)
      BY <1>6, <2>1
    <3> QED
      BY <1>2, <1>5, <2>1, <3>1, SelectedFacts
  <2>2. CASE core.runtime[w] # "ready"
    BY <1>5, <1>6, <2>2
  <2> QED
    BY <2>1, <2>2
<1>8. CoreInv'
  BY <1>2, <1>3, <1>4, <1>5, <1>7 DEF CoreInv
<1> QED
  BY <1>3, <1>5, <1>7, <1>8 DEF CoreMoves, ReportInv

LEMMA ReadyMoves == ASSUME RouterInv, NEW w \in Roots, Ready(w) PROVE CoreMoves
<1> USE RouterAssumption DEF RouterInv, RouterTypes
<1> DEFINE c == [core EXCEPT !.runtime[w] = "ready", !.primary = IF w = Launch THEN "ready" ELSE @,
                             !.active = IF w = Launch /\ core.primary = "opening" THEN Launch ELSE @]
<1>1. /\ c \in Cores /\ c.runtime = [core.runtime EXCEPT ![w] = "ready"]
      /\ c.primary = (IF w = Launch THEN "ready" ELSE core.primary)
      /\ c.active = (IF w = Launch /\ core.primary = "opening" THEN Launch ELSE core.active)
      /\ c.interest = core.interest /\ c.newest = core.newest
      /\ c.stopping = core.stopping /\ c.reported = core.reported
  BY DEF Cores, SomeRoot
<1>2. core' = Selected(c, w, Waiting(w)) /\ core.runtime[w] = "opening"
  BY DEF Ready
<1> HIDE DEF c
<1>3. /\ core' \in Cores /\ core'.primary = c.primary /\ core'.runtime = c.runtime /\ core'.newest = c.newest
      /\ core'.stopping = c.stopping /\ core'.reported = c.reported
      /\ \/ core'.active = c.active /\ core'.interest = c.interest
         \/ core'.active = w /\ core'.interest = (c.interest \ {c.active}) \cup {w}
  BY <1>1, <1>2, SelectedFacts
<1>4. core.runtime \in [Roots -> {"none", "opening", "ready", "shut"}]
  BY DEF Cores
<1>5. CASE core.primary = "opening"
  BY <1>1, <1>2, <1>3, <1>4, <1>5 DEF CoreMoves, CoreInv, ReportInv
<1>6. CASE core.primary = "ready"
  BY <1>1, <1>2, <1>3, <1>4, <1>6 DEF CoreMoves, CoreInv, ReportInv
<1> QED
  BY <1>2, <1>5, <1>6 DEF CoreInv, AllNone, Cores

LEMMA FailedMoves == ASSUME RouterInv, NEW w \in Roots, ReadyFails(w) PROVE CoreMoves
<1> USE RouterAssumption DEF RouterInv, RouterTypes
<1>1. /\ core' \in Cores /\ core'.runtime = [core.runtime EXCEPT ![w] = "none"]
      /\ core'.primary = (IF w = Launch THEN "failed" ELSE core.primary)
      /\ core'.active = core.active /\ core'.interest = core.interest \ {w} /\ core'.newest = core.newest
      /\ core'.stopping = core.stopping /\ core'.reported = core.reported
  BY DEF ReadyFails, Cores, SomeSession
<1>2. core.runtime \in [Roots -> {"none", "opening", "ready", "shut"}] /\ core.runtime[w] = "opening"
  BY DEF Cores, ReadyFails
<1>3. CASE core.primary = "opening"
  BY <1>1, <1>2, <1>3 DEF CoreMoves, CoreInv, ReportInv, AllNone
<1>4. CASE core.primary = "ready"
  BY <1>1, <1>2, <1>4 DEF CoreMoves, CoreInv, ReportInv, AllNone
<1> QED
  BY <1>2, <1>3, <1>4 DEF CoreInv, AllNone, Cores

LEMMA StopMoves ==
    ASSUME RouterInv, Stop \/ Report \/ (\E w \in Roots : ShutRuntime(w)) PROVE CoreMoves
<1> USE DEF RouterInv, RouterTypes
<1>1. CASE Stop
  <2>1. /\ core' \in Cores /\ core'.stopping /\ core'.primary = core.primary /\ core'.runtime = core.runtime
        /\ core'.interest = core.interest /\ core'.active = core.active /\ core'.newest = core.newest
        /\ core'.reported = core.reported
    BY <1>1 DEF Stop, Cores
  <2> QED
    BY <2>1 DEF CoreMoves, CoreInv, ReportInv, AllNone
<1>2. CASE Report
  <2>1. /\ core' \in Cores /\ core'.reported /\ core'.primary = core.primary /\ core'.runtime = core.runtime
        /\ core'.interest = core.interest /\ core'.active = core.active /\ core'.newest = core.newest
        /\ core'.stopping = core.stopping
    BY <1>2 DEF Report, Cores
  <2> QED
    BY <1>2, <2>1 DEF CoreMoves, CoreInv, ReportInv, AllNone, Report, Settled
<1>3. ASSUME NEW w \in Roots, ShutRuntime(w) PROVE CoreMoves
  <2>1. /\ core' \in Cores /\ core'.primary = core.primary /\ core'.runtime = [core.runtime EXCEPT ![w] = "shut"]
        /\ core'.interest = core.interest \ {w} /\ core'.active = core.active /\ core'.newest = core.newest
        /\ core'.stopping = core.stopping /\ core'.reported = core.reported
    BY <1>3 DEF ShutRuntime, Cores
  <2>2. core.runtime \in [Roots -> {"none", "opening", "ready", "shut"}] /\ core.runtime[w] = "ready"
        /\ core.stopping /\ core.primary \in {"ready", "failed"}
    BY <1>3 DEF Cores, ShutRuntime, Settled
  <2>3. core.primary = "ready"
    BY <2>2 DEF CoreInv, AllNone
  <2> QED
    BY <2>1, <2>2, <2>3 DEF CoreMoves, CoreInv, ReportInv
<1> QED
  BY <1>1, <1>2, <1>3

-----------------------------------------------------------------------------
(* Requests keep theirs.                                                     *)

OneMoves(r, s) ==
    /\ SameRequest(r, s) /\ RequestInv(s, core'.primary) /\ Chosen(s, core')
    /\ r.step = "done" => s = r

RequestsMove ==
    /\ reqs' \in Seq(Requests) /\ DOMAIN reqs' = DOMAIN reqs
    /\ \A i \in DOMAIN reqs : OneMoves(reqs[i], reqs'[i])

LEMMA AllMove ==
    ASSUME reqs \in Seq(Requests), reqs' = [i \in DOMAIN reqs |-> reqs'[i]],
           \A i \in DOMAIN reqs : OneMoves(reqs[i], reqs'[i])
    PROVE  RequestsMove
BY SeqFacts DEF RequestsMove, OneMoves, SameRequest

\* A request that is not touched, while what was chosen stays.
LEMMA Untouched ==
    ASSUME CoreMoves, NEW r \in Requests, RequestInv(r, core.primary), Chosen(r, core),
           Newest(r, core) /\ r.answer = "ok" => core'.active = core.active
    PROVE  OneMoves(r, r)
<1>1. SameRequest(r, r)
  BY DEF SameRequest
<1>2. RequestInv(r, core'.primary)
  BY DEF RequestInv, CoreMoves
<1>3. Newest(r, core') => Newest(r, core)
  BY DEF Newest, CoreMoves
<1> QED
  BY <1>1, <1>2, <1>3 DEF OneMoves, Chosen

\* One that goes on without being answered "ok".
LEMMA GoesOn ==
    ASSUME NEW r \in Requests, RequestInv(r, core.primary), r.step # "done",
           NEW s, SameRequest(r, s), s.found = r.found, s.answer # "ok",
           s.step \in {"primary", "resolving", "context", "done"},
           s.step # "done" => s.answer = "none", s.step = "context" => ~Opening(r),
           core'.primary # "ready" => s.step \in {"primary", "done"}
    PROVE  OneMoves(r, s)
BY DEF OneMoves, SameRequest, RequestInv, Chosen, Opening

LEMMA Refused ==
    ASSUME NEW r \in Requests, RequestInv(r, core.primary), r.step # "done"
    PROVE  OneMoves(r, Answer(r, "error"))
BY AnswerFacts, GoesOn

\* Behind a runtime that is ready: an opening is answered, and if it is the newest
\* selection its worktree is the active one.
LEMMA LookedAt ==
    ASSUME NEW c, NEW r \in Requests, r.step # "done", r.answer = "none",
           Opening(r) => r.session \in Targets /\ r.found \in Roots /\ (r.session = Null => r.found \in {None, Launch}),
           ~Opening(r) => r.root \in Roots,
           core'.primary = "ready", Newest(r, core') /\ ~c.stopping => core'.active = r.found
    PROVE  OneMoves(r, Seen(c, r))
<1>1. PICK s : s = Seen(c, r)
  OBVIOUS
<1>2. SameRequest(r, s) /\ s.found = r.found /\ s.step \in {"done", "resolving"}
      /\ (s.step = "resolving" => ~Opening(r) /\ s.answer = "none")
      /\ (s.answer = "ok" => Opening(r) /\ ~c.stopping)
  BY <1>1, SeenFacts
<1>3. (Opening(s) <=> Opening(r)) /\ (Selecting(s) <=> Selecting(r)) /\ s.gen = r.gen
  BY <1>2 DEF SameRequest, Opening, Selecting
<1>4. RequestInv(s, core'.primary)
  BY <1>2, <1>3 DEF RequestInv, SameRequest
<1>5. Chosen(s, core')
  BY <1>2, <1>3 DEF Chosen, Newest
<1> QED
  BY <1>1, <1>2, <1>4, <1>5 DEF OneMoves

LEMMA Parts ==
    ASSUME RouterInv
    PROVE  /\ core \in Cores /\ reqs \in Seq(Requests) /\ CoreInv /\ SelectionInv
           /\ \A i \in DOMAIN reqs : reqs[i] \in Requests /\ RequestInv(reqs[i], core.primary) /\ Chosen(reqs[i], core)
BY DEF RouterInv, RouterTypes

LEMMA ResolvedRequests == ASSUME RouterInv, PrimaryResolved PROVE RequestsMove
<1>1. CoreMoves /\ core.primary = "resolving"
  BY ResolvedMoves DEF PrimaryResolved
<1>2. ASSUME NEW i \in DOMAIN reqs PROVE OneMoves(reqs[i], reqs[i])
  BY <1>1, Parts, Untouched DEF RequestInv
<1>3. CASE core.stopping
  <2>1. reqs' = [i \in DOMAIN reqs |-> IF reqs[i].step = "primary" THEN Answer(reqs[i], "error") ELSE reqs[i]]
    BY <1>3 DEF PrimaryResolved
  <2>2. ASSUME NEW i \in DOMAIN reqs PROVE OneMoves(reqs[i], reqs'[i])
    BY <1>2, <2>1, <2>2, Parts, Refused
  <2>3. reqs' = [i \in DOMAIN reqs |-> reqs'[i]]
    BY <2>1
  <2> QED
    BY <2>2, <2>3, Parts, AllMove
<1>4. CASE ~core.stopping
  <2>1. reqs' = reqs
    BY <1>4 DEF PrimaryResolved
  <2> QED
    BY <1>2, <2>1, Parts DEF RequestsMove
<1> QED
  BY <1>3, <1>4

LEMMA OpenedRequests == ASSUME RouterInv, NEW i \in DOMAIN reqs, Opened(i) PROVE RequestsMove
<1> USE RouterAssumption
<1> DEFINE r == [reqs[i] EXCEPT !.found = Found(reqs[i])]
           w == r.found
           c == IF core.runtime[w] = "none" THEN [core EXCEPT !.runtime[w] = "opening"] ELSE core
           d == [c EXCEPT !.selected[w] = r.session]
           e == [r EXCEPT !.step = "opening"]
<1>1. CoreMoves /\ reqs[i] \in Requests /\ RequestInv(reqs[i], core.primary) /\ reqs[i].step = "resolving"
  BY OpenedMoves, Parts DEF Opened
<1>2. r.kind = reqs[i].kind /\ r.session = reqs[i].session /\ r.gen = reqs[i].gen /\ r.root = reqs[i].root
      /\ r.step = "resolving" /\ r.answer = reqs[i].answer /\ w = Found(reqs[i])
  BY <1>1 DEF Requests
<1>3. Opening(reqs[i]) /\ w \in Roots
  <2>1. Opening(reqs[i]) /\ w # None
    BY <1>2 DEF Opened, Opening
  <2>2. registry \in [Sessions -> SomeRoot]
    BY DEF RouterInv, RouterTypes
  <2> QED
    BY <1>1, <1>2, <2>1, <2>2 DEF RequestInv, Found, Targets, SomeRoot
<1>4. r \in Requests /\ r.answer = "none" /\ r.session \in Targets /\ (r.session = Null => w = Launch) /\ w = r.found
  BY <1>1, <1>2, <1>3 DEF Requests, RequestInv, Found, SomeRoot
<1>5. SameRequest(reqs[i], r) /\ Opening(r)
  BY <1>2, <1>3, <1>4 DEF SameRequest, Opening
<1>6. core.primary = "ready" /\ core'.primary = "ready" /\ ~core.stopping
  BY <1>1 DEF RequestInv, CoreMoves, Opened, Serving
<1>7. d \in Cores /\ d.newest = core.newest /\ d.active = core.active /\ d.stopping = core.stopping
  BY <1>3, <1>5, Parts DEF Cores, Requests, SameRequest
<1>8. core' = (IF core.runtime[w] = "ready" THEN Selected(d, w, {r}) ELSE d)
  BY DEF Opened
<1>9. reqs' = [reqs EXCEPT ![i] = IF core.runtime[w] = "ready" THEN Seen(d, r) ELSE e]
  BY DEF Opened
<1>10. e.kind = r.kind /\ e.session = r.session /\ e.gen = r.gen /\ e.root = r.root /\ e \in Requests
       /\ e.step = "opening" /\ e.answer = r.answer /\ e.found = w
  BY <1>4 DEF Requests
<1> HIDE DEF r, w, c, d, e
<1>11. core'.newest = core.newest /\ (core.stopping => core'.stopping)
  BY <1>1 DEF CoreMoves
<1>12. ASSUME NEW s, OneMoves(r, s) PROVE OneMoves(reqs[i], s)
  BY <1>1, <1>5, <1>12 DEF OneMoves, SameRequest, Opening
<1>13. CASE core.runtime[w] = "ready"
  <2>1. PICK rs : rs = {r}
    OBVIOUS
  <2>2. core' = Selected(d, w, rs) /\ reqs' = [reqs EXCEPT ![i] = Seen(d, r)]
    BY <1>8, <1>9, <1>13, <2>1
  <2>3. (Newest(r, core) => core'.active = w) /\ (core'.active = core.active \/ Newest(r, core))
    BY <1>3, <1>6, <1>7, <2>1, <2>2, SelectedFacts DEF Newest
  <2>4. OneMoves(r, Seen(d, r))
    BY <1>2, <1>3, <1>4, <1>5, <1>6, <1>11, <2>3, LookedAt DEF Newest
  <2>5. ASSUME NEW j \in DOMAIN reqs, j # i PROVE OneMoves(reqs[j], reqs[j])
    <3>1. Newest(r, core) => Newest(reqs[i], core)
      BY <1>5 DEF Newest, SameRequest, Selecting
    <3>2. Newest(reqs[j], core) => core'.active = core.active
      BY <2>3, <2>5, <3>1, Parts DEF SelectionInv
    <3> QED
      BY <1>1, <3>2, Parts, Untouched
  <2>6. ASSUME NEW j \in DOMAIN reqs PROVE OneMoves(reqs[j], reqs'[j])
    BY <1>12, <2>2, <2>4, <2>5, Parts
  <2> QED
    BY <2>2, <2>6, Parts, AllMove
<1>14. CASE core.runtime[w] # "ready"
  <2>1. core' = d /\ reqs' = [reqs EXCEPT ![i] = e]
    BY <1>8, <1>9, <1>14
  <2>2. OneMoves(reqs[i], e)
    BY <1>1, <1>2, <1>3, <1>4, <1>6, <1>10 DEF OneMoves, SameRequest, RequestInv, Chosen, Opening
  <2>3. ASSUME NEW j \in DOMAIN reqs, j # i PROVE OneMoves(reqs[j], reqs[j])
    BY <1>1, <1>7, <2>1, Parts, Untouched
  <2>4. ASSUME NEW j \in DOMAIN reqs PROVE OneMoves(reqs[j], reqs'[j])
    BY <2>1, <2>2, <2>3, Parts
  <2> QED
    BY <2>1, <2>4, Parts, AllMove
<1> QED
  BY <1>13, <1>14

LEMMA SameCore == ASSUME RouterInv, core' = core PROVE CoreMoves
BY DEF RouterInv, RouterTypes, CoreMoves, CoreInv, ReportInv, AllNone

LEMMA CheckedRequests ==
    ASSUME RouterInv, NEW i \in DOMAIN reqs, Checked(i) \/ Unresolved(i) PROVE RequestsMove
<1>1. core' = core /\ CoreMoves /\ reqs[i] \in Requests /\ RequestInv(reqs[i], core.primary)
      /\ reqs[i].step = "resolving"
  BY SameCore, Parts DEF Checked, Unresolved
<1>2. \E s : OneMoves(reqs[i], s) /\ reqs' = [reqs EXCEPT ![i] = s]
  <2>1. CASE Checked(i)
    <3> DEFINE r == [reqs[i] EXCEPT !.found = Found(reqs[i])]
    <3>1. reqs[i].kind = "start" /\ Found(reqs[i]) = reqs[i].root /\ reqs' = [reqs EXCEPT ![i] = Answer(r, "sent")]
      BY <2>1 DEF Checked
    <3>2. r \in Requests /\ SameRequest(reqs[i], r) /\ ~Opening(r) /\ ~Opening(reqs[i])
      BY <1>1, <3>1 DEF Requests, SameRequest, Opening
    <3> HIDE DEF r
    <3>3. PICK s : s = Answer(r, "sent")
      OBVIOUS
    <3>4. SameRequest(r, s) /\ s.step = "done" /\ s.answer = "sent"
      BY <3>2, <3>3, AnswerFacts
    <3>5. SameRequest(reqs[i], s) /\ ~Opening(s)
      BY <3>2, <3>4 DEF SameRequest, Opening
    <3>6. OneMoves(reqs[i], s)
      BY <1>1, <3>2, <3>4, <3>5 DEF OneMoves, SameRequest, RequestInv, Chosen
    <3> QED
      BY <3>1, <3>3, <3>6
  <2>2. CASE Unresolved(i)
    BY <1>1, <2>2, Refused DEF Unresolved
  <2> QED
    BY <2>1, <2>2
<1>3. PICK s : OneMoves(reqs[i], s) /\ reqs' = [reqs EXCEPT ![i] = s]
  BY <1>2
<1>4. ASSUME NEW j \in DOMAIN reqs PROVE OneMoves(reqs[j], reqs'[j])
  <2>1. CASE j = i
    BY <1>3, <2>1, Parts
  <2>2. CASE j # i
    BY <1>1, <1>3, <2>2, Parts, Untouched
  <2> QED
    BY <2>1, <2>2
<1> QED
  BY <1>3, <1>4, Parts, AllMove

LEMMA ReadyRequests == ASSUME RouterInv, NEW w \in Roots, Ready(w) PROVE RequestsMove
<1> DEFINE c == [core EXCEPT !.runtime[w] = "ready", !.primary = IF w = Launch THEN "ready" ELSE @,
                             !.active = IF w = Launch /\ core.primary = "opening" THEN Launch ELSE @]
<1>1. /\ c \in Cores /\ c.primary = (IF w = Launch THEN "ready" ELSE core.primary)
      /\ c.active = (IF w = Launch /\ core.primary = "opening" THEN Launch ELSE core.active)
      /\ c.newest = core.newest /\ c.stopping = core.stopping
  BY Parts, RouterAssumption DEF Cores, SomeRoot
<1>2. core' = Selected(c, w, Waiting(w)) /\ core.runtime[w] = "opening"
      /\ reqs' = [i \in DOMAIN reqs |->
                    IF WaitsFor(reqs[i], w) THEN Seen(c, reqs[i])
                    ELSE IF reqs[i].step = "primary" /\ w = Launch THEN Admitted(c, reqs[i])
                    ELSE reqs[i]]
  BY DEF Ready
<1> HIDE DEF c
<1>3. CoreMoves /\ (core.primary = "opening" => w = Launch) /\ core.primary \in {"opening", "ready"}
  BY <1>2, ReadyMoves, Parts DEF CoreInv, AllNone, Cores
<1>4. core'.primary = "ready" /\ core'.newest = core.newest /\ core'.stopping = core.stopping
      /\ c.primary = "ready"
  BY <1>1, <1>2, <1>3, SelectedFacts
<1>5. /\ (\E r \in Waiting(w) : Newest(r, core)) => core'.active = w
      /\ core'.active = c.active \/ \E r \in Waiting(w) : Selecting(r) /\ r.gen = core.newest
  BY <1>1, <1>2, SelectedFacts DEF Newest
<1>6. ASSUME NEW i \in DOMAIN reqs, WaitsFor(reqs[i], w) PROVE OneMoves(reqs[i], Seen(c, reqs[i]))
  <2>1. PICK r : r = reqs[i]
    OBVIOUS
  <2>2. r \in Requests /\ RequestInv(r, core.primary) /\ WaitsFor(r, w) /\ r \in Waiting(w)
    BY <1>6, <2>1, Parts DEF Waiting
  <2>3. r.step # "done" /\ r.answer = "none" /\ (Opening(r) => r.session \in Targets /\ r.found \in Roots)
        /\ (Opening(r) /\ r.session = Null => r.found \in {None, Launch}) /\ (~Opening(r) => r.root \in Roots)
        /\ (r.step = "opening" => r.found = w)
    BY <2>2 DEF RequestInv, WaitsFor
  <2>4. Opening(r) => r.step = "opening"
    BY <2>2 DEF RequestInv, WaitsFor
  <2>5. Newest(r, core') => core'.active = r.found
    BY <1>4, <1>5, <2>2, <2>3, <2>4 DEF Newest, Selecting, Opening
  <2> QED
    BY <1>4, <2>1, <2>2, <2>3, <2>4, <2>5, LookedAt
<1>7. ASSUME NEW i \in DOMAIN reqs, reqs[i].step = "primary" PROVE OneMoves(reqs[i], Admitted(c, reqs[i]))
  <2>1. PICK r : r = reqs[i]
    OBVIOUS
  <2>2. r \in Requests /\ RequestInv(r, core.primary) /\ r.step = "primary"
    BY <1>7, <2>1, Parts
  <2>3. PICK s : s = Admitted(c, r)
    OBVIOUS
  <2>4. /\ SameRequest(r, s) /\ s.found = r.found /\ s.step \in {"primary", "resolving", "context", "done"}
        /\ s.step # "done" => s.answer = "none"
        /\ s.answer # "ok" /\ (s.step = "context" => ~Opening(r))
    BY <1>1, <2>2, <2>3, AdmittedFacts DEF RequestInv
  <2> QED
    BY <1>4, <2>1, <2>2, <2>3, <2>4, GoesOn
<1>8. ASSUME NEW i \in DOMAIN reqs, ~WaitsFor(reqs[i], w) PROVE OneMoves(reqs[i], reqs[i])
  <2>1. ASSUME Newest(reqs[i], core), reqs[i].answer = "ok" PROVE core'.active = core.active
    <3>1. core.primary = "ready"
      BY <2>1, Parts DEF RequestInv
    <3>2. \A r \in Waiting(w) : ~(Selecting(r) /\ r.gen = core.newest)
      BY <1>8, <2>1, Parts DEF SelectionInv, Waiting, Newest
    <3> QED
      BY <1>1, <1>5, <3>1, <3>2
  <2> QED
    BY <1>3, <2>1, Parts, Untouched
<1>9. ASSUME NEW i \in DOMAIN reqs PROVE OneMoves(reqs[i], reqs'[i])
  BY <1>2, <1>6, <1>7, <1>8
<1>10. reqs' = [i \in DOMAIN reqs |-> reqs'[i]]
  BY <1>2
<1> QED
  BY <1>9, <1>10, Parts, AllMove

LEMMA FailedRequests == ASSUME RouterInv, NEW w \in Roots, ReadyFails(w) PROVE RequestsMove
<1>1. CoreMoves /\ core'.active = core.active
  BY FailedMoves, Parts DEF ReadyFails, Cores
<1>2. reqs' = [i \in DOMAIN reqs |->
                 IF WaitsFor(reqs[i], w) \/ (reqs[i].step = "primary" /\ w = Launch)
                 THEN Answer(reqs[i], "error") ELSE reqs[i]]
  BY DEF ReadyFails
<1>3. ASSUME NEW i \in DOMAIN reqs PROVE OneMoves(reqs[i], reqs'[i])
  <2>1. CASE WaitsFor(reqs[i], w) \/ (reqs[i].step = "primary" /\ w = Launch)
    BY <1>2, <2>1, Parts, Refused DEF WaitsFor
  <2>2. CASE ~(WaitsFor(reqs[i], w) \/ (reqs[i].step = "primary" /\ w = Launch))
    BY <1>1, <1>2, <2>2, Parts, Untouched
  <2> QED
    BY <2>1, <2>2
<1>4. reqs' = [i \in DOMAIN reqs |-> reqs'[i]]
  BY <1>2
<1> QED
  BY <1>3, <1>4, Parts, AllMove

LEMMA SameRequests ==
    ASSUME RouterInv, CoreMoves, reqs' = reqs, core'.active = core.active PROVE RequestsMove
BY Parts, Untouched DEF RequestsMove

\* Counting: no request becomes a newer selection.
LEMMA SelectionKeeps == ASSUME RouterInv, CoreMoves, RequestsMove PROVE SelectionInv'
<1>1. ASSUME NEW i \in DOMAIN reqs
      PROVE  /\ Selecting(reqs'[i]) <=> Selecting(reqs[i])
             /\ reqs'[i].gen = reqs[i].gen
  BY DEF RequestsMove, OneMoves, SameRequest, Selecting
<1> QED
  BY <1>1, Parts DEF SelectionInv, Newest, CoreMoves, RequestsMove

LEMMA RouterKeeps == ASSUME RouterInv, RouterStep PROVE RouterInv' /\ CoreMoves /\ RequestsMove
<1>1. CoreMoves /\ RequestsMove
  <2>1. CASE PrimaryResolved
    BY <2>1, ResolvedMoves, ResolvedRequests
  <2>2. CASE Stop \/ Report \/ (\E w \in Roots : ShutRuntime(w))
    <3>1. reqs' = reqs /\ core'.active = core.active
      BY <2>2, Parts DEF Stop, Report, ShutRuntime, Cores
    <3> QED
      BY <2>2, <3>1, StopMoves, SameRequests
  <2>3. CASE MoveRegistration
    BY <2>3, SameCore, SameRequests DEF MoveRegistration
  <2>4. ASSUME NEW w \in Roots, Ready(w) PROVE CoreMoves /\ RequestsMove
    BY <2>4, ReadyMoves, ReadyRequests
  <2>5. ASSUME NEW w \in Roots, ReadyFails(w) PROVE CoreMoves /\ RequestsMove
    BY <2>5, FailedMoves, FailedRequests
  <2>6. ASSUME NEW i \in DOMAIN reqs, Opened(i) PROVE CoreMoves /\ RequestsMove
    BY <2>6, OpenedMoves, OpenedRequests
  <2>7. ASSUME NEW i \in DOMAIN reqs, Checked(i) \/ Unresolved(i) PROVE CoreMoves /\ RequestsMove
    BY <2>7, SameCore, CheckedRequests DEF Checked, Unresolved
  <2> QED
    BY <2>1, <2>2, <2>3, <2>4, <2>5, <2>6, <2>7 DEF RouterStep
<1>2. registry' \in [Sessions -> SomeRoot]
  BY DEF RouterStep, PrimaryResolved, Report, Stop, MoveRegistration, Ready, ReadyFails, ShutRuntime,
         Opened, Checked, Unresolved, RouterInv, RouterTypes, SomeRoot
<1>3. \A i \in DOMAIN reqs' : RequestInv(reqs'[i], core'.primary) /\ Chosen(reqs'[i], core')
  BY <1>1 DEF RequestsMove, OneMoves
<1>4. SelectionInv'
  BY <1>1, SelectionKeeps
<1> QED
  BY <1>1, <1>2, <1>3, <1>4 DEF RouterInv, RouterTypes, CoreMoves, RequestsMove

-----------------------------------------------------------------------------
(* A request arrives.                                                        *)

Arrives(kind, session) ==
    /\ reqs' \in Seq(Requests) /\ Next1 \notin DOMAIN reqs /\ Next1 \in Nat \ {0}
    /\ DOMAIN reqs' = DOMAIN reqs \cup {Next1}
    /\ \A i \in DOMAIN reqs : reqs'[i] = reqs[i]
    /\ reqs'[Next1].kind = kind /\ reqs'[Next1].answer # "ok"
    /\ kind = "open" => reqs'[Next1].session = session
    /\ kind = "open" => \A i \in DOMAIN reqs : ~Newest(reqs[i], core')
    /\ kind # "open" => core' = core

LEMMA ReceiveKeeps ==
    ASSUME RouterInv, NEW kind \in {"open", "identity", "file", "start", "prepare"},
           NEW session \in SomeSession, NEW root \in SomeRoot, Receive(kind, session, root),
           kind \in {"open", "identity"} => session \in Targets,
           kind \notin {"open", "identity"} => root \in Roots
    PROVE  RouterInv' /\ Arrives(kind, session)
<1> DEFINE gen == IF kind = "open" /\ ~core.stopping THEN core.newest + 1 ELSE 0
           r == [kind |-> kind, session |-> session, root |-> root, gen |-> gen, found |-> None,
                 step |-> "primary", answer |-> "none"]
<1>1. core' = [core EXCEPT !.newest = IF gen = 0 THEN @ ELSE gen] /\ reqs' = Append(reqs, Admitted(core, r))
      /\ registry' = registry
  BY DEF Receive
<1>2. core.newest \in Nat /\ gen \in Nat /\ (gen # 0 <=> kind = "open" /\ ~core.stopping)
      /\ (gen # 0 => gen = core.newest + 1)
  BY Parts DEF Cores
<1>3. r \in Requests /\ r.kind = kind /\ r.session = session /\ r.root = root /\ r.gen = gen /\ r.found = None
      /\ r.answer = "none"
  BY <1>2 DEF Requests, SomeRoot
<1> HIDE DEF r, gen
<1>4. /\ core' \in Cores /\ core'.primary = core.primary /\ core'.runtime = core.runtime
      /\ core'.interest = core.interest /\ core'.active = core.active
      /\ core'.newest = (IF gen = 0 THEN core.newest ELSE gen)
      /\ core'.stopping = core.stopping /\ core'.reported = core.reported
      /\ gen = 0 => core' = core
  BY <1>1, <1>2, Parts DEF Cores
<1>5. (Opening(r) <=> kind \in {"open", "identity"}) /\ (Selecting(r) <=> kind = "open")
  BY <1>3 DEF Opening, Selecting
<1>6. PICK s : s = Admitted(core, r)
  OBVIOUS
<1>7. /\ SameRequest(r, s) /\ s.found = None /\ s.step \in {"primary", "resolving", "context", "done"}
      /\ s.step # "done" => s.answer = "none"
      /\ s.step = "context" => ~Opening(r)
      /\ s.answer # "ok" /\ (core.primary # "ready" => s.step \in {"primary", "done"})
  BY <1>3, <1>5, <1>6, Parts, AdmittedFacts
<1>8. s \in Requests /\ s.kind = kind /\ s.gen = gen /\ s.root = root /\ (kind \in {"open", "identity"} => s.session = session)
  BY <1>3, <1>5, <1>7 DEF SameRequest
<1>9. (Opening(s) <=> kind \in {"open", "identity"}) /\ (Selecting(s) <=> kind = "open")
  BY <1>8 DEF Opening, Selecting
<1>10. RequestInv(s, core'.primary) /\ Chosen(s, core')
  BY <1>4, <1>5, <1>7, <1>8, <1>9 DEF RequestInv, Chosen
<1>11. /\ reqs' = Append(reqs, s) /\ reqs \in Seq(Requests) /\ Len(reqs) \in Nat
       /\ DOMAIN reqs = 1 .. Len(reqs)
  BY <1>1, <1>6, Parts
<1>12. /\ reqs' \in Seq(Requests) /\ DOMAIN reqs' = DOMAIN reqs \cup {Next1} /\ Next1 \notin DOMAIN reqs
       /\ Next1 \in Nat \ {0} /\ reqs'[Next1] = s /\ \A i \in DOMAIN reqs : reqs'[i] = reqs[i]
  BY <1>8, <1>11 DEF Next1
<1>13. ASSUME NEW i \in DOMAIN reqs, Newest(reqs[i], core') PROVE gen = 0 /\ Newest(reqs[i], core)
  <2>1. reqs[i].gen \in Nat /\ reqs[i].gen <= core.newest
    BY <1>13, Parts DEF SelectionInv, Newest, Requests
  <2> QED
    BY <1>2, <1>4, <1>13, <2>1 DEF Newest
<1>14. ASSUME NEW i \in DOMAIN reqs PROVE Chosen(reqs[i], core') /\ RequestInv(reqs[i], core'.primary)
  BY <1>4, <1>13, Parts DEF Chosen
<1>15. CoreInv' /\ ReportInv'
  BY <1>4 DEF RouterInv, CoreInv, ReportInv, AllNone
<1>16. SelectionInv'
  <2>1. \A i \in DOMAIN reqs' : Selecting(reqs'[i]) => reqs'[i].gen <= core'.newest /\ (reqs'[i].gen = 0 => core'.stopping)
    <3>1. ASSUME NEW i \in DOMAIN reqs, Selecting(reqs[i])
          PROVE  reqs[i].gen <= core'.newest /\ (reqs[i].gen = 0 => core'.stopping)
      <4>1. reqs[i].gen \in Nat /\ reqs[i].gen <= core.newest /\ (reqs[i].gen = 0 => core.stopping)
        BY <3>1, Parts DEF SelectionInv, Requests
      <4> QED
        BY <1>2, <1>4, <4>1
    <3>2. Selecting(s) => s.gen <= core'.newest /\ (s.gen = 0 => core'.stopping)
      BY <1>2, <1>4, <1>8, <1>9
    <3> QED
      BY <1>12, <3>1, <3>2
  <2>2. \A i, j \in DOMAIN reqs' : Newest(reqs'[i], core') /\ Newest(reqs'[j], core') => i = j
    <3>1. Newest(s, core') => gen # 0
      BY <1>2, <1>4, <1>9 DEF Newest
    <3>2. \A i, j \in DOMAIN reqs : Newest(reqs[i], core') /\ Newest(reqs[j], core') => i = j
      BY <1>13, Parts DEF SelectionInv
    <3> QED
      BY <1>12, <1>13, <3>1, <3>2
  <2> QED
    BY <2>1, <2>2 DEF SelectionInv
<1>17. Arrives(kind, session)
  BY <1>2, <1>4, <1>7, <1>8, <1>12, <1>13 DEF Arrives, Newest
<1>18. RouterTypes'
  BY <1>1, <1>4, <1>12 DEF RouterInv, RouterTypes
<1>19. \A i \in DOMAIN reqs' : RequestInv(reqs'[i], core'.primary) /\ Chosen(reqs'[i], core')
  BY <1>10, <1>12, <1>14
<1> QED
  BY <1>15, <1>16, <1>17, <1>18, <1>19 DEF RouterInv

-----------------------------------------------------------------------------
(* Steps of the window.                                                      *)

WindowInv == WindowTypes /\ WaitInv /\ ShownInv /\ NewestInv

LEMMA Constants ==
    /\ NoAttach.req = 0 /\ ~NoAttach.sent /\ NoAttach \in Attachments
    /\ NoSwitch.at = "none" /\ NoSwitch \in Switches
BY DEF NoAttach, NoSwitch, Attachments, Switches, SomeRoot, SomeSession

LEMMA Waited ==
    ASSUME IInv
    PROVE  /\ attach.req # 0 => attach.sent /\ attach.req \in DOMAIN reqs /\ Opening(reqs[attach.req])
                                /\ reqs[attach.req].session \in Targets
           /\ switch.at # "none" => switch.req \in DOMAIN reqs /\ Opening(reqs[switch.req])
                                    /\ reqs[switch.req].session \in Targets
           /\ switch.at # "none" <=> switch # NoSwitch
<1>1. \A i : Asked(i) => i \in DOMAIN reqs /\ Opening(reqs[i]) /\ reqs[i].session \in Targets
  BY Parts DEF IInv, RequestInv, Asked, Opening, Selecting
<1> QED
  BY <1>1, Constants DEF IInv, WaitInv

LEMMA SameRouter == ASSUME RouterInv, UNCHANGED <<registry, core, reqs>> PROVE RouterInv'
BY DEF RouterInv, RouterTypes, CoreInv, AllNone, ReportInv, SelectionInv

LEMMA Numbered == ASSUME RouterInv PROVE 0 \notin DOMAIN reqs
BY Parts

\* The router goes on behind the window.
LEMMA StepKeeps == ASSUME IInv, RequestsMove, CoreMoves, UNCHANGED <<window, attach, switch, left>> PROVE WindowInv'
<1>1. ASSUME NEW i \in DOMAIN reqs
      PROVE  /\ Selecting(reqs'[i]) <=> Selecting(reqs[i])
             /\ Opening(reqs[i]) => reqs'[i].session = reqs[i].session
             /\ Newest(reqs'[i], core') => Newest(reqs[i], core)
             /\ reqs[i].step = "done" => reqs'[i] = reqs[i]
  BY DEF RequestsMove, OneMoves, SameRequest, Newest, CoreMoves, Selecting
<1>2. DOMAIN reqs' = DOMAIN reqs
  BY DEF RequestsMove
<1>3. WaitInv'
  BY <1>1, <1>2 DEF IInv, WaitInv, Asked
<1>4. ShownInv'
  BY <1>1, <1>2, Waited DEF IInv, ShownInv
<1>5. NewestInv'
  BY <1>1, <1>2 DEF IInv, NewestInv, Recovering, Switching, Over
<1> QED
  BY <1>3, <1>4, <1>5 DEF IInv, WindowTypes, WindowInv

\* A command, or a refresh of the identity.
LEMMA CommandKeeps ==
    ASSUME IInv, NEW kind, kind # "open", NEW session, Arrives(kind, session), UNCHANGED <<window, attach, switch, left>>
    PROVE  WindowInv'
<1>1. WaitInv'
  BY DEF IInv, WaitInv, Asked, Arrives, Selecting
<1>2. ShownInv'
  BY Waited DEF IInv, ShownInv, Arrives
<1>3. NewestInv'
  BY DEF IInv, NewestInv, Recovering, Switching, Over, Arrives, Newest, Selecting
<1> QED
  BY <1>1, <1>2, <1>3 DEF IInv, WindowTypes, WindowInv

LEMMA AttachKeeps == ASSUME IInv, Attach PROVE IInv'
<1> USE DEF IInv
<1>1. SessionOf(window.session) \in Targets
  BY DEF SessionOf, WindowTypes, Windows, SomeSession, Targets
<1>2. Receive("open", SessionOf(window.session), None)
  BY DEF Attach
<1>3. RouterInv' /\ Arrives("open", SessionOf(window.session))
  BY <1>1, <1>2, ReceiveKeeps DEF SomeSession, SomeRoot
<1>4. attach'.sent /\ attach'.req = Next1 /\ attach'.for = window.root /\ attach'.fresh /\ attach' \in Attachments
  BY <1>3 DEF Attach, Arrives, Attachments, WindowTypes, Windows
<1>5. UNCHANGED <<window, switch, left>> /\ attach.req = 0 /\ switch = NoSwitch
  BY Constants DEF Attach, WaitInv
<1>6. WaitInv'
  BY <1>3, <1>4, <1>5, Constants DEF WaitInv, Asked, Arrives, Selecting
<1>7. ShownInv'
  BY <1>3, <1>4, <1>5, Constants DEF ShownInv, Arrives, SessionOf
<1>8. NewestInv'
  BY <1>3, <1>4, <1>5 DEF NewestInv, Recovering, Arrives
<1> QED
  BY <1>3, <1>4, <1>5, <1>6, <1>7, <1>8 DEF WindowTypes

LEMMA AttachedKeeps == ASSUME IInv, Attached PROVE IInv'
<1> USE DEF IInv
<1> DEFINE r == reqs[attach.req]
           taken == attach.fresh /\ r.answer = "ok"
           same == attach.for \in {None, r.found}
<1>1. /\ attach.req # 0 /\ attach.req \in DOMAIN reqs /\ r.step = "done" /\ r \in Requests
      /\ RequestInv(r, core.primary) /\ Opening(r) /\ r.session \in Targets
  BY Waited, Parts DEF Attached
<1>2. r.answer = "ok" => r.found \in Roots /\ (r.session = Null => r.found = Launch)
  BY <1>1, RouterAssumption DEF RequestInv
<1>3. UNCHANGED <<registry, core, reqs, switch>> /\ left' = (left \/ (taken /\ ~same))
      /\ window' = IF taken /\ same THEN [shown |-> r.found, session |-> r.session, root |-> r.found] ELSE window
  BY DEF Attached
<1>4. attach'.req = 0 /\ attach'.sent = attach.sent /\ attach' \in Attachments
  BY DEF Attached, WindowTypes, Attachments
<1>5. taken /\ same => window'.shown = r.found /\ window'.session = r.session /\ window'.root = r.found
  BY <1>3
<1>6. WindowTypes'
  BY <1>1, <1>2, <1>3, <1>4 DEF WindowTypes, Windows, Attachments, SomeRoot, SomeSession
<1>7. RouterInv'
  BY <1>3, SameRouter
<1>8. WaitInv'
  BY <1>3, <1>4, Constants, Numbered DEF WaitInv, Asked
<1>9. ShownInv'
  <2>1. window'.shown # None => window'.root = window'.shown /\ window'.session # None
    BY <1>1, <1>2, <1>3, <1>5, RouterAssumption DEF ShownInv, Targets
  <2>2. switch.at = "launch" => window'.shown \in {None, Launch} /\ reqs[switch.req].session = Null
    BY <1>1, <1>2, <1>3, <1>5 DEF ShownInv
  <2> QED
    BY <1>3, <1>4, <2>1, <2>2 DEF ShownInv
<1>10. NewestInv'
  <2> SUFFICES ASSUME NEW i \in DOMAIN reqs, Newest(reqs[i], core)
               PROVE  (Recovering(i) \/ Switching(i) \/ Over(i))'
    BY <1>3 DEF NewestInv
  <2>1. CASE Recovering(i)
    BY <1>1, <1>3, <1>4, <1>5, <2>1 DEF Recovering, Over
  <2>2. CASE Switching(i)
    BY <1>3, <2>2 DEF Switching
  <2>3. CASE Over(i)
    <3>1. CASE taken /\ same
      <4>1. attach.for = window.shown \/ window.shown = None
        BY <1>1, <3>1 DEF ShownInv
      <4>2. reqs[i].answer = "ok" => left \/ window'.shown = reqs[i].found
        <5> SUFFICES ASSUME reqs[i].answer = "ok", ~left PROVE window'.shown = reqs[i].found
          OBVIOUS
        <5>1. window.shown = reqs[i].found /\ reqs[i].found \in Roots
          BY <2>3, Parts DEF Over, RequestInv
        <5> QED
          BY <1>5, <3>1, <4>1, <5>1, RouterAssumption
      <4> QED
        BY <1>1, <1>3, <1>4, <2>3, <4>2, Numbered DEF Over
    <3>2. CASE ~(taken /\ same)
      BY <1>1, <1>3, <1>4, <2>3, <3>2, Numbered DEF Over
    <3> QED
      BY <3>1, <3>2
  <2> QED
    BY <2>1, <2>2, <2>3 DEF NewestInv
<1> QED
  BY <1>6, <1>7, <1>8, <1>9, <1>10

LEMMA SwitchKeeps == ASSUME IInv, NEW s \in Targets, Switch(s) PROVE IInv'
<1> USE DEF IInv
<1> DEFINE first == window.session = None
           sent == IF first THEN Null ELSE s
<1>1. attach.sent /\ switch = NoSwitch /\ UNCHANGED <<window, attach, left>> /\ Receive("open", sent, None)
  BY DEF Switch
<1>2. /\ switch' \in Switches /\ switch'.at = (IF first THEN "launch" ELSE "destination")
      /\ switch'.req = Next1 /\ switch'.session = s
  <2>1. switch' = [at |-> IF first THEN "launch" ELSE "destination", req |-> Next1, session |-> s, moved |-> FALSE]
    BY DEF Switch
  <2>2. Next1 \in Nat
    BY Parts DEF Next1
  <2> QED
    BY <2>1, <2>2 DEF Switches, SomeSession
<1>3. sent \in Targets
  BY DEF Targets
<1> HIDE DEF sent
<1>4. RouterInv' /\ Arrives("open", sent)
  BY <1>1, <1>3, ReceiveKeeps DEF SomeSession, SomeRoot
<1>5. switch' # NoSwitch /\ switch'.at # "none"
  BY <1>2, Constants
<1>6. WaitInv'
  BY <1>1, <1>2, <1>4, <1>5, Numbered DEF WaitInv, Asked, Arrives, Selecting
<1>7. ShownInv'
  BY <1>1, <1>2, <1>4, Waited DEF ShownInv, Arrives, sent
<1>8. NewestInv'
  BY <1>2, <1>4, <1>5 DEF NewestInv, Switching, Arrives
<1> QED
  BY <1>1, <1>2, <1>4, <1>6, <1>7, <1>8 DEF WindowTypes

LEMMA LaunchKnownKeeps == ASSUME IInv, LaunchKnown PROVE IInv'
<1> USE DEF IInv
<1>1. /\ switch.at = "launch" /\ switch # NoSwitch /\ switch.req \in DOMAIN reqs
      /\ reqs[switch.req] \in Requests /\ reqs[switch.req].step = "done" /\ switch.session \in Targets
      /\ RequestInv(reqs[switch.req], core.primary) /\ Opening(reqs[switch.req])
      /\ UNCHANGED <<attach, left>>
  BY Waited, Parts DEF LaunchKnown, WaitInv
<1>2. CASE reqs[switch.req].answer = "ok"
  <2>1. /\ window' = [window EXCEPT !.session = Null, !.root = reqs[switch.req].found]
        /\ Receive("open", switch.session, None)
        /\ switch' = [switch EXCEPT !.at = "destination", !.req = Next1]
    BY <1>2 DEF LaunchKnown
  <2>2. reqs[switch.req].found = Launch
    BY <1>1, <1>2, RouterAssumption DEF RequestInv, ShownInv
  <2>3. /\ window' \in Windows /\ window'.shown = window.shown /\ window'.session = Null /\ window'.root = Launch
    BY <2>1, <2>2, RouterAssumption DEF WindowTypes, Windows, SomeRoot, SomeSession, Targets
  <2>4. RouterInv' /\ Arrives("open", switch.session)
    BY <1>1, <2>1, ReceiveKeeps DEF SomeSession, SomeRoot
  <2>5. /\ switch' \in Switches /\ switch'.at = "destination" /\ switch'.req = Next1
        /\ switch'.session = switch.session
    BY <2>1, <2>4 DEF WindowTypes, Switches, Arrives
  <2>6. switch' # NoSwitch
    BY <2>5, Constants
  <2>7. WaitInv'
    BY <1>1, <2>4, <2>5, <2>6, Numbered DEF WaitInv, Asked, Arrives, Selecting
  <2>8. ShownInv'
    BY <1>1, <2>3, <2>4, <2>5, Waited, RouterAssumption DEF ShownInv, Arrives
  <2>9. NewestInv'
    BY <2>4, <2>5, <2>6 DEF NewestInv, Switching, Arrives
  <2> QED
    BY <1>1, <2>3, <2>4, <2>5, <2>7, <2>8, <2>9 DEF WindowTypes
<1>3. CASE reqs[switch.req].answer # "ok"
  <2>1. switch' = NoSwitch /\ UNCHANGED <<window, registry, core, reqs>>
    BY <1>3 DEF LaunchKnown
  <2>2. WaitInv' /\ ShownInv' /\ WindowTypes'
    BY <1>1, <2>1, Constants DEF WaitInv, ShownInv, WindowTypes, Asked
  <2>3. NewestInv'
    BY <1>1, <1>3, <2>1 DEF NewestInv, Recovering, Switching, Over, WaitInv
  <2> QED
    BY <2>1, <2>2, <2>3, SameRouter
<1> QED
  BY <1>2, <1>3

LEMMA SwitchedKeeps == ASSUME IInv, Switched PROVE IInv'
<1> USE DEF IInv
<1> DEFINE r == reqs[switch.req]
           shows == r.answer = "ok" /\ ~switch.moved
<1>1. /\ switch.at = "destination" /\ switch # NoSwitch /\ switch.req \in DOMAIN reqs /\ switch.req # attach.req
      /\ r \in Requests /\ r.step = "done" /\ RequestInv(r, core.primary) /\ Opening(r) /\ r.session \in Targets
  BY Waited, Parts DEF Switched, WaitInv
<1>2. UNCHANGED <<registry, core, reqs>> /\ switch' = NoSwitch /\ left' = (left \/ (r.answer = "ok" /\ switch.moved))
  BY DEF Switched
<1>3. shows => r.found \in Roots
  BY <1>1 DEF RequestInv
<1>4. /\ shows => window' = [shown |-> r.found, session |-> r.session, root |-> r.found]
      /\ ~shows => window' = window
      /\ attach' = IF shows /\ r.found # window.shown THEN [attach EXCEPT !.fresh = FALSE] ELSE attach
  BY DEF Switched
<1>5. /\ attach' \in Attachments /\ attach'.sent = attach.sent /\ attach'.req = attach.req /\ attach'.for = attach.for
      /\ attach'.fresh => attach.fresh /\ (shows => r.found = window.shown)
  BY <1>4 DEF WindowTypes, Attachments
<1>6. WindowTypes'
  BY <1>1, <1>2, <1>3, <1>4, <1>5, Constants DEF WindowTypes, Windows, SomeRoot, SomeSession
<1>7. WaitInv'
  BY <1>2, <1>5, Constants DEF WaitInv, Asked
<1>8. ShownInv'
  BY <1>1, <1>2, <1>3, <1>4, <1>5, Constants, RouterAssumption DEF ShownInv, Targets
<1>9. NewestInv'
  <2> SUFFICES ASSUME NEW i \in DOMAIN reqs, Newest(reqs[i], core) PROVE Over(i)'
    BY <1>2 DEF NewestInv
  <2>1. i = switch.req
    BY <1>1 DEF NewestInv, Recovering, Switching, Over
  <2>2. r.answer = "ok" => left' \/ window'.shown = r.found
    BY <1>2, <1>4 DEF WindowTypes, Switches
  <2> QED
    BY <1>1, <1>2, <1>5, <2>1, <2>2 DEF Over
<1> QED
  BY <1>2, <1>6, <1>7, <1>8, <1>9, SameRouter

LEMMA NavigateKeeps == ASSUME IInv, Navigate PROVE IInv'
<1> USE DEF IInv
<1>1. switch # NoSwitch /\ switch' = [switch EXCEPT !.moved = TRUE]
      /\ UNCHANGED <<registry, core, reqs, window, attach, left>>
  BY DEF Navigate
<1>2. switch' \in Switches /\ switch'.at = switch.at /\ switch'.req = switch.req /\ switch'.session = switch.session
  BY <1>1 DEF WindowTypes, Switches
<1>3. switch' # NoSwitch
  BY <1>1, <1>2, Constants, Waited
<1>4. WaitInv' /\ ShownInv' /\ WindowTypes'
  BY <1>1, <1>2, <1>3, Waited DEF WaitInv, ShownInv, WindowTypes, Asked
<1>5. NewestInv'
  BY <1>1, <1>2, <1>3 DEF NewestInv, Recovering, Switching, Over
<1> QED
  BY <1>1, <1>4, <1>5, SameRouter

-----------------------------------------------------------------------------
(* The invariant holds.                                                      *)

LEMMA FreshFacts ==
    /\ FreshCore \in Cores /\ FreshCore.primary = "resolving" /\ FreshCore.interest = {}
    /\ FreshCore.active = None /\ ~FreshCore.reported /\ FreshCore.runtime = [w \in Roots |-> "none"]
BY DEF FreshCore, Cores, SomeRoot, SomeSession

LEMMA InitInv == Init => IInv
<1> SUFFICES ASSUME Init PROVE IInv
  OBVIOUS
<1>1. registry \in [Sessions -> SomeRoot] /\ core = FreshCore /\ reqs = <<>> /\ attach = NoAttach /\ switch = NoSwitch
  BY DEF Init, RouterInit, SomeRoot
<1>2. window.shown = None /\ window \in Windows /\ left = FALSE
  BY DEF Init, Windows, SomeRoot, SomeSession
<1>3. reqs \in Seq(Requests) /\ DOMAIN reqs = {}
  BY <1>1
<1>4. RouterInv
  BY <1>1, <1>3, FreshFacts DEF RouterInv, RouterTypes, CoreInv, AllNone, ReportInv, SelectionInv
<1>5. WindowTypes /\ WaitInv /\ ShownInv /\ NewestInv
  BY <1>1, <1>2, <1>3, Constants DEF WindowTypes, WaitInv, ShownInv, NewestInv
<1> QED
  BY <1>4, <1>5 DEF IInv

\* A new core knows nothing, and the window what it showed.
LEMMA RestartKeeps == ASSUME IInv, Restart PROVE IInv'
<1>1. core' = FreshCore /\ reqs' = <<>> /\ attach' = NoAttach /\ switch' = NoSwitch /\ left' = FALSE
      /\ UNCHANGED <<registry, window>>
  BY DEF Restart
<1>2. reqs' \in Seq(Requests) /\ DOMAIN reqs' = {}
  BY <1>1
<1>3. RouterInv'
  BY <1>1, <1>2, FreshFacts DEF IInv, RouterInv, RouterTypes, CoreInv, AllNone, ReportInv, SelectionInv
<1>4. WaitInv' /\ ShownInv' /\ NewestInv' /\ WindowTypes'
  BY <1>1, <1>2, Constants DEF IInv, WaitInv, ShownInv, NewestInv, WindowTypes
<1> QED
  BY <1>3, <1>4 DEF IInv

LEMMA StepInv == IInv /\ [Next]_vars => IInv'
<1> SUFFICES ASSUME IInv, [Next]_vars PROVE IInv'
  OBVIOUS
<1>1. CASE Step
  BY <1>1, RouterKeeps, StepKeeps DEF Step, IInv, WindowInv
<1>2. CASE Attach
  BY <1>2, AttachKeeps
<1>3. CASE Attached
  BY <1>3, AttachedKeeps
<1>4. CASE LaunchKnown
  BY <1>4, LaunchKnownKeeps
<1>5. CASE Switched
  BY <1>5, SwitchedKeeps
<1>6. CASE Navigate
  BY <1>6, NavigateKeeps
<1>7. CASE Refresh
  <2>1. window.session \in Targets
    BY <1>7 DEF Refresh, IInv, WindowTypes, Windows, SomeSession
  <2>2. RouterInv' /\ Arrives("identity", window.session)
    BY <1>7, <2>1, ReceiveKeeps DEF Refresh, IInv, SomeSession, SomeRoot
  <2> QED
    BY <1>7, <2>2, CommandKeeps DEF Refresh, IInv, WindowInv
<1>8. CASE Restart
  BY <1>8, RestartKeeps
<1>9. ASSUME NEW s \in Sessions \cup {Null}, Switch(s) PROVE IInv'
  BY <1>9, SwitchKeeps DEF Targets
<1>10. ASSUME NEW kind \in {"file", "start", "prepare"}, Command(kind) PROVE IInv'
  <2>1. window.shown \in Roots
    BY <1>10 DEF Command, IInv, WindowTypes, Windows, SomeRoot
  <2>2. RouterInv' /\ Arrives(kind, None)
    BY <1>10, <2>1, ReceiveKeeps DEF Command, IInv, SomeSession, SomeRoot
  <2> QED
    BY <1>10, <2>2, CommandKeeps DEF Command, IInv, WindowInv
<1>11. CASE UNCHANGED vars
  <2>1. UNCHANGED <<registry, core, reqs, window, attach, switch, left>>
    BY <1>11 DEF vars
  <2>2. RouterInv'
    BY <2>1, SameRouter DEF IInv
  <2>3. WindowTypes' /\ WaitInv' /\ ShownInv' /\ NewestInv'
    BY <2>1 DEF IInv, WindowTypes, WaitInv, Asked, ShownInv, NewestInv, Recovering, Switching, Over
  <2> QED
    BY <2>2, <2>3 DEF IInv
<1> QED
  BY <1>1, <1>2, <1>3, <1>4, <1>5, <1>6, <1>7, <1>8, <1>9, <1>10, <1>11 DEF Next

\* The inductive invariant holds, whatever is selected, moved, stopped and
\* replaced (workspace-context.ts, switchWorkspace and the recovery of App.tsx).
THEOREM InvHolds == Spec => []IInv
<1> QED
  BY InitInv, StepInv, PTL DEF Spec

\* When a shutdown is reported every runtime is closed, also one that was being
\* opened when it began (shutdown of workspace-context.ts).
THEOREM ReportedMeansClosedHolds == Spec => []ReportedMeansClosed
<1>1. IInv => ReportedMeansClosed
  <2> SUFFICES ASSUME IInv, core.reported, NEW w \in Roots
               PROVE  core.runtime[w] \in {"none", "shut"} /\ core.interest = {}
    BY DEF ReportedMeansClosed
  <2>1. \A v \in Roots : core.runtime[v] \in {"none", "shut"}
    BY DEF IInv, RouterInv, ReportInv
  <2>2. core.interest \subseteq Roots /\ \A v \in core.interest : core.runtime[v] \in {"opening", "ready"}
    BY Parts DEF IInv, CoreInv, Cores
  <2> QED
    BY <2>1, <2>2
<1> QED
  BY <1>1, InvHolds, PTL

\* One tree is observed, the newest selection's, and when nothing is under way it
\* is the one the window shows (selectionGeneration of workspace-context.ts, the
\* visit and the intent of App.tsx).
THEOREM ObservationFollowsHolds == Spec => []ObservationFollows
<1>1. ASSUME IInv PROVE OneObserved
  <2>1. CoreInv /\ core \in Cores
    BY <1>1, Parts DEF IInv
  <2>2. CASE core.primary \in {"resolving", "failed", "opening"}
    BY <2>1, <2>2 DEF OneObserved, CoreInv
  <2>3. CASE core.primary = "ready"
    BY <2>1, <2>3 DEF OneObserved, CoreInv
  <2> QED
    BY <2>1, <2>2, <2>3 DEF Cores
<1>2. ASSUME IInv PROVE NewestObserved
  <2> SUFFICES ASSUME NEW i \in DOMAIN reqs, Newest(reqs[i], core), reqs[i].answer = "ok"
               PROVE  core.interest = {reqs[i].found}
    BY DEF NewestObserved, Selections, Newest
  <2> QED
    BY <1>2, Parts DEF IInv, RequestInv, Chosen, CoreInv, Newest
<1>3. ASSUME IInv PROVE ShownIsObserved
  <2> SUFFICES ASSUME attach.req = 0, switch = NoSwitch, ~core.stopping, ~left,
                      NEW i \in Selections, reqs[i].gen = core.newest, reqs[i].answer = "ok"
               PROVE  core.interest = {window.shown}
    BY DEF ShownIsObserved
  <2>1. i \in DOMAIN reqs /\ Newest(reqs[i], core) /\ i # 0
    BY <1>3, Numbered DEF IInv, Selections, Newest
  <2>2. window.shown = reqs[i].found
    BY <1>3, <2>1 DEF IInv, NewestInv, Recovering, Switching, Over
  <2> QED
    BY <1>2, <1>3, <2>2 DEF NewestObserved
<1>4. IInv => ObservationFollows
  BY <1>1, <1>2, <1>3 DEF ObservationFollows
<1> QED
  BY <1>4, InvHolds, PTL
=============================================================================
