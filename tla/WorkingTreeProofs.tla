------------------------- MODULE WorkingTreeProofs -------------------------
(***************************************************************************)
(* What a window may believe of the working tree of its worktree: of one   *)
(* file of it (SourceTab over SourceFiles) and of the tree as a whole      *)
(* (WorkingWorld), for any number of contents, announcements, saves and    *)
(* changes of the tree, and any faults.                                    *)
(*                                                                         *)
(* First the tab: it says saved only of a text the file has had, and       *)
(* typing and outside edits are kept.  Then the snapshot: a topology shown *)
(* as consistent was read from the world beside it, late answers do not    *)
(* bring back an older world, and nothing is published after the shutdown. *)
(***************************************************************************)
EXTENDS SourceTab, WorkingWorld, SequenceTheorems, TLAPS

-----------------------------------------------------------------------------
(* Types.                                                                    *)

Statuses == {"none", "loading", "saved", "dirty", "saving", "conflict", "unknown", "error"}
Tabs == [open : BOOLEAN, status : Statuses, content : Nat \ {0}, saved : Nat \ {0}, revision : Nat]
Watches == [desired : BOOLEAN, creating : BOOLEAN, waiting : SUBSET {"open", "recover", "orphan"},
            handle : BOOLEAN, stirred : BOOLEAN]
Asks == {"open", "recover", "orphan", "unwatch"}
Waits == {c \in [kind : {"none", "watch", "read", "world"}, done : BOOLEAN, value : Nat] :
             c.done \/ c.value = 0}
Saves == {s \in [step : {"none", "queued", "copied", "final", "renamed", "done"}, base : Nat, content : Nat,
                 late : BOOLEAN, outcome : {"none", "unknown", "conflict", "failed", "ok"}] :
             (s.step = "none" \/ s.content # 0) /\ (s.step = "done" => s.outcome # "none")}
Emits == [on : BOOLEAN, seen : SUBSET Nat]

TypeInv ==
    /\ tab \in Tabs
    /\ up \in BOOLEAN /\ disk \in Nat /\ made \in Nat
    /\ watch \in Watches /\ inbox \in Seq(Asks) /\ emit \in Emits
    /\ call \in [Calls -> Waits]
    /\ save \in Saves /\ posted \in Seq(Nat)

-----------------------------------------------------------------------------
(* The invariant.                                                            *)

\* Every text that is read, saved or on disk has been on disk.
Read(p) == call[p].kind = "read" /\ call[p].done /\ call[p].value # Gone
SeenInv ==
    /\ disk # Gone => disk \in onDisk
    /\ \A p \in Calls : Read(p) => call[p].value \in onDisk
    /\ save.step = "renamed" \/ (save.step = "done" /\ save.outcome = "ok") => save.content \in onDisk

\* What the tab calls saved is its revision, and has been on disk.
ShownInv ==
    /\ tab.revision # 0 => tab.saved = tab.revision /\ tab.revision \in onDisk
    /\ tab.status = "saved" => tab.content \in onDisk

\* A core that is down has no requests and no watcher; only one core is lost.
DownInv ==
    /\ ~up => inbox = <<>> /\ ~watch.desired /\ ~watch.handle /\ call["recover"].kind = "none"
    /\ ~up \/ call["recover"].kind # "none" => failed = "crash"

\* The last word about a closed tab is to unwatch its file.
WatchInv ==
    /\ watch.handle => watch.desired
    /\ ~tab.open /\ watch.desired => inbox # <<>>
    /\ ~tab.open /\ inbox # <<>> => inbox[Len(inbox)] = "unwatch"

\* Nothing is asked for a closed tab, and nothing else for a tab that is opening.
ClosedInv ==
    ~tab.open => tab = Closed /\ \A p \in {"open", "observe", "reload"} : call[p].kind = "none"
OpenInv ==
    ~ActEarly /\ Opening => /\ tab = Loading /\ save.step = "none"
                            /\ \A p \in Calls \ {"open"} : call[p].kind = "none"

\* Between the second look and the rename the disk is the base, or was changed since.
LookInv == save.step = "final" => disk = save.base \/ save.late

Inv == TypeInv /\ SeenInv /\ ShownInv /\ DownInv /\ WatchInv /\ ClosedInv /\ OpenInv /\ LookInv

-----------------------------------------------------------------------------
(* Lemmas on the operators.                                                  *)

LEMMA CallFields ==
    ASSUME call \in [Calls -> Waits]
    PROVE  \A p \in Calls : /\ call[p].kind \in {"none", "watch", "read", "world"}
                            /\ call[p].done \in BOOLEAN /\ call[p].value \in Nat
                            /\ call[p].done \/ call[p].value = 0
  BY DEF Waits

LEMMA NoneTyped == NoCall \in Waits
  BY DEF NoCall, Waits

LEMMA AskedTyped ==
    ASSUME up \in BOOLEAN
    PROVE  Asked("watch") \in Waits /\ Asked("read") \in Waits
  BY DEF Asked, Waits

LEMMA DropTyped ==
    ASSUME call \in [Calls -> Waits], NEW ps
    PROVE  Drop(ps) \in [Calls -> Waits]
  BY NoneTyped DEF Drop

LEMMA AnsweredTyped ==
    ASSUME call \in [Calls -> Waits], NEW who, NEW v \in Nat
    PROVE  /\ Answered(who, v) \in [Calls -> Waits]
           /\ \A p \in Calls : Answered(who, v)[p].kind = call[p].kind
           /\ \A p \in Calls : call[p].kind # "watch" => Answered(who, v)[p] = call[p]
  BY DEF Answered, Waits

\* Every status a handler sets, and the texts it shows, are those of a tab.
LEMMA StatusTyped ==
    ASSUME tab \in Tabs, NEW s \in Statuses
    PROVE  /\ Status(s) \in Tabs /\ Status(s).status = s
           /\ Status(s).open = tab.open /\ Status(s).content = tab.content
           /\ Status(s).saved = tab.saved /\ Status(s).revision = tab.revision
  BY DEF Status, Tabs

LEMMA ShowingTyped ==
    ASSUME tab \in Tabs, NEW c \in Nat \ {0}
    PROVE  /\ Showing(c) \in Tabs /\ Showing(c).status = "saved" /\ Showing(c).open = tab.open
           /\ Showing(c).content = c /\ Showing(c).saved = c /\ Showing(c).revision = c
  BY DEF Showing, Tabs, Statuses

LEMMA ClosedTyped == Closed \in Tabs /\ Loading \in Tabs /\ Blank \in Nat \ {0}
<1>1. Blank \in Nat \ {0}
  BY BoundsAreNat DEF Blank
<1>2. Closed \in Tabs
  BY <1>1 DEF Closed, Tabs, Statuses
<1>3. Loading \in Tabs
  BY <1>2 DEF Loading, Tabs, Statuses
<1> QED
  BY <1>1, <1>2, <1>3

-----------------------------------------------------------------------------
(* What a step does to the calls.                                            *)

Fresh(p) == call'[p].kind # "none" /\ call[p].kind = "none"
CallEffect(p) ==
    /\ Read(p)' => (Read(p) /\ call'[p].value = call[p].value) \/ call'[p].value = disk
    /\ Fresh(p) => \/ p = "open" /\ OpenFile
                   \/ p = "reload" /\ ReloadFile
                   \/ p = "observe" /\ ReceiveChange /\ ~Opening
                   \/ p = "recover" /\ Recover

LEMMA CallSame ==
    ASSUME call \in [Calls -> Waits], call' = call, NEW p \in Calls
    PROVE  CallEffect(p)
  BY DEF CallEffect, Read, Fresh

LEMMA CallDropped ==
    ASSUME call \in [Calls -> Waits], NEW ps, call' = Drop(ps), NEW p \in Calls
    PROVE  CallEffect(p)
  BY DEF CallEffect, Read, Fresh, Drop, NoCall

LEMMA CallAsked ==
    ASSUME call \in [Calls -> Waits], up \in BOOLEAN, NEW q \in Calls, NEW k \in {"watch", "read"},
           call[q].kind # "none" \/ (q = "open" /\ OpenFile) \/ (q = "reload" /\ ReloadFile)
               \/ (q = "observe" /\ ReceiveChange /\ ~Opening),
           call' = [call EXCEPT ![q] = Asked(k)]
    PROVE  call' \in [Calls -> Waits] /\ \A p \in Calls : CallEffect(p)
<1>1. Asked(k) \in Waits /\ Asked(k).kind = k /\ Asked(k).value = 0
  BY DEF Asked, Waits
<1>2. \A p \in Calls : call'[p] = IF p = q THEN Asked(k) ELSE call[p]
  OBVIOUS
<1>3. \A p \in Calls : CallEffect(p)
  BY <1>1, <1>2 DEF CallEffect, Read, Fresh, Gone
<1> QED
  BY <1>1, <1>3

LEMMA CallStep == Inv /\ Next => call' \in [Calls -> Waits] /\ \A p \in Calls : CallEffect(p)
<1> SUFFICES ASSUME Inv, Next PROVE call' \in [Calls -> Waits] /\ \A p \in Calls : CallEffect(p)
  OBVIOUS
<1>0. call \in [Calls -> Waits] /\ up \in BOOLEAN /\ disk \in Nat
  BY DEF Inv, TypeInv
<1>f. \A q \in Calls : call[q] \in Waits
  BY <1>0
<1>1. CASE call' = call
  BY <1>0, <1>1, CallSame
<1>2. CASE HandleWatch /\ ~UNCHANGED call
  <2>1. call' = Answered({Head(inbox)}, 1)
    BY <1>2 DEF HandleWatch
  <2> QED
    BY <1>0, <2>1, AnsweredTyped DEF CallEffect, Read, Fresh
<1>3. CASE WatchCreated
  <2>1. PICK v \in {0, 1} : call' = Answered(watch.waiting, v)
    BY <1>3 DEF WatchCreated
  <2> QED
    BY <1>0, <2>1, AnsweredTyped DEF CallEffect, Read, Fresh
<1>4. ASSUME NEW q \in Calls, ReadFile(q)
      PROVE  call' \in [Calls -> Waits] /\ \A p \in Calls : CallEffect(p)
  <2>1. /\ call[q].kind = "read" /\ call[q].value = 0
        /\ call[q] = [kind |-> "read", done |-> FALSE, value |-> 0]
    BY <1>4, <1>0 DEF ReadFile, Waits
  <2>2. PICK v \in {disk, 0} : call' = [call EXCEPT ![q] = [kind |-> "read", done |-> TRUE, value |-> v]]
    BY <1>0, <1>4, <2>1 DEF ReadFile
  <2>3. call' \in [Calls -> Waits]
    BY <1>0, <2>2 DEF Waits
  <2>4. \A p \in Calls : call'[p] = IF p = q THEN [kind |-> "read", done |-> TRUE, value |-> v] ELSE call[p]
    BY <1>0, <2>2
  <2> QED
    BY <2>1, <2>3, <2>4 DEF CallEffect, Read, Fresh, Gone
<1>5. CASE OpenWatched
  <2>1. call' = Drop({"open"}) \/ call' = [call EXCEPT !["open"] = Asked("read")]
    BY <1>5 DEF OpenWatched, SettleOpen, OpenAgain
  <2>2. call["open"].kind # "none" /\ "open" \in Calls
    BY <1>5 DEF OpenWatched, Replied, Calls
  <2> QED
    BY <1>0, <2>1, <2>2, CallDropped, CallAsked, DropTyped
<1>6. CASE OpenRead
  <2>1. call' = Drop({"open"}) \/ call' = [call EXCEPT !["open"] = Asked("read")]
    BY <1>6 DEF OpenRead, SettleOpen, OpenAgain
  <2>2. call["open"].kind # "none" /\ "open" \in Calls
    BY <1>6 DEF OpenRead, Replied, Calls
  <2> QED
    BY <1>0, <2>1, <2>2, CallDropped, CallAsked, DropTyped
<1>7. CASE ReceiveChange
  <2>1. \/ call' = Drop({"observe"})
        \/ call' = [call EXCEPT !["observe"] = NoCall]
        \/ ~Opening /\ call' = [call EXCEPT !["observe"] = Asked("read")]
    BY <1>7 DEF ReceiveChange
  <2>2. call' = [call EXCEPT !["observe"] = NoCall] => call' = Drop({"observe"})
    BY <1>0 DEF Drop
  <2>3. "observe" \in Calls
    BY DEF Calls
  <2> QED
    BY <1>0, <1>7, <2>1, <2>2, <2>3, CallDropped, CallAsked, DropTyped
<1>8. CASE FinishObserve \/ FinishReload
  <2>1. PICK ps : call' = Drop(ps)
    BY <1>8 DEF FinishObserve, FinishReload
  <2> QED
    BY <1>0, <2>1, CallDropped, DropTyped
<1>9. CASE Recover
  <2>1. call' = [Drop(Calls) EXCEPT !["recover"] = [kind |-> "world", done |-> TRUE, value |-> 0]]
    BY <1>9 DEF Recover
  <2>2. \A p \in Calls : call'[p] = IF p = "recover" THEN [kind |-> "world", done |-> TRUE, value |-> 0] ELSE NoCall
    BY <2>1 DEF Drop
  <2>3. call' \in [Calls -> Waits]
    BY <1>0, <2>1, DropTyped DEF Waits
  <2> QED
    BY <1>9, <2>2, <2>3 DEF CallEffect, Read, Fresh, NoCall
<1>10. CASE RecoverOpened
  <2>1. call' = [call EXCEPT !["recover"] = Asked("watch")] \/ call' = [call EXCEPT !["recover"] = NoCall]
    BY <1>10 DEF RecoverOpened
  <2>2. call' = [call EXCEPT !["recover"] = NoCall] => call' = Drop({"recover"})
    BY <1>0 DEF Drop
  <2>3. call["recover"].kind # "none" /\ "recover" \in Calls
    BY <1>10 DEF RecoverOpened, Replied, Calls
  <2> QED
    BY <1>0, <2>1, <2>2, <2>3, CallDropped, CallAsked, DropTyped
<1>11. CASE RecoverWatched \/ RecoverRead
  <2>1. call' = [call EXCEPT !["recover"] = Asked("read")] \/ call' = Drop({"recover"})
    BY <1>11 DEF RecoverWatched, RecoverRead, Recovered
  <2>2. call["recover"].kind # "none" /\ "recover" \in Calls
    BY <1>11 DEF RecoverWatched, RecoverRead, Replied, Calls
  <2> QED
    BY <1>0, <2>1, <2>2, CallDropped, CallAsked, DropTyped
<1>12. CASE OpenFile
  <2>1. call' = [call EXCEPT !["open"] = Asked("watch")] /\ "open" \in Calls
    BY <1>12 DEF OpenFile, Calls
  <2> QED
    BY <1>0, <1>12, <2>1, CallAsked
<1>13. CASE ReloadFile
  <2>1. call' = [call EXCEPT !["reload"] = Asked("read")] /\ "reload" \in Calls
    BY <1>13 DEF ReloadFile, Calls
  <2> QED
    BY <1>0, <1>13, <2>1, CallAsked
<1>14. CASE CloseFile
  <2>1. call' = Drop({"open", "observe", "reload"})
    BY <1>14 DEF CloseFile
  <2> QED
    BY <1>0, <2>1, CallDropped, DropTyped
<1>15. CASE Crash
  <2>1. call' = [p \in Calls |-> IF call[p].kind = "none" THEN NoCall
                                 ELSE [call[p] EXCEPT !.done = TRUE, !.value = 0]]
    BY <1>15 DEF Crash
  <2>2. \A p \in Calls : IF call[p].kind = "none" THEN call'[p] = NoCall
                         ELSE call'[p] = [kind |-> call[p].kind, done |-> TRUE, value |-> 0]
    BY <1>f, <2>1 DEF Waits
  <2>3. call' \in [Calls -> Waits]
    BY <1>f, <2>1, NoneTyped DEF Waits
  <2> QED
    BY <2>2, <2>3 DEF CallEffect, Read, Fresh, NoCall, Gone
<1>16. CASE OutsideWrite \/ HandleUnwatch \/ Debounced \/ EmitRead \/ EmitPost \/ WatchFails \/ SaveStep
            \/ FinishSave \/ Type \/ SaveFile
  BY <1>1, <1>16 DEF OutsideWrite, HandleUnwatch, Debounced, EmitRead, EmitPost, WatchFails, SaveStep,
                     FinishSave, Type, SaveFile
<1> QED
  BY <1>1, <1>2, <1>3, <1>4, <1>5, <1>6, <1>7, <1>8, <1>9, <1>10, <1>11, <1>12, <1>13, <1>14, <1>15, <1>16
     DEF Next, CoreNext, Answers, User
-----------------------------------------------------------------------------
(* What a step does to the disk and to what is known of it.                  *)

LEMMA DiskStep ==
    ASSUME Inv, Next
    PROVE  onDisk \subseteq onDisk' /\ disk' \in Nat /\ (disk' # Gone => disk' \in onDisk') /\ made' \in Nat
<1>0. disk \in Nat /\ made \in Nat /\ (disk # Gone => disk \in onDisk) /\ save \in Saves
  BY DEF Inv, TypeInv, SeenInv
<1>1. CASE disk' = disk /\ onDisk' = onDisk /\ made' = made
  BY <1>0, <1>1
<1>2. CASE OutsideWrite
  <2>1. PICK c \in Content \cup {Gone} : Write(c) /\ made' \in {made, c}
    BY <1>2 DEF OutsideWrite
  <2> QED
    BY <1>0, <2>1, BoundsAreNat DEF Write, Content, Gone
<1>3. CASE SaveStep
  <2>1. \/ disk' = disk /\ onDisk' = onDisk
        \/ Write(save.content)
    BY <1>3 DEF SaveStep, Look
  <2>2. made' = made /\ save.content \in Nat
    BY <1>0, <1>3 DEF SaveStep, Saves
  <2> QED
    BY <1>0, <1>1, <2>1, <2>2 DEF Write, Gone
<1>4. CASE Type
  <2>1. onDisk' = onDisk /\ disk' = disk
    BY <1>4 DEF Type
  <2>2. made' \in Nat
    <3>1. PICK c \in ({made + 1} \cap Content) \cup {tab.saved} : made' = IF c > made THEN c ELSE made
      BY <1>4 DEF Type
    <3>2. tab.saved \in Nat
      BY DEF Inv, TypeInv, Tabs
    <3> QED
      BY <1>0, <3>1, <3>2
  <2> QED
    BY <1>0, <2>1, <2>2
<1> QED
  BY <1>1, <1>2, <1>3, <1>4 DEF Next, CoreNext, HandleWatch, WatchCreated, HandleUnwatch, Debounced, EmitRead, EmitPost, WatchFails,
     ReadFile, Answers, User, coreRest, OpenWatched, OpenRead, ReceiveChange, FinishObserve, FinishSave, FinishReload,
     Recover, RecoverOpened, RecoverWatched, RecoverRead, OpenFile, SaveFile, ReloadFile, CloseFile, Crash

SaveEffect ==
    /\ save' \in Saves
    /\ save'.step = "renamed" \/ (save'.step = "done" /\ save'.outcome = "ok") => save'.content \in onDisk'
    /\ save'.step = "final" => disk' = save'.base \/ save'.late
    /\ save.step = "final" /\ save'.step = "renamed" => disk = save.base \/ save.late
    /\ save.step = "none" /\ save'.step # "none" => SaveFile

LEMMA SaveStepEffect ==
    ASSUME Inv, Next
    PROVE  SaveEffect
<1>0. /\ save \in Saves /\ onDisk \subseteq onDisk'
      /\ save.step = "renamed" \/ (save.step = "done" /\ save.outcome = "ok") => save.content \in onDisk
      /\ save.step = "final" => disk = save.base \/ save.late
  BY DiskStep DEF Inv, TypeInv, SeenInv, LookInv
<1>1. CASE save' = save /\ disk' = disk
  BY <1>0, <1>1 DEF SaveEffect
<1>2. CASE OutsideWrite
  <2>1. save' = [save EXCEPT !.late = save.late \/ save.step = "final"]
    BY <1>2 DEF OutsideWrite
  <2>2. /\ save'.step = save.step /\ save'.content = save.content /\ save'.outcome = save.outcome
        /\ save'.late = (save.late \/ save.step = "final") /\ save' \in Saves
    BY <1>0, <2>1 DEF Saves
  <2> QED
    BY <1>0, <2>2 DEF SaveEffect
<1>3. CASE SaveStep
  <2>1. CASE \E next \in {"copied", "final"} : save.step # "final" /\ save.step # "none" /\ Look(next)
    <3>1. PICK next \in {"copied", "final"} : save.step # "final" /\ save.step # "none" /\ Look(next)
      BY <2>1
    <3>2. CASE \E o \in {"failed", "conflict"} : save' = [save EXCEPT !.step = "done", !.outcome = o]
      <4>0. save.content # 0 /\ save.step # "none" /\ save.step # "final"
        <5>1. save.step # "none" /\ save.step # "final" /\ save \in Saves
          BY <1>0, <3>1
        <5> QED
          BY <5>1 DEF Saves
      <4>1. save' \in Saves /\ save'.step = "done" /\ save'.outcome # "ok"
        <5>1. save \in Saves
          BY <1>0
        <5> QED
          BY <3>2, <4>0, <5>1 DEF Saves
      <4> QED
        BY <4>0, <4>1 DEF SaveEffect
    <3>3. CASE disk = save.base /\ disk' = disk /\ save' = [save EXCEPT !.step = next, !.late = FALSE]
      <4>0. save.content # 0 /\ next # "done" /\ next # "none" /\ next \in {"copied", "final"}
        BY <1>0, <3>1 DEF Saves
      <4>1. save' \in Saves /\ save'.step = next /\ save'.base = save.base
        <5>1. save \in Saves
          BY <1>0
        <5> QED
          BY <3>3, <4>0, <5>1 DEF Saves
      <4> QED
        BY <3>1, <3>3, <4>1 DEF SaveEffect
    <3> QED
      BY <3>1, <3>2, <3>3 DEF Look, SaveFails
  <2>2. CASE save.step = "final" /\ Write(save.content) /\ save' = [save EXCEPT !.step = "renamed"]
    <3>1. save.content \in onDisk'
      BY <1>0, <2>2 DEF Write, Saves, Gone
    <3> QED
      BY <1>0, <2>2, <3>1 DEF SaveEffect, Saves
  <2>3. CASE save.step = "renamed" /\ save' = [save EXCEPT !.step = "done", !.outcome = "ok"]
    BY <1>0, <2>3 DEF SaveEffect, Saves
  <2>4. CASE save.step # "none" /\ save' = [save EXCEPT !.step = "done", !.outcome = "failed"]
    BY <1>0, <2>4 DEF SaveEffect, Saves
  <2> QED
    BY <1>3, <2>1, <2>2, <2>3, <2>4 DEF SaveStep, SaveFails
<1>4. CASE SaveFile
  <2>1. save' = [NoSave EXCEPT !.step = "queued", !.base = tab.revision, !.content = tab.content] /\ tab \in Tabs
    BY <1>4 DEF SaveFile, Inv, TypeInv
  <2>2. save' \in Saves /\ save'.step = "queued"
    BY <2>1 DEF NoSave, Saves, Tabs
  <2> QED
    BY <1>4, <2>2 DEF SaveEffect, SaveFile
<1>5. CASE FinishSave
  <2>1. save' = NoSave /\ save.step = "done"
    BY <1>5 DEF FinishSave
  <2> QED
    BY <2>1 DEF SaveEffect, NoSave, Saves
<1>6. CASE Crash
  <2>1. CASE save.step = "none"
    BY <1>0, <1>1, <1>6, <2>1 DEF Crash
  <2>2. CASE save.step # "none"
    <3>1. save' = [save EXCEPT !.step = "done", !.outcome = "unknown"]
      BY <1>6, <2>2 DEF Crash
    <3> QED
      BY <1>0, <2>2, <3>1 DEF SaveEffect, Saves
  <2> QED
    BY <2>1, <2>2
<1> QED
  BY <1>1, <1>2, <1>3, <1>4, <1>5, <1>6 DEF Next, CoreNext, HandleWatch, WatchCreated, HandleUnwatch, Debounced,
     EmitRead, EmitPost, WatchFails, ReadFile, Answers, User, coreRest, OpenWatched, OpenRead, ReceiveChange,
     FinishObserve, FinishReload, Recover, RecoverOpened, RecoverWatched, RecoverRead, OpenFile, Type, ReloadFile, CloseFile
-----------------------------------------------------------------------------
(* What a step does to the tab.                                              *)

\* The tab gets another status, but not "saved", or shows a text that has been on disk.
Remarked == \E s \in Statuses \ {"saved"} : tab' = Status(s)
Shows == \E v \in onDisk \ {0} : v \in Nat /\ tab' = Showing(v)
Replaceable == tab.content = tab.saved \/ (FinishReload /\ tab.content = before.content) \/ ActEarly
TabEffect ==
    /\ tab' \in Tabs
    /\ ShownInv'
    /\ tab'.open # tab.open => OpenFile \/ (CloseFile /\ tab' = Closed)
    /\ tab.open /\ tab'.content # tab.content => Type \/ Replaceable

LEMMA TabSame ==
    ASSUME tab \in Tabs, ShownInv, onDisk \subseteq onDisk', tab' = tab \/ Remarked
    PROVE  TabEffect
<1>1. CASE tab' = tab
  BY <1>1 DEF TabEffect, ShownInv
<1>2. CASE Remarked
  <2>1. PICK s \in Statuses \ {"saved"} : tab' = Status(s)
    BY <1>2 DEF Remarked
  <2> QED
    BY <2>1, StatusTyped DEF TabEffect, ShownInv
<1> QED
  BY <1>1, <1>2

LEMMA TabShows ==
    ASSUME tab \in Tabs, onDisk \subseteq onDisk', Shows, Replaceable
    PROVE  TabEffect
<1>1. PICK v \in onDisk \ {0} : v \in Nat /\ tab' = Showing(v)
  BY DEF Shows
<1> QED
  BY <1>1, ShowingTyped DEF TabEffect, ShownInv

LEMMA TabStep ==
    ASSUME Inv, Next
    PROVE  TabEffect
<1>0. /\ tab \in Tabs /\ ShownInv /\ onDisk \subseteq onDisk' /\ save \in Saves
      /\ call \in [Calls -> Waits] /\ {"open", "observe", "reload", "recover"} \subseteq Calls
  BY DiskStep DEF Inv, TypeInv, Calls
<1>s. {"error", "dirty", "conflict", "unknown", "saving"} \subseteq Statuses \ {"saved"}
  BY DEF Statuses
<1>v. \A p \in Calls : Replied(p, "read") /\ call[p].value # Gone => call[p].value \in onDisk \ {0} /\ call[p].value \in Nat
  BY CallFields DEF Inv, TypeInv, SeenInv, Read, Replied, Gone
<1>1. CASE tab' = tab \/ Remarked
  BY <1>0, <1>1, TabSame
<1>2. CASE OpenWatched
  BY <1>1, <1>2, <1>s DEF OpenWatched, SettleOpen, OpenAgain, Remarked
<1>3. CASE OpenRead
  <2>1. \/ tab' = tab \/ Remarked
        \/ call["open"].value # Gone /\ tab' = Showing(call["open"].value)
    BY <1>3, <1>s DEF OpenRead, SettleOpen, OpenAgain, Remarked
  <2>2. Opening /\ Replied("open", "read")
    BY <1>3 DEF OpenRead, Replied, Opening
  <2>3. ActEarly \/ tab.content = tab.saved
    BY <2>2, ActEarlyIsBoolean DEF Inv, OpenInv, Loading, Closed
  <2> QED
    BY <1>0, <1>1, <1>v, <2>1, <2>2, <2>3, TabShows DEF Shows, Replaceable
<1>4. CASE ReceiveChange
  <2>1. tab' = tab \/ tab' = Status("unknown") \/ tab' = Status("conflict") \/ tab' = Status("error")
    BY <1>4 DEF ReceiveChange
  <2> QED
    BY <1>1, <1>s, <2>1 DEF Remarked
<1>5. CASE FinishObserve
  <2>1. \/ tab' = tab \/ tab' = Status("error")
        \/ call["observe"].value # Gone /\ ~Protected /\ tab' = Showing(call["observe"].value)
    BY <1>5 DEF FinishObserve
  <2>2. ~Protected => tab.content = tab.saved
    BY DEF Protected
  <2>3. Replied("observe", "read")
    BY <1>5 DEF FinishObserve
  <2> QED
    BY <1>0, <1>1, <1>s, <1>v, <2>1, <2>2, <2>3, TabShows DEF Shows, Replaceable, Remarked
<1>6. CASE FinishReload
  <2> DEFINE v == call["reload"].value
  <2>1. \/ tab' = tab \/ tab' = Status("conflict")
        \/ v = tab.saved /\ v # Gone /\ tab' = [tab EXCEPT !.revision = v, !.status = "dirty"]
        \/ v # Gone /\ ~MovedOn /\ tab' = Showing(v)
    BY <1>6 DEF FinishReload
  <2>2. Replied("reload", "read")
    BY <1>6 DEF FinishReload
  <2>3. CASE v = tab.saved /\ v # Gone /\ tab' = [tab EXCEPT !.revision = v, !.status = "dirty"]
    <3>1. /\ tab' \in Tabs /\ tab'.saved = v /\ tab'.revision = v /\ tab'.content = tab.content
          /\ tab'.open = tab.open /\ tab'.status = "dirty"
      BY <1>0, <2>3 DEF Tabs, Statuses
    <3>2. v \in onDisk'
      BY <1>0, <1>v, <2>2, <2>3
    <3> QED
      BY <3>1, <3>2 DEF TabEffect, ShownInv
  <2>4. CASE v # Gone /\ ~MovedOn /\ tab' = Showing(v)
    <3>1. tab.content = before.content
      BY <2>4 DEF MovedOn
    <3> QED
      BY <1>0, <1>6, <1>v, <2>2, <2>4, <3>1, TabShows DEF Shows, Replaceable
  <2> QED
    BY <1>1, <1>s, <2>1, <2>3, <2>4 DEF Remarked
<1>7. ASSUME NEW v \in Nat, Recovered(v), v # Gone => v \in onDisk
      PROVE  TabEffect
  <2>1. \/ tab' = tab
        \/ \E s \in {"conflict", "error", "unknown", "dirty"} : tab' = Status(s)
        \/ v # Gone /\ ~Protected /\ tab' = Showing(v)
    BY <1>7 DEF Recovered, Gone
  <2>2. ~Protected => tab.content = tab.saved
    BY DEF Protected
  <2> QED
    BY <1>0, <1>1, <1>7, <1>s, <2>1, <2>2, TabShows DEF Shows, Replaceable, Remarked, Gone
<1>8. CASE RecoverWatched
  <2>1. tab' = tab \/ Recovered(0)
    BY <1>8 DEF RecoverWatched
  <2> QED
    BY <1>1, <1>7, <2>1 DEF Gone
<1>9. CASE RecoverRead
  <2>1. Replied("recover", "read") /\ Recovered(call["recover"].value)
    BY <1>9 DEF RecoverRead
  <2>2. call["recover"].value \in Nat
    BY <1>0, CallFields DEF Calls
  <2> QED
    BY <1>0, <1>7, <1>v, <2>1, <2>2
<1>10. CASE FinishSave
  <2>1. \/ tab' = tab
        \/ \E s \in {"unknown", "conflict", "dirty", "error"} : tab' = Status(s)
        \/ save.outcome = "ok" /\ tab' = [tab EXCEPT !.saved = save.content, !.revision = save.content,
                                              !.status = IF tab.content = save.content THEN "saved" ELSE "dirty"]
    BY <1>0, <1>10 DEF FinishSave, Saves
  <2>2. CASE save.outcome = "ok" /\ tab' = [tab EXCEPT !.saved = save.content, !.revision = save.content,
                                              !.status = IF tab.content = save.content THEN "saved" ELSE "dirty"]
    <3>1. save.content \in onDisk /\ save.content \in Nat \ {0}
      BY <1>0, <1>10, <2>2 DEF FinishSave, Inv, SeenInv, Saves
    <3>2. /\ tab' \in Tabs /\ tab'.saved = save.content /\ tab'.revision = save.content
          /\ tab'.content = tab.content /\ tab'.open = tab.open
          /\ tab'.status = "saved" => tab.content = save.content
      BY <1>0, <2>2, <3>1 DEF Tabs, Statuses
    <3> QED
      BY <1>0, <3>1, <3>2 DEF TabEffect, ShownInv
  <2> QED
    BY <1>1, <1>s, <2>1, <2>2 DEF Remarked
<1>11. CASE Type
  <2>1. PICK c \in ({made + 1} \cap Content) \cup {tab.saved} :
           tab' = [tab EXCEPT !.content = c,
                     !.status = IF tab.status \in {"conflict", "unknown", "error", "saving"} THEN tab.status
                                ELSE IF c = tab.saved THEN "saved" ELSE "dirty"]
    BY <1>11 DEF Type
  <2>2. c \in Nat \ {0}
    BY <1>0 DEF Tabs, Content
  <2>3. /\ tab' \in Tabs /\ tab'.content = c /\ tab'.saved = tab.saved /\ tab'.revision = tab.revision
        /\ tab'.open = tab.open /\ (tab'.status = "saved" => c = tab.saved)
    BY <1>0, <2>1, <2>2 DEF Tabs, Statuses
  <2>4. tab.revision # 0
    BY <1>11 DEF Type
  <2> QED
    BY <1>0, <1>11, <2>3, <2>4 DEF TabEffect, ShownInv
<1>12. CASE OpenFile
  <2>1. tab' = Loading /\ ~tab.open
    BY <1>12 DEF OpenFile
  <2> QED
    BY <1>12, <2>1, ClosedTyped DEF TabEffect, ShownInv, Loading, Closed
<1>13. CASE CloseFile
  <2>1. tab' = Closed /\ tab.content = tab.saved
    BY <1>13 DEF CloseFile, Protected
  <2> QED
    BY <1>13, <2>1, ClosedTyped DEF TabEffect, ShownInv, Closed, Replaceable
<1>14. CASE SaveFile
  BY <1>1, <1>14, <1>s DEF SaveFile, Remarked
<1>15. CASE (CoreNext /\ UNCHANGED tabVars) \/ ReloadFile \/ Crash \/ Recover \/ RecoverOpened
  BY <1>1, <1>15 DEF ReloadFile, Crash, Recover, RecoverOpened, tabVars
<1> QED
  BY <1>2, <1>3, <1>4, <1>5, <1>6, <1>8, <1>9, <1>10, <1>11, <1>12, <1>13, <1>14, <1>15 DEF Next, Answers, User
-----------------------------------------------------------------------------
(* What a step does to the watcher and its requests.                         *)

LEMMA TailKeepsLast ==
    ASSUME NEW q \in Seq(Asks), q # <<>>
    PROVE  /\ Tail(q) \in Seq(Asks) /\ Head(q) \in Asks
           /\ Tail(q) # <<>> => Tail(q)[Len(Tail(q))] = q[Len(q)]
           /\ Tail(q) = <<>> => Head(q) = q[Len(q)]
  BY HeadTailProperties DEF Asks

LEMMA WatchSame ==
    ASSUME Inv, watch' \in Watches, inbox' = inbox, watch'.handle => watch'.desired,
           watch'.desired => watch.desired, tab.open => tab'.open
    PROVE  watch' \in Watches /\ inbox' \in Seq(Asks) /\ WatchInv'
  BY DEF Inv, TypeInv, WatchInv

LEMMA WatchStep ==
    ASSUME Inv, Next
    PROVE  watch' \in Watches /\ inbox' \in Seq(Asks) /\ WatchInv'
<1>0. /\ watch \in Watches /\ inbox \in Seq(Asks) /\ WatchInv /\ tab \in Tabs
      /\ ~up => inbox = <<>> /\ ~watch.desired
  BY DEF Inv, TypeInv, DownInv
<1>1. CASE watch' = watch /\ inbox' = inbox /\ ~CloseFile
  BY <1>0, <1>1, WatchSame, TabStep DEF TabEffect, WatchInv, OpenFile, Loading
<1>2. CASE OutsideWrite /\ UNCHANGED tabVars
  <2>1. \/ watch' = [watch EXCEPT !.stirred = watch.stirred \/ watch.handle]
    BY <1>2 DEF OutsideWrite, Write
  <2>2. watch' \in Watches /\ watch'.handle = watch.handle /\ watch'.desired = watch.desired
    BY <1>0, <2>1 DEF Watches
  <2> QED
    BY <1>0, <1>2, <2>2, WatchSame DEF OutsideWrite, WatchInv, tabVars
<1>3. CASE HandleWatch /\ UNCHANGED tabVars
  <2>1. inbox # <<>> /\ Head(inbox) # "unwatch" /\ inbox' = Tail(inbox) /\ tab' = tab
    BY <1>3 DEF HandleWatch, tabVars
  <2>2. Head(inbox) \in {"open", "recover", "orphan"}
    BY <1>0, <2>1, TailKeepsLast DEF Asks
  <2>3. watch' \in Watches /\ watch'.desired = TRUE
    <3>1. \/ watch' = [watch EXCEPT !.desired = TRUE]
          \/ watch' = [watch EXCEPT !.desired = TRUE, !.creating = TRUE, !.waiting = watch.waiting \cup {Head(inbox)}]
      BY <1>3 DEF HandleWatch
    <3>2. watch.waiting \cup {Head(inbox)} \in SUBSET {"open", "recover", "orphan"}
      BY <1>0, <2>2 DEF Watches
    <3>3. CASE watch' = [watch EXCEPT !.desired = TRUE]
      BY <1>0, <3>3 DEF Watches
    <3>4. CASE watch' = [watch EXCEPT !.desired = TRUE, !.creating = TRUE, !.waiting = watch.waiting \cup {Head(inbox)}]
      BY <1>0, <3>2, <3>4 DEF Watches
    <3> QED
      BY <3>1, <3>3, <3>4
  <2> QED
    BY <1>0, <2>1, <2>3, TailKeepsLast DEF WatchInv
<1>4. CASE WatchCreated /\ UNCHANGED tabVars
  <2>1. \/ watch' = [watch EXCEPT !.creating = FALSE, !.waiting = {}, !.handle = watch.desired]
        \/ watch' = [watch EXCEPT !.creating = FALSE, !.waiting = {}]
    BY <1>4 DEF WatchCreated
  <2>2. watch' \in Watches /\ watch'.desired = watch.desired /\ watch'.handle \in {watch.handle, watch.desired}
    BY <1>0, <2>1 DEF Watches
  <2> QED
    BY <1>0, <1>4, <2>2, WatchSame DEF WatchCreated, WatchInv, tabVars
<1>5. CASE HandleUnwatch /\ UNCHANGED tabVars
  <2>1. inbox # <<>> /\ inbox' = Tail(inbox) /\ tab' = tab /\ watch' = Unwatched(watch)
    BY <1>5 DEF HandleUnwatch, tabVars
  <2>2. watch' \in Watches /\ ~watch'.desired /\ ~watch'.handle
    BY <1>0, <2>1 DEF Unwatched, Watches
  <2> QED
    BY <1>0, <2>1, <2>2, TailKeepsLast DEF WatchInv
<1>6. CASE (Debounced \/ WatchFails) /\ UNCHANGED tabVars
  <2>1. watch' = [watch EXCEPT !.stirred = FALSE] \/ watch' = Unwatched(watch)
    BY <1>6 DEF Debounced, WatchFails
  <2>2. watch' \in Watches /\ (watch'.desired => watch.desired) /\ (watch'.handle => watch.handle /\ watch'.desired)
    BY <1>0, <2>1 DEF Unwatched, Watches, WatchInv
  <2> QED
    BY <1>0, <1>6, <2>2, WatchSame DEF Debounced, WatchFails, tabVars
<1>7. CASE SaveStep /\ UNCHANGED tabVars
  <2>1. \/ watch' = [watch EXCEPT !.stirred = watch.stirred \/ watch.handle]
        \/ watch' = watch
    BY <1>7 DEF SaveStep, Write, Look
  <2>2. watch' \in Watches /\ watch'.handle = watch.handle /\ watch'.desired = watch.desired
    BY <1>0, <2>1 DEF Watches
  <2> QED
    BY <1>0, <1>7, <2>2, WatchSame DEF SaveStep, WatchInv, tabVars
<1>8. CASE OpenFile
  <2>1. tab'.open /\ watch' = watch /\ inbox' \in {inbox, Append(inbox, "open")}
    BY <1>8 DEF OpenFile, coreRest, Loading, Closed
  <2>2. inbox' \in Seq(Asks)
    BY <1>0, <2>1 DEF Asks
  <2> QED
    BY <1>0, <2>1, <2>2 DEF WatchInv
<1>9. CASE RecoverOpened
  <2>1. tab' = tab /\ watch' = watch /\ inbox' = IF tab.open THEN Append(inbox, "recover") ELSE inbox
    BY <1>9 DEF RecoverOpened, coreRest, tabVars
  <2>2. inbox' \in Seq(Asks)
    BY <1>0, <2>1 DEF Asks
  <2> QED
    BY <1>0, <2>1, <2>2 DEF WatchInv
<1>10. CASE CloseFile
  <2> DEFINE O(p) == IF p = "open" THEN "orphan" ELSE p
             m == [i \in DOMAIN inbox |-> O(inbox[i])]
  <2>1. m \in Seq(Asks) /\ Len(m) = Len(inbox)
    BY <1>0 DEF Asks
  <2>2. inbox' = m \o (IF up THEN <<"unwatch">> ELSE <<>>)
    BY <1>10 DEF CloseFile
  <2>3. watch' = [watch EXCEPT !.waiting = {O(p) : p \in watch.waiting}]
    BY <1>10 DEF CloseFile
  <2>4. {O(p) : p \in watch.waiting} \subseteq {"open", "recover", "orphan"}
    BY <1>0 DEF Watches
  <2>5. watch' \in Watches /\ watch'.handle = watch.handle /\ watch'.desired = watch.desired
    <3> HIDE DEF O
    <3> QED
      BY <1>0, <2>3, <2>4 DEF Watches
  <2>6. CASE up
    <3>1. inbox' = m \o <<"unwatch">> /\ <<"unwatch">> \in Seq(Asks) /\ Len(<<"unwatch">>) = 1
      BY <2>2, <2>6 DEF Asks
    <3>2. inbox' \in Seq(Asks) /\ Len(inbox') = Len(m) + 1 /\ inbox'[Len(m) + 1] = "unwatch"
      <4> HIDE DEF m
      <4> QED
        BY <2>1, <3>1, ConcatProperties
    <3>3. inbox' # <<>>
      BY <2>1, <3>2
    <3> QED
      BY <1>0, <2>5, <3>2, <3>3 DEF WatchInv
  <2>7. CASE ~up
    <3>1. inbox = <<>> /\ ~watch.desired
      BY <1>0, <2>7
    <3>2. Len(m) = 0 /\ m = <<>>
      BY <2>1, <3>1
    <3>3. inbox' = <<>>
      BY <2>2, <2>7, <3>2
    <3> QED
      BY <1>0, <2>5, <3>1, <3>3 DEF WatchInv
  <2> QED
    BY <1>0, <2>6, <2>7 DEF Inv, TypeInv
<1>11. CASE Crash
  <2>1. inbox' = <<>> /\ watch' = NoWatch
    BY <1>11 DEF Crash
  <2>2. NoWatch \in Watches /\ ~NoWatch.handle /\ ~NoWatch.desired
    BY DEF NoWatch, Watches
  <2> QED
    BY <2>1, <2>2 DEF WatchInv
<1>12. CASE (EmitRead \/ EmitPost \/ \E p \in Calls : ReadFile(p)) /\ UNCHANGED tabVars
  BY <1>0, <1>12, WatchSame DEF EmitRead, EmitPost, ReadFile, tabVars, WatchInv
<1>13. CASE ~CloseFile /\ (OpenWatched \/ OpenRead \/ ReceiveChange \/ FinishObserve \/ FinishSave \/ FinishReload
                 \/ Recover \/ RecoverWatched \/ RecoverRead \/ Type \/ SaveFile \/ ReloadFile)
  BY <1>1, <1>13 DEF coreRest, OpenWatched, OpenRead, ReceiveChange, FinishObserve, FinishSave, FinishReload,
     Recover, RecoverWatched, RecoverRead, Type, SaveFile, ReloadFile
<1> QED
  BY <1>2, <1>3, <1>4, <1>5, <1>6, <1>7, <1>8, <1>9, <1>10, <1>11, <1>12, <1>13 DEF Next, CoreNext, Answers, User

LEMMA DownStep ==
    ASSUME Inv, Next
    PROVE  DownInv' /\ up' \in BOOLEAN
<1>0. /\ DownInv /\ up \in BOOLEAN /\ "recover" \in Calls /\ call' \in [Calls -> Waits]
      /\ call \in [Calls -> Waits] /\ watch \in Watches
      /\ call'["recover"].kind # "none" => call["recover"].kind # "none" \/ Recover
  BY CallStep DEF Inv, TypeInv, Calls, CallEffect, Fresh
<1>1. failed = "crash" => failed' = "crash"
  BY DEF Next, CoreNext, Answers, User, Fault, NoFault, coreRest, tabVars, OutsideWrite, HandleWatch, WatchCreated,
     HandleUnwatch, Debounced, EmitRead, EmitPost, WatchFails, ReadFile, SaveStep, OpenWatched, OpenRead, ReceiveChange,
     FinishObserve, FinishSave, FinishReload, Recover, RecoverOpened, RecoverWatched, RecoverRead, OpenFile, Type,
     SaveFile, ReloadFile, CloseFile, Crash
<1>2. CASE Crash
  <2>1. failed' = "crash" /\ inbox' = <<>> /\ watch' = NoWatch /\ call["recover"].kind = "none" /\ up' = FALSE
    BY <1>0, <1>2 DEF Crash, Fault, DownInv
  <2>2. call'["recover"] = NoCall
    BY <1>0, <1>2, <2>1 DEF Crash
  <2>3. ~NoWatch.desired /\ ~NoWatch.handle /\ NoCall.kind = "none"
    BY DEF NoWatch, NoCall
  <2> QED
    BY <2>1, <2>2, <2>3 DEF DownInv
<1>3. CASE Recover
  BY <1>0, <1>1, <1>3 DEF Recover, DownInv
<1>4. CASE up' = up /\ (up \/ (watch'.desired = watch.desired /\ watch'.handle = watch.handle /\ inbox' = inbox)) /\ ~Recover
  BY <1>0, <1>1, <1>4 DEF DownInv
<1>5. CASE OutsideWrite
  <2>1. watch' = [watch EXCEPT !.stirred = watch.stirred \/ watch.handle] /\ up' = up /\ inbox' = inbox
    BY <1>5 DEF OutsideWrite, Write
  <2> QED
    BY <1>0, <1>3, <1>4, <2>1 DEF Watches
<1>6. CASE OpenFile
  BY <1>3, <1>4, <1>6 DEF OpenFile, coreRest
<1>7. CASE CloseFile
  <2>1. up' = up /\ (~up => inbox = <<>>)
    BY <1>0, <1>7 DEF CloseFile, DownInv
  <2>2. ~up => inbox' = <<>>
    <3> SUFFICES ASSUME ~up PROVE inbox' = <<>>
      OBVIOUS
    <3> DEFINE m == [i \in DOMAIN inbox |-> IF inbox[i] = "open" THEN "orphan" ELSE inbox[i]]
    <3>1. m \in Seq(Asks) /\ Len(m) = 0
      BY <2>1 DEF Asks
    <3>2. inbox' = m \o <<>>
      BY <1>7 DEF CloseFile
    <3> QED
      BY <3>1, <3>2
  <2>3. watch'.desired = watch.desired /\ watch'.handle = watch.handle
    <3>1. PICK ws : watch' = [watch EXCEPT !.waiting = ws]
      BY <1>7 DEF CloseFile
    <3> QED
      BY <1>0, <3>1 DEF Watches
  <2>4. ~up => inbox' = inbox
    BY <2>1, <2>2
  <2> QED
    BY <1>0, <1>3, <1>4, <2>1, <2>3, <2>4
<1>8. CASE RecoverOpened
  <2>1. up /\ up' = up
    BY <1>0, <1>8 DEF RecoverOpened, Replied, DownInv, coreRest
  <2> QED
    BY <1>3, <1>4, <2>1
<1> QED
  BY <1>2, <1>3, <1>4, <1>5, <1>6, <1>7, <1>8 DEF Next, CoreNext, Answers, User, coreRest, HandleWatch, WatchCreated,
     HandleUnwatch, Debounced, EmitRead, EmitPost, WatchFails, ReadFile, SaveStep, OpenWatched, OpenRead, ReceiveChange,
     FinishObserve, FinishSave, FinishReload, RecoverWatched, RecoverRead, Type, SaveFile, ReloadFile
-----------------------------------------------------------------------------
(* What is under way for a tab.                                              *)

LEMMA OtherTypes ==
    ASSUME Inv, Next
    PROVE  emit' \in Emits /\ posted' \in Seq(Nat)
<1>0. emit \in Emits /\ posted \in Seq(Nat) /\ disk \in Nat
  BY DEF Inv, TypeInv
<1>1. emit' \in Emits
  <2>1. CASE EmitRead
    BY <1>0, <2>1 DEF EmitRead, Emits, Gone
  <2>2. CASE emit' = emit \/ emit' = [on |-> FALSE, seen |-> {}] \/ emit' = [on |-> TRUE, seen |-> {}]
    <3>1. [on |-> FALSE, seen |-> {}] \in Emits /\ [on |-> TRUE, seen |-> {}] \in Emits
      BY DEF Emits
    <3> QED
      BY <1>0, <2>2, <3>1
  <2> QED
    BY <2>1, <2>2 DEF Next, CoreNext, Answers, User, coreRest, OutsideWrite, HandleWatch, WatchCreated,
     HandleUnwatch, Debounced, EmitPost, WatchFails, ReadFile, SaveStep, OpenWatched, OpenRead, ReceiveChange,
     FinishObserve, FinishSave, FinishReload, Recover, RecoverOpened, RecoverWatched, RecoverRead, OpenFile, Type,
     SaveFile, ReloadFile, CloseFile, Crash
<1>2. posted' \in Seq(Nat)
  <2>1. CASE EmitPost
    <3>1. PICK c \in Nat : posted' = Append(posted, c)
      BY <1>0, <2>1 DEF EmitPost, Emits
    <3> QED
      BY <1>0, <3>1
  <2>2. CASE WatchFails
    <3>1. posted' = Append(posted, Gone) /\ Gone \in Nat
      BY <2>2 DEF WatchFails, Gone
    <3> QED
      BY <1>0, <3>1
  <2>3. CASE ReceiveChange
    <3>1. posted # <<>> /\ posted' = Tail(posted)
      BY <2>3 DEF ReceiveChange
    <3> QED
      BY <1>0, <3>1, HeadTailProperties
  <2>4. CASE posted' = posted \/ posted' = <<>>
    <3>1. <<>> \in Seq(Nat)
      OBVIOUS
    <3> QED
      BY <1>0, <2>4, <3>1
  <2> QED
    BY <2>1, <2>2, <2>3, <2>4 DEF Next, CoreNext, Answers, User, coreRest, OutsideWrite, HandleWatch, WatchCreated,
     HandleUnwatch, Debounced, EmitRead, ReadFile, SaveStep, OpenWatched, OpenRead,
     FinishObserve, FinishSave, FinishReload, Recover, RecoverOpened, RecoverWatched, RecoverRead, OpenFile, Type,
     SaveFile, ReloadFile, CloseFile, Crash
<1> QED
  BY <1>1, <1>2

\* A call that is not asked afresh was under way before.
LEMMA StillNone ==
    ASSUME Inv, Next, NEW p \in Calls, call[p].kind = "none", ~OpenFile, ~ReloadFile, ~ReceiveChange, ~Recover
    PROVE  call'[p].kind = "none"
  BY CallStep DEF CallEffect, Fresh

\* The handlers that set the tab act on a tab that is open.
LEMMA ClosedStays ==
    ASSUME Inv, Next, ~tab.open, ~OpenFile
    PROVE  tab' = Closed
<1>1. tab = Closed /\ call["open"].kind = "none" /\ call["observe"].kind = "none" /\ call["reload"].kind = "none"
  BY DEF Inv, ClosedInv
<1>2. ~OpenWatched /\ ~OpenRead /\ ~FinishObserve /\ ~FinishReload
  BY <1>1 DEF OpenWatched, OpenRead, FinishObserve, FinishReload, Replied
<1>3. ~Type /\ ~SaveFile /\ ~CloseFile
  BY <1>1 DEF Type, SaveFile, CloseFile, Closed
<1>4. tab' = tab
  BY <1>2, <1>3 DEF Next, Answers, User, coreRest, tabVars, ReceiveChange,
     FinishSave, Recover, RecoverOpened, RecoverWatched, RecoverRead, Recovered, ReloadFile, Crash
<1> QED
  BY <1>1, <1>4

LEMMA ClosedStep ==
    ASSUME Inv, Next
    PROVE  ClosedInv'
<1> SUFFICES ASSUME ~tab'.open
             PROVE  tab' = Closed /\ \A p \in {"open", "observe", "reload"} : call'[p].kind = "none"
  BY DEF ClosedInv
<1>0. {"open", "observe", "reload"} \subseteq Calls /\ call \in [Calls -> Waits]
  BY DEF Calls, Inv, TypeInv
<1>1. ~OpenFile
  BY DEF OpenFile, Loading, Closed
<1>2. CASE tab.open
  <2>1. CloseFile /\ tab' = Closed
    BY <1>1, <1>2, TabStep DEF TabEffect
  <2>2. call' = Drop({"open", "observe", "reload"})
    BY <2>1 DEF CloseFile
  <2> QED
    BY <1>0, <2>1, <2>2 DEF Drop, NoCall
<1>3. CASE ~tab.open
  <2>1. tab = Closed /\ \A p \in {"open", "observe", "reload"} : call[p].kind = "none"
    BY <1>3 DEF Inv, ClosedInv
  <2>2. tab' = Closed
    BY <1>1, <1>3, ClosedStays
  <2>3. ~ReloadFile
    BY <2>1 DEF ReloadFile, Closed
  <2>4. CASE ReceiveChange
    <3>1. call' = Drop({"observe"})
      BY <1>3, <2>4 DEF ReceiveChange
    <3> QED
      BY <1>0, <2>1, <2>2, <3>1 DEF Drop, NoCall
  <2>5. CASE Recover
    <3>1. call' = [Drop(Calls) EXCEPT !["recover"] = [kind |-> "world", done |-> TRUE, value |-> 0]]
      BY <2>5 DEF Recover
    <3>2. \A p \in {"open", "observe", "reload"} : call'[p] = NoCall
      BY <1>0, <3>1 DEF Drop
    <3> QED
      BY <2>2, <3>2 DEF NoCall
  <2> QED
    BY <1>0, <1>1, <2>1, <2>2, <2>3, <2>4, <2>5, StillNone
<1> QED
  BY <1>2, <1>3

LEMMA OpenStep ==
    ASSUME Inv, Next
    PROVE  OpenInv'
<1> SUFFICES ASSUME ~ActEarly, Opening'
             PROVE  tab' = Loading /\ save'.step = "none" /\ \A p \in Calls \ {"open"} : call'[p].kind = "none"
  BY DEF OpenInv
<1>0. "open" \in Calls /\ call \in [Calls -> Waits] /\ call' \in [Calls -> Waits] /\ Calls = {"open", "recover", "observe", "reload"}
  BY CallStep DEF Calls, Inv, TypeInv
<1>1. CASE OpenFile
  <2>1. ~tab.open /\ tab' = Loading /\ call["recover"].kind = "none" /\ save' = save /\ save.step = "none"
        /\ call' = [call EXCEPT !["open"] = Asked("watch")]
    BY <1>1 DEF OpenFile, coreRest, Settled
  <2>2. \A p \in Calls \ {"open"} : call[p].kind = "none"
    BY <1>0, <2>1 DEF Inv, ClosedInv
  <2> QED
    BY <1>0, <2>1, <2>2
<1>2. CASE ~OpenFile
  <2>1. Opening
    BY <1>0, <1>2, CallStep DEF CallEffect, Fresh, Opening
  <2>2. tab = Loading /\ save.step = "none" /\ \A p \in Calls \ {"open"} : call[p].kind = "none"
    BY <2>1 DEF Inv, OpenInv
  <2>3. ~ReloadFile /\ ~SaveFile /\ ~Type /\ ~CloseFile /\ ~FinishSave
    <3>1. ~CloseFile
      <4>1. CloseFile => call' = Drop({"open", "observe", "reload"})
        BY DEF CloseFile
      <4> QED
        BY <1>0, <4>1 DEF Drop, Opening, NoCall
    <3> QED
      BY <2>2, <3>1 DEF ReloadFile, SaveFile, Type, FinishSave, Loading, Closed
  <2>4. ~FinishObserve /\ ~FinishReload /\ ~RecoverOpened /\ ~RecoverWatched /\ ~RecoverRead
    BY <1>0, <2>2 DEF FinishObserve, FinishReload, RecoverOpened, RecoverWatched, RecoverRead, Replied
  <2>5. ~Recover
    <3>1. Recover => call' = [Drop(Calls) EXCEPT !["recover"] = [kind |-> "world", done |-> TRUE, value |-> 0]]
      BY DEF Recover
    <3>2. Recover => call'["open"] = NoCall
      BY <1>0, <3>1 DEF Drop
    <3> QED
      BY <3>2 DEF Opening, NoCall
  <2>6. save'.step = "none"
    BY <2>2, <2>3, SaveStepEffect DEF SaveEffect
  <2>7. \A p \in Calls \ {"open"} : call'[p].kind = "none"
    <3>1. SUFFICES ASSUME NEW p \in Calls \ {"open"}, call'[p].kind # "none" PROVE FALSE
      OBVIOUS
    <3>2. Fresh(p)
      BY <2>2, <3>1 DEF Fresh
    <3> QED
      BY <2>1, <2>3, <2>5, <3>1, <3>2, CallStep DEF CallEffect
  <2>8. tab' = tab
    <3>1. CASE OpenWatched
      <4>1. call' = Drop({"open"}) \/ tab' = tab
        BY <3>1 DEF OpenWatched, SettleOpen, OpenAgain
      <4> QED
        BY <1>0, <4>1 DEF Drop, NoCall, Opening
    <3>2. CASE OpenRead
      <4>1. call' = Drop({"open"}) \/ tab' = tab
        BY <3>2 DEF OpenRead, SettleOpen, OpenAgain
      <4> QED
        BY <1>0, <4>1 DEF Drop, NoCall, Opening
    <3>3. CASE ReceiveChange
      BY <2>1, <3>3 DEF ReceiveChange
    <3> QED
      BY <1>2, <2>3, <2>4, <2>5, <3>1, <3>2, <3>3 DEF Next, Answers, User, tabVars, Crash
  <2> QED
    BY <2>2, <2>6, <2>7, <2>8
<1> QED
  BY <1>1, <1>2
-----------------------------------------------------------------------------
LEMMA InitInv == Init => Inv
<1> SUFFICES ASSUME Init PROVE Inv
  OBVIOUS
<1> USE DEF Init, CoreInit
<1>1. TypeInv
  <2>1. call \in [Calls -> Waits]
    BY NoneTyped
  <2>2. watch \in Watches /\ emit \in Emits /\ save \in Saves
    BY DEF NoWatch, NoSave, Watches, Emits, Saves
  <2> QED
    BY <2>1, <2>2, ClosedTyped DEF TypeInv
<1>2. SeenInv /\ LookInv
  BY DEF SeenInv, LookInv, Read, NoCall, NoSave
<1>3. ShownInv
  BY DEF ShownInv, Closed
<1>4. DownInv /\ WatchInv
  BY DEF DownInv, WatchInv, NoWatch, NoCall, Closed, Calls
<1>5. OpenInv /\ ClosedInv
  BY DEF OpenInv, ClosedInv, Opening, NoCall, Calls
<1> QED
  BY <1>1, <1>2, <1>3, <1>4, <1>5 DEF Inv

LEMMA NextInv ==
    ASSUME Inv, Next
    PROVE  Inv'
<1>1. TypeInv'
  BY CallStep, DiskStep, SaveStepEffect, TabStep, WatchStep, DownStep, OtherTypes DEF TypeInv, SaveEffect, TabEffect
<1>2. SeenInv'
  <2>1. \A p \in Calls : Read(p)' => call'[p].value \in onDisk'
    <3> SUFFICES ASSUME NEW p \in Calls, Read(p)' PROVE call'[p].value \in onDisk'
      OBVIOUS
    <3>1. (Read(p) /\ call'[p].value = call[p].value) \/ call'[p].value = disk
      BY CallStep DEF CallEffect
    <3>2. (Read(p) => call[p].value \in onDisk) /\ (disk # Gone => disk \in onDisk) /\ onDisk \subseteq onDisk'
      BY DiskStep DEF Inv, SeenInv
    <3>3. call'[p].value # Gone
      BY DEF Read
    <3> QED
      BY <3>1, <3>2, <3>3
  <2> QED
    BY <2>1, DiskStep, SaveStepEffect DEF SeenInv, SaveEffect
<1>3. ShownInv' /\ LookInv'
  BY TabStep, SaveStepEffect DEF TabEffect, SaveEffect, LookInv
<1> QED
  BY <1>1, <1>2, <1>3, DownStep, WatchStep, ClosedStep, OpenStep DEF Inv

LEMMA StutterInv ==
    ASSUME Inv, UNCHANGED vars
    PROVE  Inv'
  BY DEF Inv, TypeInv, SeenInv, Read, ShownInv, DownInv, WatchInv, ClosedInv, OpenInv, Opening, LookInv, vars, coreVars, tabVars

LEMMA InvHolds == Spec => []Inv
<1>1. Inv /\ [Next]_vars => Inv'
  BY NextInv, StutterInv
<1> QED
  BY <1>1, InitInv, PTL DEF Spec

\* What is shown as saved was seen, and has been the file's content, also across a lost core; and the
\* core watches no file for a closed tab (openFile, reloadObservedFile, saveFile, closeFile).
THEOREM TabIsTrueHolds == Spec => []TabIsTrue
<1>1. Inv => TabIsTrue
  <2> SUFFICES ASSUME Inv PROVE TabIsTrue
    OBVIOUS
  <2>1. BaseIsSeen /\ SavedWasOnDisk
    BY DEF Inv, ShownInv, BaseIsSeen, SavedWasOnDisk
  <2>2. NoWatchLeft
    <3> SUFFICES ASSUME watch.handle, ~tab.open PROVE \E i \in DOMAIN inbox : inbox[i] = "unwatch"
      BY DEF NoWatchLeft
    <3>1. inbox # <<>> /\ inbox[Len(inbox)] = "unwatch" /\ inbox \in Seq(Asks)
      BY DEF Inv, WatchInv, TypeInv
    <3>2. Len(inbox) \in DOMAIN inbox
      BY <3>1
    <3> QED
      BY <3>1, <3>2
  <2> QED
    BY <2>1, <2>2 DEF TabIsTrue
<1> QED
  BY <1>1, InvHolds, PTL

\* A save replaces only the text it was based on, or one written in the moment before the rename
\* (writeWorkspaceFile).
THEOREM OutsideEditKeptHolds == Spec => OutsideEditKept
<1>1. Inv /\ [Next]_vars => (save.step = "final" /\ save'.step = "renamed" => disk = save.base \/ save.late)
  BY SaveStepEffect DEF SaveEffect, vars, coreVars
<1>2. Inv /\ [Next]_vars => [save.step = "final" /\ save'.step = "renamed" => disk = save.base \/ save.late]_vars
  BY <1>1
<1> QED
  BY <1>2, InvHolds, PTL DEF Spec, OutsideEditKept

\* Typed text that is not saved leaves the tab by the user's hand only, as long as the user opens,
\* saves, reloads and closes after a recovery or a save (App.tsx; the exception is ActEarly).
THEOREM TypingKeptHolds ==
    ASSUME ~ActEarly
    PROVE  Spec => TypingKept
<1> DEFINE Kept == tab.open /\ tab.content \notin {Blank, tab.saved} =>
                     \/ tab'.content = tab.content \/ Type
                     \/ FinishReload /\ tab.content = before.content
<1>1. Inv /\ [Next]_vars => Kept
  BY TabStep DEF TabEffect, Replaceable, vars, tabVars
<1>2. Inv /\ [Next]_vars => [Kept]_vars
  BY <1>1
<1> QED
  BY <1>2, InvHolds, PTL DEF Spec, TypingKept

-----------------------------------------------------------------------------
(* The invariant of the snapshot.                                            *)

Gaps == {"none", "idle", "unavailable"}
Colours == {"gray", "yellow", "green", "red"}
Reads == [on : BOOLEAN, fresh : BOOLEAN, value : Nat]
Snapshots == [working : Nat, observed : BOOLEAN, gap : Gaps, status : Colours, topology : Nat]
Observers == [paused : BOOLEAN, last : Nat, failed : BOOLEAN, must : BOOLEAN]
Discoveries == [stage : {"none", "before", "declare", "after"}, fresh : BOOLEAN, user : BOOLEAN,
                before : Nat, read : Nat, after : Nat]

WorldTypes ==
    /\ world \in Nat /\ 1 <= world /\ world <= MaxWorlds
    /\ observer \in Observers /\ sample \in Reads
    /\ provider \in Snapshots /\ discovery \in Discoveries
    /\ savedWorld \in Nat /\ closed \in BOOLEAN

\* Nothing is known of a world that has not been.
PastInv ==
    /\ observer.last <= world /\ provider.working <= world
    /\ sample.value <= world \/ sample.value = Failed
    /\ savedWorld <= world \/ savedWorld = Failed

\* The three reads of a discovery were made in that order.
OrderInv ==
    /\ discovery.before <= world /\ discovery.after <= world
    /\ discovery.stage \in {"before", "declare"} => discovery.after = None
    /\ discovery.stage = "after" =>
         /\ discovery.before <= discovery.read /\ discovery.read <= world
         /\ discovery.after # None => discovery.read <= discovery.after

\* An answer that still counts is at least as new as what it will replace.
FreshInv ==
    /\ sample.on /\ sample.fresh /\ sample.value # None /\ ~closed /\ ~observer.paused
         => observer.last <= sample.value
    /\ discovery.fresh /\ ~closed =>
         /\ discovery.stage = "before" /\ discovery.before # None => provider.working <= discovery.before
         /\ discovery.stage \in {"declare", "after"} => provider.working = discovery.before

SnapshotInv == WorldTypes /\ PastInv /\ OrderInv /\ FreshInv /\ GreenIsConsistent

\* The publisher of the next discovery is the user's or the runtime's.
UserInv == refresh \in [timer : BOOLEAN, again : BOOLEAN, user : BOOLEAN]

WorldInv == SnapshotInv /\ UserInv

-----------------------------------------------------------------------------
(* What the helpers of the snapshot do.                                      *)

\* A discovery whose result no longer counts is the same one otherwise.
LEMMA OutdatedFacts ==
    ASSUME NEW d \in Discoveries
    PROVE  LET e == [d EXCEPT !.fresh = FALSE] IN
           /\ e \in Discoveries /\ ~e.fresh /\ e.stage = d.stage
           /\ e.before = d.before /\ e.read = d.read /\ e.after = d.after
BY DEF Discoveries

LEMMA Fields ==
    ASSUME WorldTypes
    PROVE  /\ observer.last \in Nat /\ sample.value \in Nat
           /\ provider.working \in Nat /\ provider.topology \in Nat
           /\ discovery.before \in Nat /\ discovery.read \in Nat /\ discovery.after \in Nat
BY DEF WorldTypes, Observers, Reads, Snapshots, Discoveries

LEMMA NoDiscoveryFacts ==
    NoDiscovery \in Discoveries /\ ~NoDiscovery.fresh /\ NoDiscovery.stage = "none"
    /\ NoDiscovery.before = 0 /\ NoDiscovery.after = 0
BY DEF Discoveries, NoDiscovery, None

\* Asking for a sample makes the one under way count no more, or begins one.
LEMMA RequestedFacts ==
    ASSUME WorldTypes
    PROVE  /\ Requested(sample) \in Reads
           /\ Requested(sample).value \in {sample.value, None}
           /\ ~closed /\ ~observer.paused =>
                Requested(sample).fresh = FALSE \/ Requested(sample).value = None
BY DEF WorldTypes, Reads, Requested, NoRead, None

LEMMA DrainedFacts ==
    ASSUME WorldTypes
    PROVE  Drained \in Reads /\ Drained.value = None
BY DEF WorldTypes, Reads, Drained, NoRead, None

\* Observing fingerprint f changes the snapshot to it, or leaves what is known.
LEMMA WorkingChangedFacts ==
    ASSUME WorldInv, NEW f \in Nat, f <= world, NEW user, WorkingChanged(f, user)
    PROVE  /\ provider' \in Snapshots
           /\ provider'.working \in {provider.working, f}
           /\ provider'.status = "green" => provider'.observed /\ provider'.topology = provider'.working
           /\ \/ UNCHANGED discovery /\ provider'.working = provider.working
              \/ discovery' = [discovery EXCEPT !.fresh = FALSE]
           /\ closed => UNCHANGED <<provider, discovery, refresh>>
<1> USE DEF WorldInv, SnapshotInv, WorldTypes, Snapshots, Gaps, Colours, GreenIsConsistent
<1>1. CASE closed \/ KnownAlready(f)
  BY <1>1 DEF WorkingChanged
<1>2. CASE ~closed /\ ~KnownAlready(f) /\ OwnedByDiscovery(f)
  BY <1>2 DEF WorkingChanged, OwnedByDiscovery
<1>3. CASE ~closed /\ ~KnownAlready(f) /\ ~OwnedByDiscovery(f)
  BY <1>3 DEF WorkingChanged
<1> QED
  BY <1>1, <1>2, <1>3

LEMMA WorkingUnknownFacts ==
    ASSUME WorldInv, WorkingUnknown
    PROVE  /\ provider' \in Snapshots
           /\ provider'.working = provider.working
           /\ provider'.status = "green" => provider'.observed /\ provider'.topology = provider'.working
           /\ UNCHANGED discovery \/ discovery' = [discovery EXCEPT !.fresh = FALSE]
           /\ closed => UNCHANGED <<provider, discovery, refresh>>
BY DEF WorldInv, SnapshotInv, WorldTypes, Snapshots, Gaps, Colours, GreenIsConsistent, WorkingUnknown

-----------------------------------------------------------------------------
(* The invariant of the snapshot holds.                                      *)

LEMMA WorldInitInv == WorldInit => WorldInv
<1> SUFFICES ASSUME WorldInit PROVE WorldInv
  OBVIOUS
<1> USE WorldBounds
<1>1. observer \in Observers /\ provider \in Snapshots
  BY DEF WorldInit, Observers, Snapshots, Gaps, Colours, None
<1>2. sample = [on |-> TRUE, fresh |-> TRUE, value |-> 0]
  BY DEF WorldInit, NoRead, None
<1>3. WorldTypes
  <2>1. sample \in Reads
    BY <1>2 DEF Reads
  <2>2. world = 1 /\ discovery \in Discoveries /\ savedWorld \in Nat
    BY NoDiscoveryFacts DEF WorldInit, None
  <2>3. closed \in BOOLEAN
    BY DEF WorldInit
  <2> QED
    BY <1>1, <2>1, <2>2, <2>3 DEF WorldTypes
<1>4. PastInv /\ OrderInv /\ FreshInv /\ GreenIsConsistent
  BY DEF WorldInit, PastInv, OrderInv, FreshInv, GreenIsConsistent, NoRead, NoDiscovery, None
<1>5. UserInv
  BY DEF WorldInit, UserInv
<1> QED
  BY <1>3, <1>4, <1>5 DEF WorldInv, SnapshotInv

\* Steps of the observer.
LEMMA SamplingKeeps == ASSUME WorldInv, Sampling PROVE SnapshotInv'
<1> USE WorldBounds DEF WorldInv, SnapshotInv, None, Failed
<1>1. CASE TakeSample
  <2>1. WorldTypes' /\ PastInv'
    BY <1>1 DEF TakeSample, WorldTypes, PastInv, Reads
  <2>2. OrderInv' /\ FreshInv' /\ GreenIsConsistent'
    BY <1>1 DEF TakeSample, WorldTypes, PastInv, OrderInv, FreshInv, GreenIsConsistent, Reads, Observers
  <2> QED
    BY <2>1, <2>2
<1>2. CASE Poll
  <2>1. WorldTypes' /\ PastInv'
    BY <1>2, RequestedFacts DEF Poll, WorldTypes, PastInv
  <2>2. OrderInv' /\ FreshInv' /\ GreenIsConsistent'
    BY <1>2, RequestedFacts DEF Poll, OrderInv, FreshInv, GreenIsConsistent
  <2> QED
    BY <2>1, <2>2
<1>3. CASE PublishSample
  <2> DEFINE authority == sample.fresh /\ ~closed /\ ~observer.paused
  <2>0. sample' = Drained /\ UNCHANGED <<world, savedWorld, closed>>
    BY <1>3 DEF PublishSample
  <2>1. CASE UNCHANGED <<observer, provider, discovery, refresh>>
    <3>1. WorldTypes' /\ PastInv'
      BY <2>0, <2>1, DrainedFacts DEF WorldTypes, PastInv
    <3>2. OrderInv' /\ FreshInv' /\ GreenIsConsistent'
      BY <2>0, <2>1, DrainedFacts DEF OrderInv, FreshInv, GreenIsConsistent
    <3> QED
      BY <3>1, <3>2
  <2>2. CASE /\ authority /\ sample.value # Failed
             /\ observer' = [observer EXCEPT !.last = sample.value, !.failed = FALSE, !.must = FALSE]
             /\ WorkingChanged(sample.value, FALSE) \/ UNCHANGED <<provider, discovery, refresh>>
    <3>1. sample.value \in Nat /\ sample.value <= world
      BY <2>2 DEF WorldTypes, PastInv, Reads
    <3>2. /\ provider' \in Snapshots /\ provider'.working \in {provider.working, sample.value}
          /\ GreenIsConsistent'
          /\ \/ UNCHANGED discovery /\ provider'.working = provider.working
             \/ discovery' = [discovery EXCEPT !.fresh = FALSE]
      BY <2>2, <3>1, WorkingChangedFacts DEF GreenIsConsistent, WorldTypes
    <3>3. observer' \in Observers /\ observer'.last = sample.value /\ observer'.paused = observer.paused
      BY <2>2, <3>1 DEF WorldTypes, Observers
    <3>4. WorldTypes' /\ PastInv'
      BY <2>0, <3>1, <3>2, <3>3, DrainedFacts, OutdatedFacts DEF WorldTypes, PastInv
    <3>5. OrderInv' /\ FreshInv'
      BY <2>0, <3>1, <3>2, <3>3, DrainedFacts, OutdatedFacts DEF WorldTypes, OrderInv, FreshInv
    <3> QED
      BY <3>2, <3>4, <3>5
  <2>3. CASE /\ authority /\ sample.value = Failed
             /\ observer' = [observer EXCEPT !.failed = TRUE]
             /\ WorkingUnknown \/ UNCHANGED <<provider, discovery, refresh>>
    <3>1. /\ provider' \in Snapshots /\ provider'.working = provider.working
          /\ GreenIsConsistent'
          /\ UNCHANGED discovery \/ discovery' = [discovery EXCEPT !.fresh = FALSE]
      BY <2>3, WorkingUnknownFacts DEF GreenIsConsistent, WorldTypes
    <3>2. observer' \in Observers /\ observer'.last = observer.last /\ observer'.paused = observer.paused
      BY <2>3 DEF WorldTypes, Observers
    <3>3. WorldTypes' /\ PastInv'
      BY <2>0, <3>1, <3>2, DrainedFacts, OutdatedFacts DEF WorldTypes, PastInv
    <3>4. OrderInv' /\ FreshInv'
      BY <2>0, <3>1, <3>2, DrainedFacts, OutdatedFacts DEF WorldTypes, OrderInv, FreshInv
    <3> QED
      BY <3>1, <3>3, <3>4
  <2> HIDE DEF authority
  <2> QED
    BY <1>3, <2>1, <2>2, <2>3 DEF PublishSample, authority
<1> QED
  BY <1>1, <1>2, <1>3 DEF Sampling

\* Steps of a declaration read.
LEMMA DiscoveringKeeps == ASSUME WorldInv, Discovering PROVE SnapshotInv'
<1> USE WorldBounds DEF WorldInv, SnapshotInv, None
\* A result that no longer counts ends the discovery and changes nothing else.
<1>0. ASSUME DiscoveryEnds, UNCHANGED <<world, observer, sample, provider, savedWorld, closed>>
      PROVE  SnapshotInv'
  BY <1>0, NoDiscoveryFacts DEF DiscoveryEnds, WorldTypes, PastInv, OrderInv, FreshInv, GreenIsConsistent
<1>1. CASE ReadBefore
  <2>1. /\ discovery' \in Discoveries /\ discovery'.before = world /\ discovery'.stage = "before"
        /\ discovery'.after = discovery.after /\ discovery'.fresh = discovery.fresh
    BY <1>1 DEF ReadBefore, WorldTypes, Discoveries
  <2>2. UNCHANGED <<world, observer, sample, provider, savedWorld, closed>> /\ discovery.stage = "before"
    BY <1>1 DEF ReadBefore
  <2> QED
    BY <2>1, <2>2 DEF WorldTypes, PastInv, OrderInv, FreshInv, GreenIsConsistent
<1>2. CASE TakeBefore
  <2>1. CASE Dropped
    BY <1>0, <1>2, <2>1 DEF TakeBefore
  <2>2. CASE ~Dropped
    <3>1. /\ discovery' \in Discoveries /\ discovery'.before = discovery.before
          /\ discovery'.stage = "declare" /\ discovery'.after = discovery.after
      BY <1>2, <2>2 DEF TakeBefore, WorldTypes, Discoveries
    <3>2. provider' \in Snapshots /\ provider'.working = discovery.before /\ provider'.status = "yellow"
      BY <1>2, <2>2 DEF TakeBefore, WorldTypes, Discoveries, Snapshots, Gaps, Colours
    <3>3. UNCHANGED <<world, observer, sample, savedWorld, closed>> /\ discovery.stage = "before"
      BY <1>2 DEF TakeBefore
    <3> QED
      BY <3>1, <3>2, <3>3, Fields DEF WorldTypes, PastInv, OrderInv, FreshInv, GreenIsConsistent
  <2> QED
    BY <2>1, <2>2
<1>3. CASE ReadDeclarations
  <2>1. CASE Dropped
    BY <1>0, <1>3, <2>1 DEF ReadDeclarations
  <2>2. CASE ~Dropped
    <3>1. /\ discovery' \in Discoveries /\ discovery'.before = discovery.before /\ discovery'.read = world
          /\ discovery'.stage = "after" /\ discovery'.after = discovery.after
          /\ discovery'.fresh = discovery.fresh
      BY <1>3, <2>2 DEF ReadDeclarations, WorldTypes, Discoveries
    <3>2. UNCHANGED <<world, observer, sample, provider, savedWorld, closed>> /\ discovery.stage = "declare"
      BY <1>3, <2>2 DEF ReadDeclarations
    <3> QED
      BY <3>1, <3>2 DEF WorldTypes, PastInv, OrderInv, FreshInv, GreenIsConsistent, Discoveries
  <2> QED
    BY <2>1, <2>2
<1>4. CASE ReadAfter
  <2>1. /\ discovery' \in Discoveries /\ discovery'.before = discovery.before /\ discovery'.stage = "after"
        /\ discovery'.read = discovery.read /\ discovery'.after = world
        /\ discovery'.fresh = discovery.fresh
    BY <1>4 DEF ReadAfter, WorldTypes, Discoveries
  <2>2. UNCHANGED <<world, observer, sample, provider, savedWorld, closed>> /\ discovery.stage = "after"
    BY <1>4 DEF ReadAfter
  <2> QED
    BY <2>1, <2>2 DEF WorldTypes, PastInv, OrderInv, FreshInv, GreenIsConsistent
<1>5. CASE TakeAfter
  <2>0. discovery' = NoDiscovery /\ UNCHANGED <<world, observer, sample, savedWorld, closed>>
    BY <1>5 DEF TakeAfter
  <2>1. provider' \in Snapshots /\ provider'.working <= world
    <3>1. discovery.after \in Nat /\ discovery.after <= world /\ discovery.read \in Nat
      BY DEF WorldTypes, OrderInv, Discoveries
    <3>2. CASE Dropped
      BY <1>5, <3>2 DEF TakeAfter, WorldTypes, PastInv
    <3>3. CASE ~Dropped /\ ~Agree
      BY <1>5, <3>1, <3>3 DEF TakeAfter, WorldTypes, Snapshots, Gaps, Colours
    <3>4. CASE ~Dropped /\ Agree
      <4>1. provider' = [working |-> discovery.after, observed |-> TRUE, gap |-> "none",
                         status |-> "green", topology |-> discovery.read]
        BY <1>5, <3>4 DEF TakeAfter
      <4> QED
        BY <3>1, <4>1 DEF Snapshots, Gaps, Colours
    <3> QED
      BY <3>2, <3>3, <3>4
  <2>2. GreenIsConsistent'
    <3>1. CASE Dropped \/ ~Agree
      BY <1>5, <3>1 DEF TakeAfter, GreenIsConsistent, WorldTypes, Snapshots
    <3>2. CASE ~Dropped /\ Agree
      <4>1. discovery.read = discovery.after
        BY <1>5, <3>2 DEF TakeAfter, Agree, OrderInv, WorldTypes, Discoveries
      <4> QED
        BY <1>5, <3>2, <4>1 DEF TakeAfter, GreenIsConsistent
    <3> QED
      BY <3>1, <3>2
  <2>3. WorldTypes' /\ PastInv' /\ OrderInv' /\ FreshInv'
    BY <2>0, <2>1, NoDiscoveryFacts DEF WorldTypes, PastInv, OrderInv, FreshInv
  <2> QED
    BY <2>2, <2>3
<1> QED
  BY <1>1, <1>2, <1>3, <1>4, <1>5 DEF Discovering

\* What the runtime, the user and the outside do.
LEMMA RuntimeKeeps ==
    ASSUME WorldInv, ReadFails \/ StartDiscovery \/ Reconcile \/ OutsideChange \/ SaveWrites \/ SaveReturns
                 \/ LoseInterest \/ GainInterest \/ Close
    PROVE  SnapshotInv'
<1> USE WorldBounds DEF WorldInv, SnapshotInv, None
<1>1. CASE ReadFails
  <2>1. UNCHANGED <<world, savedWorld, closed>> /\ discovery' = NoDiscovery
    BY <1>1 DEF ReadFails, DiscoveryEnds
  <2>2. CASE Dropped
    BY <1>1, <2>1, <2>2, NoDiscoveryFacts DEF ReadFails, WorldTypes, PastInv, OrderInv, FreshInv, GreenIsConsistent
  <2>3. CASE ~Dropped
    <3>1. provider' \in Snapshots /\ provider'.working = provider.working /\ provider'.status = "red"
      BY <1>1, <2>3 DEF ReadFails, WorldTypes, Snapshots, Gaps, Colours
    <3>2. /\ observer' \in Observers /\ observer'.last = observer.last /\ observer'.paused = observer.paused
          /\ sample' \in {sample, Requested(sample)}
      <4>1. Announce(provider.observed /\ ~(discovery.stage # "declare"))
        BY <1>1, <2>3 DEF ReadFails
      <4> QED
        BY <4>1 DEF Announce, WorldTypes, Observers
    <3> QED
      <4>1. WorldTypes' /\ PastInv'
        BY <2>1, <3>1, <3>2, NoDiscoveryFacts, RequestedFacts DEF WorldTypes, PastInv
      <4>2. OrderInv' /\ GreenIsConsistent'
        BY <2>1, <3>1, NoDiscoveryFacts DEF WorldTypes, OrderInv, GreenIsConsistent
      <4>3. FreshInv'
        BY <2>1, <3>1, <3>2, NoDiscoveryFacts, RequestedFacts, Fields DEF FreshInv
      <4> QED
        BY <4>1, <4>2, <4>3
  <2> QED
    BY <2>2, <2>3
<1>2. CASE StartDiscovery \/ Reconcile
  <2>1. \/ discovery' = discovery
        \/ /\ discovery' \in Discoveries /\ discovery'.stage = "before"
           /\ discovery'.before = 0 /\ discovery'.after = 0
    <3>1. ASSUME NEW user \in BOOLEAN
          PROVE  /\ Began(user) \in Discoveries /\ Began(user).stage = "before"
                 /\ Began(user).before = 0 /\ Began(user).after = 0
      BY DEF Began, NoDiscovery, Discoveries, None
    <3>2. CASE discovery' = discovery
      BY <3>2
    <3>3. CASE discovery' = Began(TRUE) \/ discovery' = Began(refresh.user)
      BY <3>1, <3>3 DEF WorldTypes, UserInv
    <3> QED
      BY <1>2, <3>2, <3>3 DEF StartDiscovery, Reconcile
  <2>2. UNCHANGED <<world, observer, sample, provider, savedWorld, closed>>
    BY <1>2 DEF StartDiscovery, Reconcile
  <2> QED
    BY <2>1, <2>2 DEF WorldTypes, PastInv, OrderInv, FreshInv, GreenIsConsistent
<1>3. CASE OutsideChange \/ SaveWrites
  <2>1. /\ world' = world + 1 /\ world < MaxWorlds /\ savedWorld' \in {savedWorld, world', Failed}
        /\ UNCHANGED <<observer, sample, provider, discovery, closed>>
    BY <1>3 DEF OutsideChange, SaveWrites
  <2> QED
    BY <2>1 DEF WorldTypes, PastInv, OrderInv, FreshInv, GreenIsConsistent, Observers, Snapshots, Reads, Discoveries, Failed
<1>4. CASE SaveReturns
  <2>0. UNCHANGED <<world, closed>> /\ savedWorld' = 0 /\ sample' = Requested(sample)
    BY <1>4 DEF SaveReturns
  <2>1. CASE savedWorld = Failed
    <3>1. observer' \in Observers /\ observer'.last = observer.last /\ observer'.paused = observer.paused
      BY <1>4, <2>1 DEF SaveReturns, WorldTypes, Observers
    <3>2. WorkingUnknown
      BY <1>4, <2>1 DEF SaveReturns
    <3> QED
      <4>1. WorldTypes' /\ PastInv' /\ GreenIsConsistent'
        BY <2>0, <3>1, <3>2, WorkingUnknownFacts, OutdatedFacts, RequestedFacts DEF WorldTypes, PastInv, GreenIsConsistent
      <4>2. OrderInv' /\ FreshInv'
        BY <2>0, <3>1, <3>2, WorkingUnknownFacts, OutdatedFacts, RequestedFacts, Fields DEF WorldTypes, PastInv, OrderInv, FreshInv
      <4> QED
        BY <4>1, <4>2
  <2>2. CASE savedWorld # Failed
    <3>1. observer' \in Observers /\ observer'.last = savedWorld /\ observer'.paused = observer.paused
      BY <1>4, <2>2 DEF SaveReturns, WorldTypes, Observers
    <3>2. WorkingChanged(savedWorld, FALSE) /\ savedWorld <= world
      BY <1>4, <2>2 DEF SaveReturns, PastInv
    <3>3. /\ provider' \in Snapshots /\ provider'.working \in {provider.working, savedWorld}
          /\ GreenIsConsistent'
          /\ \/ UNCHANGED discovery /\ provider'.working = provider.working
             \/ discovery' = [discovery EXCEPT !.fresh = FALSE]
      BY <3>2, WorkingChangedFacts DEF WorldTypes, GreenIsConsistent
    <3> QED
      <4>1. WorldTypes' /\ PastInv' /\ GreenIsConsistent'
        BY <2>0, <3>1, <3>2, <3>3, OutdatedFacts, RequestedFacts DEF WorldTypes, PastInv, GreenIsConsistent
      <4>2. OrderInv' /\ FreshInv'
        BY <2>0, <3>1, <3>2, <3>3, OutdatedFacts, RequestedFacts, Fields DEF WorldTypes, PastInv, OrderInv, FreshInv
      <4> QED
        BY <4>1, <4>2
  <2> QED
    BY <2>1, <2>2
<1>5. CASE LoseInterest \/ GainInterest
  <2>1. /\ provider' \in Snapshots /\ provider'.working = provider.working /\ provider'.status # "green"
    BY <1>5 DEF LoseInterest, GainInterest, WorkingUnobserved, WorldTypes, Snapshots, Gaps, Colours
  <2>2. observer' \in Observers /\ observer'.last = observer.last
    BY <1>5 DEF LoseInterest, GainInterest, WorldTypes, Observers
  <2>3. /\ sample' \in Reads /\ sample'.value \in {sample.value, 0}
        /\ ~sample'.fresh \/ sample'.value = 0
    <3>1. CASE sample' = [sample EXCEPT !.fresh = FALSE]
      BY <3>1 DEF WorldTypes, Reads
    <3>2. CASE sample' = [on |-> TRUE, fresh |-> TRUE, value |-> 0]
      BY <3>2 DEF Reads
    <3> QED
      BY <1>5, <3>1, <3>2 DEF LoseInterest, GainInterest, NoRead
  <2>4. UNCHANGED <<world, discovery, savedWorld, closed>>
    BY <1>5 DEF LoseInterest, GainInterest
  <2> QED
    BY <2>1, <2>2, <2>3, <2>4 DEF WorldTypes, PastInv, OrderInv, FreshInv, GreenIsConsistent
<1>6. CASE Close
  BY <1>6 DEF Close, WorldTypes, PastInv, OrderInv, FreshInv, GreenIsConsistent
<1> QED
  BY <1>1, <1>2, <1>3, <1>4, <1>5, <1>6

\* A discovery is scheduled with the publisher of a save, a sample or the discovery before it.
LEMMA UserKeeps == ASSUME WorldInv, WorldNext PROVE UserInv'
<1> USE DEF WorldInv, SnapshotInv
<1>1. CASE StartDiscovery \/ Reconcile \/ Close
  <2>1. CASE refresh' = [refresh EXCEPT !.timer = FALSE, !.again = TRUE]
    BY <2>1 DEF UserInv
  <2>2. CASE refresh' = [refresh EXCEPT !.again = TRUE]
    BY <2>2 DEF UserInv
  <2>3. CASE refresh' = [timer |-> FALSE, again |-> FALSE, user |-> FALSE]
    BY <2>3 DEF UserInv
  <2>4. CASE refresh' = [timer |-> FALSE, again |-> refresh.again, user |-> FALSE]
    BY <2>4 DEF UserInv
  <2> QED
    BY <1>1, <2>1, <2>2, <2>3, <2>4 DEF StartDiscovery, Reconcile, Close
<1>2. ASSUME NEW user \in BOOLEAN, refresh' = Scheduled(user) PROVE UserInv'
  BY <1>2 DEF Scheduled, UserInv
<1>3. discovery.user \in BOOLEAN
  BY DEF WorldTypes, Discoveries
<1>4. DiscoveryEnds => UserInv'
  BY <1>2, <1>3 DEF DiscoveryEnds, UserInv
<1>5. ASSUME NEW f, WorkingChanged(f, FALSE) PROVE UserInv'
  BY <1>2, <1>5 DEF WorkingChanged, UserInv
<1>6. WorkingUnknown => UserInv'
  BY DEF WorkingUnknown, UserInv
<1>7. refresh' = refresh => UserInv'
  BY DEF UserInv
<1>8. CASE Sampling
  BY <1>5, <1>6, <1>7, <1>8 DEF Sampling, TakeSample, Poll, PublishSample
<1>9. CASE TakeAfter
  BY <1>2, <1>3, <1>7, <1>9 DEF TakeAfter
<1>10. CASE Discovering /\ ~TakeAfter
  BY <1>4, <1>7, <1>10 DEF Discovering, ReadBefore, TakeBefore, ReadDeclarations, ReadAfter
<1>11. CASE ReadFails \/ SaveReturns
  BY <1>4, <1>5, <1>6, <1>11 DEF ReadFails, SaveReturns
<1>12. CASE OutsideChange \/ SaveWrites \/ LoseInterest \/ GainInterest
  BY <1>7, <1>12 DEF OutsideChange, SaveWrites, LoseInterest, GainInterest
<1> QED
  BY <1>1, <1>8, <1>9, <1>10, <1>11, <1>12 DEF WorldNext

LEMMA WorldStepInv == WorldInv /\ [WorldNext]_worldVars => WorldInv'
<1> SUFFICES ASSUME WorldInv, [WorldNext]_worldVars PROVE WorldInv'
  OBVIOUS
<1>1. CASE WorldNext
  BY <1>1, SamplingKeeps, DiscoveringKeeps, RuntimeKeeps, UserKeeps DEF WorldNext, WorldInv
<1>2. CASE UNCHANGED worldVars
  BY <1>2 DEF worldVars, WorldInv, SnapshotInv, UserInv, WorldTypes, PastInv, OrderInv, FreshInv, GreenIsConsistent
<1> QED
  BY <1>1, <1>2

\* The inductive invariant holds: what was sampled is ordered as it was read, and
\* a fresh answer is no older than what is shown (drain of working-world-observer.ts).
THEOREM WorldInvHolds == WorldSpec => []WorldInv
BY WorldInitInv, WorldStepInv, PTL DEF WorldSpec

-----------------------------------------------------------------------------
(* What follows for the snapshot.                                            *)

\* A topology shown as consistent was read from the world whose fingerprint
\* stands beside it (scheduleDiscovery and discover, provider.ts).
THEOREM GreenIsConsistentHolds == WorldSpec => []GreenIsConsistent
<1>1. WorldInv => GreenIsConsistent
  BY DEF WorldInv, SnapshotInv
<1> QED
  BY <1>1, WorldInvHolds, PTL

\* No late answer brings back an older world or publishes after the shutdown
\* (drain of working-world-observer.ts, currentAttempt and disposed in provider.ts).
THEOREM LateIsNothingHolds == WorldSpec => LateIsNothing
<1>1. WorldInv /\ [WorldNext]_worldVars => [NeverBack /\ (closed => UNCHANGED <<provider, refresh>>)]_worldVars
  <2> SUFFICES ASSUME WorldInv, WorldNext PROVE NeverBack /\ (closed => UNCHANGED <<provider, refresh>>)
    BY DEF worldVars
  <2> USE DEF WorldInv, SnapshotInv, None
  <2>1. CASE SaveReturns
    <3>1. closed => UNCHANGED <<provider, refresh>>
      BY <2>1 DEF SaveReturns, WorkingChanged, WorkingUnknown
    <3> QED
      BY <2>1, <3>1 DEF NeverBack
  <2>2. CASE PublishSample
    <3>1. closed => UNCHANGED <<provider, refresh>>
      BY <2>2 DEF PublishSample
    <3>2. observer'.last >= observer.last
      <4>1. CASE observer'.last = observer.last
        BY <4>1, Fields
      <4>2. CASE observer'.last = sample.value /\ observer.last <= sample.value
        BY <4>2, Fields
      <4> QED
        BY <2>2, <4>1, <4>2 DEF PublishSample, FreshInv, WorldTypes, Observers
    <3> QED
      BY <2>2, <3>1, <3>2 DEF NeverBack
  <2>3. CASE ReadFails
    <3>1. observer'.last >= observer.last /\ provider'.working >= provider.working
      <4>1. observer'.last = observer.last
        BY <2>3 DEF ReadFails, Announce, WorldTypes, Observers
      <4>2. provider'.working = provider.working
        BY <2>3 DEF ReadFails, WorldTypes, Snapshots
      <4> QED
        BY <4>1, <4>2, Fields
    <3>2. closed => UNCHANGED <<provider, refresh>>
      BY <2>3 DEF ReadFails, Dropped, DiscoveryEnds
    <3> QED
      BY <3>1, <3>2 DEF NeverBack
  <2>4. CASE TakeBefore \/ TakeAfter
    <3>1. observer' = observer
      BY <2>4 DEF TakeBefore, TakeAfter
    <3>2. closed => UNCHANGED <<provider, refresh>>
      BY <2>4 DEF TakeBefore, TakeAfter, Dropped, DiscoveryEnds
    <3>3. provider'.working >= provider.working
      <4>1. CASE provider' = provider
        BY <4>1, Fields
      <4>2. CASE TakeBefore /\ provider' # provider
        BY <4>2, Fields DEF TakeBefore, Dropped, FreshInv, WorldTypes, Snapshots
      <4>3. CASE TakeAfter /\ provider' # provider
        <5>1. provider.working <= discovery.after
          BY <4>3, Fields DEF TakeAfter, Dropped, OrderInv, FreshInv
        <5>2. provider'.working = discovery.after
          <6>1. CASE ~Agree
            BY <4>3, <6>1 DEF TakeAfter, WorldTypes, Snapshots
          <6>2. CASE Agree
            BY <4>3, <6>2 DEF TakeAfter
          <6> QED
            BY <6>1, <6>2
        <5> QED
          BY <5>1, <5>2, Fields
      <4> QED
        BY <2>4, <4>1, <4>2, <4>3
    <3> QED
      BY <3>1, <3>2, <3>3 DEF NeverBack, WorldTypes, Observers
  <2>5. CASE LoseInterest \/ GainInterest \/ Close
    <3>1. observer'.last = observer.last /\ provider'.working = provider.working
      BY <2>5 DEF LoseInterest, GainInterest, Close, WorkingUnobserved, WorldTypes, Observers, Snapshots
    <3>2. ~closed
      BY <2>5 DEF LoseInterest, GainInterest, Close
    <3> QED
      BY <3>1, <3>2 DEF NeverBack, WorldTypes, Observers, Snapshots
  <2>6. CASE UNCHANGED <<observer, provider>> /\ (closed => UNCHANGED refresh)
    BY <2>6 DEF NeverBack, WorldTypes, Observers, Snapshots
  <2>7. CASE TakeSample \/ Poll \/ ReadBefore \/ ReadDeclarations \/ ReadAfter
             \/ StartDiscovery \/ Reconcile \/ OutsideChange \/ SaveWrites
    BY <2>6, <2>7 DEF TakeSample, Poll, ReadBefore, ReadDeclarations, ReadAfter, Dropped, DiscoveryEnds,
                      StartDiscovery, Reconcile, OutsideChange, SaveWrites
  <2> QED
    BY <2>1, <2>2, <2>3, <2>4, <2>5, <2>7 DEF WorldNext, Sampling, Discovering
<1> QED
  BY <1>1, WorldInvHolds, PTL DEF WorldSpec, LateIsNothing
=============================================================================
