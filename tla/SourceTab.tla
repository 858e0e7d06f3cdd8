----------------------------- MODULE SourceTab -----------------------------
(***************************************************************************)
(* The source tab of the renderer (app/renderer/App.tsx) over SourceFiles: *)
(* opening, typing, announced changes, saving, reloading, closing, and the *)
(* replacement of the core process under an open tab.                      *)
(*                                                                         *)
(* The code fences its answers with generation and sequence numbers.  Here *)
(* a call whose generation is superseded is dropped (NoCall), and since[p] *)
(* says whether an announcement arrived after p noted the last sequence.   *)
(***************************************************************************)
EXTENDS SourceFiles

CONSTANT ActEarly   \* may the user open, save, reload or close before a recovery
                    \* or a save is through?

MaxInbox == 2   \* bound: watch and unwatch requests waiting at once

ASSUME ActEarlyIsBoolean == ActEarly \in BOOLEAN

VARIABLES
    tab,       \* the tab: status, content, savedContent, revision (0 = "")
    lastRev,   \* fileEventsRef: the revision announced last, {} after a clear
    since,     \* announcements since open, reload and save took their sequence
    attempt,   \* read attempts of openFile
    before,    \* what the tab held when Reload was pressed
    crossed    \* history: the user acted while an announcement or a recovery was
               \* being read, or a failed save hid a conflict

tabVars == <<tab, lastRev, since, attempt, before, crossed>>
vars == <<coreVars, tabVars>>

Blank == MaxContents + 1   \* the empty text of a tab that has not been read yet
Closed == [open |-> FALSE, status |-> "none", content |-> Blank, saved |-> Blank, revision |-> 0]
Loading == [Closed EXCEPT !.open = TRUE, !.status = "loading"]
Status(s) == [tab EXCEPT !.status = s]
Showing(c) == [tab EXCEPT !.status = "saved", !.content = c, !.saved = c, !.revision = c]
Protected == tab.content # tab.saved \/ tab.status \in {"saving", "conflict", "unknown"}
Nothing == [content |-> 0, revision |-> 0]
Settled == ActEarly \/ (call["recover"].kind = "none" /\ save.step = "none")
Opening == call["open"].kind # "none"

Init ==
    /\ CoreInit
    /\ tab = Closed /\ lastRev = {} /\ attempt = 0 /\ crossed = FALSE
    /\ since = [open |-> FALSE, reload |-> FALSE, save |-> FALSE]
    /\ before = Nothing

coreRest == <<up, disk, made, onDisk, watch, emit, save, posted, failed>>

Replied(p, kind) == call[p].kind = kind /\ call[p].done
Drop(ps) == [p \in Calls |-> IF p \in ps THEN NoCall ELSE call[p]]

OpenFile ==
    /\ ~tab.open /\ Settled /\ Len(inbox) < MaxInbox
    /\ tab' = Loading /\ attempt' = 0
    /\ call' = [call EXCEPT !["open"] = Asked("watch")]
    /\ inbox' = IF up THEN Append(inbox, "open") ELSE inbox
    /\ UNCHANGED <<coreRest, lastRev, since, before>>

\* The sequence is noted and the file read, up to three times.
OpenAgain(n) ==
    /\ since' = [since EXCEPT !.open = FALSE] /\ attempt' = n
    /\ call' = [call EXCEPT !["open"] = Asked("read")]
    /\ UNCHANGED tab
SettleOpen(t) ==
    /\ tab' = t /\ call' = Drop({"open"})
    /\ since' = [since EXCEPT !.open = FALSE] /\ attempt' = 0
OpenWatched ==
    /\ Replied("open", "watch")
    /\ IF call["open"].value = 0 THEN SettleOpen(Status("error")) ELSE OpenAgain(0)
    /\ UNCHANGED <<coreRest, inbox, lastRev, before, crossed>>
OpenRead ==
    /\ Replied("open", "read")
    /\ LET v == call["open"].value
           overtaken == since.open /\ lastRev # {v}
       IN  IF v # Gone /\ ~overtaken THEN SettleOpen(Showing(v))
           ELSE IF since.open /\ attempt < 2 THEN OpenAgain(attempt + 1)
           ELSE SettleOpen(Status("error"))
    /\ UNCHANGED <<coreRest, inbox, lastRev, before, crossed>>

\* reloadObservedFile: an announcement outdates the read of an earlier one.
ReceiveChange ==
    /\ up /\ posted # <<>>
    /\ posted' = Tail(posted)
    /\ LET rev == Head(posted) IN
       /\ lastRev' = {rev}
       /\ since' = [open |-> call["open"].kind = "read", reload |-> call["reload"].kind = "read",
                    save |-> save.step # "none"]
       /\ IF ~tab.open \/ Opening \/ (rev # Gone /\ rev = tab.revision)
          THEN UNCHANGED tab /\ call' = Drop({"observe"})
          ELSE /\ tab' = CASE Protected -> Status(IF tab.status = "unknown" THEN "unknown" ELSE "conflict")
                           [] ~Protected /\ rev = Gone -> Status("error")
                           [] OTHER -> tab
               /\ call' = [call EXCEPT !["observe"] =
                              IF Protected \/ rev = Gone THEN NoCall ELSE Asked("read")]
    /\ UNCHANGED <<up, disk, made, onDisk, watch, emit, inbox, save, failed, attempt, before, crossed>>
FinishObserve ==
    /\ Replied("observe", "read")
    /\ call' = Drop({"observe"})
    /\ LET v == call["observe"].value IN
       tab' = CASE v = Gone /\ lastRev # {tab.revision} -> Status("error")
                [] v # Gone /\ lastRev = {v} /\ ~Protected /\ tab.revision # v -> Showing(v)
                [] OTHER -> tab
    /\ UNCHANGED <<coreRest, inbox, lastRev, since, attempt, before, crossed>>

\* The editor's onChange: a new text, or back to the one saved.
Type ==
    /\ tab.open /\ tab.revision # 0 /\ tab.status # "loading"
    /\ \E c \in ({made + 1} \cap Content) \cup {tab.saved} :
        /\ c # tab.content
        /\ made' = IF c > made THEN c ELSE made
        /\ tab' = [tab EXCEPT !.content = c,
                     !.status = IF @ \in {"conflict", "unknown", "error", "saving"} THEN @
                                ELSE IF c = tab.saved THEN "saved" ELSE "dirty"]
    /\ UNCHANGED <<up, disk, onDisk, watch, emit, save, posted, inbox, call, failed>>
    /\ UNCHANGED <<lastRev, since, attempt, before>>

SaveFile ==
    /\ up /\ Settled /\ tab.status = "dirty" /\ tab.revision # 0 /\ save.step = "none"
    /\ save' = [NoSave EXCEPT !.step = "queued", !.base = tab.revision, !.content = tab.content]
    /\ since' = [since EXCEPT !.save = FALSE]
    /\ tab' = Status("saving")
    /\ UNCHANGED <<up, disk, made, onDisk, watch, emit, posted, inbox, call, failed>>
    /\ UNCHANGED <<lastRev, attempt, before>>
\* An announcement of another text came during the save.  Mutant: its status is overwritten.
OvertakenBug == FALSE

Overtaken == since.save /\ lastRev \cap {save.content, save.base} = {}

FinishSave ==
    /\ save.step = "done"
    /\ save' = NoSave
    /\ tab' =
        IF ~tab.open THEN tab
        ELSE CASE save.outcome = "unknown"  -> Status("unknown")
               [] save.outcome = "conflict" -> Status("conflict")
               [] save.outcome = "failed"   -> Status(IF tab.content # tab.saved THEN "dirty" ELSE "error")
               [] save.outcome = "ok" /\ Overtaken -> Status("conflict")
               [] OTHER -> [tab EXCEPT !.saved = save.content, !.revision = save.content,
                              !.status = IF tab.content = save.content THEN "saved" ELSE "dirty"]
    /\ crossed' = (crossed \/ (save.outcome = "failed" /\ tab.status = "conflict"))
    /\ since' = [since EXCEPT !.save = FALSE]
    /\ UNCHANGED <<up, disk, made, onDisk, watch, emit, posted, inbox, call, failed>>
    /\ UNCHANGED <<lastRev, attempt, before>>

\* Reload disk, and Check disk after a save whose outcome is unknown.
ReloadFile ==
    /\ up /\ Settled /\ tab.status \in {"conflict", "unknown", "error"} /\ save.step = "none"
    /\ before' = [content |-> tab.content, revision |-> tab.revision]
    /\ since' = [since EXCEPT !.reload = FALSE]
    /\ call' = [call EXCEPT !["reload"] = Asked("read")]
    /\ UNCHANGED <<coreRest, inbox, tab, lastRev, attempt>>
\* The tab is no more what it was when Reload was pressed.  Mutant: it is replaced all the same.
MovedOnBug == FALSE

MovedOn == tab.content # before.content \/ tab.revision # before.revision

FinishReload ==
    /\ Replied("reload", "read")
    /\ call' = Drop({"reload"})
    /\ LET v == call["reload"].value IN
       tab' = IF v = Gone \/ MovedOn \/ (since.reload /\ lastRev # {v}) THEN tab
              ELSE IF tab.status # "unknown" \/ v = tab.content THEN Showing(v)
              ELSE IF v = tab.saved THEN [tab EXCEPT !.revision = v, !.status = "dirty"]
              ELSE Status("conflict")
    /\ before' = Nothing /\ since' = [since EXCEPT !.reload = FALSE]
    /\ UNCHANGED <<coreRest, inbox, lastRev, attempt, crossed>>

Forget ==
    /\ since' = [since EXCEPT !.open = FALSE, !.reload = FALSE]
    /\ attempt' = 0 /\ before' = Nothing
CloseFile ==
    /\ tab.open /\ ~Protected /\ Settled /\ Len(inbox) < MaxInbox
    /\ tab' = Closed
    /\ call' = Drop({"open", "observe", "reload"}) /\ Forget
    /\ LET Orphan(p) == IF p = "open" THEN "orphan" ELSE p IN
       /\ inbox' = [i \in DOMAIN inbox |-> Orphan(inbox[i])] \o (IF up THEN <<"unwatch">> ELSE <<>>)
       /\ watch' = [watch EXCEPT !.waiting = {Orphan(p) : p \in @}]
    /\ UNCHANGED <<up, disk, made, onDisk, emit, save, posted, failed, lastRev>>

(***************************************************************************)
(* The core dies: what it was doing is gone, calls are answered with       *)
(* nothing and a save with an unknown outcome.  The window hears of the    *)
(* next core, forgets the announcements, supersedes every call and looks   *)
(* at the open file again.                                                 *)
(***************************************************************************)
Crash ==
    /\ up /\ Fault("crash") /\ up' = FALSE
    /\ watch' = NoWatch /\ emit' = [on |-> FALSE, seen |-> {}] /\ inbox' = <<>> /\ posted' = <<>>
    /\ call' = [p \in Calls |-> IF call[p].kind = "none" THEN NoCall
                                ELSE [call[p] EXCEPT !.done = TRUE, !.value = 0]]
    /\ save' = IF save.step = "none" THEN save
               ELSE [save EXCEPT !.step = "done", !.outcome = "unknown"]
    /\ UNCHANGED <<disk, made, onDisk, tab, lastRev, since, attempt, before, crossed>>
Recover ==
    /\ ~up /\ save.step = "none"
    /\ up' = TRUE /\ lastRev' = {}
    /\ call' = [Drop(Calls) EXCEPT !["recover"] = [kind |-> "world", done |-> TRUE, value |-> 0]]
    /\ Forget
    /\ UNCHANGED <<disk, made, onDisk, watch, emit, inbox, save, posted, failed, tab, crossed>>
\* workspace.open answers: the files that are open by now are watched again.
RecoverOpened ==
    /\ Replied("recover", "world")
    /\ call' = [call EXCEPT !["recover"] = IF tab.open THEN Asked("watch") ELSE NoCall]
    /\ inbox' = IF tab.open THEN Append(inbox, "recover") ELSE inbox
    /\ UNCHANGED <<coreRest, tabVars>>
\* Nothing is applied to a closed tab; a newer announcement has its own read.
Recovered(v) ==
    /\ call' = Drop({"recover"})
    /\ tab' = CASE ~tab.open -> tab
                [] tab.open /\ v = 0 -> Status(IF Protected THEN "conflict" ELSE "error")
                [] tab.open /\ v # 0 /\ lastRev \notin {{}, {v}} -> tab
                [] OTHER -> IF Protected
                            THEN Status(CASE tab.status = "unknown" -> "unknown"
                                          [] tab.status # "unknown" /\ tab.revision = v -> "dirty"
                                          [] OTHER -> "conflict")
                            ELSE Showing(v)
RecoverWatched ==
    /\ Replied("recover", "watch")
    /\ IF tab.open /\ call["recover"].value # 0
       THEN call' = [call EXCEPT !["recover"] = Asked("read")] /\ UNCHANGED tab
       ELSE Recovered(0)
    /\ UNCHANGED <<coreRest, inbox, lastRev, since, attempt, before, crossed>>
RecoverRead ==
    /\ Replied("recover", "read")
    /\ Recovered(call["recover"].value)
    /\ UNCHANGED <<coreRest, inbox, lastRev, since, attempt, before, crossed>>

Answers ==
    \/ OpenWatched \/ OpenRead \/ ReceiveChange \/ FinishObserve \/ FinishSave
    \/ FinishReload \/ Recover \/ RecoverOpened \/ RecoverWatched \/ RecoverRead
User ==
    /\ OpenFile \/ Type \/ SaveFile \/ ReloadFile \/ CloseFile
    /\ crossed' = (crossed \/ \E p \in {"observe", "recover"} : call[p].kind # "none")

Next ==
    \/ CoreNext /\ UNCHANGED tabVars
    \/ Answers \/ User \/ Crash

Spec == Init /\ [][Next]_vars
\* What the processes owe: every request is served, every answer is taken, a
\* lost core is replaced.  Nothing is owed by the user, the outside or a fault.
FairSpec ==
    /\ Spec /\ CoreFairness
    /\ WF_vars(OpenWatched) /\ WF_vars(OpenRead) /\ WF_vars(ReceiveChange)
    /\ WF_vars(FinishObserve) /\ WF_vars(FinishSave) /\ WF_vars(FinishReload)
    /\ WF_vars(Recover) /\ WF_vars(RecoverOpened) /\ WF_vars(RecoverWatched) /\ WF_vars(RecoverRead)

-----------------------------------------------------------------------------
\* Text typed and not saved leaves the tab by the user's hand only: no
\* announcement, answer or recovery replaces it, and a reload replaces only
\* what was there when it was asked for.
TypingKept ==
    [][tab.open /\ tab.content \notin {Blank, tab.saved} =>
        \/ tab'.content = tab.content \/ Type
        \/ FinishReload /\ tab.content = before.content]_vars

\* The revision a save will be conditioned on is the one of the text the user
\* was shown as saved: a save can only replace what the user has seen.
BaseIsSeen == tab.revision # 0 => tab.saved = tab.revision

\* A tab says "saved" only of a text that has been the file's content, also
\* when the core dies between the rename and its answer.
SavedWasOnDisk == tab.status = "saved" => tab.content \in onDisk

\* The core watches no file for a tab that is closed, once the requests are handled.
NoWatchLeft ==
    watch.handle => tab.open \/ \E i \in DOMAIN inbox : inbox[i] = "unwatch"

\* The tab and the core agree on what was seen, saved and watched.
TabIsTrue == BaseIsSeen /\ SavedWasOnDisk /\ NoWatchLeft

\* A save replaces an outside edit only when that edit came after the second
\* look, in the moment before the rename.
OutsideEditKept ==
    [][save.step = "final" /\ save'.step = "renamed" => disk = save.base \/ save.late]_vars

\* Whatever deletions, crossing answers and a core replacement do, a tab of a
\* watched file that calls itself saved does not show an outdated text forever,
\* as long as no watcher and no file operation failed and nobody typed over the
\* read of a change.
Outdated == up /\ tab.open /\ tab.status = "saved" /\ disk \notin {Gone, tab.content}
Unnoticed == Outdated /\ watch.handle /\ failed \notin {"watch", "io"} /\ ~crossed
FollowsDisk == []<>~Unnoticed

\* Every wait of the user ends.
Busy == tab.status \in {"loading", "saving"}
WaitsEnd == []<>~Busy

\* The two together: the tab gets where the disk is.
TabFollows == FollowsDisk /\ WaitsEnd
=============================================================================
