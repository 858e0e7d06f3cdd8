---------------------------- MODULE SourceFiles ----------------------------
(***************************************************************************)
(* One file of a working tree as the core sees it (core/files.ts,          *)
(* core/watchers.ts and the file handlers of core/worker-runtime.ts): the  *)
(* disk, which anyone may write, the watcher of the file's directory, the  *)
(* announcement of a change, plain reads and the conditional save.         *)
(* A content stands for its bytes and for their revision, the hash of them.*)
(***************************************************************************)
EXTENDS Naturals, Sequences

CONSTANTS
    MaxContents,  \* how many different contents the file ever has
    MaxPosted,    \* announcements under way to the renderer
    Faults        \* what may go wrong, once

ASSUME BoundsAreNat == MaxContents \in Nat \ {0} /\ MaxPosted \in Nat \ {0}
ASSUME FaultsAreKnown == Faults \subseteq {"gone", "watch", "io", "crash"}

Gone == 0                     \* no file; also the revision null of an announcement
Content == 1 .. MaxContents
Calls == {"open", "recover", "observe", "reload"}   \* what the renderer may be waiting for

VARIABLES
    up,      \* the core process runs
    disk,    \* the content on disk, or Gone
    made,    \* contents made up so far: 1 .. made
    onDisk,  \* history: every content the file has had
    watch,   \* the watcher of the file, and who waits for its creation
    emit,    \* the newest emitFileChange and what it has read
    inbox,   \* watch and unwatch requests, in the order they were sent
    call,    \* the renderer's watches and reads, and their answers
    save,    \* the save of the renderer, step by step
    posted,  \* announced revisions, in order
    failed   \* history: a watcher or a file operation has failed

coreVars == <<up, disk, made, onDisk, watch, emit, inbox, call, save, posted, failed>>

NoCall == [kind |-> "none", done |-> FALSE, value |-> 0]
NoSave == [step |-> "none", base |-> 0, content |-> 0, late |-> FALSE, outcome |-> "none"]
NoWatch == [desired |-> FALSE, creating |-> FALSE, waiting |-> {}, handle |-> FALSE, stirred |-> FALSE]
\* unwatch.  Mutant: a watcher that is still being created stays desired.
UnwatchedBug(w) == [w EXCEPT !.handle = FALSE, !.stirred = FALSE]

Unwatched(w) == [w EXCEPT !.desired = FALSE, !.handle = FALSE, !.stirred = FALSE]

\* invoke: a request to a core that is not running is answered at once, with nothing.
Asked(kind) == [kind |-> kind, done |-> ~up, value |-> 0]
Answered(who, value) ==
    [p \in Calls |-> IF p \in who /\ call[p].kind = "watch"
                     THEN [call[p] EXCEPT !.done = TRUE, !.value = value] ELSE call[p]]

CoreInit ==
    /\ up = TRUE /\ disk = 1 /\ made = 1 /\ onDisk = {1}
    /\ watch = NoWatch /\ emit = [on |-> FALSE, seen |-> {}]
    /\ inbox = <<>> /\ call = [p \in Calls |-> NoCall]
    /\ save = NoSave /\ posted = <<>> /\ failed = "none"

Fault(kind) == kind \in Faults /\ failed = "none" /\ failed' = kind
NoFault == UNCHANGED failed

\* The file gets content c (or is removed); the directory watcher hears of it.
Write(c) ==
    /\ disk' = c
    /\ onDisk' = onDisk \cup ({c} \ {Gone})
    /\ watch' = [watch EXCEPT !.stirred = @ \/ watch.handle]

\* Anyone else: an editor, an agent, a checkout.
OutsideWrite ==
    /\ \/ \E c \in {made + 1} \cap Content : Write(c) /\ made' = c /\ NoFault
       \/ disk # Gone /\ Write(Gone) /\ UNCHANGED made /\ Fault("gone")
    /\ save' = [save EXCEPT !.late = @ \/ save.step = "final"]
    /\ UNCHANGED <<up, emit, inbox, call, posted>>

HandleWatch ==
    /\ up /\ inbox # <<>> /\ Head(inbox) # "unwatch"
    /\ inbox' = Tail(inbox)
    /\ IF watch.handle
       THEN /\ watch' = [watch EXCEPT !.desired = TRUE]
            /\ call' = Answered({Head(inbox)}, 1)
       ELSE /\ watch' = [watch EXCEPT !.desired = TRUE, !.creating = TRUE,
                                      !.waiting = @ \cup {Head(inbox)}]
            /\ UNCHANGED call
    /\ UNCHANGED <<up, disk, made, onDisk, emit, save, posted, failed>>

\* create: resolving the path fails while the file is missing. A handle nobody
\* desires any more is closed as soon as it exists.
WatchCreated ==
    /\ up /\ watch.creating
    /\ \/ /\ disk # Gone /\ NoFault
          /\ watch' = [watch EXCEPT !.creating = FALSE, !.waiting = {}, !.handle = watch.desired]
          /\ call' = Answered(watch.waiting, 1)
       \/ /\ IF disk = Gone THEN NoFault ELSE Fault("io")
          /\ watch' = [watch EXCEPT !.creating = FALSE, !.waiting = {}]
          /\ call' = Answered(watch.waiting, 0)
    /\ UNCHANGED <<up, disk, made, onDisk, emit, inbox, save, posted>>

\* file.unwatch also outdates an announcement that is still being read.
HandleUnwatch ==
    /\ up /\ inbox # <<>> /\ Head(inbox) = "unwatch"
    /\ inbox' = Tail(inbox)
    /\ watch' = Unwatched(watch)
    /\ emit' = [on |-> FALSE, seen |-> {}]
    /\ UNCHANGED <<up, disk, made, onDisk, call, save, posted, failed>>

\* The debounce timer runs out: a new read generation replaces the one under way.
Debounced ==
    /\ up /\ watch.stirred
    /\ watch' = [watch EXCEPT !.stirred = FALSE]
    /\ emit' = [on |-> TRUE, seen |-> {}]
    /\ UNCHANGED <<up, disk, made, onDisk, inbox, call, save, posted, failed>>

EmitRead ==
    /\ up /\ emit.on /\ emit.seen = {}
    /\ \/ emit' = [emit EXCEPT !.seen = {disk}] /\ NoFault
       \/ emit' = [emit EXCEPT !.seen = {Gone}] /\ Fault("io")
    /\ UNCHANGED <<up, disk, made, onDisk, watch, inbox, call, save, posted>>

EmitPost ==
    /\ up /\ emit.on /\ Len(posted) < MaxPosted
    /\ \E c \in emit.seen : posted' = Append(posted, c)
    /\ emit' = [on |-> FALSE, seen |-> {}]
    /\ UNCHANGED <<up, disk, made, onDisk, watch, inbox, call, save, failed>>

\* The watcher fails: the failure is announced with no revision and the path is dropped.
WatchFails ==
    /\ up /\ Fault("watch") /\ watch.handle /\ Len(posted) < MaxPosted
    /\ posted' = Append(posted, Gone)
    /\ watch' = Unwatched(watch)
    /\ UNCHANGED <<up, disk, made, onDisk, emit, inbox, call, save>>

ReadFile(p) ==
    /\ up /\ call[p].kind = "read" /\ ~call[p].done
    /\ \/ call' = [call EXCEPT ![p].done = TRUE, ![p].value = disk] /\ NoFault
       \/ call' = [call EXCEPT ![p].done = TRUE] /\ Fault("io")
    /\ UNCHANGED <<up, disk, made, onDisk, watch, emit, inbox, save, posted>>

\* writeWorkspaceFile: look, write a temporary file, look again, rename, answer.  The sync of
\* the directory may fail after the rename: the answer is an error then as well.
SaveFails(outcome) == save' = [save EXCEPT !.step = "done", !.outcome = outcome]
\* Mutant: only the first look compares.
LookBug(next) ==
    /\ UNCHANGED <<disk, onDisk, watch>>
    /\ IF disk # Gone /\ (disk = save.base \/ next = "final")
       THEN save' = [save EXCEPT !.step = next, !.late = FALSE]
       ELSE SaveFails("conflict")

Look(next) ==
    /\ UNCHANGED <<disk, onDisk, watch>>
    /\ IF disk = Gone THEN SaveFails("failed")
       ELSE IF disk = save.base THEN save' = [save EXCEPT !.step = next, !.late = FALSE]
       ELSE SaveFails("conflict")
SaveStep ==
    /\ up
    /\ \/ save.step = "queued" /\ Look("copied") /\ NoFault
       \/ save.step = "copied" /\ Look("final") /\ NoFault
       \/ /\ save.step = "final" /\ Write(save.content) /\ NoFault
          /\ save' = [save EXCEPT !.step = "renamed"]
       \/ /\ save.step = "renamed" /\ NoFault
          /\ save' = [save EXCEPT !.step = "done", !.outcome = "ok"]
          /\ UNCHANGED <<disk, onDisk, watch>>
       \/ /\ save.step \in {"queued", "copied", "final", "renamed"} /\ Fault("io")
          /\ SaveFails("failed")
          /\ UNCHANGED <<disk, onDisk, watch>>
    /\ UNCHANGED <<up, made, emit, inbox, call, posted>>

CoreNext ==
    \/ OutsideWrite \/ HandleWatch \/ WatchCreated \/ HandleUnwatch
    \/ Debounced \/ EmitRead \/ EmitPost \/ WatchFails \/ SaveStep
    \/ \E p \in Calls : ReadFile(p)

CoreFairness ==
    /\ WF_coreVars(HandleWatch) /\ WF_coreVars(WatchCreated) /\ WF_coreVars(HandleUnwatch)
    /\ WF_coreVars(Debounced) /\ WF_coreVars(EmitRead) /\ WF_coreVars(EmitPost)
    /\ WF_coreVars(SaveStep)
    /\ \A p \in Calls : WF_coreVars(ReadFile(p))
=============================================================================
