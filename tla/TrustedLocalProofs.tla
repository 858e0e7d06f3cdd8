------------------------- MODULE TrustedLocalProofs -------------------------
(***************************************************************************)
(* What TrustedLocal promises for every number of conversations, commands  *)
(* and crashes: the types of its variables, that a conversation identity   *)
(* opens at most one provider session and none before the history file     *)
(* holds the identity; that the history keeps what was observed, a         *)
(* shutdown leaves nothing behind, a command is delivered once, a          *)
(* cancelled launch starts nothing, and the limits hold.                   *)
(***************************************************************************)
EXTENDS TrustedLocal, FiniteSetTheorems, TLAPS

-----------------------------------------------------------------------------
(* Types.  Run and Snapshot stay folded: the lemmas say what builds them.    *)

LEMMA StatusNames ==
    /\ {"starting", "ready", "running", "stopping", "closed", "failed"} \subseteq Status
    /\ Active \subseteq Status
    /\ "none" \notin Status
BY DEF Status, Active

LEMMA RunValues ==
    /\ NoRun \in Run
    /\ \A s \in Status : Observed(s) \in Run
    /\ \A s \in Status, a \in BOOLEAN : [status |-> s, archived |-> a] \in Run
BY DEF Run, NoRun, Observed

LEMMA SnapshotValues ==
    /\ NoSave \in Snapshot
    /\ [NoSave EXCEPT !.active = TRUE] \in Snapshot
    /\ saved \in [Token -> Run] /\ admitted \subseteq Token => Captured \in Snapshot
BY RunValues DEF Snapshot, NoSave, Captured

LEMMA SnapshotFields ==
    ASSUME NEW d \in Snapshot
    PROVE  /\ d.runs \in [Token -> Run]
           /\ d.tokens \subseteq Token
           /\ d.active \in BOOLEAN
BY DEF Snapshot

SaveTypes ==
    /\ savePending \in BOOLEAN /\ dirty \in BOOLEAN
    /\ inflight \in Snapshot /\ disk \in Snapshot

LEMMA PersistTypes == SaveTypes /\ Persist => SaveTypes'
BY DEF SaveTypes, Persist

LEMMA PublishTypes ==
    ASSUME TypeOK, NEW t \in Token, NEW s \in Status, Publish(t, s)
    PROVE  /\ sess' \in [Token -> Status \cup {"none"}]
           /\ saved' \in [Token -> Run]
           /\ SaveTypes'
<1>1. SaveTypes
  BY DEF TypeOK, SaveTypes
<1> QED
  BY <1>1, PersistTypes, RunValues DEF Publish, TypeOK

LEMMA RestoredType == ASSUME NEW run \in Run PROVE Restored(run) \in Run
BY RunValues, StatusNames DEF Restored

LEMMA ResumedType ==
    ASSUME TypeOK, NEW ok \in BOOLEAN
    PROVE  Resumed(ok) \in [Token -> Awaits \cup {"none", "settled"}]
BY DEF TypeOK, Resumed, Awaits

LEMMA InitType == Init => TypeOK
<1> SUFFICES ASSUME Init PROVE TypeOK
  OBVIOUS
<1>1. saved \in [Token -> Run] /\ inflight \in Snapshot /\ disk \in Snapshot
  BY RunValues, SnapshotValues DEF Init
<1>2. /\ stopped \in [Token -> BOOLEAN]
      /\ started \in [Token -> Nat]
      /\ delivered \in [Token \X RequestId -> Nat]
      /\ sess \in [Token -> Status \cup {"none"}]
      /\ cleanup \in [Token -> {"open", "confirmed", "unknown"}]
      /\ pc \in [Token -> Awaits \cup {"none", "settled"}]
      /\ purpose \in [Token -> AllPurpose \cup {"none", "launch"}]
  BY DEF Init, Idle
<1> QED
  BY <1>1, <1>2 DEF Init, TypeOK

LEMMA ReserveTypes ==
    ASSUME TypeOK, NEW t \in Token, NEW gone, NEW why \in AllPurpose \cup {"launch"},
           NEW at \in {"plan", "barrier"}, Reserve(t, why, gone, at)
    PROVE  /\ saved' \in [Token -> Run] /\ sess' \in [Token -> Status \cup {"none"}]
           /\ cleanup' = cleanup
           /\ stopped' \in [Token -> BOOLEAN]
           /\ pc' \in [Token -> Awaits \cup {"none", "settled"}]
           /\ purpose' \in [Token -> AllPurpose \cup {"none", "launch"}]
           /\ admitted' \subseteq Token
           /\ SaveTypes'
<1>1. SaveTypes'
  <2>1. SaveTypes
    BY DEF TypeOK, SaveTypes
  <2> QED
    BY <2>1, PersistTypes DEF Reserve, SaveTypes, saveVars
<1>2. saved' \in [Token -> Run]
  BY RunValues, StatusNames DEF Reserve, TypeOK
<1> QED
  BY <1>1, <1>2 DEF Reserve, TypeOK, Awaits

LEMMA StopSessionsTypes ==
    ASSUME TypeOK, StopSessions
    PROVE  /\ sess' \in [Token -> Status \cup {"none"}]
           /\ saved' \in [Token -> Run]
           /\ SaveTypes'
<1>1. SaveTypes
  BY DEF TypeOK, SaveTypes
<1>2. SaveTypes'
  BY <1>1, PersistTypes DEF StopSessions, SaveTypes, saveVars
<1> QED
  BY <1>2, RunValues, StatusNames DEF StopSessions, TypeOK

\* Every step keeps the types.
LEMMA TypeStep == TypeOK /\ [Next]_vars => TypeOK'
<1> SUFFICES ASSUME TypeOK, [Next]_vars PROVE TypeOK'
  OBVIOUS
<1> USE StatusNames, RunValues, SnapshotValues
<1>0. SaveTypes
  BY DEF TypeOK, SaveTypes
<1>1. CASE Load
  <2>1. saved' \in [Token -> Run]
    BY <1>1, RestoredType, SnapshotFields DEF Load, TypeOK
  <2>2. admitted' \subseteq Token
    BY <1>1, SnapshotFields DEF Load, TypeOK
  <2>3. SaveTypes' /\ init' \in {"loading", "saving", "done"}
    BY <1>0, <1>1, PersistTypes DEF Load, SaveTypes, saveVars
  <2>4. stopped' \in [Token -> BOOLEAN]
    BY <1>1 DEF Load
  <2> QED
    BY <1>1, <2>1, <2>2, <2>3, <2>4 DEF Load, TypeOK, SaveTypes, prepareVars, faultVars, worldVars
<1>2. CASE LoadFails
  BY <1>2 DEF LoadFails, TypeOK, runVars, prepareVars, saveVars, worldVars
<1>3. CASE SaveBegins
  BY <1>3 DEF SaveBegins, TypeOK, runVars, prepareVars, faultVars, worldVars
<1>4. CASE SaveSucceeds
  <2>1. /\ SaveTypes' /\ init' \in {"loading", "saving", "done"}
        /\ drain' \in {"none", "init", "first", "pending", "last", "save", "close", "done"}
    BY <1>4 DEF SaveSucceeds, SettleWriter, TypeOK, SaveTypes
  <2>2. pc' \in [Token -> Awaits \cup {"none", "settled"}]
    BY <1>4, ResumedType DEF SaveSucceeds, SettleWriter, TypeOK
  <2> QED
    BY <1>4, <2>1, <2>2 DEF SaveSucceeds, TypeOK, SaveTypes, prepareVars, faultVars, worldVars
<1>5. CASE SaveFails
  <2>1. /\ SaveTypes' /\ init' \in {"loading", "saving", "done"} /\ unreadable' \in BOOLEAN
        /\ drain' \in {"none", "init", "first", "pending", "last", "save", "close", "done"}
    BY <1>5 DEF SaveFails, SettleWriter, TypeOK, SaveTypes
  <2>2. pc' \in [Token -> Awaits \cup {"none", "settled"}]
    BY <1>5, ResumedType DEF SaveFails, SettleWriter
  <2> QED
    BY <1>5, <2>1, <2>2 DEF SaveFails, TypeOK, SaveTypes, prepareVars, worldVars
<1>6. ASSUME NEW t \in ClientToken, NEW why \in Purpose, NEW r \in RequestId, StartOrFork(t, why, r)
      PROVE  TypeOK'
  <2>1. t \in Token /\ why \in AllPurpose
    BY PurposeAssumption DEF Token
  <2>2. CASE Admissible(t, why)
    <3>1. PICK gone \in Evictions :
             Reserve(t, why, gone, IF why = "plan" THEN "plan" ELSE "barrier")
      BY <1>6, <2>2 DEF StartOrFork
    <3> QED
      BY <1>6, <2>1, <3>1, ReserveTypes
         DEF StartOrFork, Accept, TypeOK, SaveTypes, prepareVars, faultVars, worldVars
  <2>3. CASE ~Admissible(t, why)
    BY <1>6, <2>3
       DEF StartOrFork, Accept, TypeOK, runVars, saveVars, prepareVars, faultVars, worldVars
  <2> QED
    BY <2>2, <2>3
<1>7. ASSUME NEW t \in LaunchToken, NEW r \in RequestId, Launch(t, r)
      PROVE  TypeOK'
  <2>1. t \in Token
    BY DEF Token
  <2>2. CASE preparation' = "none" /\ \E gone \in Evictions : Reserve(t, "launch", gone, "barrier")
    <3>1. PICK gone \in Evictions : Reserve(t, "launch", gone, "barrier")
      BY <2>2
    <3> QED
      BY <1>7, <2>1, <2>2, <3>1, ReserveTypes
         DEF Launch, Consume, Accept, TypeOK, SaveTypes, faultVars, worldVars
  <2>3. CASE UNCHANGED <<runVars, preparation, saveVars, admitted>>
    BY <1>7, <2>3 DEF Launch, Consume, Accept, TypeOK, runVars, saveVars, faultVars, worldVars
  <2> QED
    BY <1>7, <2>2, <2>3 DEF Launch, Consume
<1>8. ASSUME NEW r \in RequestId, PrepareBegins(r)
      PROVE  TypeOK'
  BY <1>8 DEF PrepareBegins, Accept, TypeOK, runVars, prepareVars, faultVars, saveVars, worldVars
<1>9. ASSUME NEW t \in Token, NEW r \in RequestId, Deliver(t, r)
      PROVE  TypeOK'
  <2>1. CASE Publish(t, "running") /\ delivered' = [delivered EXCEPT ![<<t, r>>] = @ + 1]
    BY <1>9, <2>1, PublishTypes
       DEF Deliver, Accept, TypeOK, SaveTypes, prepareVars, faultVars
  <2>2. CASE UNCHANGED <<sess, saved, saveVars, delivered>>
    BY <1>9, <2>2 DEF Deliver, Accept, TypeOK, prepareVars, faultVars, saveVars
  <2> QED
    BY <1>9, <2>1, <2>2 DEF Deliver
<1>10. ASSUME NEW t \in Token, Stop(t)
       PROVE  TypeOK'
  <2>1. /\ sess' \in [Token -> Status \cup {"none"}] /\ saved' \in [Token -> Run] /\ SaveTypes'
    <3>1. CASE sess[t] # "none"
      <4>1. PICK s \in Status : Publish(t, s)
        BY <1>10, <3>1 DEF Stop, TypeOK
      <4> QED
        BY <4>1, PublishTypes
    <3>2. CASE sess[t] = "none"
      BY <1>0, <1>10, <3>2, PersistTypes DEF Stop, TypeOK
    <3> QED
      BY <3>1, <3>2
  <2>2. stopped' \in [Token -> BOOLEAN]
    BY <1>10 DEF Stop, TypeOK
  <2> QED
    BY <1>10, <2>1, <2>2 DEF Stop, TypeOK, SaveTypes, prepareVars, faultVars, worldVars
<1>11. CASE PrepareEnds
  BY <1>11 DEF PrepareEnds, TypeOK, runVars, faultVars, saveVars
<1>12. ASSUME NEW t \in Token, LaunchSteps(t)
       PROVE  TypeOK'
  <2> USE DEF Awaits
  <2>1. CASE PlanChecked(t)
    <3>1. SaveTypes'
      BY <1>0, <2>1, PersistTypes DEF PlanChecked, SaveTypes, saveVars
    <3> QED
      BY <2>1, <3>1 DEF PlanChecked, TypeOK, SaveTypes, prepareVars, faultVars, worldVars
  <2>2. CASE AfterBarrier(t)
    BY <2>2 DEF AfterBarrier, TypeOK, prepareVars, faultVars, saveVars, worldVars
  <2>3. CASE ContextRevalidated(t)
    BY <2>3 DEF ContextRevalidated, TypeOK, prepareVars, faultVars, saveVars, worldVars
  <2>4. CASE SessionCreated(t)
    <3>1. PICK s \in Status : Publish(t, s)
      BY <2>4 DEF SessionCreated
    <3> QED
      BY <2>4, <3>1, PublishTypes
         DEF SessionCreated, TypeOK, SaveTypes, prepareVars, faultVars
  <2>5. CASE CreateFails(t)
    BY <2>5 DEF CreateFails, TypeOK, prepareVars, faultVars, saveVars, worldVars
  <2>6. CASE AbortSettles(t)
    BY <2>6 DEF AbortSettles, TypeOK, prepareVars, faultVars, saveVars, worldVars
  <2>7. CASE LaunchCaught(t)
    <3>1. SaveTypes'
      BY <1>0, <2>7, PersistTypes DEF LaunchCaught
    <3>2. saved' \in [Token -> Run]
      <4>1. PICK run \in Run : saved' = [saved EXCEPT ![t] = run]
        BY <2>7 DEF LaunchCaught, TypeOK
      <4> QED
        BY <4>1 DEF TypeOK
    <3> QED
      BY <2>7, <3>1, <3>2 DEF LaunchCaught, TypeOK, SaveTypes, prepareVars, faultVars, worldVars
  <2> QED
    BY <1>12, <2>1, <2>2, <2>3, <2>4, <2>5, <2>6, <2>7 DEF LaunchSteps
<1>13. ASSUME NEW t \in Token, SessionMoves(t)
       PROVE  TypeOK'
  <2>1. PICK s \in Status : Publish(t, s)
    BY <1>13 DEF SessionMoves
  <2> QED
    BY <1>13, <2>1, PublishTypes DEF SessionMoves, TypeOK, SaveTypes, prepareVars, faultVars
<1>14. ASSUME NEW t \in Token, NEW outcome \in {"confirmed", "unknown"}, SessionCloses(t, outcome)
       PROVE  TypeOK'
  <2>1. PICK s \in Status : Publish(t, s)
    BY <1>14 DEF SessionCloses
  <2> QED
    BY <1>14, <2>1, PublishTypes
       DEF SessionCloses, TypeOK, SaveTypes, prepareVars, faultVars, worldVars
<1>15. CASE ShutdownBegins
  BY <1>15 DEF ShutdownBegins, TypeOK, runVars, faultVars, saveVars, worldVars
<1>16. CASE DrainSteps
  <2>1. CASE DrainStops
    <3>1. stopped' \in [Token -> BOOLEAN]
      BY <2>1 DEF DrainStops, TypeOK
    <3> QED
      BY <2>1, <3>1, StopSessionsTypes
         DEF DrainStops, TypeOK, SaveTypes, prepareVars, faultVars, worldVars
  <2>2. CASE DrainFirstStops
    BY <2>2 DEF DrainFirstStops, TypeOK, runVars, prepareVars, faultVars, saveVars, worldVars
  <2>3. CASE DrainPending
    BY <2>3, StopSessionsTypes
       DEF DrainPending, TypeOK, SaveTypes, prepareVars, faultVars, worldVars
  <2>4. CASE DrainLastStops
    BY <1>0, <2>4, PersistTypes
       DEF DrainLastStops, TypeOK, SaveTypes, runVars, prepareVars, faultVars, worldVars
  <2>5. CASE DrainCloses
    BY <2>5 DEF DrainCloses, TypeOK, runVars, prepareVars, faultVars, saveVars, worldVars
  <2> QED
    BY <1>16, <2>1, <2>2, <2>3, <2>4, <2>5 DEF DrainSteps
<1>17. CASE Crash
  <2>1. saved' \in [Token -> Run] /\ inflight' \in Snapshot /\ disk' \in Snapshot
    BY <1>17 DEF Crash, TypeOK
  <2>2. /\ stopped' \in [Token -> BOOLEAN]
        /\ sess' \in [Token -> Status \cup {"none"}]
        /\ cleanup' \in [Token -> {"open", "confirmed", "unknown"}]
        /\ pc' \in [Token -> Awaits \cup {"none", "settled"}]
        /\ purpose' \in [Token -> AllPurpose \cup {"none", "launch"}]
    BY <1>17 DEF Crash, Idle
  <2>3. /\ admitted' = {} /\ commands' = {} /\ preparation' = "none" /\ preparing' = FALSE
        /\ storageError' = FALSE /\ unreadable' = FALSE
        /\ init' = "loading" /\ drain' = "none" /\ savePending' = FALSE /\ dirty' = FALSE
        /\ crashes' = crashes + 1 /\ minted' = minted
        /\ started' = started /\ delivered' = delivered
    BY <1>17 DEF Crash
  <2>4. crashes' \in Nat
    BY <2>3 DEF TypeOK
  <2>5. /\ started' \in [Token -> Nat] /\ delivered' \in [Token \X RequestId -> Nat]
        /\ minted' \subseteq LaunchToken
    BY <2>3 DEF TypeOK
  <2>6. admitted' \subseteq Token /\ commands' \subseteq RequestId
    BY <2>3
  <2>7. preparation' \in LaunchToken \cup {"none"} /\ preparing' \in BOOLEAN
       /\ storageError' \in BOOLEAN /\ unreadable' \in BOOLEAN
       /\ savePending' \in BOOLEAN /\ dirty' \in BOOLEAN
    BY <2>3
  <2> QED
    BY <2>1, <2>2, <2>3, <2>4, <2>5, <2>6, <2>7 DEF TypeOK
<1>18. CASE Ended
  BY <1>18 DEF Ended, vars, TypeOK, runVars, prepareVars, faultVars, saveVars, worldVars
<1>19. CASE UNCHANGED vars
  BY <1>19 DEF vars, TypeOK, runVars, prepareVars, faultVars, saveVars, worldVars
<1> QED
  BY <1>1, <1>2, <1>3, <1>4, <1>5, <1>6, <1>7, <1>8, <1>9, <1>10, <1>11, <1>12, <1>13,
     <1>14, <1>15, <1>16, <1>17, <1>18, <1>19 DEF Next, SaveSteps, Requests

\* The variables of the service keep their types in every behaviour.
THEOREM TypesHold == Spec => []TypeOK
BY InitType, TypeStep, PTL DEF Spec
-----------------------------------------------------------------------------
(* Identities.                                                               *)

LEMMA AwaitNames ==
    /\ {"plan", "barrier", "saved", "context", "create"} \subseteq Awaits
    /\ "none" \notin Awaits /\ "settled" \notin Awaits
BY DEF Awaits

LEMMA TokenParts == LaunchToken \subseteq Token /\ ClientToken \subseteq Token
BY DEF Token

LEMMA InitIdentity == Init => IdentityInv
<1> SUFFICES ASSUME Init PROVE IdentityInv
  OBVIOUS
<1>1. /\ inflight.active = FALSE /\ disk.tokens = {} /\ admitted = {}
      /\ init = "loading" /\ ~savePending /\ ~unreadable /\ drain = "none"
      /\ preparation = "none"
  BY DEF Init, NoSave
<1>2. \A t \in Token : pc[t] = "none" /\ sess[t] = "none" /\ started[t] = 0
  BY DEF Init
<1> QED
  BY <1>1, <1>2, AwaitNames, TokenParts
     DEF IdentityInv, WriterInv, BarrierInv, MintedInv, ProviderOnce, DurableBeforeProvider

\* A step that moves no launch and starts nothing, and at most records an
\* observation or drops the preparation, keeps the invariant.
LEMMA Frame ==
    ASSUME TypeOK, IdentityInv,
           UNCHANGED <<pc, started, admitted, minted, init, faultVars, inflight, disk>>,
           Persist \/ UNCHANGED <<dirty, savePending>>,
           init = "loading" => UNCHANGED <<dirty, savePending>>,
           preparation' \in {preparation, "none"},
           init # "done" => drain' \in {"none", "init"} /\ sess' = sess
    PROVE  IdentityInv'
<1> USE AwaitNames, TokenParts DEF IdentityInv
<1>1. \/ savePending' = savePending /\ dirty' = dirty
      \/ init # "loading" /\ ~unreadable /\ savePending' = TRUE /\ dirty' = TRUE
  BY DEF Persist
<1>2. WriterInv'
  BY <1>1 DEF WriterInv, faultVars
<1>3. BarrierInv'
  BY <1>1 DEF BarrierInv
<1>4. MintedInv'
  BY DEF MintedInv
<1>5. ProviderOnce' /\ DurableBeforeProvider'
  BY DEF ProviderOnce, DurableBeforeProvider
<1> QED
  BY <1>2, <1>3, <1>4, <1>5

\* A step that moves only the launch of t, to an await that promises nothing.
LEMMA FrameLaunch ==
    ASSUME TypeOK, IdentityInv, NEW t \in Token, NEW at,
           pc[t] \in Awaits, pc' = [pc EXCEPT ![t] = at],
           at \notin {"plan", "barrier", "saved", "context", "create"},
           UNCHANGED <<sess, started, admitted, prepareVars, minted, init, drain, faultVars,
                       inflight, disk>>,
           Persist \/ UNCHANGED <<dirty, savePending>>
    PROVE  IdentityInv'
<1> USE AwaitNames, TokenParts DEF IdentityInv
<1>0. init = "done" /\ ~unreadable /\ t \in admitted
  BY DEF WriterInv, BarrierInv
<1>1. \/ savePending' = savePending /\ dirty' = dirty
      \/ savePending' = TRUE /\ dirty' = TRUE
  BY <1>0 DEF Persist
<1>2. \A u \in Token : pc'[u] = IF u = t THEN at ELSE pc[u]
  BY DEF TypeOK
<1>3. WriterInv'
  BY <1>0, <1>1 DEF WriterInv, faultVars
<1>4. BarrierInv'
  BY <1>0, <1>1, <1>2 DEF BarrierInv
<1>5. MintedInv'
  BY <1>2 DEF MintedInv, prepareVars, TypeOK
<1>6. ProviderOnce' /\ DurableBeforeProvider'
  BY DEF ProviderOnce, DurableBeforeProvider
<1> QED
  BY <1>3, <1>4, <1>5, <1>6

\* Admission: a token the process does not know is not in the file either.
LEMMA ReserveKeeps ==
    ASSUME TypeOK, IdentityInv, NEW t \in Token, NEW why, NEW gone, NEW at \in {"plan", "barrier"},
           Reserve(t, why, gone, at), init = "done", ~unreadable, started[t] = 0,
           UNCHANGED <<started, minted, init, drain, faultVars>>,
           \/ t \in ClientToken /\ preparation' = preparation
           \/ t \in minted /\ preparation' = "none"
    PROVE  IdentityInv'
<1> USE AwaitNames, TokenParts DEF IdentityInv
<1>1. /\ at = "barrier" => savePending' = TRUE /\ dirty' = TRUE
      /\ at = "plan" => savePending' = savePending /\ dirty' = dirty
      /\ inflight' = inflight /\ disk' = disk /\ admitted' = admitted \cup {t}
  BY DEF Reserve, Persist, saveVars
<1>2. \A u \in Token : pc'[u] = IF u = t THEN at ELSE pc[u]
  BY DEF Reserve, TypeOK
<1>3. WriterInv'
  BY <1>1 DEF WriterInv, faultVars
<1>4. BarrierInv'
  BY <1>1, <1>2 DEF BarrierInv
<1>5. MintedInv'
  <2>1. CASE t \in ClientToken /\ preparation' = preparation
    BY <1>2, <2>1, TokensAssumption DEF MintedInv, TypeOK
  <2>2. CASE t \in minted /\ preparation' = "none"
    BY <1>2, <2>2 DEF MintedInv
  <2> QED
    BY <2>1, <2>2
<1>6. ProviderOnce' /\ DurableBeforeProvider'
  BY <1>1 DEF ProviderOnce, DurableBeforeProvider
<1> QED
  BY <1>3, <1>4, <1>5, <1>6

\* The writer settles: every waiting launch leaves its barrier, for "saved"
\* only when the file now holds what the writer captured.
LEMMA SettleKeeps ==
    ASSUME TypeOK, IdentityInv, NEW ok \in BOOLEAN, SettleWriter(ok), inflight.active,
           IF ok THEN disk' = inflight /\ ~dirty ELSE disk' \in {disk, inflight},
           UNCHANGED <<sess, started, admitted, prepareVars, minted>>,
           /\ init' \in {init, "done"} /\ init' # "saving"
           /\ unreadable' => unreadable \/ (~ok /\ init = "saving" /\ storageError')
           /\ storageError => storageError'
    PROVE  IdentityInv'
<1> USE AwaitNames, TokenParts DEF IdentityInv
<1>0. init # "loading" /\ ~unreadable /\ savePending
  BY DEF WriterInv
<1>1. savePending' = FALSE /\ inflight'.active = FALSE
  BY DEF SettleWriter, NoSave
<1>2. disk.tokens \subseteq disk'.tokens /\ disk'.tokens \subseteq admitted
  BY <1>0 DEF WriterInv
<1>3. \A t \in Token :
        /\ pc'[t] \notin {"barrier"}
        /\ pc'[t] = "plan" => pc[t] = "plan"
        /\ pc'[t] = "saved" => pc[t] = "saved" \/ (ok /\ pc[t] = "barrier")
        /\ pc'[t] = "context" => pc[t] = "context"
        /\ pc'[t] = "create" => pc[t] = "create"
        /\ pc'[t] \in Awaits => pc[t] \in Awaits
        /\ pc[t] = "none" => pc'[t] = "none"
  BY DEF SettleWriter, Resumed, Awaits
<1>4. WriterInv'
  <2>1. init' # "loading" /\ drain' \in {drain, "close"} /\ init' = "done"
    BY <1>0 DEF SettleWriter, TypeOK
  <2>2. unreadable' => storageError' /\ \A t \in Token : pc'[t] = "none"
    BY <1>0, <1>3 DEF WriterInv
  <2> QED
    BY <1>1, <1>2, <2>1, <2>2 DEF WriterInv
<1>5. BarrierInv'
  <2> SUFFICES ASSUME NEW t \in Token
               PROVE  /\ pc'[t] \in Awaits => t \in admitted
                      /\ pc'[t] \in {"plan", "saved", "context", "create"} => started[t] = 0
                      /\ pc'[t] \in {"saved", "context", "create"} => t \in disk'.tokens
    BY <1>3 DEF BarrierInv
  <2>1. ok /\ pc[t] = "barrier" => t \in disk'.tokens
    BY DEF BarrierInv
  <2> QED
    BY <1>2, <1>3, <2>1 DEF BarrierInv
<1>6. MintedInv'
  BY <1>3 DEF MintedInv, prepareVars, TypeOK
<1>7. ProviderOnce' /\ DurableBeforeProvider'
  BY <1>2 DEF ProviderOnce, DurableBeforeProvider
<1> QED
  BY <1>4, <1>5, <1>6, <1>7

\* Every step keeps the invariant.
LEMMA IdentityStep == TypeOK /\ IdentityInv /\ [Next]_vars => IdentityInv'
<1> SUFFICES ASSUME TypeOK, IdentityInv, [Next]_vars PROVE IdentityInv'
  OBVIOUS
<1> USE AwaitNames, TokenParts
<1>1. CASE Load
  <2>1. /\ savePending' => init' # "loading" /\ ~unreadable'
        /\ inflight' = inflight /\ disk' = disk /\ disk.tokens \subseteq admitted'
        /\ init' # "loading"
        /\ savePending' = savePending \/ savePending' = TRUE
    BY <1>1 DEF Load, Persist, faultVars, saveVars, IdentityInv, WriterInv
  <2>2. WriterInv'
    BY <1>1, <2>1 DEF Load, Persist, IdentityInv, WriterInv, faultVars, saveVars
  <2> QED
    BY <1>1, <2>1, <2>2
       DEF Load, IdentityInv, WriterInv, BarrierInv, MintedInv, ProviderOnce,
           DurableBeforeProvider, prepareVars, worldVars
<1>2. CASE LoadFails
  BY <1>2
     DEF LoadFails, IdentityInv, WriterInv, BarrierInv, MintedInv, ProviderOnce,
         DurableBeforeProvider, runVars, prepareVars, saveVars, worldVars
<1>3. CASE SaveBegins
  <2>1. inflight' = Captured /\ inflight'.tokens = admitted /\ inflight'.active
    BY <1>3 DEF SaveBegins, Captured
  <2> QED
    BY <1>3, <2>1
       DEF SaveBegins, IdentityInv, WriterInv, BarrierInv, MintedInv, ProviderOnce,
           DurableBeforeProvider, runVars, prepareVars, faultVars, worldVars
<1>4. CASE SaveSucceeds
  <2>1. CASE dirty
    <3>1. inflight' = Captured /\ inflight'.tokens = admitted /\ inflight'.active
      BY <1>4, <2>1 DEF SaveSucceeds, Captured
    <3>2. disk.tokens \subseteq disk'.tokens /\ disk'.tokens \subseteq admitted
      BY <1>4 DEF SaveSucceeds, IdentityInv, WriterInv
    <3> QED
      BY <1>4, <2>1, <3>1, <3>2
         DEF SaveSucceeds, IdentityInv, WriterInv, BarrierInv, MintedInv, ProviderOnce,
             DurableBeforeProvider, prepareVars, faultVars, worldVars
  <2>2. CASE ~dirty
    BY <1>4, <2>2, SettleKeeps
       DEF SaveSucceeds, prepareVars, faultVars, worldVars, TypeOK, IdentityInv, WriterInv
  <2> QED
    BY <2>1, <2>2
<1>5. CASE SaveFails
  BY <1>5, SettleKeeps
     DEF SaveFails, prepareVars, worldVars, TypeOK, IdentityInv, WriterInv
<1>6. ASSUME NEW t \in ClientToken, NEW why \in Purpose, NEW r \in RequestId, StartOrFork(t, why, r)
      PROVE  IdentityInv'
  <2>1. CASE Admissible(t, why)
    <3>1. PICK gone \in Evictions, at \in {"plan", "barrier"} : Reserve(t, why, gone, at)
      BY <1>6, <2>1 DEF StartOrFork
    <3>2. init = "done" /\ ~unreadable /\ t \notin disk.tokens
      BY <1>6, <2>1 DEF StartOrFork, Accept, Admissible, IdentityInv, WriterInv
    <3>3. started[t] = 0
      BY <3>2 DEF IdentityInv, DurableBeforeProvider, TypeOK
    <3>4. UNCHANGED <<preparation, started, minted, init, drain, faultVars>>
      BY <1>6 DEF StartOrFork, prepareVars, worldVars
    <3> QED
      BY <1>6, <3>1, <3>2, <3>3, <3>4, ReserveKeeps
  <2>2. CASE ~Admissible(t, why)
    BY <1>6, <2>2, Frame
       DEF StartOrFork, runVars, saveVars, prepareVars, faultVars, worldVars, IdentityInv, WriterInv, Accept
  <2> QED
    BY <2>1, <2>2
<1>7. ASSUME NEW t \in LaunchToken, NEW r \in RequestId, Launch(t, r)
      PROVE  IdentityInv'
  <2>1. CASE /\ preparation = t /\ preparation' = "none"
             /\ \E gone \in Evictions : Reserve(t, "launch", gone, "barrier")
    <3>1. PICK gone \in Evictions : Reserve(t, "launch", gone, "barrier")
      BY <2>1
    <3>2. init = "done" /\ ~unreadable
      BY <1>7 DEF Launch, Consume, Accept, IdentityInv, WriterInv
    <3>3. started[t] = 0 /\ t \in minted
      BY <1>7, <2>1, TokenNames DEF IdentityInv, MintedInv
    <3> QED
      BY <1>7, <2>1, <3>1, <3>2, <3>3, ReserveKeeps DEF Launch, Consume, worldVars
  <2>2. CASE UNCHANGED <<runVars, preparation, saveVars, admitted>>
    BY <1>7, <2>2, Frame
       DEF Launch, Consume, runVars, saveVars, faultVars, worldVars, Accept
  <2> QED
    BY <1>7, <2>1, <2>2 DEF Launch, Consume
<1>8. ASSUME NEW r \in RequestId, PrepareBegins(r)
      PROVE  IdentityInv'
  BY <1>8, Frame
     DEF PrepareBegins, Accept, runVars, saveVars, prepareVars, faultVars, worldVars
<1>9. ASSUME NEW t \in Token, NEW r \in RequestId, Deliver(t, r)
      PROVE  IdentityInv'
  BY <1>9, Frame
     DEF Deliver, Accept, Publish, Persist, saveVars, prepareVars, faultVars
<1>10. ASSUME NEW t \in Token, Stop(t)
       PROVE  IdentityInv'
  BY <1>10, Frame DEF Stop, Publish, Persist, prepareVars, faultVars, worldVars
<1>11. CASE PrepareEnds
  <2>1. CASE UNCHANGED <<preparation, minted>>
    BY <1>11, <2>1, Frame
       DEF PrepareEnds, runVars, saveVars, faultVars, IdentityInv, WriterInv
  <2>2. CASE \E t \in LaunchToken \ minted : preparation' = t /\ minted' = minted \cup {t}
    BY <1>11, <2>2
       DEF PrepareEnds, IdentityInv, WriterInv, BarrierInv, MintedInv, ProviderOnce,
           DurableBeforeProvider, runVars, faultVars, saveVars
  <2> QED
    BY <1>11, <2>1, <2>2 DEF PrepareEnds
<1>12. ASSUME NEW t \in Token, LaunchSteps(t)
       PROVE  IdentityInv'
  <2>1. CASE PlanChecked(t)
    <3>1. CASE pc' = [pc EXCEPT ![t] = "barrier"] /\ Persist
      <4>1. init = "done" /\ ~unreadable /\ t \in admitted /\ started[t] = 0
        BY <2>1 DEF PlanChecked, IdentityInv, WriterInv, BarrierInv
      <4>2. \A u \in Token : pc'[u] = IF u = t THEN "barrier" ELSE pc[u]
        BY <3>1 DEF TypeOK
      <4>3. savePending' /\ dirty' /\ inflight' = inflight /\ disk' = disk
        BY <3>1, <4>1 DEF Persist
      <4>4. WriterInv'
        BY <2>1, <4>1, <4>3 DEF PlanChecked, IdentityInv, WriterInv, faultVars
      <4>5. BarrierInv'
        BY <2>1, <4>1, <4>2, <4>3 DEF PlanChecked, IdentityInv, BarrierInv, worldVars
      <4>6. MintedInv'
        BY <2>1, <4>2 DEF PlanChecked, IdentityInv, MintedInv, prepareVars, worldVars, TypeOK
      <4> QED
        BY <2>1, <4>3, <4>4, <4>5, <4>6
           DEF PlanChecked, IdentityInv, ProviderOnce, DurableBeforeProvider, worldVars
    <3>2. CASE pc' = [pc EXCEPT ![t] = "rejected"] /\ UNCHANGED saveVars
      BY <2>1, <3>2, FrameLaunch DEF PlanChecked, saveVars, worldVars
    <3> QED
      BY <2>1, <3>1, <3>2 DEF PlanChecked
  <2>2. ASSUME pc[t] \in {"saved", "context"}, NEW at \in {"context", "create", "rejected"},
               pc' = [pc EXCEPT ![t] = at],
               UNCHANGED <<sess, prepareVars, faultVars, saveVars, worldVars, admitted, init, drain>>
        PROVE  IdentityInv'
    <3>1. \A u \in Token : pc'[u] = IF u = t THEN at ELSE pc[u]
      BY <2>2 DEF TypeOK
    <3>2. t \in admitted /\ t \in disk.tokens /\ started[t] = 0
      BY <2>2 DEF IdentityInv, BarrierInv
    <3>3. WriterInv'
      BY <2>2, <3>1 DEF IdentityInv, WriterInv, faultVars, saveVars
    <3>4. BarrierInv'
      BY <2>2, <3>1, <3>2 DEF IdentityInv, BarrierInv, saveVars, worldVars
    <3>5. MintedInv'
      BY <2>2, <3>1 DEF IdentityInv, MintedInv, prepareVars, worldVars, TypeOK
    <3> QED
      BY <2>2, <3>3, <3>4, <3>5
         DEF IdentityInv, ProviderOnce, DurableBeforeProvider, saveVars, worldVars
  <2>3. CASE AfterBarrier(t)
    BY <2>2, <2>3 DEF AfterBarrier
  <2>4. CASE ContextRevalidated(t)
    BY <2>2, <2>4 DEF ContextRevalidated
  <2>5. CASE SessionCreated(t)
    <3>1. /\ init = "done" /\ ~unreadable /\ t \in admitted /\ t \in disk.tokens
          /\ started[t] = 0
      BY <2>5 DEF SessionCreated, IdentityInv, WriterInv, BarrierInv
    <3>2. savePending' /\ dirty' /\ inflight' = inflight /\ disk' = disk
      BY <2>5, <3>1 DEF SessionCreated, Publish, Persist
    <3>3. \A u \in Token : u # t => pc'[u] = pc[u] /\ started'[u] = started[u]
      BY <2>5 DEF SessionCreated, TypeOK
    <3>4. pc'[t] \in {"abort", "report"} /\ started'[t] \in {0, 1}
      BY <2>5, <3>1 DEF SessionCreated, TypeOK
    <3>5. WriterInv'
      BY <2>5, <3>1, <3>2 DEF SessionCreated, IdentityInv, WriterInv, faultVars
    <3>6. BarrierInv'
      BY <2>5, <3>1, <3>2, <3>3, <3>4 DEF SessionCreated, IdentityInv, BarrierInv
    <3>7. MintedInv'
      BY <2>5, <3>3, <3>4 DEF SessionCreated, IdentityInv, MintedInv, prepareVars, TypeOK
    <3> QED
      BY <3>1, <3>2, <3>3, <3>4, <3>5, <3>6, <3>7
         DEF IdentityInv, ProviderOnce, DurableBeforeProvider
  <2>6. CASE CreateFails(t)
    BY <2>6, FrameLaunch DEF CreateFails, Awaits, saveVars, worldVars
  <2>7. CASE AbortSettles(t)
    BY <2>7, FrameLaunch DEF AbortSettles, Awaits, saveVars, worldVars
  <2>8. CASE LaunchCaught(t)
    <3>1. PICK at \in {"settled", "cleanup"} : pc' = [pc EXCEPT ![t] = at]
      BY <2>8 DEF LaunchCaught
    <3>2. pc[t] \in Awaits /\ inflight' = inflight /\ disk' = disk
      BY <2>8 DEF LaunchCaught, Awaits, Persist
    <3> QED
      BY <2>8, <3>1, <3>2, FrameLaunch DEF LaunchCaught, worldVars
  <2> QED
    BY <1>12, <2>1, <2>3, <2>4, <2>5, <2>6, <2>7, <2>8 DEF LaunchSteps
<1>13. ASSUME NEW t \in Token, SessionMoves(t)
       PROVE  IdentityInv'
  <2>1. init = "done" /\ Persist
    BY <1>13 DEF SessionMoves, Publish, IdentityInv, WriterInv
  <2> QED
    BY <1>13, <2>1, Frame DEF SessionMoves, Publish, Persist, prepareVars, faultVars
<1>14. ASSUME NEW t \in Token, NEW outcome \in {"confirmed", "unknown"}, SessionCloses(t, outcome)
       PROVE  IdentityInv'
  <2>1. init = "done" /\ Persist
    BY <1>14 DEF SessionCloses, Publish, IdentityInv, WriterInv
  <2> QED
    BY <1>14, <2>1, Frame DEF SessionCloses, Publish, Persist, prepareVars, faultVars, worldVars
<1>15. CASE ShutdownBegins
  <2>1. /\ UNCHANGED <<pc, started, admitted, minted, init, faultVars, inflight, disk, dirty,
                       savePending, sess>>
        /\ preparation' = "none" /\ drain' = "init"
    BY <1>15 DEF ShutdownBegins, runVars, saveVars, faultVars, worldVars
  <2> QED
    BY <2>1 DEF IdentityInv, WriterInv, BarrierInv, MintedInv, ProviderOnce,
                DurableBeforeProvider, faultVars
<1>16. CASE DrainSteps
  <2>0. init = "done"
    BY <1>16 DEF DrainSteps, DrainStops, DrainFirstStops, DrainPending, DrainLastStops,
                 DrainCloses, IdentityInv, WriterInv
  <2>1. CASE DrainStops
    BY <2>0, <2>1, Frame
       DEF DrainStops, StopSessions, Persist, prepareVars, faultVars, saveVars, worldVars
  <2>2. CASE DrainFirstStops
    BY <2>0, <2>2, Frame
       DEF DrainFirstStops, runVars, prepareVars, faultVars, saveVars, worldVars
  <2>3. CASE DrainPending
    BY <2>0, <2>3, Frame
       DEF DrainPending, StopSessions, Persist, prepareVars, faultVars, saveVars, worldVars
  <2>4. CASE DrainLastStops
    BY <2>0, <2>4, Frame
       DEF DrainLastStops, Persist, runVars, prepareVars, faultVars, worldVars
  <2>5. CASE DrainCloses
    BY <2>0, <2>5, Frame
       DEF DrainCloses, runVars, prepareVars, faultVars, saveVars, worldVars
  <2> QED
    BY <1>16, <2>1, <2>2, <2>3, <2>4, <2>5 DEF DrainSteps
<1>17. CASE Crash
  <2>1. /\ inflight'.active = FALSE /\ init' = "loading" /\ drain' = "none"
        /\ preparation' = "none" /\ ~savePending' /\ ~unreadable'
        /\ minted' = minted /\ started' = started
    BY <1>17 DEF Crash, NoSave
  <2>2. \A t \in Token : pc'[t] = "none" /\ sess'[t] = "none"
    BY <1>17 DEF Crash
  <2>3. disk.tokens \subseteq disk'.tokens
    BY <1>17 DEF Crash, IdentityInv, WriterInv
  <2> QED
    BY <2>1, <2>2, <2>3
       DEF IdentityInv, WriterInv, BarrierInv, MintedInv, ProviderOnce, DurableBeforeProvider
<1>18. CASE UNCHANGED vars
  BY <1>18
     DEF vars, runVars, prepareVars, faultVars, saveVars, worldVars, IdentityInv, WriterInv,
         BarrierInv, MintedInv, ProviderOnce, DurableBeforeProvider
<1>19. CASE Ended
  BY <1>18, <1>19 DEF Ended
<1> QED
  BY <1>1, <1>2, <1>3, <1>4, <1>5, <1>6, <1>7, <1>8, <1>9, <1>10, <1>11, <1>12, <1>13,
     <1>14, <1>15, <1>16, <1>17, <1>18, <1>19 DEF Next, SaveSteps, Requests

\* The inductive invariant holds in every behaviour.
LEMMA IdentityHolds == Spec => []IdentityInv
<1>1. Init => TypeOK /\ IdentityInv
  BY InitType, InitIdentity
<1>2. TypeOK /\ IdentityInv /\ [Next]_vars => (TypeOK /\ IdentityInv)'
  BY TypeStep, IdentityStep
<1> QED
  BY <1>1, <1>2, PTL DEF Spec

\* A conversation identity opens at most one provider session, for any number
\* of conversations, retries and crashes: the code's "tokens are permanent
\* conversation identities, not reusable slots".
THEOREM ProviderOnceHolds == Spec => []ProviderOnce
<1>1. IdentityInv => ProviderOnce
  BY DEF IdentityInv
<1> QED
  BY <1>1, IdentityHolds, PTL

\* No provider session is opened before the history file holds its identity:
\* the save barrier of every launch, with its coalescing writer, is one.
THEOREM DurableBeforeProviderHolds == Spec => []DurableBeforeProvider
<1>1. IdentityInv => DurableBeforeProvider
  BY DEF IdentityInv
<1> QED
  BY <1>1, IdentityHolds, PTL

-----------------------------------------------------------------------------
(* The invariants.                                                           *)

Held(runs) == {t \in Token : runs[t] # NoRun}

\* A run and its session: what is launched is retained, a session is that of an
\* admitted run and the run says of it what it published.
SessionInv ==
    \A t \in Token :
        /\ Launching(t) => t \in Retained
        /\ sess[t] # "none" => t \in Retained /\ t \in admitted /\ saved[t] = Observed(sess[t])
        /\ sess[t] \in Active => started[t] >= 1
        /\ t \in LaunchToken => (t \notin minted \/ t = preparation => sess[t] = "none")

\* A delivered command was accepted by this process, or its target has ended.
DeliveryInv ==
    \A t \in Token, r \in RequestId :
        /\ delivered[<<t, r>>] <= 1
        /\ delivered[<<t, r>>] > 0 => started[t] >= 1 /\ (r \in commands \/ sess[t] = "none")

\* What memory holds and the file does not is dirty, in flight or not yet reported.
Unreported == \E t \in Token : pc[t] \in {"plan", "rejected"}
Current(d) == d.runs = saved /\ d.tokens = admitted

QuietInv ==
    /\ inflight.active \/ (dirty /\ ~storageError) => savePending
    /\ savePending /\ ~inflight.active => dirty
    /\ init # "loading" /\ ~storageError /\ ~dirty /\ ~Unreported =>
         Current(IF inflight.active THEN inflight ELSE disk)
    /\ init = "saving" /\ ~storageError => savePending

\* No launch is left when shutdown stops the sessions for the last time.
ShutdownInv ==
    /\ drain \in {"last", "save", "close", "done"} => \A t \in Token : ~Launching(t)
    /\ drain \in {"save", "close", "done"} => \A t \in Token : sess[t] # "none" => cleanup[t] # "open"

LimitInv ==
    /\ Cardinality(Live) <= MaxLive
    /\ Cardinality(Retained) <= MaxRetained
    /\ Cardinality(Held(disk.runs)) <= MaxRetained

OwnerInv == SessionInv /\ DeliveryInv /\ QuietInv /\ ShutdownInv /\ LimitInv

-----------------------------------------------------------------------------
(* Sessions.                                                                 *)

Good == TypeOK /\ IdentityInv

LEMMA Names ==
    /\ "none" \notin Status /\ Active \subseteq Status /\ Active \subseteq {"starting", "ready", "running"}
    /\ \A s \in Status : Observed(s) # NoRun /\ Observed(s).archived = (s = "closed")
    /\ \A s \in Status : \A a \in BOOLEAN : [status |-> s, archived |-> a] # NoRun
BY DEF Status, Active, Observed, NoRun

\* A session publishes: it and its run say the same.
LEMMA PublishSession ==
    ASSUME Good, SessionInv, NEW t \in Token, NEW s \in Status, Publish(t, s), t \in Retained, t \in admitted,
           s \in Active => started'[t] >= 1, \A u \in Token : u # t => started'[u] = started[u],
           t \in LaunchToken => t \in minted /\ t # preparation,
           UNCHANGED <<admitted, minted, preparation>>,
           \A u \in Token : Launching(u)' => Launching(u)
    PROVE  SessionInv'
<1>1. \A u \in Token : sess'[u] = (IF u = t THEN s ELSE sess[u])
                       /\ saved'[u] = (IF u = t THEN Observed(s) ELSE saved[u])
  BY DEF Publish, Good, TypeOK
<1> QED
  BY <1>1, Names DEF SessionInv, Retained

\* A run with a session may publish.
LEMMA HasSession ==
    ASSUME SessionInv, NEW t \in Token, sess[t] # "none"
    PROVE  t \in Retained /\ t \in admitted /\ (t \in LaunchToken => t \in minted /\ t # preparation)
           /\ (sess[t] \in Active => started[t] >= 1)
BY DEF SessionInv

\* Nothing of runs and sessions changes but that launches end.
LEMMA SessionFrame ==
    ASSUME SessionInv, UNCHANGED <<saved, sess, admitted, started>>,
           \A t \in Token : Launching(t)' => Launching(t),
           \A t \in LaunchToken : t \notin minted' \/ t = preparation' => t \notin minted \/ t = preparation
    PROVE  SessionInv'
BY TokenParts DEF SessionInv, Retained

LEMMA ReserveSession ==
    ASSUME Good, SessionInv, NEW t \in Token, NEW why, NEW gone \in SUBSET Evictable, NEW at, Reserve(t, why, gone, at),
           sess[t] = "none", started' = started, minted' = minted, preparation' \in {preparation, "none"}
    PROVE  SessionInv'
<1>1. \A u \in Token : /\ saved'[u] = (IF u = t THEN Observed("starting") ELSE IF u \in gone THEN NoRun ELSE saved[u])
                       /\ sess'[u] = (IF u \in gone THEN "none" ELSE sess[u])
                       /\ pc'[u] = (IF u = t THEN at ELSE pc[u])
  BY DEF Reserve, Good, TypeOK
<1>2. admitted' = admitted \cup {t}
  BY DEF Reserve
<1>3. \A u \in gone : ~Launching(u)
  BY DEF Evictable
<1>4. "starting" \in Status
  BY StatusNames
<1> QED
  BY <1>1, <1>2, <1>3, <1>4, Names, TokenParts, TokenNames DEF SessionInv, Retained, Launching

LEMMA StopSessionsSession ==
    ASSUME Good, SessionInv, StopSessions, UNCHANGED <<admitted, started, minted, preparation, pc>>
    PROVE  SessionInv'
<1>1. \A u \in Token : /\ sess'[u] = (IF sess[u] \in Active THEN "stopping" ELSE sess[u])
                       /\ saved'[u] = (IF sess[u] \in Active THEN Observed("stopping") ELSE saved[u])
  BY DEF StopSessions
<1>2. "stopping" \in Status /\ "stopping" \notin Active
  BY DEF Status, Active
<1> QED
  BY <1>1, <1>2, Names DEF SessionInv, Retained, Launching

LEMMA SessionStep == Good /\ SessionInv /\ [Next]_vars => SessionInv'
<1> SUFFICES ASSUME Good, SessionInv, [Next]_vars PROVE SessionInv'
  OBVIOUS
<1> USE AwaitNames, TokenParts, StatusNames DEF runVars, prepareVars, faultVars, saveVars, worldVars
<1>1. CASE Load
  <2>1. \A t \in Token : pc[t] = "none" /\ sess[t] = "none"
    BY <1>1 DEF Load, Good, IdentityInv, WriterInv
  <2> QED
    BY <1>1, <2>1 DEF Load, SessionInv, Launching, Active
<1>2. CASE LoadFails \/ SaveBegins \/ UNCHANGED vars \/ Ended
  BY <1>2, SessionFrame DEF LoadFails, SaveBegins, Ended, vars, Launching
<1>3. CASE SaveSucceeds \/ SaveFails
  <2>1. UNCHANGED <<saved, sess, admitted, started, minted, preparation>>
    BY <1>3 DEF SaveSucceeds, SaveFails
  <2>2. \A t \in Token : Launching(t)' => Launching(t)
    BY <1>3 DEF SaveSucceeds, SaveFails, SettleWriter, Resumed, Launching, Awaits
  <2> QED
    BY <2>1, <2>2, SessionFrame
<1>4. ASSUME NEW r \in RequestId, PrepareBegins(r) PROVE SessionInv'
  BY <1>4, SessionFrame, TokenNames DEF PrepareBegins, Launching
<1>5. ASSUME NEW r \in RequestId, NEW t \in ClientToken, NEW why \in Purpose, StartOrFork(t, why, r) PROVE SessionInv'
  <2>1. CASE Admissible(t, why)
    <3>1. PICK gone \in Evictions : Reserve(t, why, gone, IF why = "plan" THEN "plan" ELSE "barrier")
      BY <1>5, <2>1 DEF StartOrFork
    <3>2. gone \in SUBSET Evictable
      BY DEF Evictions
    <3>3. sess[t] = "none" /\ UNCHANGED <<started, minted, preparation>>
      BY <1>5, <2>1 DEF StartOrFork, Admissible, SessionInv
    <3> QED
      BY <3>1, <3>2, <3>3, ReserveSession
  <2>2. CASE ~Admissible(t, why)
    BY <1>5, <2>2, SessionFrame DEF StartOrFork, Launching
  <2> QED
    BY <2>1, <2>2
<1>6. ASSUME NEW r \in RequestId, NEW t \in LaunchToken, Launch(t, r) PROVE SessionInv'
  <2>1. CASE \E gone \in Evictions : preparation = t /\ Consume /\ Reserve(t, "launch", gone, "barrier")
    <3>1. PICK gone \in Evictions : preparation = t /\ Consume /\ Reserve(t, "launch", gone, "barrier")
      BY <2>1
    <3>2. gone \in SUBSET Evictable
      BY DEF Evictions
    <3>3. sess[t] = "none" /\ UNCHANGED <<started, minted>> /\ preparation' = "none"
      BY <1>6, <3>1 DEF Launch, SessionInv, Consume
    <3> QED
      BY <3>1, <3>2, <3>3, ReserveSession
  <2>2. CASE UNCHANGED <<runVars, preparation, saveVars, admitted>>
    BY <1>6, <2>2, SessionFrame DEF Launch, Launching
  <2> QED
    BY <1>6, <2>1, <2>2 DEF Launch
<1>7. ASSUME NEW r \in RequestId, NEW t \in Token, Deliver(t, r) PROVE SessionInv'
  <2>1. CASE UNCHANGED <<sess, saved>>
    BY <1>7, <2>1, SessionFrame DEF Deliver, Launching
  <2>2. CASE sess[t] \in {"ready", "running"} /\ Publish(t, "running")
    BY <1>7, <2>2, HasSession, PublishSession DEF Deliver, Launching, Active
  <2> QED
    BY <1>7, <2>1, <2>2 DEF Deliver
<1>8. ASSUME NEW t \in Token, Stop(t) PROVE SessionInv'
  <2>1. CASE sess[t] # "none"
    <3>1. PICK s \in Status : Publish(t, s) /\ s \notin Active
      BY <1>8, <2>1 DEF Stop, Good, TypeOK, Active, Status
    <3> QED
      BY <1>8, <2>1, <3>1, HasSession, PublishSession DEF Stop, Launching
  <2>2. CASE sess[t] = "none"
    <3>1. t \in Retained /\ saved' = (IF saved[t].archived THEN saved ELSE [saved EXCEPT ![t] = Observed("closed")])
          /\ UNCHANGED <<sess, admitted, started, minted, preparation, pc>>
      BY <1>8, <2>2 DEF Stop
    <3>2. \A u \in Token : (u # t => saved'[u] = saved[u]) /\ (u \in Retained => saved'[u] # NoRun)
      BY <3>1, Names DEF Good, TypeOK, Retained
    <3> QED
      BY <2>2, <3>1, <3>2 DEF SessionInv, Retained, Launching
  <2> QED
    BY <2>1, <2>2
<1>9. CASE PrepareEnds
  BY <1>9 DEF PrepareEnds, SessionInv, Retained, Launching
<1>10. ASSUME NEW t \in Token, PlanChecked(t) \/ AfterBarrier(t) \/ ContextRevalidated(t) \/ CreateFails(t) \/ AbortSettles(t)
       PROVE  SessionInv'
  <2>1. UNCHANGED <<saved, sess, admitted, started, minted, preparation>>
    BY <1>10 DEF PlanChecked, AfterBarrier, ContextRevalidated, CreateFails, AbortSettles
  <2>2. Launching(t) /\ \A u \in Token : u # t => pc'[u] = pc[u]
    BY <1>10 DEF PlanChecked, AfterBarrier, ContextRevalidated, CreateFails, AbortSettles, Launching, Awaits, Good, TypeOK
  <2> QED
    BY <2>1, <2>2, SessionFrame DEF Launching
<1>11. ASSUME NEW t \in Token, SessionCreated(t) PROVE SessionInv'
  <2>1. pc[t] = "create" /\ Launching(t) /\ t \in admitted /\ started[t] = 0 /\ started \in [Token -> Nat]
    BY <1>11 DEF SessionCreated, Good, IdentityInv, BarrierInv, Launching, TypeOK
  <2>2. t \in LaunchToken => t \in minted /\ t # preparation
    BY <2>1, TokenNames DEF Good, IdentityInv, MintedInv
  <2>3. t \in Retained
    BY <2>1 DEF SessionInv
  <2>4. \A u \in Token : Launching(u)' => Launching(u)
    BY <1>11, <2>1 DEF SessionCreated, Launching, Good, TypeOK
  <2>5. UNCHANGED <<admitted, minted, preparation>>
    BY <1>11 DEF SessionCreated
  <2>6. CASE Cancelled(t)
    BY <1>11, <2>2, <2>1, <2>3, <2>4, <2>5, <2>6, PublishSession DEF SessionCreated, Active
  <2>7. CASE ~Cancelled(t)
    <3>1. started'[t] = 1 /\ \A u \in Token : u # t => started'[u] = started[u]
      BY <1>11, <2>1, <2>7 DEF SessionCreated
    <3> QED
      BY <1>11, <2>1, <2>2, <2>3, <2>4, <2>5, <2>7, <3>1, PublishSession DEF SessionCreated
  <2> QED
    BY <2>6, <2>7
<1>12. ASSUME NEW t \in Token, LaunchCaught(t) PROVE SessionInv'
  <2>1. \A u \in Token : u # t => saved'[u] = saved[u] /\ pc'[u] = pc[u]
    BY <1>12 DEF LaunchCaught, Good, TypeOK
  <2>2. saved'[t] # NoRun /\ (sess[t] # "none" => saved'[t] = Observed(sess[t]))
    BY <1>12, Names DEF LaunchCaught, Good, TypeOK
  <2>3. Launching(t) /\ UNCHANGED <<sess, admitted, started, minted, preparation>>
    BY <1>12 DEF LaunchCaught, Launching, Awaits
  <2> QED
    BY <2>1, <2>2, <2>3 DEF SessionInv, Retained, Launching
<1>13. ASSUME NEW t \in Token, SessionMoves(t) PROVE SessionInv'
  <2>1. PICK s \in Status : Publish(t, s) /\ (s \in Active => sess[t] \in Active)
    BY <1>13 DEF SessionMoves, Active
  <2> QED
    BY <1>13, <2>1, HasSession, PublishSession DEF SessionMoves, Launching
<1>14. ASSUME NEW t \in Token, NEW outcome, SessionCloses(t, outcome) PROVE SessionInv'
  <2>1. PICK s \in Status : Publish(t, s) /\ s \notin Active
    BY <1>14 DEF SessionCloses, Active
  <2> QED
    BY <1>14, <2>1, HasSession, PublishSession DEF SessionCloses, Launching
<1>15. CASE ShutdownBegins \/ DrainFirstStops \/ DrainLastStops \/ DrainCloses
  BY <1>15, SessionFrame, TokenNames DEF ShutdownBegins, DrainFirstStops, DrainLastStops, DrainCloses, Launching
<1>16. CASE DrainStops \/ DrainPending
  BY <1>16, StopSessionsSession DEF DrainStops, DrainPending
<1>17. CASE Crash
  <2>1. \A t \in Token : pc'[t] = "none" /\ sess'[t] = "none"
    BY <1>17 DEF Crash
  <2> QED
    BY <2>1 DEF SessionInv, Launching, Active
<1> QED
  BY <1>1, <1>2, <1>3, <1>4, <1>5, <1>6, <1>7, <1>8, <1>9, <1>10, <1>11, <1>12, <1>13, <1>14, <1>15,
     <1>16, <1>17 DEF Next, SaveSteps, Requests, LaunchSteps, DrainSteps

-----------------------------------------------------------------------------
(* Commands.                                                                 *)

\* Nothing is delivered, and only a conversation never started gets a session.
LEMMA DeliveryFrame ==
    ASSUME TypeOK, DeliveryInv, delivered' = delivered, commands \subseteq commands',
           \A t \in Token : /\ started'[t] = started[t] \/ (started[t] = 0 /\ started'[t] = 1)
                            /\ sess[t] = "none" => sess'[t] = "none" \/ started[t] = 0
    PROVE  DeliveryInv'
<1>1. \A t \in Token : started[t] \in Nat
  BY DEF TypeOK
<1>2. \A t \in Token, r \in RequestId : delivered[<<t, r>>] \in Nat
  BY DEF TypeOK
<1> SUFFICES ASSUME NEW t \in Token, NEW r \in RequestId
             PROVE  /\ delivered[<<t, r>>] <= 1
                    /\ delivered[<<t, r>>] > 0 => started'[t] >= 1 /\ (r \in commands' \/ sess'[t] = "none")
  BY DEF DeliveryInv
<1>3. /\ delivered[<<t, r>>] <= 1
      /\ delivered[<<t, r>>] > 0 => started[t] >= 1 /\ (r \in commands \/ sess[t] = "none")
  BY DEF DeliveryInv
<1>4. CASE started'[t] = started[t]
  BY <1>1, <1>2, <1>3, <1>4
<1>5. CASE started[t] = 0 /\ started'[t] = 1
  BY <1>1, <1>2, <1>3, <1>5
<1> QED
  BY <1>4, <1>5

LEMMA DeliveryStep == Good /\ SessionInv /\ DeliveryInv /\ [Next]_vars => DeliveryInv'
<1> SUFFICES ASSUME Good, SessionInv, DeliveryInv, [Next]_vars PROVE DeliveryInv'
  OBVIOUS
<1> USE TokenParts DEF runVars, prepareVars, faultVars, saveVars, worldVars, Good
<1>1. CASE Load \/ LoadFails \/ SaveSteps \/ PrepareEnds \/ ShutdownBegins \/ Ended \/ UNCHANGED vars
  BY <1>1, DeliveryFrame DEF Load, LoadFails, SaveSteps, SaveBegins, SaveSucceeds, SaveFails, PrepareEnds,
     ShutdownBegins, Ended, vars
<1>2. ASSUME NEW r \in RequestId, PrepareBegins(r) PROVE DeliveryInv'
  BY <1>2, DeliveryFrame DEF PrepareBegins, Accept
<1>3. ASSUME NEW r \in RequestId, NEW t \in ClientToken, NEW why \in Purpose, StartOrFork(t, why, r) PROVE DeliveryInv'
  <2>1. \A u \in Token : sess[u] = "none" => sess'[u] = "none"
    BY <1>3 DEF StartOrFork, Reserve
  <2> QED
    BY <1>3, <2>1, DeliveryFrame DEF StartOrFork, Accept
<1>4. ASSUME NEW r \in RequestId, NEW t \in LaunchToken, Launch(t, r) PROVE DeliveryInv'
  <2>1. \A u \in Token : sess[u] = "none" => sess'[u] = "none"
    BY <1>4 DEF Launch, Reserve
  <2> QED
    BY <1>4, <2>1, DeliveryFrame DEF Launch, Accept
<1>5. ASSUME NEW r \in RequestId, NEW t \in Token, Deliver(t, r) PROVE DeliveryInv'
  <2>1. r \notin commands /\ commands' = commands \cup {r} /\ started' = started
    BY <1>5 DEF Deliver, Accept
  <2>2. CASE UNCHANGED <<sess, delivered>>
    BY <2>1, <2>2, DeliveryFrame
  <2>3. CASE sess[t] \in {"ready", "running"} /\ delivered' = [delivered EXCEPT ![<<t, r>>] = @ + 1] /\ Publish(t, "running")
    <3>1. started[t] >= 1 /\ started[t] \in Nat
      BY <2>3 DEF SessionInv, Active, TypeOK
    <3>2. delivered[<<t, r>>] = 0
      BY <2>1, <2>3 DEF DeliveryInv, TypeOK
    <3>3. \A u \in Token : sess'[u] = (IF u = t THEN "running" ELSE sess[u])
      BY <2>3 DEF Publish, TypeOK
    <3>4. \A u \in Token, q \in RequestId : delivered'[<<u, q>>] = (IF u = t /\ q = r THEN 1 ELSE delivered[<<u, q>>])
      BY <2>3, <3>2 DEF TypeOK
    <3> SUFFICES ASSUME NEW u \in Token, NEW q \in RequestId
                 PROVE  /\ delivered'[<<u, q>>] <= 1
                        /\ delivered'[<<u, q>>] > 0 => started[u] >= 1 /\ (q \in commands' \/ sess'[u] = "none")
      BY <2>1 DEF DeliveryInv
    <3>5. CASE u = t /\ q = r
      BY <2>1, <3>1, <3>4, <3>5
    <3>6. CASE ~(u = t /\ q = r)
      <4>1. /\ delivered[<<u, q>>] <= 1
            /\ delivered[<<u, q>>] > 0 => started[u] >= 1 /\ (q \in commands \/ sess[u] = "none")
        BY DEF DeliveryInv
      <4> QED
        BY <2>1, <2>3, <3>3, <3>4, <3>6, <4>1
    <3> QED
      BY <3>5, <3>6
  <2> QED
    BY <1>5, <2>2, <2>3 DEF Deliver
<1>6. ASSUME NEW t \in Token, Stop(t) PROVE DeliveryInv'
  BY <1>6, DeliveryFrame DEF Stop, Publish, TypeOK
<1>7. ASSUME NEW t \in Token, PlanChecked(t) \/ AfterBarrier(t) \/ ContextRevalidated(t) \/ CreateFails(t)
                             \/ AbortSettles(t) \/ LaunchCaught(t)
      PROVE  DeliveryInv'
  BY <1>7, DeliveryFrame DEF PlanChecked, AfterBarrier, ContextRevalidated, CreateFails, AbortSettles, LaunchCaught
<1>8. ASSUME NEW t \in Token, SessionCreated(t) PROVE DeliveryInv'
  <2>1. started[t] = 0
    BY <1>8 DEF SessionCreated, IdentityInv, BarrierInv
  <2>2. \A u \in Token : u # t => sess'[u] = sess[u]
    BY <1>8 DEF SessionCreated, Publish, TypeOK
  <2>3. \A u \in Token : started'[u] = started[u] \/ (started[u] = 0 /\ started'[u] = 1)
    BY <1>8, <2>1 DEF SessionCreated, TypeOK
  <2>4. UNCHANGED <<delivered, commands>>
    BY <1>8 DEF SessionCreated
  <2> QED
    BY <2>1, <2>2, <2>3, <2>4, DeliveryFrame
<1>9. ASSUME NEW t \in Token, SessionMoves(t) \/ \E outcome : SessionCloses(t, outcome) PROVE DeliveryInv'
  <2>1. sess[t] # "none" /\ \A u \in Token : u # t => sess'[u] = sess[u]
    BY <1>9 DEF SessionMoves, SessionCloses, Publish, TypeOK
  <2>2. UNCHANGED <<delivered, commands, started>>
    BY <1>9 DEF SessionMoves, SessionCloses
  <2> QED
    BY <2>1, <2>2, DeliveryFrame
<1>10. CASE DrainSteps
  <2>1. \A u \in Token : sess[u] = "none" => sess'[u] = "none"
    BY <1>10, Names DEF DrainSteps, DrainStops, DrainFirstStops, DrainPending, DrainLastStops, DrainCloses, StopSessions
  <2>2. UNCHANGED <<delivered, commands, started>>
    BY <1>10 DEF DrainSteps, DrainStops, DrainFirstStops, DrainPending, DrainLastStops, DrainCloses
  <2> QED
    BY <2>1, <2>2, DeliveryFrame
<1>11. CASE Crash
  BY <1>11 DEF Crash, DeliveryInv
<1> QED
  BY <1>1, <1>2, <1>3, <1>4, <1>5, <1>6, <1>7, <1>8, <1>9, <1>10, <1>11 DEF Next, Requests, LaunchSteps

-----------------------------------------------------------------------------
(* Shutdown.                                                                 *)

\* No launch begins and no cleanup reopens, and no session comes from nothing.
LEMMA ShutdownFrame ==
    ASSUME ShutdownInv,
           drain' \in {"none", "init", "first", "pending"} \/ drain' = drain \/ {drain, drain'} \subseteq {"save", "close", "done"},
           \A t \in Token : /\ Launching(t)' => Launching(t)
                            /\ cleanup[t] # "open" => cleanup'[t] # "open"
                            /\ sess[t] = "none" => sess'[t] = "none" \/ Launching(t)
    PROVE  ShutdownInv'
BY DEF ShutdownInv

LEMMA ShutdownStep == Good /\ SessionInv /\ ShutdownInv /\ [Next]_vars => ShutdownInv'
<1> SUFFICES ASSUME Good, SessionInv, ShutdownInv, [Next]_vars PROVE ShutdownInv'
  OBVIOUS
<1> USE TokenParts DEF runVars, prepareVars, faultVars, saveVars, worldVars, Good
<1>1. CASE Load \/ LoadFails \/ SaveBegins \/ PrepareEnds \/ ShutdownBegins \/ Ended \/ UNCHANGED vars
  BY <1>1, ShutdownFrame DEF Load, LoadFails, SaveBegins, PrepareEnds, ShutdownBegins, Ended, vars, Launching
<1>2. CASE SaveSucceeds \/ SaveFails
  <2>1. \A t \in Token : Launching(t)' => Launching(t)
    BY <1>2 DEF SaveSucceeds, SaveFails, SettleWriter, Resumed, Launching, Awaits
  <2>2. UNCHANGED <<sess, cleanup>>
    BY <1>2 DEF SaveSucceeds, SaveFails
  <2>3. drain' = drain \/ (drain = "save" /\ drain' = "close")
    BY <1>2 DEF SaveSucceeds, SaveFails, SettleWriter
  <2> QED
    BY <2>1, <2>2, <2>3, ShutdownFrame
<1>3. ASSUME NEW r \in RequestId,
             \/ PrepareBegins(r)
             \/ \E t \in ClientToken, why \in Purpose : StartOrFork(t, why, r)
             \/ \E t \in LaunchToken : Launch(t, r)
             \/ \E t \in Token : Deliver(t, r)
      PROVE  ShutdownInv'
  <2>1. drain = "none" /\ drain' = drain
    BY <1>3 DEF PrepareBegins, StartOrFork, Launch, Deliver, Accept, Closed
  <2> QED
    BY <2>1 DEF ShutdownInv
<1>4. ASSUME NEW t \in Token, Stop(t) PROVE ShutdownInv'
  BY <1>4 DEF Stop, Closed, ShutdownInv
<1>5. ASSUME NEW t \in Token, LaunchSteps(t) PROVE ShutdownInv'
  <2>1. Launching(t)
    BY <1>5 DEF LaunchSteps, PlanChecked, AfterBarrier, ContextRevalidated, SessionCreated, CreateFails, AbortSettles,
       LaunchCaught, Launching, Awaits
  <2>2. drain' = drain
    BY <1>5 DEF LaunchSteps, PlanChecked, AfterBarrier, ContextRevalidated, SessionCreated, CreateFails, AbortSettles,
       LaunchCaught
  <2> QED
    BY <2>1, <2>2 DEF ShutdownInv
<1>6. ASSUME NEW t \in Token, SessionMoves(t) PROVE ShutdownInv'
  <2>1. sess[t] # "none" /\ (\A u \in Token : u # t => sess'[u] = sess[u]) /\ UNCHANGED <<cleanup, pc, drain>>
    BY <1>6 DEF SessionMoves, Publish, TypeOK
  <2> QED
    BY <2>1, ShutdownFrame DEF Launching
<1>7. ASSUME NEW t \in Token, NEW outcome \in {"confirmed", "unknown"}, SessionCloses(t, outcome) PROVE ShutdownInv'
  <2>1. sess[t] # "none" /\ (\A u \in Token : u # t => sess'[u] = sess[u]) /\ UNCHANGED <<pc, drain>>
    BY <1>7 DEF SessionCloses, Publish, TypeOK
  <2>2. \A u \in Token : cleanup[u] # "open" => cleanup'[u] # "open"
    BY <1>7 DEF SessionCloses, TypeOK
  <2> QED
    BY <2>1, <2>2, ShutdownFrame DEF Launching
<1>8. CASE DrainStops \/ DrainFirstStops
  BY <1>8 DEF DrainStops, DrainFirstStops, ShutdownInv
<1>9. CASE DrainPending
  BY <1>9 DEF DrainPending, PendingSettled, ShutdownInv, Launching
<1>10. CASE DrainLastStops
  BY <1>10 DEF DrainLastStops, StopsSettled, ShutdownInv, Launching
<1>11. CASE DrainCloses
  BY <1>11 DEF DrainCloses, ShutdownInv, Launching
<1>12. CASE Crash
  BY <1>12 DEF Crash, ShutdownInv
<1> QED
  BY <1>1, <1>2, <1>3, <1>4, <1>5, <1>6, <1>7, <1>8, <1>9, <1>10, <1>11, <1>12 DEF Next, SaveSteps, Requests, DrainSteps

-----------------------------------------------------------------------------
(* The history.                                                              *)

\* What persist() has recorded is not yet captured, or storage is lost.
LEMMA PersistQuiet ==
    ASSUME Good, QuietInv, Persist, UNCHANGED storageError
    PROVE  QuietInv'
<1>1. CASE unreadable
  <2>1. storageError' /\ ~savePending /\ ~inflight.active
    BY <1>1 DEF Good, IdentityInv, WriterInv
  <2> QED
    BY <1>1, <2>1 DEF Persist, QuietInv
<1>2. CASE ~unreadable
  BY <1>2 DEF Persist, QuietInv
<1> QED
  BY <1>1, <1>2

\* Nothing the file must follow changes, or the change is yet to be reported.
LEMMA QuietFrame ==
    ASSUME QuietInv, UNCHANGED <<saveVars, init, storageError>>,
           Unreported' \/ (~Unreported /\ UNCHANGED <<saved, admitted>>)
    PROVE  QuietInv'
BY DEF QuietInv, saveVars, Current

LEMMA QuietStep == Good /\ QuietInv /\ [Next]_vars => QuietInv'
<1> SUFFICES ASSUME Good, QuietInv, [Next]_vars PROVE QuietInv'
  OBVIOUS
<1> USE TokenParts DEF runVars, prepareVars, faultVars, worldVars
<1>1. CASE Load
  <2>1. CASE Persist
    BY <1>1, <2>1, PersistQuiet DEF Load
  <2>2. CASE init' = "done" /\ UNCHANGED saveVars /\ \A t \in Token : disk.runs[t] = NoRun
    <3>1. disk.runs = [t \in Token |-> NoRun] /\ ~inflight.active
      BY <1>1, <2>2, SnapshotFields DEF Load, Good, TypeOK, IdentityInv, WriterInv
    <3>2. saved' = disk.runs /\ admitted' = disk.tokens
      BY <1>1, <2>2, <3>1 DEF Load, Restored
    <3> QED
      BY <1>1, <2>2, <3>1, <3>2 DEF Load, QuietInv, Current, saveVars
  <2> QED
    BY <1>1, <2>1, <2>2 DEF Load
<1>2. CASE LoadFails
  BY <1>2 DEF LoadFails, QuietInv, saveVars
<1>3. CASE SaveBegins \/ (SaveSucceeds /\ dirty)
  <2>1. dirty' = FALSE /\ inflight' = Captured /\ savePending' /\ UNCHANGED <<saved, admitted, init, storageError>>
    BY <1>3 DEF SaveBegins, SaveSucceeds, Good, IdentityInv, WriterInv
  <2> QED
    BY <2>1 DEF QuietInv, Captured, Current
<1>4. CASE SaveSucceeds /\ ~dirty
  <2>1. /\ inflight.active /\ disk' = inflight /\ ~inflight'.active /\ ~savePending' /\ ~dirty /\ ~dirty'
        /\ UNCHANGED <<saved, admitted, storageError>> /\ init' # "saving" /\ init # "loading"
    BY <1>4 DEF SaveSucceeds, SettleWriter, NoSave, Good, IdentityInv, WriterInv
  <2>2. Unreported => Unreported'
    BY <1>4 DEF SaveSucceeds, SettleWriter, Resumed, Unreported
  <2> QED
    BY <2>1, <2>2 DEF QuietInv, Current
<1>5. CASE SaveFails
  BY <1>5 DEF SaveFails, SettleWriter, NoSave, QuietInv
<1>6. ASSUME NEW r \in RequestId, PrepareBegins(r) PROVE QuietInv'
  BY <1>6 DEF PrepareBegins, QuietInv, saveVars, Current, Unreported
<1>7. ASSUME NEW r \in RequestId, NEW t \in ClientToken, NEW why \in Purpose, StartOrFork(t, why, r) PROVE QuietInv'
  <2>1. CASE Persist
    BY <1>7, <2>1, PersistQuiet DEF StartOrFork
  <2>2. CASE UNCHANGED <<runVars, saveVars, admitted>>
    BY <1>7, <2>2, QuietFrame DEF StartOrFork, QuietInv, saveVars, Current, Unreported
  <2>3. CASE UNCHANGED saveVars /\ pc' = [pc EXCEPT ![t] = "plan"]
    <3>1. Unreported'
      BY <2>3 DEF Unreported, Good, TypeOK
    <3> QED
      BY <1>7, <2>3, <3>1, QuietFrame DEF StartOrFork
  <2> QED
    BY <1>7, <2>1, <2>2, <2>3 DEF StartOrFork, Reserve
<1>8. ASSUME NEW r \in RequestId, NEW t \in LaunchToken, Launch(t, r) PROVE QuietInv'
  <2>1. CASE Persist
    BY <1>8, <2>1, PersistQuiet DEF Launch
  <2>2. CASE UNCHANGED <<runVars, saveVars, admitted>>
    BY <1>8, <2>2 DEF Launch, QuietInv, saveVars, Current, Unreported
  <2> QED
    BY <1>8, <2>1, <2>2 DEF Launch, Reserve
<1>9. ASSUME NEW r \in RequestId, NEW t \in Token, Deliver(t, r) PROVE QuietInv'
  <2>1. CASE Persist
    BY <1>9, <2>1, PersistQuiet DEF Deliver
  <2>2. CASE UNCHANGED <<sess, saved, saveVars, delivered>>
    BY <1>9, <2>2 DEF Deliver, QuietInv, saveVars, Current, Unreported
  <2> QED
    BY <1>9, <2>1, <2>2 DEF Deliver, Publish
<1>10. ASSUME NEW t \in Token, Stop(t) PROVE QuietInv'
  <2>1. Persist /\ UNCHANGED storageError
    BY <1>10 DEF Stop, Publish
  <2> QED
    BY <2>1, PersistQuiet
<1>11. CASE PrepareEnds \/ ShutdownBegins \/ Ended \/ UNCHANGED vars \/ DrainFirstStops \/ DrainCloses
  BY <1>11 DEF PrepareEnds, ShutdownBegins, Ended, vars, DrainFirstStops, DrainCloses, QuietInv, saveVars, Current, Unreported
<1>12. ASSUME NEW t \in Token, LaunchSteps(t) PROVE QuietInv'
  <2>1. CASE Persist /\ UNCHANGED storageError
    BY <2>1, PersistQuiet
  <2>2. CASE UNCHANGED <<saveVars, init, storageError, saved, admitted>> /\ (Unreported => Unreported')
    BY <2>2 DEF QuietInv, saveVars, Current
  <2>3. CASE PlanChecked(t)
    <3>1. CASE pc' = [pc EXCEPT ![t] = "rejected"]
      <4>1. Unreported'
        BY <3>1 DEF Unreported, Good, TypeOK
      <4> QED
        BY <2>1, <2>2, <2>3, <4>1 DEF PlanChecked
    <3> QED
      BY <2>1, <2>3, <3>1 DEF PlanChecked
  <2>4. CASE AfterBarrier(t) \/ ContextRevalidated(t) \/ CreateFails(t) \/ AbortSettles(t)
    <3>1. UNCHANGED <<saveVars, init, storageError, saved, admitted>>
      BY <2>4 DEF AfterBarrier, ContextRevalidated, CreateFails, AbortSettles
    <3>2. pc[t] \notin {"plan", "rejected"} /\ \A u \in Token : u # t => pc'[u] = pc[u]
      BY <2>4 DEF AfterBarrier, ContextRevalidated, CreateFails, AbortSettles, Good, TypeOK
    <3> QED
      BY <2>2, <3>1, <3>2 DEF Unreported
  <2>5. CASE SessionCreated(t) \/ LaunchCaught(t)
    BY <2>1, <2>5 DEF SessionCreated, LaunchCaught, Publish
  <2> QED
    BY <1>12, <2>3, <2>4, <2>5 DEF LaunchSteps
<1>13. ASSUME NEW t \in Token, SessionMoves(t) \/ \E outcome : SessionCloses(t, outcome) PROVE QuietInv'
  <2>1. Persist /\ UNCHANGED storageError
    BY <1>13 DEF SessionMoves, SessionCloses, Publish
  <2> QED
    BY <2>1, PersistQuiet
<1>14. CASE DrainStops \/ DrainPending
  <2>1. CASE Persist
    BY <1>14, <2>1, PersistQuiet DEF DrainStops, DrainPending
  <2>2. CASE UNCHANGED saveVars /\ \A t \in Token : sess[t] = "none"
    <3>1. saved' = saved
      BY <1>14, <2>2 DEF DrainStops, DrainPending, StopSessions, Active, Good, TypeOK
    <3> QED
      BY <1>14, <2>2, <3>1 DEF DrainStops, DrainPending, QuietInv, saveVars, Current, Unreported
  <2> QED
    BY <1>14, <2>1, <2>2 DEF DrainStops, DrainPending, StopSessions
<1>15. CASE DrainLastStops
  BY <1>15, PersistQuiet DEF DrainLastStops
<1>16. CASE Crash
  BY <1>16 DEF Crash, NoSave, QuietInv
<1> QED
  BY <1>1, <1>2, <1>3, <1>4, <1>5, <1>6, <1>7, <1>8, <1>9, <1>10, <1>11, <1>12, <1>13, <1>14, <1>15, <1>16
     DEF Next, SaveSteps, Requests, DrainSteps

-----------------------------------------------------------------------------
(* The limits.                                                               *)

LEMMA Fewer ==
    ASSUME NEW S \in SUBSET Token, NEW T \in SUBSET S
    PROVE  /\ IsFiniteSet(S) /\ Cardinality(S) \in Nat /\ Cardinality(T) \in Nat
           /\ Cardinality(T) <= Cardinality(S)
<1>1. IsFiniteSet(S)
  BY TokensAssumption, FS_Subset
<1> QED
  BY <1>1, FS_Subset, FS_CardinalityType

LEMMA LimitFrame ==
    ASSUME LimitInv, Live' \subseteq Live, Retained' \subseteq Retained,
           disk' = disk \/ (disk' = inflight /\ Writable)
    PROVE  LimitInv'
<1>1. Cardinality(Live') <= Cardinality(Live) /\ Cardinality(Live) \in Nat /\ Cardinality(Live') \in Nat
  BY Fewer DEF Live, Retained
<1>2. Cardinality(Retained') <= Cardinality(Retained) /\ Cardinality(Retained) \in Nat /\ Cardinality(Retained') \in Nat
  BY Fewer DEF Retained
<1>3. Cardinality(Held(disk'.runs)) <= MaxRetained
  BY DEF LimitInv, Writable, Held
<1> QED
  BY <1>1, <1>2, <1>3, LimitsAssumption DEF LimitInv

\* The run of a session that is not closed is live.
LEMMA OpenRun ==
    ASSUME SessionInv, NEW t \in Token, sess[t] \notin {"none", "closed"}
    PROVE  t \in Live
<1>1. t \in Retained /\ saved[t] = Observed(sess[t])
  BY DEF SessionInv
<1>2. Observed(sess[t]) = [status |-> sess[t], archived |-> FALSE]
  BY DEF Observed
<1>3. saved[t].archived = FALSE
  BY <1>1, <1>2
<1> QED
  BY <1>1, <1>3 DEF Live

\* A session publishes: its run stays as live as it was.
LEMMA PublishLimit ==
    ASSUME Good, SessionInv, LimitInv, NEW t \in Token, NEW s \in Status, Publish(t, s), t \in Retained,
           s # "closed" => Launching(t) \/ sess[t] \notin {"none", "closed"},
           \A u \in Token : Launching(u)' => Launching(u)
    PROVE  LimitInv'
<1>1. \A u \in Token : saved'[u] = (IF u = t THEN Observed(s) ELSE saved[u])
  BY DEF Publish, Good, TypeOK
<1>2. Retained' \subseteq Retained
  BY <1>1 DEF Retained
<1>3. Live' \subseteq Live
  <2> SUFFICES ASSUME NEW u \in Live' PROVE u \in Live
    OBVIOUS
  <2>1. CASE u = t
    <3>1. CASE s = "closed"
      <4>1. saved'[t] = [status |-> s, archived |-> TRUE]
        BY <1>1, <3>1 DEF Observed
      <4> QED
        BY <2>1, <4>1 DEF Live
    <3>2. CASE s # "closed" /\ Launching(t)
      BY <2>1, <3>2 DEF Live
    <3>3. CASE s # "closed" /\ sess[t] \notin {"none", "closed"}
      BY <2>1, <3>3, OpenRun
    <3> QED
      BY <3>1, <3>2, <3>3
  <2>2. CASE u # t
    BY <1>1, <1>2, <2>2 DEF Live, Retained
  <2> QED
    BY <2>1, <2>2
<1> QED
  BY <1>2, <1>3, LimitFrame DEF Publish, Persist

\* A launch is admitted: what is live has room for it, and what is retained made room.
LEMMA ReserveLimit ==
    ASSUME Good, LimitInv, NEW t \in Token, NEW why, NEW gone \in Evictions, NEW at, Reserve(t, why, gone, at), HasCapacity
    PROVE  LimitInv'
<1>1. \A u \in Token : /\ saved'[u] = (IF u = t THEN Observed("starting") ELSE IF u \in gone THEN NoRun ELSE saved[u])
                       /\ u # t => pc'[u] = pc[u]
  BY DEF Reserve, Good, TypeOK
<1>2. gone \subseteq Evictable
  BY DEF Evictions
<1>3. /\ Retained' \subseteq (Retained \ gone) \cup {t}
      /\ Live' \subseteq Live \cup {t}
  BY <1>1 DEF Retained, Live, Launching
<1>4. /\ Retained \ gone \in SUBSET Retained /\ Retained \in SUBSET Token /\ Live \in SUBSET Token
      /\ (Retained \ gone) \cup {t} \in SUBSET Token /\ Live \cup {t} \in SUBSET Token
  BY DEF Retained, Live
<1>5. \A S \in SUBSET Token : Cardinality(S) \in Nat /\ Cardinality(S \cup {t}) <= Cardinality(S) + 1
  BY Fewer, FS_AddElement
<1>6. Cardinality(Live') <= MaxLive
  <2>1. Cardinality(Live') <= Cardinality(Live \cup {t}) /\ Cardinality(Live') \in Nat /\ Cardinality(Live \cup {t}) \in Nat
    BY <1>3, <1>4, Fewer
  <2> QED
    BY <1>4, <1>5, <2>1, LimitsAssumption DEF HasCapacity
<1>7. Cardinality(Retained \ gone) < MaxRetained
  <2>1. CASE Cardinality(Retained) < MaxRetained
    <3>1. Cardinality(Retained \ gone) <= Cardinality(Retained)
      BY <1>4, Fewer
    <3>2. Cardinality(Retained) \in Nat /\ Cardinality(Retained \ gone) \in Nat
      BY <1>4, Fewer
    <3> QED
      BY <2>1, <3>1, <3>2, LimitsAssumption
  <2>2. CASE gone = Evictable
    <3>1. Retained \ gone \in SUBSET Live
      BY <2>2 DEF Evictable, Live
    <3>2. Cardinality(Retained \ gone) <= Cardinality(Live)
      BY <1>4, <3>1, Fewer
    <3>3. Cardinality(Live) \in Nat /\ Cardinality(Retained \ gone) \in Nat
      BY <1>4, <3>1, Fewer
    <3> QED
      BY <3>2, <3>3, LimitsAssumption DEF HasCapacity
  <2> QED
    BY <1>4, <1>5, <2>1, <2>2, LimitsAssumption DEF Evictions
<1>8. Cardinality(Retained') <= MaxRetained
  <2>1. Cardinality(Retained') <= Cardinality((Retained \ gone) \cup {t}) /\ Cardinality(Retained') \in Nat
    BY <1>3, <1>4, Fewer
  <2>2. Retained \ gone \in SUBSET Token
    BY <1>4
  <2> QED
    BY <1>4, <1>5, <1>7, <2>1, <2>2, LimitsAssumption
<1>9. disk' = disk
  BY DEF Reserve, Persist, saveVars
<1> QED
  BY <1>6, <1>8, <1>9 DEF LimitInv

LEMMA LimitStep == Good /\ SessionInv /\ LimitInv /\ [Next]_vars => LimitInv'
<1> SUFFICES ASSUME Good, SessionInv, LimitInv, [Next]_vars PROVE LimitInv'
  OBVIOUS
<1> USE TokenParts, StatusNames DEF runVars, prepareVars, faultVars, saveVars, worldVars
<1>1. CASE Load
  <2>1. \A t \in Token : /\ saved'[t] # NoRun => disk.runs[t] # NoRun
                         /\ saved'[t].archived /\ pc'[t] = "none"
    BY <1>1 DEF Load, Restored, NoRun, Good, IdentityInv, WriterInv
  <2>2. Live' = {} /\ Retained' \in SUBSET Held(disk.runs) /\ Held(disk.runs) \in SUBSET Token
    BY <2>1, AwaitNames DEF Live, Retained, Held, Launching
  <2>3. Cardinality(Retained') <= Cardinality(Held(disk.runs)) /\ Cardinality(Retained') \in Nat
        /\ Cardinality(Held(disk.runs)) \in Nat
    BY <2>2, Fewer
  <2>4. disk' = disk
    BY <1>1 DEF Load, Persist
  <2> QED
    BY <2>2, <2>3, <2>4, FS_EmptySet, LimitsAssumption DEF LimitInv
<1>2. CASE LoadFails \/ SaveBegins \/ PrepareEnds \/ ShutdownBegins \/ Ended \/ UNCHANGED vars
           \/ DrainFirstStops \/ DrainLastStops \/ DrainCloses
  <2>1. UNCHANGED <<saved, pc, disk>>
    BY <1>2 DEF LoadFails, SaveBegins, PrepareEnds, ShutdownBegins, Ended, vars, DrainFirstStops, DrainLastStops,
       DrainCloses, Persist
  <2> QED
    BY <2>1, LimitFrame DEF Live, Retained, Launching
<1>3. CASE SaveSucceeds \/ SaveFails
  <2>1. \A t \in Token : Launching(t)' => Launching(t)
    BY <1>3 DEF SaveSucceeds, SaveFails, SettleWriter, Resumed, Launching, Awaits
  <2>2. saved' = saved /\ (disk' = disk \/ (disk' = inflight /\ Writable))
    BY <1>3 DEF SaveSucceeds, SaveFails
  <2> QED
    BY <2>1, <2>2, LimitFrame DEF Live, Retained
<1>4. ASSUME NEW r \in RequestId, PrepareBegins(r) PROVE LimitInv'
  BY <1>4, LimitFrame DEF PrepareBegins, Live, Retained, Launching
<1>5. ASSUME NEW r \in RequestId, NEW t \in ClientToken, NEW why \in Purpose, StartOrFork(t, why, r) PROVE LimitInv'
  <2>1. CASE Admissible(t, why)
    BY <1>5, <2>1, ReserveLimit DEF StartOrFork, Admissible
  <2>2. CASE ~Admissible(t, why)
    BY <1>5, <2>2, LimitFrame DEF StartOrFork, Live, Retained, Launching
  <2> QED
    BY <2>1, <2>2
<1>6. ASSUME NEW r \in RequestId, NEW t \in LaunchToken, Launch(t, r) PROVE LimitInv'
  <2>1. CASE HasCapacity /\ \E gone \in Evictions : Reserve(t, "launch", gone, "barrier")
    BY <2>1, ReserveLimit
  <2>2. CASE UNCHANGED <<runVars, preparation, saveVars, admitted>>
    BY <2>2, LimitFrame DEF Live, Retained, Launching
  <2> QED
    BY <1>6, <2>1, <2>2 DEF Launch
<1>7. ASSUME NEW r \in RequestId, NEW t \in Token, Deliver(t, r) PROVE LimitInv'
  <2>1. CASE sess[t] \in {"ready", "running"} /\ Publish(t, "running")
    BY <1>7, <2>1, HasSession, PublishLimit DEF Deliver, Launching
  <2>2. CASE UNCHANGED <<sess, saved, saveVars, delivered>>
    BY <1>7, <2>2, LimitFrame DEF Deliver, Live, Retained, Launching
  <2> QED
    BY <1>7, <2>1, <2>2 DEF Deliver
<1>8. ASSUME NEW t \in Token, Stop(t) PROVE LimitInv'
  <2>1. CASE sess[t] # "none"
    <3>1. PICK s \in Status : Publish(t, s) /\ (s # "closed" => sess[t] # "closed")
      BY <1>8, <2>1 DEF Stop, Good, TypeOK, Active, Status
    <3> QED
      BY <1>8, <2>1, <3>1, HasSession, PublishLimit DEF Stop, Launching
  <2>2. CASE sess[t] = "none"
    <3>1. t \in Retained /\ saved' = (IF saved[t].archived THEN saved ELSE [saved EXCEPT ![t] = Observed("closed")])
          /\ UNCHANGED <<pc, disk>>
      BY <1>8, <2>2 DEF Stop, Persist
    <3>2. \A u \in Token : saved'[u] = saved[u] \/ (u = t /\ saved'[u].archived)
      BY <3>1, Names DEF Good, TypeOK
    <3> QED
      BY <3>1, <3>2, LimitFrame DEF Live, Retained, Launching
  <2> QED
    BY <2>1, <2>2
<1>9. ASSUME NEW t \in Token, PlanChecked(t) \/ AfterBarrier(t) \/ ContextRevalidated(t) \/ CreateFails(t) \/ AbortSettles(t)
      PROVE  LimitInv'
  <2>1. UNCHANGED <<saved, disk>>
    BY <1>9 DEF PlanChecked, AfterBarrier, ContextRevalidated, CreateFails, AbortSettles, Persist
  <2>2. Launching(t) /\ \A u \in Token : u # t => pc'[u] = pc[u]
    BY <1>9 DEF PlanChecked, AfterBarrier, ContextRevalidated, CreateFails, AbortSettles, Launching, Awaits, Good, TypeOK
  <2> QED
    BY <2>1, <2>2, LimitFrame DEF Live, Retained, Launching
<1>10. ASSUME NEW t \in Token, SessionCreated(t) PROVE LimitInv'
  <2>1. Launching(t) /\ t \in Retained
    BY <1>10, AwaitNames DEF SessionCreated, Launching, SessionInv
  <2>2. \A u \in Token : Launching(u)' => Launching(u)
    BY <1>10, <2>1 DEF SessionCreated, Launching, Good, TypeOK
  <2>3. PICK s \in Status : Publish(t, s)
    BY <1>10 DEF SessionCreated
  <2> QED
    BY <2>1, <2>2, <2>3, PublishLimit
<1>11. ASSUME NEW t \in Token, LaunchCaught(t) PROVE LimitInv'
  <2>1. Launching(t) /\ t \in Retained /\ disk' = disk
    BY <1>11 DEF LaunchCaught, Launching, Awaits, SessionInv, Persist
  <2>2. \A u \in Token : u # t => saved'[u] = saved[u] /\ pc'[u] = pc[u]
    BY <1>11 DEF LaunchCaught, Good, TypeOK
  <2> QED
    BY <2>1, <2>2, LimitFrame DEF Live, Retained, Launching
<1>12. ASSUME NEW t \in Token, SessionMoves(t) PROVE LimitInv'
  <2>1. PICK s \in Status : Publish(t, s) /\ sess[t] \notin {"none", "closed"}
    BY <1>12 DEF SessionMoves, Active
  <2> QED
    BY <1>12, <2>1, HasSession, PublishLimit DEF SessionMoves, Launching
<1>13. ASSUME NEW t \in Token, NEW outcome, SessionCloses(t, outcome) PROVE LimitInv'
  <2>1. PICK s \in Status : Publish(t, s) /\ sess[t] \notin {"none", "closed"}
    BY <1>13 DEF SessionCloses
  <2> QED
    BY <1>13, <2>1, HasSession, PublishLimit DEF SessionCloses, Launching
<1>14. CASE DrainStops \/ DrainPending
  <2>1. \A u \in Token : saved'[u] = (IF sess[u] \in Active THEN Observed("stopping") ELSE saved[u])
    BY <1>14 DEF DrainStops, DrainPending, StopSessions
  <2>2. UNCHANGED <<pc, disk>>
    BY <1>14 DEF DrainStops, DrainPending, StopSessions, Persist
  <2>3. \A u \in Token : sess[u] \in Active => u \in Live
    BY OpenRun DEF Active
  <2>4. Live \subseteq Retained
    BY DEF Live
  <2> QED
    BY <2>1, <2>2, <2>3, <2>4, LimitFrame DEF Live, Retained, Launching
<1>15. CASE Crash
  <2>1. Live' \subseteq Live /\ Retained' \subseteq Retained /\ (disk' = disk \/ (disk' = inflight /\ Writable))
    BY <1>15 DEF Crash, Live, Retained
  <2> QED
    BY <2>1, LimitFrame
<1> QED
  BY <1>1, <1>2, <1>3, <1>4, <1>5, <1>6, <1>7, <1>8, <1>9, <1>10, <1>11, <1>12, <1>13, <1>14, <1>15
     DEF Next, SaveSteps, Requests, LaunchSteps, DrainSteps

-----------------------------------------------------------------------------
(* The theorems.                                                             *)

LEMMA InitOwner == Init => OwnerInv
<1> SUFFICES ASSUME Init PROVE OwnerInv
  OBVIOUS
<1> USE DEF Init
<1>1. \A t \in Token : saved[t] = NoRun /\ sess[t] = "none" /\ ~Launching(t) /\ disk.runs[t] = NoRun
  <2>1. disk.runs = [t \in Token |-> NoRun]
    BY DEF NoSave
  <2> QED
    BY <2>1, AwaitNames DEF Launching
<1>2. SessionInv
  BY <1>1 DEF SessionInv, Active
<1>3. DeliveryInv /\ ShutdownInv
  BY DEF DeliveryInv, ShutdownInv
<1>4. QuietInv
  BY DEF QuietInv, NoSave
<1> HIDE DEF Init
<1>5. Live = {} /\ Retained = {} /\ Held(disk.runs) = {}
  BY <1>1 DEF Live, Retained, Held
<1>6. LimitInv
  BY <1>5, FS_EmptySet, LimitsAssumption DEF LimitInv
<1> QED
  BY <1>2, <1>3, <1>4, <1>6 DEF OwnerInv

LEMMA OwnerHolds == Spec => [](Good /\ OwnerInv)
<1>1. Init => Good /\ OwnerInv
  BY InitType, InitIdentity, InitOwner DEF Good
<1>2. Good /\ OwnerInv /\ [Next]_vars => (Good /\ OwnerInv)'
  <2> SUFFICES ASSUME Good, OwnerInv, [Next]_vars PROVE Good' /\ OwnerInv'
    OBVIOUS
  <2>1. Good'
    BY TypeStep, IdentityStep DEF Good
  <2>2. SessionInv' /\ DeliveryInv' /\ QuietInv' /\ ShutdownInv' /\ LimitInv'
    BY SessionStep, DeliveryStep, QuietStep, ShutdownStep, LimitStep DEF OwnerInv
  <2> QED
    BY <2>1, <2>2 DEF OwnerInv
<1> QED
  BY <1>1, <1>2, PTL DEF Spec

\* A send or a decision reaches a provider at most once, whatever the client
\* repeats and however often the owner restarts (Deliver, Accept, Crash).
THEOREM DeliveredOnceHolds == Spec => []DeliveredOnce
<1>1. OwnerInv => DeliveredOnce
  BY DEF OwnerInv, DeliveryInv, DeliveredOnce
<1> QED
  BY <1>1, OwnerHolds, PTL

\* When the writer of persist() has come to rest without an error, the history
\* file holds every run and every retired token that memory holds.
THEOREM QuietMeansSavedHolds == Spec => []QuietMeansSaved
<1>1. Good /\ OwnerInv => QuietMeansSaved
  BY DEF Good, IdentityInv, WriterInv, OwnerInv, QuietInv, QuietMeansSaved, Current, Unreported
<1> QED
  BY <1>1, OwnerHolds, PTL

\* Once shutdown() saves for the last time no launch is pending and the cleanup
\* of every session has settled, also of one created while shutdown began.
THEOREM NothingOutlivesShutdownHolds == Spec => []NothingOutlivesShutdown
<1>1. OwnerInv => NothingOutlivesShutdown
  BY DEF OwnerInv, ShutdownInv, NothingOutlivesShutdown
<1> QED
  BY <1>1, OwnerHolds, PTL

\* reserveCapacity() keeps the live conversations within MAX_LIVE and the
\* history within MAX_RETAINED, through every eviction, restart and failed save.
THEOREM CapacityHoldsAlways == Spec => []CapacityHolds
<1>1. OwnerInv => CapacityHolds
  BY DEF OwnerInv, LimitInv, CapacityHolds
<1> QED
  BY <1>1, OwnerHolds, PTL

\* No step starts a provider for a stopped run or after shutdown() was called:
\* createSession's answer is checked again when it arrives (SessionCreated).
THEOREM NoStartOnceCancelledHolds == Spec => NoStartOnceCancelled
<1>1. ASSUME TypeOK, [Next]_vars, NEW t \in Token, started'[t] > started[t]
      PROVE  ~stopped[t] /\ drain = "none"
  <2>1. started[t] \in Nat
    BY <1>1 DEF TypeOK
  <2>2. CASE UNCHANGED started
    BY <1>1, <2>1, <2>2
  <2>3. ASSUME NEW u \in Token, SessionCreated(u) PROVE ~stopped[t] /\ drain = "none"
    <3>1. ~Cancelled(u) /\ u = t
      BY <1>1, <2>1, <2>3 DEF SessionCreated, TypeOK
    <3> QED
      BY <3>1 DEF Cancelled, Closed
  <2>4. UNCHANGED started \/ \E u \in Token : SessionCreated(u)
    BY <1>1, TokenParts DEF Next, SaveSteps, Requests, LaunchSteps, DrainSteps, Load, LoadFails, SaveBegins, SaveSucceeds, SaveFails,
       PrepareBegins, StartOrFork, Launch, Deliver, Stop, PrepareEnds, PlanChecked, AfterBarrier, ContextRevalidated,
       CreateFails, AbortSettles, LaunchCaught, SessionMoves, SessionCloses, ShutdownBegins, DrainStops, DrainFirstStops,
       DrainPending, DrainLastStops, DrainCloses, Ended, Crash, vars, worldVars
  <2> QED
    BY <2>2, <2>3, <2>4
<1>2. TypeOK /\ [Next]_vars => [\A t \in Token : started'[t] > started[t] => ~stopped[t] /\ drain = "none"]_vars
  BY <1>1
<1> QED
  BY <1>2, TypesHold, PTL DEF Spec, NoStartOnceCancelled
=============================================================================
