--------------------------- MODULE ProcessProofs ---------------------------
(***************************************************************************)
(* The families of processes the core owns, whatever fails and whatever    *)
(* hangs.                                                                  *)
(*                                                                         *)
(* First the transport of one (OwnedProcess): it keeps the lease its       *)
(* callers rely on, so a family runs at most once, its cleanup is          *)
(* confirmed only when nothing of it is left, and a transport closed       *)
(* before it was ready never runs it.  Then the builds that hold such      *)
(* leases (TargetBuilds), for any number of jobs, clicks and lost replies: *)
(* one family at a time and none after a clean dispose, and no success     *)
(* that was not one.                                                       *)
(***************************************************************************)
EXTENDS OwnedProcess, TargetBuilds, Integers, FiniteSetTheorems, TLAPS

-----------------------------------------------------------------------------
(* The pipes, as far as the invariant looks into them.                       *)

Without(q, m) == \A i \in 1..Len(q) : q[i] # m

\* A pipe takes and gives messages of its kind.
LEMMA PipeTypes ==
    ASSUME NEW S, NEW q \in Seq(S)
    PROVE  /\ \A m \in S : Append(q, m) \in Seq(S)
           /\ q # <<>> => Head(q) \in S /\ Tail(q) \in Seq(S)
OBVIOUS

\* What is not in a pipe is not read from it and comes only by being written.
LEMMA PipeHolds ==
    ASSUME NEW S, NEW q \in Seq(S), NEW m, Without(q, m)
    PROVE  /\ \A n \in S : n # m => Without(Append(q, n), m)
           /\ q # <<>> => Head(q) # m /\ Without(Tail(q), m)
BY DEF Without

-----------------------------------------------------------------------------
(* The invariant of a transport.                                             *)

\* The kernel's part: init lives under an armed wrapper, the provider under an
\* init that was told to start it, and the wrapper's success is the end of both.
Placed ==
    /\ init \in {"waiting", "serving", "stopping"} => wrapper = "armed"
    /\ init \in {"unborn", "waiting"} => provider = "none"
    /\ others => provider # "none"
    /\ wrapper = "zero" => ~Family

\* A confirmation, on its way or received, is about a wrapper that succeeded.
Proven == core.cleanup = "confirmed" \/ ~Without(status, "confirmed") => wrapper = "zero"

\* Nothing starts before the core was told that the namespace is ready.
Unasked == provider = "none" /\ Without(control, "start") /\ Without(inner, "start")
Asked == ~core.ready => Unasked

OwnedInv == TypeOK /\ Placed /\ Proven /\ Asked

Cores == [alive : BOOLEAN, ready : BOOLEAN, closing : BOOLEAN, invalid : BOOLEAN,
          sentExit : BOOLEAN, cleanup : {"none", "confirmed", "unknown"},
          result : {"pending", "confirmed", "unknown"}]
Guardians == [state : {"running"} \cup Codes, ready : BOOLEAN, stopping : BOOLEAN,
              invalid : BOOLEAN, exited : BOOLEAN, timer : {"off", "grace", "final"}]
Orders == {"start", "end"}
Statuses == {"ready", "exit", "confirmed", "unknown"}
Reports == {"ready", "exit", "junk"}

LEMMA InitHolds == OwnedInit => OwnedInv
<1> SUFFICES ASSUME OwnedInit PROVE OwnedInv
  OBVIOUS
<1>0. core \in Cores /\ guardian \in Guardians
  BY DEF OwnedInit, Cores, Guardians, Codes
<1>4. \A S : <<>> \in Seq(S)
  OBVIOUS
<1>1. TypeOK
  BY <1>0, <1>4 DEF OwnedInit, TypeOK, Codes, Cores, Guardians
<1>2. Placed
  BY DEF OwnedInit, Placed, Family
<1>3. Without(status, "confirmed") /\ Without(control, "start") /\ Without(inner, "start")
  BY DEF OwnedInit, Without
<1> QED
  BY <1>1, <1>2, <1>3 DEF OwnedInit, OwnedInv, Proven, Asked, Unasked

\* The types: what each process may write into its record and its pipes.
LEMMA TypeStep == TypeOK /\ [OwnedNext]_ownedVars => TypeOK'
<1> SUFFICES ASSUME TypeOK, [OwnedNext]_ownedVars PROVE TypeOK'
  OBVIOUS
<1>a. core \in Cores /\ guardian \in Guardians
  BY DEF TypeOK, Cores, Guardians
<1>b. control \in Seq(Orders) /\ inner \in Seq(Orders) /\ status \in Seq(Statuses) /\ report \in Seq(Reports)
  BY DEF TypeOK, Orders, Statuses, Reports
<1>c. /\ \A m \in Orders : Append(control, m) \in Seq(Orders) /\ Append(inner, m) \in Seq(Orders)
      /\ \A m \in Statuses : Append(status, m) \in Seq(Statuses)
      /\ \A m \in Reports : Append(report, m) \in Seq(Reports) /\ <<m>> \in Seq(Reports)
      /\ control # <<>> => Tail(control) \in Seq(Orders)
      /\ inner # <<>> => Tail(inner) \in Seq(Orders)
      /\ status # <<>> => Head(status) \in Statuses /\ Tail(status) \in Seq(Statuses)
      /\ report # <<>> => Tail(report) \in Seq(Reports)
  BY <1>b, PipeTypes
<1>d. /\ wrapper \in {"unborn", "fresh", "armed", "zero", "other"}
      /\ init \in {"unborn", "waiting", "serving", "stopping", "zero", "other"}
      /\ provider \in {"none", "running", "ended", "reported"} /\ others \in BOOLEAN
      /\ hung \subseteq {"guardian", "init"}
  BY DEF TypeOK, Codes
<1>e. SUFFICES
        /\ core' \in Cores /\ guardian' \in Guardians
        /\ control' \in Seq(Orders) /\ inner' \in Seq(Orders)
        /\ status' \in Seq(Statuses) /\ report' \in Seq(Reports)
        /\ wrapper' \in {"unborn", "fresh", "armed", "zero", "other"}
        /\ init' \in {"unborn", "waiting", "serving", "stopping", "zero", "other"}
        /\ provider' \in {"none", "running", "ended", "reported"} /\ others' \in BOOLEAN
        /\ hung' \subseteq {"guardian", "init"}
  BY DEF TypeOK, Cores, Guardians, Orders, Statuses, Reports, Codes
<1> USE DEF Codes, pipes, Orders, Statuses, Reports
<1>f. /\ TransportFault(core) \in Cores /\ [core EXCEPT !.ready = TRUE] \in Cores /\ [core EXCEPT !.sentExit = TRUE] \in Cores
      /\ \A m \in {"confirmed", "unknown"} : [core EXCEPT !.cleanup = m] \in Cores
  BY <1>a DEF Cores, TransportFault, Closing
<1>g. /\ Stopping(guardian) \in Guardians /\ Stopping([guardian EXCEPT !.invalid = TRUE]) \in Guardians
      /\ [guardian EXCEPT !.ready = TRUE] \in Guardians /\ [guardian EXCEPT !.exited = TRUE] \in Guardians
  BY <1>a DEF Guardians, Stopping
<1>1. CASE CoreReceives
  BY <1>1, <1>a, <1>b, <1>c, <1>d, <1>f DEF CoreReceives, EndControl
<1>2. CASE CoreTimesOut
  BY <1>2, <1>a, <1>b, <1>c, <1>d DEF Cores, CoreTimesOut, Settled
<1>3. CASE CoreSeesGuardianEnd
  BY <1>3, <1>a, <1>b, <1>c, <1>d DEF Cores, CoreSeesGuardianEnd, Settled, Verdict
<1>4. CASE CoreCloses
  BY <1>4, <1>a, <1>b, <1>c, <1>d DEF Cores, CoreCloses, Closing, EndControl
<1>5. CASE CoreStreamFails
  BY <1>5, <1>a, <1>b, <1>c, <1>d DEF Cores, CoreStreamFails, TransportFault, Closing, EndControl
<1>6. CASE CoreDies
  BY <1>6, <1>a, <1>b, <1>c, <1>d DEF Cores, CoreDies, EndControl
<1>7. CASE GuardianBegins
  BY <1>7, <1>a, <1>b, <1>c, <1>d DEF Guardians, GuardianBegins, Stopping, EndInner
<1>8. CASE GuardianObeys
  BY <1>8, <1>a, <1>b, <1>c, <1>d, <1>g DEF GuardianObeys, EndInner, Guarding
<1>9. CASE GuardianHears
  BY <1>9, <1>a, <1>b, <1>c, <1>d, <1>g DEF GuardianHears, EndInner, Tell, AtReady, Guarding
<1>10. CASE GuardianKills
  BY <1>10, <1>a, <1>b, <1>c, <1>d DEF Guardians, GuardianKills, WrapperKilled, Guarding
<1>11. CASE GuardianGivesUp
  BY <1>11, <1>a, <1>b, <1>c, <1>d DEF Guardians, GuardianGivesUp, Tell, Guarding
<1>12. CASE GuardianReports
  BY <1>12, <1>a, <1>b, <1>c, <1>d DEF Guardians, GuardianReports, Tell, Proof, Guarding
<1>13. CASE GuardianSignalled
  BY <1>13, <1>a, <1>b, <1>c, <1>d, <1>g DEF GuardianSignalled, EndInner, Guarding
<1>14. CASE GuardianDies
  BY <1>14, <1>a, <1>b, <1>c, <1>d DEF Guardians, GuardianDies, EndInner, WrapperKilled
<1>15. CASE Hangs
  BY <1>15, <1>a, <1>b, <1>c, <1>d DEF Hangs
<1>16. CASE WrapperArms
  BY <1>16, <1>a, <1>b, <1>c, <1>d DEF WrapperArms
<1>17. CASE WrapperReaps
  BY <1>17, <1>a, <1>b, <1>c, <1>d DEF WrapperReaps
<1>18. CASE InitBegins
  BY <1>18, <1>a, <1>b, <1>c, <1>d DEF InitBegins
<1>19. CASE WrapperFails
  BY <1>19, <1>a, <1>b, <1>c, <1>d DEF WrapperFails
<1>20. CASE InitObeys
  BY <1>20, <1>a, <1>b, <1>c, <1>d DEF InitObeys
<1>21. CASE InitSeesExit
  BY <1>21, <1>a, <1>b, <1>c, <1>d DEF InitSeesExit
<1>22. CASE InitExits
  BY <1>22, <1>a, <1>b, <1>c, <1>d DEF InitExits
<1>23. CASE InitDies
  BY <1>23, <1>a, <1>b, <1>c, <1>d DEF InitDies
<1>24. CASE ProviderMoves
  BY <1>24, <1>a, <1>b, <1>c, <1>d DEF ProviderMoves
<1>25. CASE KernelKills
  BY <1>25, <1>a, <1>b, <1>c, <1>d DEF KernelKills
<1>26. CASE UNCHANGED ownedVars
  BY <1>26, <1>a, <1>b, <1>d DEF ownedVars
<1> QED
  BY <1>1, <1>2, <1>3, <1>4, <1>5, <1>6, <1>7, <1>8, <1>9, <1>10, <1>11, <1>12, <1>13,
     <1>14, <1>15, <1>16, <1>17, <1>18, <1>19, <1>20, <1>21, <1>22, <1>23, <1>24, <1>25, <1>26
  DEF OwnedNext, CoreSteps, GuardianSteps, WrapperSteps, InitSteps

LEMMA PlacedStep == TypeOK /\ Placed /\ [OwnedNext]_ownedVars => Placed'
<1> SUFFICES ASSUME TypeOK, Placed, [OwnedNext]_ownedVars PROVE Placed'
  OBVIOUS
<1> USE DEF Placed, Codes, pipes, Family, Running, TypeOK
<1>1. CASE CoreReceives
  BY <1>1 DEF CoreReceives, TransportFault, Closing, EndControl
<1>2. CASE CoreTimesOut
  BY <1>2 DEF CoreTimesOut, Settled
<1>3. CASE CoreSeesGuardianEnd
  BY <1>3 DEF CoreSeesGuardianEnd, Settled, Verdict
<1>4. CASE CoreCloses
  BY <1>4 DEF CoreCloses, Closing, EndControl
<1>5. CASE CoreStreamFails
  BY <1>5 DEF CoreStreamFails, TransportFault, Closing, EndControl
<1>6. CASE CoreDies
  BY <1>6 DEF CoreDies, EndControl
<1>7. CASE GuardianBegins
  BY <1>7 DEF GuardianBegins, Stopping, EndInner
<1>8. CASE GuardianObeys
  BY <1>8 DEF GuardianObeys, Stopping, EndInner, Guarding
<1>9. CASE GuardianHears
  BY <1>9 DEF GuardianHears, Stopping, EndInner, Tell, AtReady, Guarding
<1>10. CASE GuardianKills
  BY <1>10 DEF GuardianKills, WrapperKilled, Guarding
<1>11. CASE GuardianGivesUp
  BY <1>11 DEF GuardianGivesUp, Tell, Guarding
<1>12. CASE GuardianReports
  BY <1>12 DEF GuardianReports, Tell, Proof, Guarding
<1>13. CASE GuardianSignalled
  BY <1>13 DEF GuardianSignalled, Stopping, EndInner, Guarding
<1>14. CASE GuardianDies
  BY <1>14 DEF GuardianDies, EndInner, WrapperKilled
<1>15. CASE Hangs
  BY <1>15 DEF Hangs
<1>16. CASE WrapperArms
  BY <1>16 DEF WrapperArms
<1>17. CASE WrapperReaps
  BY <1>17 DEF WrapperReaps
<1>18. CASE InitBegins
  BY <1>18 DEF InitBegins
<1>19. CASE WrapperFails
  BY <1>19 DEF WrapperFails
<1>20. CASE InitObeys
  BY <1>20 DEF InitObeys
<1>21. CASE InitSeesExit
  BY <1>21 DEF InitSeesExit
<1>22. CASE InitExits
  BY <1>22 DEF InitExits
<1>23. CASE InitDies
  BY <1>23 DEF InitDies
<1>24. CASE ProviderMoves
  BY <1>24 DEF ProviderMoves
<1>25. CASE KernelKills
  BY <1>25 DEF KernelKills
<1>26. CASE UNCHANGED ownedVars
  BY <1>26 DEF ownedVars
<1> QED
  BY <1>1, <1>2, <1>3, <1>4, <1>5, <1>6, <1>7, <1>8, <1>9, <1>10, <1>11, <1>12, <1>13,
     <1>14, <1>15, <1>16, <1>17, <1>18, <1>19, <1>20, <1>21, <1>22, <1>23, <1>24, <1>25, <1>26
  DEF OwnedNext, CoreSteps, GuardianSteps, WrapperSteps, InitSteps

LEMMA ProvenStep == TypeOK /\ Proven /\ [OwnedNext]_ownedVars => Proven'
<1> SUFFICES ASSUME TypeOK, Proven, [OwnedNext]_ownedVars PROVE Proven'
  OBVIOUS
<1> USE DEF Proven, Codes, pipes, TypeOK
<1>p. Without(status, "confirmed") =>
        /\ status # <<>> => Head(status) # "confirmed" /\ Without(Tail(status), "confirmed")
        /\ Without(Append(status, "ready"), "confirmed") /\ Without(Append(status, "exit"), "confirmed")
        /\ Without(Append(status, "unknown"), "confirmed")
  <2>1. status \in Seq(Statuses)
    BY DEF Statuses
  <2>2. Without(status, "confirmed") =>
          /\ status # <<>> => Head(status) # "confirmed" /\ Without(Tail(status), "confirmed")
          /\ \A m \in Statuses : m # "confirmed" => Without(Append(status, m), "confirmed")
    BY <2>1, PipeHolds
  <2> QED
    BY <2>2 DEF Statuses
<1>1. CASE CoreReceives
  BY <1>1, <1>p DEF CoreReceives, TransportFault, Closing, EndControl
<1>2. CASE CoreTimesOut
  BY <1>2 DEF CoreTimesOut, Settled
<1>3. CASE CoreSeesGuardianEnd
  BY <1>3 DEF CoreSeesGuardianEnd, Settled, Verdict
<1>4. CASE CoreCloses
  BY <1>4 DEF CoreCloses, Closing, EndControl
<1>5. CASE CoreStreamFails
  BY <1>5 DEF CoreStreamFails, TransportFault, Closing, EndControl
<1>6. CASE CoreDies
  BY <1>6 DEF CoreDies, EndControl
<1>7. CASE GuardianBegins
  BY <1>7, <1>p DEF GuardianBegins, Stopping, EndInner
<1>8. CASE GuardianObeys
  BY <1>8, <1>p DEF GuardianObeys, Stopping, EndInner, Guarding
<1>9. CASE GuardianHears
  BY <1>9, <1>p DEF GuardianHears, Stopping, EndInner, Tell, AtReady, Guarding
<1>10. CASE GuardianKills
  BY <1>10, <1>p DEF GuardianKills, WrapperKilled, Guarding
<1>11. CASE GuardianGivesUp
  BY <1>11, <1>p DEF GuardianGivesUp, Tell, Guarding
<1>12. CASE GuardianReports
  BY <1>12, <1>p DEF GuardianReports, Tell, Proof, Guarding
<1>13. CASE GuardianSignalled
  BY <1>13, <1>p DEF GuardianSignalled, Stopping, EndInner, Guarding
<1>14. CASE GuardianDies
  BY <1>14, <1>p DEF GuardianDies, EndInner, WrapperKilled
<1>15. CASE Hangs
  BY <1>15 DEF Hangs
<1>16. CASE WrapperArms
  BY <1>16 DEF WrapperArms
<1>17. CASE WrapperReaps
  BY <1>17 DEF WrapperReaps
<1>18. CASE InitBegins
  BY <1>18 DEF InitBegins
<1>19. CASE WrapperFails
  BY <1>19 DEF WrapperFails
<1>20. CASE InitObeys
  BY <1>20 DEF InitObeys
<1>21. CASE InitSeesExit
  BY <1>21 DEF InitSeesExit
<1>22. CASE InitExits
  BY <1>22 DEF InitExits
<1>23. CASE InitDies
  BY <1>23 DEF InitDies
<1>24. CASE ProviderMoves
  BY <1>24 DEF ProviderMoves
<1>25. CASE KernelKills
  BY <1>25 DEF KernelKills
<1>26. CASE UNCHANGED ownedVars
  BY <1>26 DEF ownedVars
<1> QED
  BY <1>1, <1>2, <1>3, <1>4, <1>5, <1>6, <1>7, <1>8, <1>9, <1>10, <1>11, <1>12, <1>13,
     <1>14, <1>15, <1>16, <1>17, <1>18, <1>19, <1>20, <1>21, <1>22, <1>23, <1>24, <1>25, <1>26
  DEF OwnedNext, CoreSteps, GuardianSteps, WrapperSteps, InitSteps

LEMMA AskedStep == TypeOK /\ Placed /\ Asked /\ [OwnedNext]_ownedVars => Asked'
<1> SUFFICES ASSUME TypeOK, Placed, Asked, [OwnedNext]_ownedVars PROVE Asked'
  OBVIOUS
<1> USE DEF Asked, Unasked, Placed, Codes, pipes, TypeOK, Family
<1>p. Unasked =>
        /\ control # <<>> => Head(control) # "start" /\ Without(Tail(control), "start")
        /\ inner # <<>> => Head(inner) # "start" /\ Without(Tail(inner), "start")
        /\ Without(Append(control, "end"), "start") /\ Without(Append(inner, "end"), "start")
  BY PipeHolds
<1>1. CASE CoreReceives
  BY <1>1, <1>p DEF CoreReceives, TransportFault, Closing, EndControl
<1>2. CASE CoreTimesOut
  BY <1>2, <1>p DEF CoreTimesOut, Settled
<1>3. CASE CoreSeesGuardianEnd
  BY <1>3, <1>p DEF CoreSeesGuardianEnd, Settled, Verdict
<1>4. CASE CoreCloses
  BY <1>4, <1>p DEF CoreCloses, Closing, EndControl
<1>5. CASE CoreStreamFails
  BY <1>5, <1>p DEF CoreStreamFails, TransportFault, Closing, EndControl
<1>6. CASE CoreDies
  BY <1>6, <1>p DEF CoreDies, EndControl
<1>7. CASE GuardianBegins
  BY <1>7, <1>p DEF GuardianBegins, Stopping, EndInner
<1>8. CASE GuardianObeys
  BY <1>8, <1>p DEF GuardianObeys, Stopping, EndInner, Guarding
<1>9. CASE GuardianHears
  BY <1>9, <1>p DEF GuardianHears, Stopping, EndInner, Tell, AtReady, Guarding
<1>10. CASE GuardianKills
  BY <1>10, <1>p DEF GuardianKills, WrapperKilled, Guarding
<1>11. CASE GuardianGivesUp
  BY <1>11, <1>p DEF GuardianGivesUp, Tell, Guarding
<1>12. CASE GuardianReports
  BY <1>12, <1>p DEF GuardianReports, Tell, Proof, Guarding
<1>13. CASE GuardianSignalled
  BY <1>13, <1>p DEF GuardianSignalled, Stopping, EndInner, Guarding
<1>14. CASE GuardianDies
  BY <1>14, <1>p DEF GuardianDies, EndInner, WrapperKilled
<1>15. CASE Hangs
  BY <1>15, <1>p DEF Hangs
<1>16. CASE WrapperArms
  BY <1>16, <1>p DEF WrapperArms
<1>17. CASE WrapperReaps
  BY <1>17, <1>p DEF WrapperReaps
<1>18. CASE InitBegins
  BY <1>18, <1>p DEF InitBegins
<1>19. CASE WrapperFails
  BY <1>19, <1>p DEF WrapperFails
<1>20. CASE InitObeys
  BY <1>20, <1>p DEF InitObeys
<1>21. CASE InitSeesExit
  BY <1>21, <1>p DEF InitSeesExit
<1>22. CASE InitExits
  BY <1>22, <1>p DEF InitExits
<1>23. CASE InitDies
  BY <1>23, <1>p DEF InitDies
<1>24. CASE ProviderMoves
  BY <1>24, <1>p DEF ProviderMoves
<1>25. CASE KernelKills
  BY <1>25, <1>p DEF KernelKills
<1>26. CASE UNCHANGED ownedVars
  BY <1>26 DEF ownedVars
<1> QED
  BY <1>1, <1>2, <1>3, <1>4, <1>5, <1>6, <1>7, <1>8, <1>9, <1>10, <1>11, <1>12, <1>13,
     <1>14, <1>15, <1>16, <1>17, <1>18, <1>19, <1>20, <1>21, <1>22, <1>23, <1>24, <1>25, <1>26
  DEF OwnedNext, CoreSteps, GuardianSteps, WrapperSteps, InitSteps

LEMMA StepHolds == OwnedInv /\ [OwnedNext]_ownedVars => OwnedInv'
BY TypeStep, PlacedStep, ProvenStep, AskedStep DEF OwnedInv

\* The invariant, in every reachable state.
THEOREM OwnedInvHolds == OwnedSpec => []OwnedInv
BY InitHolds, StepHolds, PTL DEF OwnedSpec

-----------------------------------------------------------------------------
(* The lease.                                                                *)

LEMMA LeaseInit == OwnedInit => Lease!Init
BY DEF OwnedInit, Lease!Init, Held, Family, Codes

\* The core judges once, and confirms what is over.
LEMMA JudgeStep ==
    ASSUME OwnedInv, CoreTimesOut \/ CoreSeesGuardianEnd
    PROVE  Lease!Judge \/ UNCHANGED <<Held, core.result>>
<1>1. Held' = Held
  BY DEF CoreTimesOut, CoreSeesGuardianEnd, Held, Family
<1>2. core'.result = core.result \/ (core.result = "pending" /\ core'.result \in {"unknown", "confirmed"})
  BY DEF CoreTimesOut, CoreSeesGuardianEnd, Settled, Verdict, OwnedInv, TypeOK
<1>3. core.result = "pending" /\ core'.result = "confirmed" => Held = "released"
  <2>1. core.result = "pending" /\ core'.result = "confirmed" => core.cleanup = "confirmed"
    BY DEF CoreTimesOut, CoreSeesGuardianEnd, Settled, Verdict, OwnedInv, TypeOK
  <2> QED
    BY <2>1 DEF OwnedInv, Proven, Placed, Held, Family, Codes
<1> QED
  BY <1>1, <1>2, <1>3 DEF Lease!Judge

\* A step of the others leaves the verdict alone.
LEMMA OtherStep ==
    ASSUME OwnedInv, [OwnedNext]_ownedVars, ~CoreTimesOut, ~CoreSeesGuardianEnd
    PROVE  core'.result = core.result
<1> USE DEF OwnedInv, TypeOK, pipes
<1>1. CASE CoreReceives
  BY <1>1 DEF CoreReceives, TransportFault, Closing, EndControl
<1>2. CASE CoreTimesOut
  BY <1>2 DEF CoreTimesOut, Settled
<1>3. CASE CoreSeesGuardianEnd
  BY <1>3 DEF CoreSeesGuardianEnd, Settled, Verdict
<1>4. CASE CoreCloses
  BY <1>4 DEF CoreCloses, Closing, EndControl
<1>5. CASE CoreStreamFails
  BY <1>5 DEF CoreStreamFails, TransportFault, Closing, EndControl
<1>6. CASE CoreDies
  BY <1>6 DEF CoreDies, EndControl
<1>7. CASE GuardianBegins
  BY <1>7 DEF GuardianBegins, Stopping, EndInner
<1>8. CASE GuardianObeys
  BY <1>8 DEF GuardianObeys, Stopping, EndInner, Guarding
<1>9. CASE GuardianHears
  BY <1>9 DEF GuardianHears, Stopping, EndInner, Tell, AtReady, Guarding
<1>10. CASE GuardianKills
  BY <1>10 DEF GuardianKills, WrapperKilled, Guarding
<1>11. CASE GuardianGivesUp
  BY <1>11 DEF GuardianGivesUp, Tell, Guarding
<1>12. CASE GuardianReports
  BY <1>12 DEF GuardianReports, Tell, Proof, Guarding
<1>13. CASE GuardianSignalled
  BY <1>13 DEF GuardianSignalled, Stopping, EndInner, Guarding
<1>14. CASE GuardianDies
  BY <1>14 DEF GuardianDies, EndInner, WrapperKilled
<1>15. CASE Hangs
  BY <1>15 DEF Hangs
<1>16. CASE WrapperArms
  BY <1>16 DEF WrapperArms
<1>17. CASE WrapperReaps
  BY <1>17 DEF WrapperReaps
<1>18. CASE InitBegins
  BY <1>18 DEF InitBegins
<1>19. CASE WrapperFails
  BY <1>19 DEF WrapperFails
<1>20. CASE InitObeys
  BY <1>20 DEF InitObeys
<1>21. CASE InitSeesExit
  BY <1>21 DEF InitSeesExit
<1>22. CASE InitExits
  BY <1>22 DEF InitExits
<1>23. CASE InitDies
  BY <1>23 DEF InitDies
<1>24. CASE ProviderMoves
  BY <1>24 DEF ProviderMoves
<1>25. CASE KernelKills
  BY <1>25 DEF KernelKills
<1>26. CASE UNCHANGED ownedVars
  BY <1>26 DEF ownedVars
<1> QED
  BY <1>1, <1>2, <1>3, <1>4, <1>5, <1>6, <1>7, <1>8, <1>9, <1>10, <1>11, <1>12, <1>13,
     <1>14, <1>15, <1>16, <1>17, <1>18, <1>19, <1>20, <1>21, <1>22, <1>23, <1>24, <1>25, <1>26
  DEF OwnedNext, CoreSteps, GuardianSteps, WrapperSteps, InitSteps

\* The family starts when nothing ran, and never comes back.
LEMMA HeldStep ==
    ASSUME OwnedInv, [OwnedNext]_ownedVars
    PROVE  Held' = Held \/ (Held = "idle" /\ Held' = "running") \/ Held' = "released"
<1>0. Placed
  BY DEF OwnedInv
<1>h. /\ Family => Held = "running"
      /\ ~Family /\ (provider # "none" \/ init \in Codes \/ wrapper \in Codes) => Held = "released"
      /\ ~Family /\ provider = "none" /\ init \notin Codes /\ wrapper \notin Codes => Held = "idle"
  BY DEF Held
<1>i. /\ Family' => Held' = "running"
      /\ ~Family' /\ (provider' # "none" \/ init' \in Codes \/ wrapper' \in Codes) => Held' = "released"
      /\ ~Family' /\ provider' = "none" /\ init' \notin Codes /\ wrapper' \notin Codes => Held' = "idle"
  BY DEF Held
<1>u. UNCHANGED <<wrapper, init, provider, others>> => Held' = Held
  BY DEF Held, Family
<1> USE DEF Placed, Family, Running, Codes, pipes
<1>1. CASE CoreReceives
  BY <1>1, <1>u DEF CoreReceives
<1>2. CASE CoreTimesOut
  BY <1>2, <1>u DEF CoreTimesOut
<1>3. CASE CoreSeesGuardianEnd
  BY <1>3, <1>u DEF CoreSeesGuardianEnd
<1>4. CASE CoreCloses
  BY <1>4, <1>u DEF CoreCloses
<1>5. CASE CoreStreamFails
  BY <1>5, <1>u DEF CoreStreamFails
<1>6. CASE CoreDies
  BY <1>6, <1>u DEF CoreDies
<1>7. CASE GuardianBegins
  BY <1>7, <1>0, <1>h, <1>i DEF GuardianBegins, Stopping, EndInner
<1>8. CASE GuardianObeys
  BY <1>8, <1>u DEF GuardianObeys
<1>9. CASE GuardianHears
  BY <1>9, <1>u DEF GuardianHears
<1>10. CASE GuardianKills
  BY <1>10, <1>0, <1>h, <1>i DEF GuardianKills, WrapperKilled, Guarding
<1>11. CASE GuardianGivesUp
  BY <1>11, <1>u DEF GuardianGivesUp
<1>12. CASE GuardianReports
  BY <1>12, <1>u DEF GuardianReports
<1>13. CASE GuardianSignalled
  BY <1>13, <1>u DEF GuardianSignalled
<1>14. CASE GuardianDies
  BY <1>14, <1>0, <1>h, <1>i DEF GuardianDies, EndInner, WrapperKilled
<1>15. CASE Hangs
  BY <1>15, <1>u DEF Hangs
<1>16. CASE WrapperArms
  BY <1>16, <1>0, <1>h, <1>i DEF WrapperArms
<1>17. CASE WrapperReaps
  BY <1>17, <1>0, <1>h, <1>i DEF WrapperReaps
<1>18. CASE InitBegins
  BY <1>18, <1>0, <1>h, <1>i DEF InitBegins
<1>19. CASE WrapperFails
  BY <1>19, <1>0, <1>h, <1>i DEF WrapperFails
<1>20. CASE InitObeys
  BY <1>20, <1>0, <1>h, <1>i DEF InitObeys
<1>21. CASE InitSeesExit
  BY <1>21, <1>0, <1>h, <1>i DEF InitSeesExit
<1>22. CASE InitExits
  BY <1>22, <1>0, <1>h, <1>i DEF InitExits
<1>23. CASE InitDies
  BY <1>23, <1>0, <1>h, <1>i DEF InitDies
<1>24. CASE ProviderMoves
  BY <1>24, <1>0, <1>h, <1>i DEF ProviderMoves
<1>25. CASE KernelKills
  BY <1>25, <1>0, <1>h, <1>i DEF KernelKills
<1>26. CASE UNCHANGED ownedVars
  BY <1>26, <1>u DEF ownedVars
<1> QED
  BY <1>1, <1>2, <1>3, <1>4, <1>5, <1>6, <1>7, <1>8, <1>9, <1>10, <1>11, <1>12, <1>13,
     <1>14, <1>15, <1>16, <1>17, <1>18, <1>19, <1>20, <1>21, <1>22, <1>23, <1>24, <1>25, <1>26
  DEF OwnedNext, CoreSteps, GuardianSteps, WrapperSteps, InitSteps

\* Every step of the processes is one of the lease, or changes nothing of it.
LEMMA LeaseStep == OwnedInv /\ [OwnedNext]_ownedVars => [Lease!Next]_(Lease!vars)
<1> SUFFICES ASSUME OwnedInv, [OwnedNext]_ownedVars PROVE Lease!Next \/ UNCHANGED <<Held, core.result>>
  BY DEF Lease!vars
<1>1. CASE CoreTimesOut \/ CoreSeesGuardianEnd
  BY <1>1, JudgeStep DEF Lease!Next
<1>2. CASE ~CoreTimesOut /\ ~CoreSeesGuardianEnd
  BY <1>2, OtherStep, HeldStep DEF Lease!Next, Lease!Run, Lease!Release
<1> QED
  BY <1>1, <1>2

\* The transport implements the lease its callers rely on: a family runs at most
\* once, and its cleanup is confirmed, once, only when it is gone for good.
THEOREM ImplementsLeaseHolds == OwnedSpec => ImplementsLease
<1>1. OwnedInv => TypeOK
  BY DEF OwnedInv
<1> QED
  BY <1>1, OwnedInvHolds, LeaseInit, LeaseStep, PTL DEF OwnedSpec, ImplementsLease, Lease!Spec

-----------------------------------------------------------------------------
(* A transport closed early.                                                 *)

\* Closed before it asked for the start, the core never asks for it.
Never == OwnedInv /\ core.closing /\ Unasked

LEMMA NeverStep == Never /\ [OwnedNext]_ownedVars => Never'
<1> SUFFICES ASSUME Never, [OwnedNext]_ownedVars PROVE core'.closing /\ Unasked'
  BY StepHolds DEF Never
<1>0. core \in Cores /\ core.closing /\ Placed /\ Unasked
  BY DEF Never, OwnedInv, TypeOK, Cores
<1>p. /\ control # <<>> => Head(control) # "start" /\ Without(Tail(control), "start")
      /\ inner # <<>> => Head(inner) # "start" /\ Without(Tail(inner), "start")
      /\ Without(Append(control, "end"), "start") /\ Without(Append(inner, "end"), "start")
  BY <1>0, PipeHolds DEF Never, OwnedInv, TypeOK, Unasked
<1> USE DEF Unasked, Placed, Codes, pipes, Family
<1>1. CASE CoreReceives
  BY <1>1, <1>0, <1>p DEF Cores, CoreReceives, TransportFault, Closing, EndControl
<1>2. CASE CoreTimesOut
  BY <1>2, <1>0, <1>p DEF Cores, CoreTimesOut, Settled
<1>3. CASE CoreSeesGuardianEnd
  BY <1>3, <1>0, <1>p DEF Cores, CoreSeesGuardianEnd, Settled, Verdict
<1>4. CASE CoreCloses
  BY <1>4, <1>0, <1>p DEF Cores, CoreCloses, Closing, EndControl
<1>5. CASE CoreStreamFails
  BY <1>5, <1>0, <1>p DEF Cores, CoreStreamFails, TransportFault, Closing, EndControl
<1>6. CASE CoreDies
  BY <1>6, <1>0, <1>p DEF Cores, CoreDies, EndControl
<1>7. CASE GuardianBegins
  BY <1>7, <1>0, <1>p DEF GuardianBegins, Stopping, EndInner
<1>8. CASE GuardianObeys
  BY <1>8, <1>0, <1>p DEF GuardianObeys, Stopping, EndInner, Guarding
<1>9. CASE GuardianHears
  BY <1>9, <1>0, <1>p DEF GuardianHears, Stopping, EndInner, Tell, AtReady, Guarding
<1>10. CASE GuardianKills
  BY <1>10, <1>0, <1>p DEF GuardianKills, WrapperKilled, Guarding
<1>11. CASE GuardianGivesUp
  BY <1>11, <1>0, <1>p DEF GuardianGivesUp, Tell, Guarding
<1>12. CASE GuardianReports
  BY <1>12, <1>0, <1>p DEF GuardianReports, Tell, Proof, Guarding
<1>13. CASE GuardianSignalled
  BY <1>13, <1>0, <1>p DEF GuardianSignalled, Stopping, EndInner, Guarding
<1>14. CASE GuardianDies
  BY <1>14, <1>0, <1>p DEF GuardianDies, EndInner, WrapperKilled
<1>15. CASE Hangs
  BY <1>15, <1>0, <1>p DEF Hangs
<1>16. CASE WrapperArms
  BY <1>16, <1>0, <1>p DEF WrapperArms
<1>17. CASE WrapperReaps
  BY <1>17, <1>0, <1>p DEF WrapperReaps
<1>18. CASE InitBegins
  BY <1>18, <1>0, <1>p DEF InitBegins
<1>19. CASE WrapperFails
  BY <1>19, <1>0, <1>p DEF WrapperFails
<1>20. CASE InitObeys
  BY <1>20, <1>0, <1>p DEF InitObeys
<1>21. CASE InitSeesExit
  BY <1>21, <1>0, <1>p DEF InitSeesExit
<1>22. CASE InitExits
  BY <1>22, <1>0, <1>p DEF InitExits
<1>23. CASE InitDies
  BY <1>23, <1>0, <1>p DEF InitDies
<1>24. CASE ProviderMoves
  BY <1>24, <1>0, <1>p DEF ProviderMoves
<1>25. CASE KernelKills
  BY <1>25, <1>0, <1>p DEF KernelKills
<1>26. CASE UNCHANGED ownedVars
  BY <1>26, <1>0 DEF ownedVars, Cores
<1> QED
  BY <1>1, <1>2, <1>3, <1>4, <1>5, <1>6, <1>7, <1>8, <1>9, <1>10, <1>11, <1>12, <1>13,
     <1>14, <1>15, <1>16, <1>17, <1>18, <1>19, <1>20, <1>21, <1>22, <1>23, <1>24, <1>25, <1>26
  DEF OwnedNext, CoreSteps, GuardianSteps, WrapperSteps, InitSteps

\* A transport that is closed before it was ready never runs the provider.
THEOREM ClosedEarlyNeverRunsHolds == OwnedSpec => ClosedEarlyNeverRuns
<1>1. OwnedInv /\ core.closing /\ ~core.ready => Never
  BY DEF Never, OwnedInv, Asked
<1>2. Never => provider = "none"
  BY DEF Never, Unasked
<1> QED
  BY <1>1, <1>2, OwnedInvHolds, NeverStep, PTL DEF OwnedSpec, ClosedEarlyNeverRuns

-----------------------------------------------------------------------------
(* The invariant of the builds.                                              *)

Verdicts == {"pending", "confirmed", "unknown"}
Exits == {"none", "zero", "other", "null"}
Services == [last : Nat, active : BOOLEAN, blocked : BOOLEAN, executorBlocked : BOOLEAN,
             disposed : {"no", "waiting", "failed", "done"}]
Records == [status : {"none", "running", "stopping"} \cup Finished, cleanup : Verdicts, exit : Exits]
Collectors == [phase : {"none", "prepare", "collect", "after"}, aborted : BOOLEAN, finishing : BOOLEAN,
               error : BOOLEAN, closing : BOOLEAN, exit : Exits, eof : BOOLEAN, verdict : Verdicts]
Families == {"none", "idle", "running", "released"}

TypeInv ==
    /\ service \in Services /\ service.last <= MaxJobs
    /\ job \in [Jobs -> Records] /\ run \in Collectors /\ held \in [Jobs -> Families]

\* A job is under way exactly while the executor has it.
JobInv ==
    /\ service.active <=> run.phase # "none"
    /\ service.active => Now \in Jobs /\ job[Now].status \in {"running", "stopping"}
    /\ run.phase = "collect" => ~service.executorBlocked
    /\ service.disposed \in {"done", "failed"} => ~service.active

Gone(j) == held[j] \in {"none", "released"}
Believed == run.phase \in {"collect", "after"}

\* A family that may still run belongs to the running job, or blocks the executor.
FamilyInv ==
    /\ ~service.executorBlocked => \A j \in Jobs : Gone(j) \/ (run.phase = "collect" /\ j = Now)
    /\ \A i, j \in Jobs : Gone(i) \/ Gone(j) \/ i = j
    /\ Believed /\ run.verdict = "confirmed" => held[Now] = "released"
    /\ run.phase = "after" => (service.executorBlocked <=> run.verdict # "confirmed")

\* No verdict is left over when a process is prepared.
PrepareInv == run.phase \in {"none", "prepare"} => run.verdict = "pending"

IInv == TypeInv /\ JobInv /\ PrepareInv /\ FamilyInv /\ DisposedMeansGone /\ SuccessIsReal

-----------------------------------------------------------------------------
(* Steps of the builds.                                                      *)

LEMMA InitInv == Init => IInv
<1> SUFFICES ASSUME Init PROVE IInv
  OBVIOUS
<1>1. service \in Services /\ run \in Collectors /\ service.last <= MaxJobs
  BY BoundsAreNat DEF Init, Idle, Services, Collectors, Verdicts, Exits
<1>2. job \in [Jobs -> Records] /\ held \in [Jobs -> Families]
  BY DEF Init, Records, Verdicts, Exits, Families
<1>3. run.phase = "none" /\ run.verdict = "pending" /\ ~service.active /\ service.disposed = "no" /\ \A j \in Jobs : held[j] = "none"
  BY DEF Init, Idle
<1>4. \A j \in Jobs : job[j].status = "none"
  BY DEF Init
<1> QED
  BY <1>1, <1>2, <1>3, <1>4
     DEF IInv, TypeInv, JobInv, PrepareInv, FamilyInv, Gone, Believed, DisposedMeansGone, SuccessIsReal

\* The end of a job of which the process is gone, or blocks the executor.
LEMMA SettleKeeps ==
    ASSUME IInv, service.active, run.phase \in {"prepare", "after"},
           NEW how \in Finished, NEW cleanup \in Verdicts, NEW exit \in Exits,
           Settle(how, cleanup, exit), held' = held,
           how = "succeeded" => exit = "zero" /\ cleanup = "confirmed" /\ held[Now] = "released"
    PROVE  IInv'
<1> USE DEF IInv, Settle
<1>1. Now \in Jobs /\ Now' = Now
  BY DEF JobInv, Now, TypeInv, Services
<1>2. service' \in Services /\ service'.last = service.last /\ ~service'.active
      /\ service'.executorBlocked = service.executorBlocked /\ service'.disposed = service.disposed
  BY DEF TypeInv, Services
<1>3. run' \in Collectors /\ run'.phase = "none" /\ run'.verdict = "pending"
  BY DEF Idle, Collectors, Exits, Verdicts
<1>4. job' \in [Jobs -> Records] /\ job'[Now] = [status |-> how, cleanup |-> cleanup, exit |-> exit]
      /\ \A j \in Jobs : j # Now => job'[j] = job[j]
  BY <1>1 DEF TypeInv, Records, Finished
<1>5. SuccessIsReal'
  BY <1>1, <1>4 DEF SuccessIsReal
<1>6. FamilyInv'
  BY <1>1, <1>2, <1>3 DEF FamilyInv, Gone, Believed
<1> QED
  BY <1>2, <1>3, <1>4, <1>5, <1>6 DEF TypeInv, JobInv, PrepareInv, DisposedMeansGone

LEMMA RejectedKeeps ==
    ASSUME IInv, run.phase \in {"prepare", "after"}, Rejected, held' = held
    PROVE  IInv'
<1>1. service.active
  BY DEF IInv, JobInv
<1>2. CASE run.aborted
  BY <1>1, <1>2, SettleKeeps DEF Rejected, Finished, Verdicts, Exits
<1>3. CASE ~run.aborted
  BY <1>1, <1>3, SettleKeeps DEF Rejected, Finished, Verdicts, Exits
<1> QED
  BY <1>2, <1>3

\* The collector takes an event of the process: a record like run in phase,
\* abort and verdict, or with a verdict that is true.
LEMMA CollectsKeeps ==
    ASSUME IInv, Collecting, NEW r \in Collectors, Collects(r), r.phase = "collect",
           r.verdict = "confirmed" => held[Now] = "released"
    PROVE  IInv'
<1>1. /\ run' \in Collectors /\ run'.phase = "collect" /\ run'.verdict = r.verdict
  BY DEF Collects, Collectors
<1>2. UNCHANGED <<service, job, held>>
  BY DEF Collects, Core
<1> QED
  BY <1>1, <1>2 DEF IInv, TypeInv, JobInv, PrepareInv, FamilyInv, DisposedMeansGone, SuccessIsReal, Gone, Believed, Collecting, Now

\* Events of the process, before and after its end.
LEMMA EventKeeps ==
    ASSUME IInv, OutputEnds \/ ProcessFaults \/ Overruns
                 \/ (\E code \in {"zero", "other"} : ProcessExits(code))
                 \/ (\E v \in {"confirmed", "unknown"} : GivesVerdict(v))
    PROVE  IInv'
<1> USE DEF IInv, TypeInv, Collecting
<1>1. run.verdict = "confirmed" /\ Collecting => held[Now] = "released"
  BY DEF FamilyInv, Believed
<1>2. ASSUME NEW code \in {"zero", "other"}, ProcessExits(code) PROVE IInv'
  <2>1. [run EXCEPT !.exit = code] \in Collectors /\ [run EXCEPT !.exit = code].phase = "collect"
        /\ [run EXCEPT !.exit = code].verdict = run.verdict
    BY <1>2 DEF ProcessExits, Collectors, Exits
  <2> QED
    BY <1>1, <1>2, <2>1, CollectsKeeps DEF ProcessExits
<1>3. CASE OutputEnds
  <2>1. [run EXCEPT !.eof = TRUE] \in Collectors /\ [run EXCEPT !.eof = TRUE].phase = "collect"
        /\ [run EXCEPT !.eof = TRUE].verdict = run.verdict
    BY <1>3 DEF OutputEnds, Collectors
  <2> QED
    BY <1>1, <1>3, <2>1, CollectsKeeps DEF OutputEnds
<1>4. CASE ProcessFaults \/ Overruns
  <2>1. Collecting /\ Collects(Fault(run))
    BY <1>4 DEF ProcessFaults, Overruns
  <2>2. Fault(run) \in Collectors /\ Fault(run).phase = "collect" /\ Fault(run).verdict = run.verdict
    BY <2>1 DEF Fault, Collectors
  <2> QED
    BY <1>1, <2>1, <2>2, CollectsKeeps
<1>5. ASSUME NEW v \in {"confirmed", "unknown"}, GivesVerdict(v) PROVE IInv'
  <2> DEFINE first == [run EXCEPT !.verdict = v, !.exit = IF @ = "none" THEN "null" ELSE @]
             second == [run EXCEPT !.verdict = v]
  <2>1. first \in Collectors /\ first.phase = "collect" /\ first.verdict = v
    BY <1>5 DEF GivesVerdict, Collectors, Exits, Verdicts
  <2>2. second \in Collectors /\ second.phase = "collect" /\ second.verdict = v
    BY <1>5 DEF GivesVerdict, Collectors, Verdicts
  <2>3. Collecting /\ (v = "confirmed" => held[Now] = "released") /\ (Collects(first) \/ Collects(second))
    BY <1>5 DEF GivesVerdict
  <2> HIDE DEF first, second
  <2> QED
    BY <2>1, <2>2, <2>3, CollectsKeeps
<1> QED
  BY <1>2, <1>3, <1>4, <1>5

\* The executor.
LEMMA RunKeeps == ASSUME IInv, RunSteps PROVE IInv'
<1> USE DEF IInv
<1>1. CASE PrepareFails \/ RunRejects
  BY <1>1, RejectedKeeps DEF PrepareFails, RunRejects
<1>2. CASE Connect /\ run.aborted
  <2>1. service.active /\ run.phase = "prepare"
    BY <1>2 DEF Connect, JobInv
  <2> QED
    BY <1>2, <2>1, SettleKeeps DEF Connect, Finished, Verdicts, Exits
<1>3. CASE Connect /\ ~run.aborted
  <2>1. /\ run' \in Collectors /\ run'.phase = "collect" /\ run'.verdict = run.verdict
        /\ run.phase = "prepare" /\ ~service.executorBlocked /\ UNCHANGED <<service, job>>
    BY <1>3 DEF Connect, Free, Core, TypeInv, Collectors
  <2>2. service.active /\ Now \in Jobs /\ Now' = Now /\ job[Now].status # "succeeded"
    BY <2>1 DEF JobInv, Now
  <2>3. /\ held' \in [Jobs -> Families] /\ held'[Now] = "idle"
        /\ \A j \in Jobs : j # Now => held'[j] = held[j] /\ Gone(j)
    BY <1>3, <2>1, <2>2 DEF Connect, TypeInv, FamilyInv, Families
  <2>4. run.verdict = "pending"
    BY <2>1 DEF PrepareInv
  <2>5. FamilyInv'
    BY <2>1, <2>2, <2>3, <2>4 DEF FamilyInv, Gone, Believed
  <2>6. SuccessIsReal' /\ DisposedMeansGone'
    BY <2>1, <2>2, <2>3 DEF SuccessIsReal, DisposedMeansGone, JobInv
  <2> QED
    BY <2>1, <2>2, <2>3, <2>5, <2>6 DEF TypeInv, JobInv, PrepareInv
<1>4. CASE Collected
  <2>1. /\ run' \in Collectors /\ run'.phase = "after" /\ run'.verdict = run.verdict
        /\ run.phase = "collect" /\ UNCHANGED <<job, held>>
    BY <1>4 DEF Collected, Collecting, TypeInv, Collectors
  <2>2. /\ service' \in Services /\ service'.last = service.last /\ service'.active = service.active
        /\ service'.disposed = service.disposed
        /\ service'.executorBlocked = (run.verdict # "confirmed")
    BY <1>4 DEF Collected, TypeInv, Services
  <2>3. FamilyInv'
    BY <2>1, <2>2 DEF FamilyInv, JobInv, Gone, Believed, Now
  <2> QED
    BY <2>1, <2>2, <2>3 DEF TypeInv, JobInv, PrepareInv, SuccessIsReal, DisposedMeansGone, Now
<1>5. CASE RunEnds
  <2>1. PICK setup \in BOOLEAN : Settle(Outcome(run.error \/ setup), run.verdict, run.exit)
    BY <1>5 DEF RunEnds
  <2>2. /\ Outcome(run.error \/ setup) \in Finished
        /\ Outcome(run.error \/ setup) = "succeeded" => run.exit = "zero" /\ run.verdict = "confirmed"
    BY DEF Outcome, Finished
  <2>3. service.active /\ run.phase = "after" /\ run.verdict \in Verdicts /\ run.exit \in Exits /\ held' = held
    BY <1>5 DEF RunEnds, JobInv, TypeInv, Collectors
  <2>4. run.verdict = "confirmed" => held[Now] = "released"
    BY <2>3 DEF FamilyInv, Believed
  <2> QED
    BY <2>1, <2>2, <2>3, <2>4, SettleKeeps
<1> QED
  BY <1>1, <1>2, <1>3, <1>4, <1>5 DEF RunSteps

\* Families move by themselves, also those that were given up.
LEMMA FamilyKeeps == ASSUME IInv, NEW k \in Jobs, FamilyMoves(k) PROVE IInv'
<1> USE DEF IInv
<1>1. /\ held' \in [Jobs -> Families]
      /\ \A j \in Jobs : held'[j] = held[j] \/ (held[j] \in {"idle", "running"} /\ held'[j] \in {"running", "released"})
      /\ UNCHANGED <<service, job, run>>
  BY DEF FamilyMoves, TypeInv, Families
<1>2. \A j \in Jobs : Gone(j) => held'[j] = held[j]
  BY <1>1 DEF Gone
<1>3. Believed => Now \in Jobs
  BY DEF Believed, JobInv
<1>4. FamilyInv'
  BY <1>1, <1>2, <1>3 DEF FamilyInv, Gone, Believed, Now
<1>5. SuccessIsReal' /\ DisposedMeansGone'
  BY <1>1 DEF SuccessIsReal, DisposedMeansGone
<1> QED
  BY <1>1, <1>4, <1>5 DEF TypeInv, JobInv, PrepareInv, Now

\* Requests, and the end of the core.
LEMMA AbortFacts ==
    ASSUME NEW r \in Collectors
    PROVE  Abort(r) \in Collectors /\ Abort(r).phase = r.phase /\ Abort(r).verdict = r.verdict
BY DEF Abort, Fault, Collectors

LEMMA ServiceKeeps == ASSUME IInv, Admit \/ Cancel \/ Dispose \/ Disposed PROVE IInv'
<1> USE DEF IInv
<1>1. CASE Admit
  <2>1. /\ service' \in Services /\ service'.last = service.last + 1 /\ service'.active
        /\ service'.executorBlocked = service.executorBlocked /\ service'.disposed = "no"
    <3>1. service' = [service EXCEPT !.last = service.last + 1, !.active = TRUE] /\ service.disposed = "no"
      BY <1>1 DEF Admit
    <3>2. service \in Services /\ service.last + 1 \in Nat
      BY DEF TypeInv, Services
    <3> QED
      BY <3>1, <3>2 DEF Services
  <2>2. run' \in Collectors /\ run'.phase = "prepare" /\ run'.verdict = "pending"
    BY <1>1 DEF Admit, Idle, Collectors, Exits, Verdicts
  <2>3. Now + 1 \in Jobs /\ ~service.active /\ run.phase = "none" /\ held' = held
    <3>1. service.last \in Nat /\ service.last < MaxJobs /\ MaxJobs \in Nat
      BY <1>1, BoundsAreNat DEF Admit, Now, TypeInv, Services
    <3> QED
      BY <1>1, <3>1 DEF Admit, Now, Jobs, JobInv
  <2>4. /\ job' \in [Jobs -> Records] /\ job'[Now + 1].status = "running"
        /\ \A j \in Jobs : j # Now + 1 => job'[j] = job[j]
    BY <1>1, <2>3 DEF Admit, TypeInv, Records, Verdicts, Exits
  <2>5. FamilyInv'
    BY <2>1, <2>2, <2>3 DEF FamilyInv, Gone, Believed
  <2>6. SuccessIsReal' /\ DisposedMeansGone'
    BY <2>1, <2>3, <2>4 DEF SuccessIsReal, DisposedMeansGone
  <2>7. Now' = Now + 1 /\ service'.last <= MaxJobs
    BY <2>1, <2>3 DEF Now, Jobs
  <2> QED
    BY <2>1, <2>2, <2>3, <2>4, <2>5, <2>6, <2>7 DEF TypeInv, JobInv, PrepareInv
<1>2. CASE Cancel
  <2>1. service.active /\ Now \in Jobs /\ UNCHANGED <<service, held>> /\ run' = Abort(run)
    BY <1>2 DEF Cancel, JobInv
  <2>2. /\ job' \in [Jobs -> Records] /\ job'[Now].status = "stopping"
        /\ \A j \in Jobs : j # Now => job'[j] = job[j]
    BY <1>2, <2>1 DEF Cancel, TypeInv, Records
  <2>3. run' \in Collectors /\ run'.phase = run.phase /\ run'.verdict = run.verdict
    BY <2>1, AbortFacts DEF TypeInv
  <2>4. SuccessIsReal'
    BY <2>1, <2>2 DEF SuccessIsReal
  <2> QED
    BY <2>1, <2>2, <2>3, <2>4 DEF TypeInv, JobInv, PrepareInv, FamilyInv, Gone, Believed, Now, DisposedMeansGone
<1>3. CASE Dispose
  <2>1. /\ service' \in Services /\ service'.last = service.last /\ service'.active = service.active
        /\ service'.executorBlocked = service.executorBlocked /\ service'.disposed = "waiting"
        /\ UNCHANGED <<job, held>>
    BY <1>3 DEF Dispose, TypeInv, Services
  <2>2. run' \in Collectors /\ run'.phase = run.phase /\ run'.verdict = run.verdict
    BY <1>3, AbortFacts DEF Dispose, TypeInv
  <2> QED
    BY <2>1, <2>2 DEF TypeInv, JobInv, PrepareInv, FamilyInv, Gone, Believed, Now, DisposedMeansGone, SuccessIsReal
<1>4. CASE Disposed
  <2>1. /\ service' \in Services /\ service'.last = service.last /\ ~service'.active /\ ~service.active
        /\ service'.executorBlocked = service.executorBlocked
        /\ service'.disposed = "done" => ~service.executorBlocked
        /\ service'.disposed \in {"failed", "done"}
        /\ UNCHANGED <<job, held, run>>
    BY <1>4 DEF Disposed, TypeInv, Services
  <2>2. DisposedMeansGone'
    BY <2>1 DEF DisposedMeansGone, FamilyInv, JobInv, Gone
  <2> QED
    BY <2>1, <2>2 DEF TypeInv, JobInv, PrepareInv, FamilyInv, Gone, Believed, Now, SuccessIsReal
<1> QED
  BY <1>1, <1>2, <1>3, <1>4

LEMMA StepInv == IInv /\ [Next]_vars => IInv'
<1> SUFFICES ASSUME IInv, [Next]_vars PROVE IInv'
  OBVIOUS
<1>1. CASE UNCHANGED <<service, job, run, held>>
  BY <1>1 DEF IInv, TypeInv, JobInv, PrepareInv, FamilyInv, Gone, Believed, Now, DisposedMeansGone, SuccessIsReal
<1>2. CASE Poll \/ ServeRead \/ Focus \/ (\E which \in {"read", "mutation"} : Reply(which))
           \/ (\E kind \in {"start", "cancel"} : Click(kind))
  BY <1>1, <1>2 DEF Poll, ServeRead, Focus, Reply, Click
<1>3. CASE ServeMutation
  BY <1>1, <1>3, ServiceKeeps DEF ServeMutation
<1>4. CASE Next
  BY <1>2, <1>3, <1>4, RunKeeps, EventKeeps, FamilyKeeps, ServiceKeeps DEF Next, LeaseSteps, WindowSteps
<1> QED
  BY <1>1, <1>4 DEF vars

\* The inductive invariant holds: the job, the family it launched and the executor's
\* block agree (start of build-jobs.ts, run of target-build-process.ts).
THEOREM InvHolds == Spec => []IInv
BY InitInv, StepInv, PTL DEF Spec

-----------------------------------------------------------------------------
(* What follows for a build.                                                 *)

\* At most one family may still run, and none after a dispose that succeeded
\* (start and dispose of build-jobs.ts, the executor's block in target-build-process.ts).
THEOREM FamiliesHeldAlways == Spec => []FamiliesHeld
<1>1. IInv => FamiliesHeld
  <2> SUFFICES ASSUME IInv PROVE OneFamily
    BY DEF IInv, FamiliesHeld
  <2> DEFINE live == {j \in Jobs : held[j] \in {"idle", "running"}}
  <2>1. \A i, j \in live : i = j
    BY DEF IInv, FamilyInv, Gone
  <2>2. CASE live = {}
    BY <2>2, FS_EmptySet DEF OneFamily
  <2>3. CASE live # {}
    <3>1. PICK j \in live : TRUE
      BY <2>3
    <3>2. live = {j}
      BY <2>1, <3>1
    <3>3. Cardinality(live) = 1
      BY <3>2, FS_Singleton
    <3> QED
      BY <3>3 DEF OneFamily
  <2> QED
    BY <2>2, <2>3
<1> QED
  BY <1>1, InvHolds, PTL

\* A success was an exit with 0 of a process that is confirmed gone (result of
\* build-jobs.ts and of target-build-process.ts).
THEOREM SuccessIsRealAlways == Spec => []SuccessIsReal
<1>1. IInv => SuccessIsReal
  BY DEF IInv
<1> QED
  BY <1>1, InvHolds, PTL

-----------------------------------------------------------------------------
(* What was said is not taken back.                                          *)

\* An accepted cancel has aborted the run.
StopInv == \A j \in Jobs : job[j].status = "stopping" => service.active /\ j = Now /\ run.aborted

\* What the service and the executor do to jobs and to the abort signal.
JobsMove ==
    /\ service'.last >= service.last
    /\ \A j \in Jobs : job[j].status \in Finished /\ j <= service.last => job'[j].status = job[j].status
    /\ \A j \in Jobs : job[j].status = "stopping" => job'[j].status \in {"stopping", "cancelled", "failed"}

LEMMA SettleMoves ==
    ASSUME IInv, StopInv, service.active, NEW how \in Finished, NEW cleanup, NEW exit,
           Settle(how, cleanup, exit), run.aborted => how # "succeeded"
    PROVE  StopInv' /\ JobsMove
<1>1. Now \in Jobs /\ job[Now].status \notin Finished /\ service.last \in Nat
  BY DEF IInv, JobInv, TypeInv, Services, Finished
<1>2. job'[Now].status = how /\ (\A j \in Jobs : j # Now => job'[j] = job[j]) /\ service'.last = service.last
  BY <1>1 DEF Settle, IInv, TypeInv, Services
<1> QED
  BY <1>1, <1>2 DEF StopInv, JobsMove, Finished

LEMMA RejectedMoves ==
    ASSUME IInv, StopInv, run.phase # "none", Rejected
    PROVE  StopInv' /\ JobsMove
<1>1. service.active
  BY DEF IInv, JobInv
<1>2. CASE run.aborted
  BY <1>1, <1>2, SettleMoves DEF Rejected, Finished
<1>3. CASE ~run.aborted
  BY <1>1, <1>3, SettleMoves DEF Rejected, Finished
<1> QED
  BY <1>2, <1>3

\* A step that leaves the jobs alone and the abort signal set, if it was.
LEMMA QuietMoves ==
    ASSUME IInv, StopInv, job' = job, service'.last = service.last, service'.active = service.active,
           run.aborted => run'.aborted
    PROVE  StopInv' /\ JobsMove
BY DEF IInv, TypeInv, Services, StopInv, JobsMove, Now

LEMMA ServiceMoves ==
    ASSUME IInv, StopInv, Admit \/ Cancel \/ Dispose \/ Disposed
    PROVE  StopInv' /\ JobsMove
<1> USE DEF IInv
<1>0. service.last \in Nat
  BY DEF TypeInv, Services
<1>1. CASE Admit
  <2>1. service'.last = service.last + 1 /\ ~service.active
    BY <1>1 DEF Admit, Now, TypeInv, Services
  <2>2. \A j \in Jobs : j # service.last + 1 => job'[j] = job[j]
    BY <1>1 DEF Admit, Now, TypeInv
  <2>3. \A j \in Jobs : job[j].status # "stopping"
    BY <2>1 DEF StopInv
  <2>4. service.last + 1 \in Jobs => job'[service.last + 1].status = "running"
    BY <1>1 DEF Admit, Now, TypeInv
  <2>5. StopInv'
    BY <2>2, <2>3, <2>4 DEF StopInv
  <2>6. JobsMove
    BY <1>0, <2>1, <2>2, <2>3 DEF JobsMove, Jobs
  <2> QED
    BY <2>5, <2>6
<1>2. CASE Cancel
  <2>1. /\ service.active /\ service' = service /\ Now \in Jobs /\ job[Now].status \notin Finished
        /\ run' = Abort(run)
    BY <1>2 DEF Cancel, JobInv, Finished
  <2>2. job'[Now].status = "stopping" /\ \A j \in Jobs : j # Now => job'[j] = job[j]
    BY <1>2, <2>1 DEF Cancel, TypeInv, Records
  <2>3. run'.aborted
    BY <2>1 DEF Abort, Fault, TypeInv, Collectors
  <2> QED
    BY <1>0, <2>1, <2>2, <2>3 DEF StopInv, JobsMove, Now
<1>3. CASE Dispose
  <2>1. job' = job /\ service'.last = service.last /\ service'.active = service.active
    BY <1>3 DEF Dispose, TypeInv, Services
  <2>2. run.aborted => run'.aborted
    BY <1>3 DEF Dispose, Abort, Fault, TypeInv, Collectors
  <2> QED
    BY <2>1, <2>2, QuietMoves
<1>4. CASE Disposed
  BY <1>4, QuietMoves DEF Disposed, TypeInv, Services
<1> QED
  BY <1>1, <1>2, <1>3, <1>4

LEMMA RunMoves ==
    ASSUME IInv, StopInv, RunSteps
    PROVE  StopInv' /\ JobsMove
<1> USE DEF IInv
<1>1. CASE PrepareFails \/ RunRejects
  BY <1>1, RejectedMoves DEF PrepareFails, RunRejects
<1>2. CASE Connect /\ run.aborted
  BY <1>2, SettleMoves DEF Connect, JobInv, Finished
<1>3. CASE Connect /\ ~run.aborted
  BY <1>3, QuietMoves DEF Connect, Core
<1>4. CASE Collected
  <2>1. job' = job /\ service'.last = service.last /\ service'.active = service.active
    BY <1>4 DEF Collected, TypeInv, Services
  <2>2. run'.aborted = run.aborted
    BY <1>4 DEF Collected, TypeInv, Collectors
  <2> QED
    BY <2>1, <2>2, QuietMoves
<1>5. CASE RunEnds
  <2>1. PICK setup \in BOOLEAN : Settle(Outcome(run.error \/ setup), run.verdict, run.exit)
    BY <1>5 DEF RunEnds
  <2>2. /\ Outcome(run.error \/ setup) \in Finished
        /\ run.aborted => Outcome(run.error \/ setup) # "succeeded"
    BY DEF Outcome, Finished
  <2>3. service.active
    BY <1>5 DEF RunEnds, JobInv
  <2> QED
    BY <2>1, <2>2, <2>3, SettleMoves
<1> QED
  BY <1>1, <1>2, <1>3, <1>4, <1>5 DEF RunSteps

LEMMA EventMoves ==
    ASSUME IInv, StopInv, OutputEnds \/ ProcessFaults \/ Overruns
                 \/ (\E code \in {"zero", "other"} : ProcessExits(code))
                 \/ (\E v \in {"confirmed", "unknown"} : GivesVerdict(v))
    PROVE  StopInv' /\ JobsMove
<1> USE DEF IInv, TypeInv, Collecting
<1>1. ASSUME NEW r \in Collectors, Collects(r), r.aborted = run.aborted
      PROVE  StopInv' /\ JobsMove
  <2>1. run'.aborted = run.aborted /\ UNCHANGED <<service, job>>
    BY <1>1 DEF Collects, Core, Collectors
  <2> QED
    BY <2>1, QuietMoves
<1>2. ASSUME NEW code \in {"zero", "other"}, ProcessExits(code) PROVE StopInv' /\ JobsMove
  <2>1. [run EXCEPT !.exit = code] \in Collectors /\ [run EXCEPT !.exit = code].aborted = run.aborted
    BY DEF Collectors, Exits
  <2> QED
    BY <1>1, <1>2, <2>1 DEF ProcessExits
<1>3. CASE OutputEnds
  <2>1. [run EXCEPT !.eof = TRUE] \in Collectors /\ [run EXCEPT !.eof = TRUE].aborted = run.aborted
    BY DEF Collectors
  <2> QED
    BY <1>1, <1>3, <2>1 DEF OutputEnds
<1>4. CASE ProcessFaults \/ Overruns
  <2>1. Fault(run) \in Collectors /\ Fault(run).aborted = run.aborted
    BY DEF Fault, Collectors
  <2> QED
    BY <1>1, <1>4, <2>1 DEF ProcessFaults, Overruns
<1>5. ASSUME NEW v \in {"confirmed", "unknown"}, GivesVerdict(v) PROVE StopInv' /\ JobsMove
  <2> DEFINE first == [run EXCEPT !.verdict = v, !.exit = IF @ = "none" THEN "null" ELSE @]
             second == [run EXCEPT !.verdict = v]
  <2>1. first \in Collectors /\ first.aborted = run.aborted
    BY DEF Collectors, Exits, Verdicts
  <2>2. second \in Collectors /\ second.aborted = run.aborted
    BY DEF Collectors, Verdicts
  <2>3. Collects(first) \/ Collects(second)
    BY <1>5 DEF GivesVerdict
  <2> HIDE DEF first, second
  <2> QED
    BY <1>1, <2>1, <2>2, <2>3
<1> QED
  BY <1>2, <1>3, <1>4, <1>5

LEMMA StopStep == IInv /\ StopInv /\ [Next]_vars => StopInv' /\ JobsMove
<1> SUFFICES ASSUME IInv, StopInv, [Next]_vars PROVE StopInv' /\ JobsMove
  OBVIOUS
<1>1. CASE UNCHANGED <<service, job, run>>
  BY <1>1, QuietMoves
<1>2. CASE Poll \/ ServeRead \/ Focus \/ (\E which \in {"read", "mutation"} : Reply(which))
           \/ (\E kind \in {"start", "cancel"} : Click(kind)) \/ (\E j \in Jobs : FamilyMoves(j))
  BY <1>1, <1>2 DEF Poll, ServeRead, Focus, Reply, Click, FamilyMoves
<1>3. CASE ServeMutation
  BY <1>1, <1>3, ServiceMoves DEF ServeMutation
<1>4. CASE Next
  BY <1>2, <1>3, <1>4, RunMoves, EventMoves, ServiceMoves DEF Next, LeaseSteps, WindowSteps
<1> QED
  BY <1>1, <1>4 DEF vars

\* What the window shows, and what it is about to show.
States == {"none", "running", "stopping"} \cup Finished
Requests == [at : {"none", "sent", "answered", "refused"}, answer : Nat, status : States,
             fresh : BOOLEAN, kind : {"observe", "start", "cancel"}]
Windows == [shown : Nat, status : States, timer : BOOLEAN, again : BOOLEAN, read : Requests, mutation : Requests]

Ended(n, how) == how \in Finished => n \in Jobs /\ job[n].status = how

\* A reply that will count is not older than what it replaces.
ReplyInv(w, q) ==
    q.at = "answered" /\ q.fresh =>
        /\ w.shown <= q.answer /\ q.answer <= service.last
        /\ Ended(q.answer, q.status)
        /\ q.answer = w.shown /\ w.status \in Finished => q.status = w.status

ViewInv(w) ==
    /\ w \in Windows
    /\ w.shown <= service.last /\ Ended(w.shown, w.status)
    /\ ReplyInv(w, w.read) /\ ReplyInv(w, w.mutation)
    /\ w.mutation.at # "none" => w.read.at = "none" \/ ~w.read.fresh

WindowInv == ViewInv(window)

LEMMA InitWindow == Init => StopInv /\ WindowInv
<1> SUFFICES ASSUME Init PROVE StopInv /\ WindowInv
  OBVIOUS
<1>1. StopInv
  BY DEF Init, StopInv
<1>2. NoRequest \in Requests /\ [NoRequest EXCEPT !.at = "sent"] \in Requests
      /\ NoRequest.at = "none" /\ [NoRequest EXCEPT !.at = "sent"].at = "sent"
  BY DEF NoRequest, Requests, States
<1>3. window \in Windows /\ window.shown = 0 /\ window.status = "none"
      /\ window.read.at = "sent" /\ window.mutation.at = "none" /\ service.last = 0
  BY <1>2 DEF Init, Windows, States
<1>4. WindowInv
  BY <1>3 DEF WindowInv, ViewInv, ReplyInv, Ended, Finished
<1> QED
  BY <1>1, <1>4

\* The jobs go on: what was true of a window stays so.
LEMMA JobsGoOn ==
    ASSUME IInv, IInv', JobsMove, NEW w, ViewInv(w)
    PROVE  ViewInv(w)'
<1>1. service.last \in Nat /\ service'.last \in Nat /\ service.last <= service'.last
  BY DEF IInv, TypeInv, Services, JobsMove
<1>2. w.shown \in Nat /\ w.read \in Requests /\ w.mutation \in Requests
  BY DEF ViewInv, Windows
<1>3. ASSUME NEW n \in Nat, NEW how, n <= service.last, Ended(n, how) PROVE Ended(n, how)'
  BY <1>3 DEF Ended, JobsMove
<1>4. ASSUME NEW q \in Requests, ReplyInv(w, q) PROVE ReplyInv(w, q)'
  BY <1>1, <1>2, <1>3, <1>4 DEF ReplyInv, Requests
<1> QED
  BY <1>1, <1>2, <1>3, <1>4 DEF ViewInv

\* A window that shows v after w has not taken back what it said.
Keeps(w, v) == v.shown >= w.shown /\ (v.shown = w.shown /\ w.status \in Finished => v.status = w.status)

LEMMA NoRequestFacts ==
    /\ NoRequest \in Requests /\ NoRequest.at = "none"
    /\ [NoRequest EXCEPT !.at = "sent"] \in Requests /\ [NoRequest EXCEPT !.at = "sent"].at = "sent"
BY DEF NoRequest, Requests, States

LEMMA ObservingKeeps ==
    ASSUME NEW w, ViewInv(w)
    PROVE  ViewInv(Observing(w)) /\ Observing(w).shown = w.shown /\ Observing(w).status = w.status
<1>1. CASE w.read.at # "none" \/ w.mutation.at # "none"
  <2>1. /\ Observing(w) = [w EXCEPT !.again = TRUE] /\ w \in Windows
    BY <1>1 DEF Observing, ViewInv
  <2>2. /\ Observing(w) \in Windows /\ Observing(w).shown = w.shown /\ Observing(w).status = w.status
        /\ Observing(w).read = w.read /\ Observing(w).mutation = w.mutation
    BY <2>1 DEF Windows
  <2> QED
    BY <2>2 DEF ViewInv, ReplyInv
<1>2. CASE w.read.at = "none" /\ w.mutation.at = "none"
  <2>1. /\ Observing(w) = [w EXCEPT !.timer = FALSE, !.read = [NoRequest EXCEPT !.at = "sent"]] /\ w \in Windows
    BY <1>2 DEF Observing, ViewInv
  <2>2. /\ Observing(w) \in Windows /\ Observing(w).shown = w.shown /\ Observing(w).status = w.status
        /\ Observing(w).read.at = "sent" /\ Observing(w).mutation = w.mutation
    BY <2>1, NoRequestFacts DEF Windows
  <2> QED
    BY <1>2, <2>2 DEF ViewInv, ReplyInv
<1> QED
  BY <1>1, <1>2

\* Reply(which): what it shows, and then forgets.
LEMMA ShownKeeps ==
    ASSUME IInv, WindowInv, NEW which \in {"read", "mutation"}, NEW q \in Requests,
           q = window[which] \/ q = [window[which] EXCEPT !.at = "refused"], window[which].at # "none"
    PROVE  LET v == [Shown(window, q) EXCEPT ![which] = NoRequest] IN ViewInv(v) /\ Keeps(window, v)
<1> DEFINE v == [Shown(window, q) EXCEPT ![which] = NoRequest]
<1>0. window \in Windows /\ window[which] \in Requests /\ service.last \in Nat
  BY DEF WindowInv, ViewInv, Windows, IInv, TypeInv, Services
<1>1. CASE ~q.fresh \/ q.at # "answered"
  <2>1. Shown(window, q) = window \/ Shown(window, q) = [window EXCEPT !.timer = TRUE]
    BY <1>1 DEF Shown
  <2>2. /\ v \in Windows /\ v.shown = window.shown /\ v.status = window.status
        /\ v.read \in {window.read, NoRequest} /\ v.mutation \in {window.mutation, NoRequest}
    BY <1>0, <2>1, NoRequestFacts DEF Windows
  <2>3. ViewInv(v)
    BY <2>2, NoRequestFacts DEF WindowInv, ViewInv, ReplyInv
  <2> QED
    BY <1>0, <2>2, <2>3 DEF Keeps, Windows
<1>2. CASE q.fresh /\ q.at = "answered"
  <2>1. q = window[which]
    BY <1>0, <1>2 DEF Requests
  <2>2. Shown(window, q) = [window EXCEPT !.shown = q.answer, !.status = q.status,
                                         !.timer = @ \/ q.status \in {"running", "stopping"}]
    BY <1>2 DEF Shown
  <2>3. /\ v \in Windows /\ v.shown = q.answer /\ v.status = q.status
        /\ v.read = IF which = "read" THEN NoRequest ELSE window.read
        /\ v.mutation = IF which = "mutation" THEN NoRequest ELSE window.mutation
    BY <1>0, <2>2, NoRequestFacts DEF Windows, Requests
  <2>4. ReplyInv(window, q)
    BY <2>1 DEF WindowInv, ViewInv
  <2>5. \A o \in {v.read, v.mutation} : o.at = "answered" => ~o.fresh
    BY <1>2, <2>1, <2>3, NoRequestFacts DEF WindowInv, ViewInv
  <2>6. ViewInv(v)
    <3>1. v.shown <= service.last /\ Ended(v.shown, v.status)
      BY <1>2, <2>3, <2>4 DEF ReplyInv
    <3>2. v.mutation.at # "none" => v.read.at = "none" \/ ~v.read.fresh
      BY <2>3, NoRequestFacts DEF WindowInv, ViewInv
    <3> QED
      BY <2>3, <2>5, <3>1, <3>2 DEF ViewInv, ReplyInv
  <2>7. Keeps(window, v)
    BY <1>0, <1>2, <2>3, <2>4 DEF ReplyInv, Keeps, Windows, Requests
  <2> QED
    BY <2>6, <2>7
<1> QED
  BY <1>1, <1>2

LEMMA AgainKeeps ==
    ASSUME NEW w, ViewInv(w)
    PROVE  ViewInv(Again(w)) /\ Again(w).shown = w.shown /\ Again(w).status = w.status
<1>1. CASE ~(w.again /\ w.read.at = "none" /\ w.mutation.at = "none")
  BY <1>1 DEF Again
<1>2. CASE w.again /\ w.read.at = "none" /\ w.mutation.at = "none"
  <2> DEFINE v == [w EXCEPT !.again = FALSE]
  <2>1. /\ v \in Windows /\ v.shown = w.shown /\ v.status = w.status
        /\ v.read = w.read /\ v.mutation = w.mutation
    BY DEF ViewInv, Windows
  <2>2. ViewInv(v)
    BY <2>1 DEF ViewInv, ReplyInv
  <2>3. Again(w) = Observing(v)
    BY <1>2 DEF Again
  <2> HIDE DEF v
  <2> QED
    BY <2>1, <2>2, <2>3, ObservingKeeps
<1> QED
  BY <1>1, <1>2

\* A window changed to v beside jobs that did not.
LEMMA Seen ==
    ASSUME NEW v, ViewInv(v), window' = v, UNCHANGED <<service, job>>
    PROVE  WindowInv'
BY DEF WindowInv, ViewInv, ReplyInv, Ended

LEMMA WindowMoves ==
    ASSUME IInv, WindowInv,
           Poll \/ Focus \/ (\E kind \in {"start", "cancel"} : Click(kind))
                \/ (\E which \in {"read", "mutation"} : Reply(which))
    PROVE  WindowInv' /\ Keeps(window, window')
<1>0. window \in Windows
  BY DEF WindowInv, ViewInv
<1>1. CASE Poll \/ Focus
  <2> DEFINE v == [window EXCEPT !.timer = FALSE]
  <2>1. /\ v \in Windows /\ v.shown = window.shown /\ v.status = window.status
        /\ v.read = window.read /\ v.mutation = window.mutation
    BY <1>0 DEF Windows
  <2>2. ViewInv(v) /\ ViewInv(window)
    BY <2>1 DEF WindowInv, ViewInv, ReplyInv
  <2>3. (window' = Observing(v) \/ window' = Observing(window)) /\ UNCHANGED <<service, job>>
    BY <1>1 DEF Poll, Focus
  <2> HIDE DEF v
  <2>4. ViewInv(window') /\ window'.shown = window.shown /\ window'.status = window.status
    BY <2>1, <2>2, <2>3, ObservingKeeps
  <2> QED
    BY <1>0, <2>3, <2>4, Seen DEF Keeps, Windows
<1>2. ASSUME NEW kind \in {"start", "cancel"}, Click(kind) PROVE WindowInv' /\ Keeps(window, window')
  <2>1. /\ window' = [window EXCEPT !.timer = FALSE, !.read.fresh = FALSE,
                                    !.mutation = [NoRequest EXCEPT !.at = "sent", !.kind = kind]]
        /\ UNCHANGED <<service, job>>
    BY <1>2 DEF Click
  <2>2. [NoRequest EXCEPT !.at = "sent", !.kind = kind] \in Requests
        /\ [NoRequest EXCEPT !.at = "sent", !.kind = kind].at = "sent"
    BY DEF NoRequest, Requests, States
  <2>3. /\ window' \in Windows /\ window'.shown = window.shown /\ window'.status = window.status
        /\ ~window'.read.fresh /\ window'.mutation.at = "sent"
    BY <1>0, <2>1, <2>2 DEF Windows, Requests
  <2>4. ViewInv(window')
    BY <2>3 DEF WindowInv, ViewInv, ReplyInv
  <2> QED
    BY <1>0, <2>1, <2>3, <2>4, Seen DEF Keeps, Windows
<1>3. ASSUME NEW which \in {"read", "mutation"}, Reply(which) PROVE WindowInv' /\ Keeps(window, window')
  <2> DEFINE seen(q) == [Shown(window, q) EXCEPT ![which] = NoRequest]
  <2>1. window[which] \in Requests /\ [window[which] EXCEPT !.at = "refused"] \in Requests
    BY <1>0 DEF Windows, Requests
  <2>2. PICK q \in {window[which], [window[which] EXCEPT !.at = "refused"]} : window' = Again(seen(q))
    BY <1>3 DEF Reply
  <2>3. window[which].at # "none" /\ UNCHANGED <<service, job>>
    BY <1>3 DEF Reply
  <2>4. ViewInv(seen(q)) /\ Keeps(window, seen(q))
    BY <2>1, <2>2, <2>3, ShownKeeps
  <2> HIDE DEF seen
  <2>5. ViewInv(window') /\ Keeps(window, window')
    BY <2>2, <2>4, AgainKeeps DEF Keeps
  <2> QED
    BY <2>3, <2>5, Seen
<1> QED
  BY <1>1, <1>2, <1>3

\* An answer tells the jobs as they are after the step that serves the request.
LEMMA AnsweredFacts ==
    ASSUME IInv', NEW q \in Requests
    PROVE  /\ Answered(q) \in Requests /\ Answered(q).fresh = q.fresh /\ Answered(q).at # "none"
           /\ Answered(q).at = "answered" =>
                /\ Answered(q).answer = service'.last
                /\ Answered(q).status = IF service'.last = 0 THEN "none" ELSE job'[service'.last].status
<1>1. service'.last \in Nat /\ (service'.last # 0 => service'.last \in Jobs /\ job'[service'.last].status \in States)
  BY DEF IInv, TypeInv, Services, Records, Jobs, States
<1>2. CASE service.disposed # "no"
  BY <1>2 DEF Answered, Requests
<1>3. CASE service.disposed = "no"
  <2>1. Answered(q) = [q EXCEPT !.at = "answered", !.answer = service'.last,
                                !.status = IF service'.last = 0 THEN "none" ELSE job'[service'.last].status]
    BY <1>3 DEF Answered
  <2> QED
    BY <1>1, <2>1 DEF Requests, States
<1> QED
  BY <1>2, <1>3

LEMMA AnswerCounts ==
    ASSUME IInv', NEW w, ViewInv(w)', NEW a \in Requests,
           a.at = "answered" =>
              a.answer = service'.last
              /\ a.status = IF service'.last = 0 THEN "none" ELSE job'[service'.last].status
    PROVE  ReplyInv(w, a)'
<1>1. service'.last \in Nat /\ (service'.last # 0 => service'.last \in Jobs)
  BY DEF IInv, TypeInv, Services, Jobs
<1>2. w.shown \in Nat /\ w.shown <= service'.last /\ Ended(w.shown, w.status)'
  BY DEF ViewInv, Windows
<1>3. ASSUME a.at = "answered" PROVE Ended(a.answer, a.status)'
  BY <1>1, <1>3 DEF Ended, Finished
<1>4. ASSUME a.at = "answered", a.answer = w.shown, w.status \in Finished PROVE a.status = w.status
  <2>1. w.shown \in Jobs /\ job'[w.shown].status = w.status
    BY <1>2, <1>4 DEF Ended
  <2> QED
    BY <1>4, <2>1 DEF Jobs
<1> QED
  BY <1>1, <1>2, <1>3, <1>4 DEF ReplyInv

\* The window's request is answered, beside jobs that may have moved.
LEMMA ServeKeeps ==
    ASSUME IInv, IInv', JobsMove, WindowInv, NEW which \in {"read", "mutation"}, NEW a \in Requests,
           a.fresh = window[which].fresh, window[which].at # "none", window' = [window EXCEPT ![which] = a],
           a.at = "answered" =>
              a.answer = service'.last
              /\ a.status = IF service'.last = 0 THEN "none" ELSE job'[service'.last].status
    PROVE  WindowInv' /\ Keeps(window, window')
<1>1. PICK w : w = window
  OBVIOUS
<1>2. ViewInv(w)' /\ w \in Windows
  BY <1>1, JobsGoOn DEF WindowInv, ViewInv
<1>3. PICK v : v = [w EXCEPT ![which] = a]
  OBVIOUS
<1>4. /\ v \in Windows /\ v.shown = w.shown /\ v.status = w.status
      /\ v.read = IF which = "read" THEN a ELSE w.read
      /\ v.mutation = IF which = "mutation" THEN a ELSE w.mutation
  BY <1>2, <1>3 DEF Windows
<1>5. ReplyInv(w, a)'
  BY <1>2, AnswerCounts
<1>6. ViewInv(v)'
  BY <1>1, <1>2, <1>4, <1>5 DEF ViewInv, ReplyInv
<1>7. window' = v
  BY <1>1, <1>3
<1>8. WindowInv'
  BY <1>6, <1>7 DEF WindowInv
<1> QED
  BY <1>1, <1>2, <1>4, <1>7, <1>8 DEF Keeps, Windows

LEMMA WindowStep ==
    ASSUME IInv, IInv', StopInv, JobsMove, WindowInv, [Next]_vars
    PROVE  WindowInv' /\ Keeps(window, window')
<1>0. window \in Windows
  BY DEF WindowInv, ViewInv
<1>1. CASE window' = window
  <2>1. PICK w : w = window
    OBVIOUS
  <2>2. ViewInv(w)'
    BY <2>1, JobsGoOn DEF WindowInv
  <2> QED
    BY <1>0, <1>1, <2>1, <2>2 DEF WindowInv, Keeps, Windows
<1>2. CASE ServeRead
  <2>1. window.read \in Requests /\ window.read.at = "sent"
    BY <1>0, <1>2 DEF ServeRead, Windows
  <2>2. window' = [window EXCEPT !["read"] = Answered(window.read)]
    BY <1>2 DEF ServeRead
  <2> QED
    BY <2>1, <2>2, AnsweredFacts, ServeKeeps
<1>3. CASE ServeMutation
  <2>1. window.mutation \in Requests /\ window.mutation.at = "sent"
    BY <1>0, <1>3 DEF ServeMutation, Windows
  <2>2. \/ window' = [window EXCEPT !["mutation"] = Answered(window.mutation)]
        \/ window' = [window EXCEPT !["mutation"] = [window.mutation EXCEPT !.at = "refused"]]
    BY <1>3 DEF ServeMutation
  <2>3. [window.mutation EXCEPT !.at = "refused"] \in Requests
        /\ [window.mutation EXCEPT !.at = "refused"].at = "refused"
        /\ [window.mutation EXCEPT !.at = "refused"].fresh = window.mutation.fresh
    BY <2>1 DEF Requests
  <2>4. CASE window' = [window EXCEPT !["mutation"] = Answered(window.mutation)]
    BY <2>1, <2>4, AnsweredFacts, ServeKeeps
  <2>5. CASE window' = [window EXCEPT !["mutation"] = [window.mutation EXCEPT !.at = "refused"]]
    BY <2>1, <2>3, <2>5, ServeKeeps
  <2> QED
    BY <2>2, <2>4, <2>5
<1>4. CASE Poll \/ Focus \/ (\E kind \in {"start", "cancel"} : Click(kind))
           \/ (\E which \in {"read", "mutation"} : Reply(which))
  BY <1>4, WindowMoves
<1>5. RunSteps \/ LeaseSteps \/ ProcessFaults \/ Overruns \/ (\E code \in {"zero", "other"} : ProcessExits(code))
      \/ (\E j \in Jobs : FamilyMoves(j)) \/ Dispose \/ Disposed => window' = window
  <2>1. \A r : Collects(r) => window' = window
    BY DEF Collects, Outside
  <2> QED
    BY <2>1 DEF RunSteps, LeaseSteps, ProcessFaults, Overruns, ProcessExits, FamilyMoves, Dispose, Disposed, Connect,
                PrepareFails, Collected, RunEnds, RunRejects, OutputEnds, GivesVerdict, Outside
<1> QED
  BY <1>1, <1>2, <1>3, <1>4, <1>5 DEF Next, WindowSteps, vars

\* An accepted cancel is not answered by success, and the window never goes back
\* (cancel and settle of build-jobs.ts, the generations of use-target-builds.ts).
THEOREM NothingUnsaidHolds == Spec => NothingUnsaid
<1>1. Init => IInv /\ StopInv /\ WindowInv
  BY InitInv, InitWindow
<1>2. IInv /\ StopInv /\ WindowInv /\ [Next]_vars => (IInv /\ StopInv /\ WindowInv)'
  BY StepInv, StopStep, WindowStep
<1>3. IInv /\ StopInv /\ WindowInv /\ [Next]_vars =>
        [/\ \A j \in Jobs : job[j].status = "stopping" => job'[j].status \in {"stopping", "cancelled", "failed"}
         /\ window'.shown >= window.shown
         /\ window'.shown = window.shown /\ window.status \in Finished => window'.status = window.status]_vars
  BY StepInv, StopStep, WindowStep DEF JobsMove, Keeps
<1> QED
  BY <1>1, <1>2, <1>3, PTL DEF Spec, NothingUnsaid
=============================================================================
