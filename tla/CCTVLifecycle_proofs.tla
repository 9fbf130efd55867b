------------------------ MODULE CCTVLifecycle_proofs ------------------------
(***************************************************************************)
(* Theorems about CCTVLifecycle, for any finite set of pipelines, any      *)
(* errors channel at least as large, any bound on the messages and any     *)
(* client.                                                                 *)
(***************************************************************************)
EXTENDS CCTVLifecycle, FiniteSetTheorems, TLAPS

\* The loops of Start and Stop have at least one turn.
LEMMA NPositive == N \in Nat /\ N > 0 /\ 1 \in 1 .. N
<1>1. N \in Nat /\ N > 0
  BY PipelinesAssumption, FS_CardinalityType DEF N
<1> QED
  BY <1>1

\* A turn of them visits a pipeline and leaves the index within runPipelines.
LEMMA VisitInRange ==
  ASSUME visit \in 1 .. N
  PROVE  /\ RunPipelines[visit] \in Pipelines
         /\ (IF visit = N THEN 1 ELSE visit + 1) \in 1 .. N
<1>1. RunPipelines[visit] \in Pipelines
  BY PipelinesAssumption DEF N
<1>2. (IF visit = N THEN 1 ELSE visit + 1) \in 1 .. N
  BY NPositive
<1> QED
  BY <1>1, <1>2

-----------------------------------------------------------------------------
\* No action takes a variable out of its type: the induction step of TypeCorrect.
LEMMA TypeStep == TypeOK /\ [Next]_vars => TypeOK'
<1> SUFFICES ASSUME TypeOK, [Next]_vars PROVE TypeOK'
  OBVIOUS
<1> USE DEF TypeOK, ClientStates, SupStates, InnerStates, Messages
<1>1. CASE StartNext
  BY <1>1, VisitInRange DEF StartNext, loopVars, gstVars
<1>2. CASE CallRun
  BY <1>2 DEF CallRun, channelVars, goVars, loopVars, gstVars
<1>3. CASE RunReturns
  BY <1>3 DEF RunReturns, Receive, goVars, loopVars, gstVars
<1>4. CASE CallStop
  BY <1>4, NPositive DEF CallStop, channelVars, goVars, loopVars, gstVars
<1>5. CASE StopNext
  <2>1. running' \in [Pipelines -> BOOLEAN] /\ neverStarted' \in BOOLEAN
    BY <1>5, VisitInRange, Zenon DEF StopNext
  <2>2. visit' \in 1 .. N /\ client' \in ClientStates
    BY <1>5, VisitInRange, Zenon DEF StopNext
  <2> QED
    BY <1>5, <2>1, <2>2 DEF StopNext, channelVars, goVars, gstVars
<1>6. CASE Wait
  BY <1>6 DEF Wait, channelVars, goVars, loopVars, gstVars
<1>7. CASE CloseErrors
  BY <1>7 DEF CloseErrors, goVars, loopVars, gstVars
<1>8. CASE CancelContext
  BY <1>8 DEF CancelContext, clientVars, channelVars, goVars, loopVars, gstVars
<1>9. ASSUME NEW p \in Pipelines, SpawnInner(p) PROVE TypeOK'
  BY <1>9 DEF SpawnInner, clientVars, channelVars, loopVars, gstVars
<1>10. ASSUME NEW p \in Pipelines, SelectContext(p) PROVE TypeOK'
  BY <1>10 DEF SelectContext, clientVars, channelVars, loopVars, gstVars
<1>11. ASSUME NEW p \in Pipelines, SelectComplete(p) PROVE TypeOK'
  BY <1>11 DEF SelectComplete, clientVars, channelVars, loopVars, gstVars
<1>12. ASSUME NEW p \in Pipelines, CheckErr(p) PROVE TypeOK'
  BY <1>12 DEF CheckErr, clientVars, channelVars, loopVars, gstVars
<1>13. ASSUME NEW p \in Pipelines, SendError(p) PROVE TypeOK'
  BY <1>13 DEF SendError, clientVars, loopVars, gstVars
<1>14. ASSUME NEW p \in Pipelines, SupervisorExit(p) PROVE TypeOK'
  BY <1>14 DEF SupervisorExit, clientVars, gstVars
<1>15. ASSUME NEW p \in Pipelines, SetLoop(p) PROVE TypeOK'
  BY <1>15 DEF SetLoop, clientVars, channelVars, gstVars
<1>16. ASSUME NEW p \in Pipelines, StartPartials(p) PROVE TypeOK'
  BY <1>16 DEF StartPartials, clientVars, channelVars, loopVars, gstVars
<1>17. ASSUME NEW p \in Pipelines, RaiseState(p) PROVE TypeOK'
  BY <1>17 DEF RaiseState, clientVars, channelVars, loopVars
<1>18. ASSUME NEW p \in Pipelines, SetStateFails(p) PROVE TypeOK'
  BY <1>18 DEF SetStateFails, clientVars, channelVars, loopVars, gstVars
<1>19. ASSUME NEW p \in Pipelines, EnterRun(p) PROVE TypeOK'
  BY <1>19 DEF EnterRun, clientVars, channelVars, gstVars
<1>20. ASSUME NEW p \in Pipelines, LeaveRun(p) PROVE TypeOK'
  BY <1>20 DEF LeaveRun, clientVars, channelVars, gstVars
<1>21. ASSUME NEW p \in Pipelines, Finish(p) PROVE TypeOK'
  BY <1>21 DEF Finish, clientVars, channelVars, loopVars, gstVars
<1>22. ASSUME NEW p \in Pipelines, Acquire(p) PROVE TypeOK'
  BY <1>22 DEF Acquire, clientVars, channelVars, goVars, gstVars
<1>23. ASSUME NEW p \in Pipelines, DispatchEOS(p) PROVE TypeOK'
  BY <1>23 DEF DispatchEOS, clientVars, channelVars, goVars
<1>24. ASSUME NEW p \in Pipelines, DispatchError(p) PROVE TypeOK'
  BY <1>24 DEF DispatchError, clientVars, channelVars
<1>25. ASSUME NEW p \in Pipelines, NEW m \in Messages, Post(p, m) PROVE TypeOK'
  <2>1. posted' \in [Pipelines -> 0 .. MaxPosts] /\ bus' \in [Pipelines -> Seq(Messages)]
    BY <1>25, MaxPostsAssumption DEF Post
  <2> QED
    BY <1>25, <2>1 DEF Post, clientVars, channelVars, goVars, loopVars
<1>26. CASE UNCHANGED vars
  BY <1>26 DEF vars
<1>27. CASE RunElsewhere
  BY <1>27 DEF RunElsewhere, Receive, clientVars, goVars, loopVars, gstVars
<1>28. CASE CloseAgain
  BY <1>28 DEF CloseAgain, channelVars, goVars, loopVars, gstVars
<1> QED
  BY <1>1, <1>2, <1>3, <1>4, <1>5, <1>6, <1>7, <1>8, <1>9, <1>10, <1>11,
     <1>12, <1>13, <1>14, <1>15, <1>16, <1>17, <1>18, <1>19, <1>20,
     <1>21, <1>22, <1>23, <1>24, <1>25, <1>26, <1>27, <1>28
     DEF Next, ClientStep, Supervisor, Inner, MainLoop, Dispatch

\* Every variable keeps its type: in particular the loops over runPipelines
\* stay within it, and the bound on the messages is respected.
THEOREM TypeCorrect == Spec => []TypeOK
<1>1. Init => TypeOK
  <2> SUFFICES ASSUME Init PROVE TypeOK
    OBVIOUS
  <2>1. /\ errors \in Seq(Pipelines)
        /\ bus \in [Pipelines -> Seq(Messages)]
        /\ posted \in [Pipelines -> 0 .. MaxPosts]
    BY MaxPostsAssumption DEF Init
  <2>2. visit \in 1 .. N /\ wg \in Int
    BY NPositive DEF Init
  <2>3. /\ sup \in [Pipelines -> SupStates]
        /\ inner \in [Pipelines -> InnerStates]
        /\ client \in ClientStates
        /\ gst \in [Pipelines -> {"null", "ready", "playing"}]
    BY DEF Init, ClientStates, SupStates, InnerStates
  <2>4. /\ err \in [Pipelines -> BOOLEAN]
        /\ rerr \in [Pipelines -> BOOLEAN]
        /\ loopSet \in [Pipelines -> BOOLEAN]
        /\ running \in [Pipelines -> BOOLEAN]
    BY DEF Init
  <2>5. /\ owner \in Pipelines \cup {NoPipeline}
        /\ neverStarted \in BOOLEAN /\ closed \in BOOLEAN /\ ctxDone \in BOOLEAN
        /\ got \in SUBSET Pipelines
        /\ quit \in {"nil", "open", "closed"}
    BY Zenon DEF Init
  <2> QED
    BY <2>1, <2>2, <2>3, <2>4, <2>5 DEF TypeOK
<1>2. QED
  BY <1>1, TypeStep, PTL DEF Spec

-----------------------------------------------------------------------------
(***************************************************************************)
(* What Start has made, the quit channel of the watchdog, and the owner of *)
(* the main context.                                                       *)
(***************************************************************************)
InnerInv == StartProgress /\ SpawnedOnce /\ QuitFollows /\ OwnerLoops

\* No action breaks the ties between a supervisor, its inner goroutine and the
\* quit channel of the watchdog: the induction step of InnerCorrect.
LEMMA InnerStep == TypeOK /\ InnerInv /\ [Next]_vars => InnerInv'
<1> SUFFICES ASSUME TypeOK, InnerInv, [Next]_vars PROVE InnerInv'
  OBVIOUS
<1> USE PipelinesAssumption DEF TypeOK, InnerInv, SpawnedOnce, QuitFollows,
            OwnerLoops, StartProgress
<1>1. CASE StartNext
  <2>1. RunPipelines[visit] \in Pipelines /\ sup[RunPipelines[visit]] = "none"
    BY <1>1, VisitInRange, NPositive DEF StartNext
  <2>2. \A p \in Pipelines : sup'[p] = IF p = RunPipelines[visit] THEN "spawned" ELSE sup[p]
    BY <1>1 DEF StartNext
  <2>3. SpawnedOnce' /\ QuitFollows' /\ OwnerLoops'
    BY <1>1, <2>1, <2>2 DEF StartNext, loopVars, gstVars
  <2>4. CASE visit < N
    <3>1. \A i \in 1 .. N : sup'[RunPipelines[i]] = "none" <=> i >= visit + 1
      BY <1>1, <2>1, <2>2, NPositive DEF StartNext, N
    <3> QED
      BY <1>1, <2>3, <2>4, <3>1 DEF StartNext
  <2>5. CASE visit = N
    <3>1. ASSUME NEW p \in Pipelines PROVE sup'[p] # "none"
      <4>1. PICK i \in 1 .. N : RunPipelines[i] = p
        BY DEF N
      <4> QED
        BY <1>1, <2>2, <2>5, <4>1, NPositive DEF StartNext
    <3> QED
      BY <1>1, <2>3, <2>5, <3>1 DEF StartNext
  <2> QED
    BY <2>4, <2>5, NPositive
<1>2. CASE CallRun
  BY <1>2 DEF CallRun, channelVars, goVars, loopVars, gstVars
<1>3. CASE RunReturns
  BY <1>3 DEF RunReturns, Receive, goVars, loopVars, gstVars
<1>4. CASE CallStop
  BY <1>4 DEF CallStop, channelVars, goVars, loopVars, gstVars
<1>5. CASE StopNext
  BY <1>5 DEF StopNext, channelVars, goVars, gstVars
<1>6. CASE Wait
  BY <1>6 DEF Wait, channelVars, goVars, loopVars, gstVars
<1>7. CASE CloseErrors
  BY <1>7 DEF CloseErrors, goVars, loopVars, gstVars
<1>8. CASE CancelContext
  BY <1>8 DEF CancelContext, clientVars, channelVars, goVars, loopVars, gstVars
<1>9. ASSUME NEW p \in Pipelines, SpawnInner(p) PROVE InnerInv'
  BY <1>9 DEF SpawnInner, clientVars, channelVars, loopVars, gstVars
<1>10. ASSUME NEW p \in Pipelines, SelectContext(p) PROVE InnerInv'
  BY <1>10 DEF SelectContext, clientVars, channelVars, loopVars, gstVars
<1>11. ASSUME NEW p \in Pipelines, SelectComplete(p) PROVE InnerInv'
  BY <1>11 DEF SelectComplete, clientVars, channelVars, loopVars, gstVars
<1>12. ASSUME NEW p \in Pipelines, CheckErr(p) PROVE InnerInv'
  BY <1>12 DEF CheckErr, clientVars, channelVars, loopVars, gstVars
<1>13. ASSUME NEW p \in Pipelines, SendError(p) PROVE InnerInv'
  BY <1>13 DEF SendError, clientVars, loopVars, gstVars
<1>14. ASSUME NEW p \in Pipelines, SupervisorExit(p) PROVE InnerInv'
  BY <1>14 DEF SupervisorExit, clientVars, gstVars
<1>15. ASSUME NEW p \in Pipelines, SetLoop(p) PROVE InnerInv'
  BY <1>15 DEF SetLoop, clientVars, channelVars, gstVars
<1>16. ASSUME NEW p \in Pipelines, StartPartials(p) PROVE InnerInv'
  BY <1>16 DEF StartPartials, clientVars, channelVars, loopVars, gstVars
<1>17. ASSUME NEW p \in Pipelines, RaiseState(p) PROVE InnerInv'
  BY <1>17 DEF RaiseState, clientVars, channelVars, loopVars
<1>18. ASSUME NEW p \in Pipelines, SetStateFails(p) PROVE InnerInv'
  BY <1>18 DEF SetStateFails, clientVars, channelVars, loopVars, gstVars
<1>19. ASSUME NEW p \in Pipelines, EnterRun(p) PROVE InnerInv'
  BY <1>19 DEF EnterRun, clientVars, channelVars, gstVars
<1>20. ASSUME NEW p \in Pipelines, LeaveRun(p) PROVE InnerInv'
  BY <1>20 DEF LeaveRun, clientVars, channelVars, gstVars
<1>21. ASSUME NEW p \in Pipelines, Finish(p) PROVE InnerInv'
  BY <1>21 DEF Finish, clientVars, channelVars, loopVars, gstVars
<1>22. ASSUME NEW p \in Pipelines, Acquire(p) PROVE InnerInv'
  BY <1>22 DEF Acquire, clientVars, channelVars, goVars, gstVars
<1>23. ASSUME NEW p \in Pipelines, DispatchEOS(p) PROVE InnerInv'
  BY <1>23 DEF DispatchEOS, clientVars, channelVars, goVars
<1>24. ASSUME NEW p \in Pipelines, DispatchError(p) PROVE InnerInv'
  BY <1>24 DEF DispatchError, clientVars, channelVars
<1>25. ASSUME NEW p \in Pipelines, NEW m \in Messages, Post(p, m) PROVE InnerInv'
  BY <1>25 DEF Post, clientVars, channelVars, goVars, loopVars
<1>26. CASE UNCHANGED vars
  BY <1>26 DEF vars
<1>27. CASE RunElsewhere
  BY <1>27 DEF RunElsewhere, Receive, clientVars, goVars, loopVars, gstVars
<1>28. CASE CloseAgain
  BY <1>28 DEF CloseAgain, channelVars, goVars, loopVars, gstVars
<1> QED
  BY <1>1, <1>2, <1>3, <1>4, <1>5, <1>6, <1>7, <1>8, <1>9, <1>10, <1>11,
     <1>12, <1>13, <1>14, <1>15, <1>16, <1>17, <1>18, <1>19, <1>20,
     <1>21, <1>22, <1>23, <1>24, <1>25, <1>26, <1>27, <1>28
     DEF Next, ClientStep, Supervisor, Inner, MainLoop, Dispatch

\* These facts hold of every reachable state.
THEOREM InnerCorrect == Spec => []InnerInv
<1>1. Init => InnerInv
  <2> SUFFICES ASSUME Init PROVE InnerInv
    OBVIOUS
  <2>1. \A i \in 1 .. N : RunPipelines[i] \in Pipelines /\ i >= 1
    BY PipelinesAssumption, NPositive DEF N
  <2>2. StartProgress
    BY <2>1 DEF Init, StartProgress
  <2>3. SpawnedOnce /\ QuitFollows /\ OwnerLoops
    BY PipelinesAssumption DEF Init, SpawnedOnce, QuitFollows, OwnerLoops
  <2> QED
    BY <2>2, <2>3 DEF InnerInv
<1>2. QED
  BY <1>1, InnerStep, TypeCorrect, PTL DEF Spec

\* The watchdog's channel is open whenever Pipeline.Finish is about to close it:
\* every return of Pipeline.Start that can happen comes after Start of the
\* partials, and Finish runs once.
THEOREM WatchdogQuitCorrect == Spec => []WatchdogQuitSafe
<1>1. InnerInv => WatchdogQuitSafe
  BY DEF InnerInv, QuitFollows, WatchdogQuitSafe
<1>2. QED
  BY <1>1, InnerCorrect, PTL

-----------------------------------------------------------------------------
(***************************************************************************)
(* The WaitGroup: its counter is the number of supervisors alive, so that  *)
(* Wait returns when they have all gone.                                   *)
(***************************************************************************)
WgInv == WgCounts /\ StopJoins

\* There are finitely many supervisors for the WaitGroup to count.
LEMMA LiveFinite == IsFiniteSet(Live) /\ Cardinality(Live) \in Nat
<1>1. Live \in SUBSET Pipelines
  BY DEF Live
<1> QED
  BY <1>1, PipelinesAssumption, FS_Subset, FS_CardinalityType

\* Add and Done keep the counter equal to the number of live supervisors, and Wait
\* lets Stop pass only at zero: the induction step of WgCorrect.
LEMMA WgStep == TypeOK /\ InnerInv /\ WgInv /\ [Next]_vars => WgInv'
<1> SUFFICES ASSUME TypeOK, InnerInv, WgInv, [Next]_vars PROVE WgInv'
  OBVIOUS
<1> USE DEF WgInv, StopJoins, WgCounts
<1>1. CASE StartNext
  <2>1. RunPipelines[visit] \in Pipelines /\ sup[RunPipelines[visit]] = "none"
    BY <1>1, VisitInRange, NPositive DEF StartNext, TypeOK, InnerInv, StartProgress
  <2>2. Live' = Live \cup {RunPipelines[visit]} /\ RunPipelines[visit] \notin Live
    BY <1>1, <2>1 DEF StartNext, TypeOK, Live
  <2>3. Cardinality(Live') = Cardinality(Live) + 1
    BY <2>2, LiveFinite, FS_AddElement
  <2>4. ~closed' /\ client' \in {"start", "started"}
    BY <1>1, <2>1 DEF StartNext
  <2> QED
    BY <1>1, <2>3, <2>4 DEF StartNext
<1>2. CASE CallRun
  BY <1>2 DEF CallRun, channelVars, goVars, loopVars, gstVars, TypeOK, Live
<1>3. CASE RunReturns
  BY <1>3 DEF RunReturns, Receive, goVars, loopVars, gstVars, TypeOK, Live
<1>4. CASE CallStop
  BY <1>4 DEF CallStop, channelVars, goVars, loopVars, gstVars, TypeOK, Live
<1>5. CASE StopNext
  BY <1>5 DEF StopNext, channelVars, goVars, gstVars, TypeOK, Live
<1>6. CASE Wait
  <2>1. Live = {} /\ \A p \in Pipelines : sup[p] # "none"
    BY <1>6, LiveFinite, FS_EmptySet DEF Wait, InnerInv, StartProgress
  <2>2. Live' = Live
    BY <1>6 DEF Wait, goVars, Live
  <2> QED
    BY <1>6, <2>1, <2>2 DEF Wait, channelVars, goVars, Live
<1>7. CASE CloseErrors
  BY <1>7 DEF CloseErrors, goVars, loopVars, gstVars, TypeOK, Live
<1>8. CASE CancelContext
  BY <1>8 DEF CancelContext, clientVars, channelVars, goVars, loopVars, gstVars,
     TypeOK, Live
<1>9. ASSUME NEW p \in Pipelines, SpawnInner(p) PROVE WgInv'
  BY <1>9 DEF SpawnInner, clientVars, channelVars, loopVars, gstVars, TypeOK, Live
<1>10. ASSUME NEW p \in Pipelines, SelectContext(p) PROVE WgInv'
  BY <1>10 DEF SelectContext, clientVars, channelVars, loopVars, gstVars, TypeOK,
     Live
<1>11. ASSUME NEW p \in Pipelines, SelectComplete(p) PROVE WgInv'
  BY <1>11 DEF SelectComplete, clientVars, channelVars, loopVars, gstVars,
     TypeOK, Live
<1>12. ASSUME NEW p \in Pipelines, CheckErr(p) PROVE WgInv'
  BY <1>12 DEF CheckErr, clientVars, channelVars, loopVars, gstVars, TypeOK, Live
<1>13. ASSUME NEW p \in Pipelines, SendError(p) PROVE WgInv'
  BY <1>13 DEF SendError, clientVars, loopVars, gstVars, TypeOK, Live
<1>14. ASSUME NEW p \in Pipelines, SupervisorExit(p) PROVE WgInv'
  <2>1. Live' = Live \ {p} /\ p \in Live
    BY <1>14 DEF SupervisorExit, TypeOK, Live
  <2>2. Cardinality(Live') = Cardinality(Live) - 1
    BY <2>1, LiveFinite, FS_RemoveElement
  <2> QED
    BY <1>14, <2>2 DEF SupervisorExit, clientVars, TypeOK
<1>15. ASSUME NEW p \in Pipelines, SetLoop(p) PROVE WgInv'
  BY <1>15 DEF SetLoop, clientVars, channelVars, gstVars, TypeOK, Live
<1>16. ASSUME NEW p \in Pipelines, StartPartials(p) PROVE WgInv'
  BY <1>16 DEF StartPartials, clientVars, channelVars, loopVars, gstVars, TypeOK,
     Live
<1>17. ASSUME NEW p \in Pipelines, RaiseState(p) PROVE WgInv'
  BY <1>17 DEF RaiseState, clientVars, channelVars, loopVars, TypeOK, Live
<1>18. ASSUME NEW p \in Pipelines, SetStateFails(p) PROVE WgInv'
  BY <1>18 DEF SetStateFails, clientVars, channelVars, loopVars, gstVars, TypeOK,
     Live
<1>19. ASSUME NEW p \in Pipelines, EnterRun(p) PROVE WgInv'
  BY <1>19 DEF EnterRun, clientVars, channelVars, gstVars, TypeOK, Live
<1>20. ASSUME NEW p \in Pipelines, LeaveRun(p) PROVE WgInv'
  BY <1>20 DEF LeaveRun, clientVars, channelVars, gstVars, TypeOK, Live
<1>21. ASSUME NEW p \in Pipelines, Finish(p) PROVE WgInv'
  BY <1>21 DEF Finish, clientVars, channelVars, loopVars, gstVars, TypeOK, Live
<1>22. ASSUME NEW p \in Pipelines, Acquire(p) PROVE WgInv'
  BY <1>22 DEF Acquire, clientVars, channelVars, goVars, gstVars, TypeOK, Live
<1>23. ASSUME NEW p \in Pipelines, DispatchEOS(p) PROVE WgInv'
  BY <1>23 DEF DispatchEOS, clientVars, channelVars, goVars, TypeOK, Live
<1>24. ASSUME NEW p \in Pipelines, DispatchError(p) PROVE WgInv'
  BY <1>24 DEF DispatchError, clientVars, channelVars, TypeOK, Live
<1>25. ASSUME NEW p \in Pipelines, NEW m \in Messages, Post(p, m) PROVE WgInv'
  BY <1>25 DEF Post, clientVars, channelVars, goVars, loopVars, TypeOK, Live
<1>26. CASE UNCHANGED vars
  BY <1>26 DEF vars, TypeOK, Live
<1>27. CASE RunElsewhere
  BY <1>27 DEF RunElsewhere, Receive, clientVars, goVars, loopVars, gstVars, TypeOK, Live
<1>28. CASE CloseAgain
  BY <1>28 DEF CloseAgain, channelVars, goVars, loopVars, gstVars, TypeOK, Live
<1> QED
  BY <1>1, <1>2, <1>3, <1>4, <1>5, <1>6, <1>7, <1>8, <1>9, <1>10, <1>11,
     <1>12, <1>13, <1>14, <1>15, <1>16, <1>17, <1>18, <1>19, <1>20,
     <1>21, <1>22, <1>23, <1>24, <1>25, <1>26, <1>27, <1>28
     DEF Next, ClientStep, Supervisor, Inner, MainLoop, Dispatch

\* Invariant of the counter and of the end of Stop.
THEOREM WgCorrect == Spec => []WgInv
<1>1. Init => WgInv
  <2> SUFFICES ASSUME Init PROVE WgInv
    OBVIOUS
  <2>1. Live = {}
    BY DEF Init, Live
  <2> QED
    BY <2>1, FS_EmptySet DEF Init, WgInv, WgCounts, StopJoins
<1>2. QED
  BY <1>1, WgStep, TypeCorrect, InnerCorrect, PTL DEF Spec

\* Stop closes the errors channel and returns only after the deferred wg.Done
\* of every supervisor that Start made.
THEOREM StopJoinsCorrect == Spec => []StopJoins
<1>1. WgInv => StopJoins
  BY DEF WgInv
<1>2. QED
  BY <1>1, WgCorrect, PTL

-----------------------------------------------------------------------------
(***************************************************************************)
(* The errors channel: a failure is in one place, and so the channel has   *)
(* room for every supervisor that still has one to send.                   *)
(***************************************************************************)

\* Receiving from a channel whose contents differ takes the head and no more.
LEMMA QueuedReceive ==
  ASSUME TypeOK, DeliveredOnce, errors # <<>>, errors' = Tail(errors)
  PROVE  /\ Queued' = Queued \ {Head(errors)}
         /\ Head(errors) \in Queued
         /\ \A i, j \in 1 .. Len(errors') : errors'[i] = errors'[j] => i = j
<1>1. errors \in Seq(Pipelines) /\ Len(errors) \in Nat /\ Len(errors) > 0
  BY DEF TypeOK
<1>2. /\ Len(errors') = Len(errors) - 1
      /\ \A i \in 1 .. Len(errors') : errors'[i] = errors[i + 1]
      /\ Head(errors) = errors[1]
  BY <1>1
<1>3. \A x \in Queued \ {Head(errors)} : \E i \in 1 .. Len(errors') : x = errors'[i]
  <2> SUFFICES ASSUME NEW k \in 1 .. Len(errors), errors[k] # Head(errors)
               PROVE  \E i \in 1 .. Len(errors') : errors[k] = errors'[i]
    BY DEF Queued
  <2>1. k - 1 \in 1 .. Len(errors') /\ errors[k] = errors'[k - 1]
    BY <1>1, <1>2
  <2> QED
    BY <2>1
<1>4. \A i \in 1 .. Len(errors') : errors'[i] \in Queued \ {Head(errors)}
  BY <1>1, <1>2 DEF Queued, DeliveredOnce
<1>5. \A i, j \in 1 .. Len(errors') : errors'[i] = errors'[j] => i = j
  BY <1>1, <1>2 DEF DeliveredOnce
<1>6. Head(errors) \in Queued
  BY <1>1, <1>2 DEF Queued
<1> QED
  BY <1>3, <1>4, <1>5, <1>6 DEF Queued

\* Sending something the channel does not hold adds just that.
LEMMA QueuedSend ==
  ASSUME TypeOK, DeliveredOnce, NEW p \in Pipelines, p \notin Queued,
         errors' = Append(errors, p)
  PROVE  /\ Queued' = Queued \cup {p}
         /\ \A i, j \in 1 .. Len(errors') : errors'[i] = errors'[j] => i = j
<1>1. errors \in Seq(Pipelines) /\ Len(errors) \in Nat
  BY DEF TypeOK
<1>2. /\ Len(errors') = Len(errors) + 1
      /\ \A i \in 1 .. Len(errors) : errors'[i] = errors[i]
      /\ errors'[Len(errors) + 1] = p
  BY <1>1
<1>3. \A i \in 1 .. Len(errors) : errors[i] # p
  BY DEF Queued
<1>4. \A i, j \in 1 .. Len(errors') : errors'[i] = errors'[j] => i = j
  BY <1>1, <1>2, <1>3 DEF DeliveredOnce
<1>5. Queued' = Queued \cup {p}
  BY <1>1, <1>2 DEF Queued
<1> QED
  BY <1>4, <1>5

\* An error is sent by a supervisor that then leaves, and received once: the
\* induction step of DeliveredOnceCorrect.
LEMMA DeliveryStep == TypeOK /\ InnerInv /\ DeliveredOnce /\ [Next]_vars => DeliveredOnce'
<1> SUFFICES ASSUME TypeOK, InnerInv, DeliveredOnce, [Next]_vars PROVE DeliveredOnce'
  OBVIOUS
<1> USE DEF DeliveredOnce
<1>1. CASE StartNext
  <2>1. RunPipelines[visit] \in Pipelines /\ sup[RunPipelines[visit]] = "none"
    BY <1>1, VisitInRange, NPositive DEF StartNext, TypeOK, InnerInv, StartProgress
  <2>2. errors' = errors /\ got' = got /\ Queued' = Queued
    BY <1>1 DEF StartNext, Queued
  <2>3. RunPipelines[visit] \notin Queued \cup got
    BY <2>1
  <2>4. \A p \in Pipelines : p # RunPipelines[visit] => sup'[p] = sup[p]
    BY <1>1 DEF StartNext, TypeOK
  <2>5. Queued \cup got \subseteq Pipelines
    BY DEF TypeOK, Queued
  <2> QED
    BY <2>2, <2>3, <2>4, <2>5
<1>2. CASE CallRun
  BY <1>2 DEF CallRun, channelVars, goVars, loopVars, gstVars, TypeOK, Queued
<1>3. CASE RunReturns
  BY <1>3, QueuedReceive DEF RunReturns, Receive, goVars
<1>4. CASE CallStop
  BY <1>4 DEF CallStop, channelVars, goVars, loopVars, gstVars, TypeOK, Queued
<1>5. CASE StopNext
  BY <1>5 DEF StopNext, channelVars, goVars, gstVars, TypeOK, Queued
<1>6. CASE Wait
  BY <1>6 DEF Wait, channelVars, goVars, loopVars, gstVars, TypeOK, Queued
<1>7. CASE CloseErrors
  <2>1. Queued' = {} /\ Len(errors') = 0
    BY <1>7 DEF CloseErrors, Queued
  <2>2. got' = got \cup Queued
    BY <1>7 DEF CloseErrors, Queued
  <2> QED
    BY <1>7, <2>1, <2>2 DEF CloseErrors, goVars
<1>8. CASE CancelContext
  BY <1>8 DEF CancelContext, clientVars, channelVars, goVars, loopVars, gstVars,
     TypeOK, Queued
<1>9. ASSUME NEW p \in Pipelines, SpawnInner(p) PROVE DeliveredOnce'
  BY <1>9 DEF SpawnInner, clientVars, channelVars, loopVars, gstVars, TypeOK, Queued
<1>10. ASSUME NEW p \in Pipelines, SelectContext(p) PROVE DeliveredOnce'
  BY <1>10 DEF SelectContext, clientVars, channelVars, loopVars, gstVars, TypeOK,
     Queued
<1>11. ASSUME NEW p \in Pipelines, SelectComplete(p) PROVE DeliveredOnce'
  BY <1>11 DEF SelectComplete, clientVars, channelVars, loopVars, gstVars,
     TypeOK, Queued
<1>12. ASSUME NEW p \in Pipelines, CheckErr(p) PROVE DeliveredOnce'
  BY <1>12 DEF CheckErr, clientVars, channelVars, loopVars, gstVars, TypeOK, Queued
<1>13. ASSUME NEW p \in Pipelines, SendError(p) PROVE DeliveredOnce'
  <2>1. p \notin Queued \cup got
    BY <1>13 DEF SendError
  <2> QED
    BY <1>13, <2>1, QueuedSend DEF SendError, TypeOK
<1>14. ASSUME NEW p \in Pipelines, SupervisorExit(p) PROVE DeliveredOnce'
  BY <1>14 DEF SupervisorExit, clientVars, gstVars, TypeOK, Queued
<1>15. ASSUME NEW p \in Pipelines, SetLoop(p) PROVE DeliveredOnce'
  BY <1>15 DEF SetLoop, clientVars, channelVars, gstVars, TypeOK, Queued
<1>16. ASSUME NEW p \in Pipelines, StartPartials(p) PROVE DeliveredOnce'
  BY <1>16 DEF StartPartials, clientVars, channelVars, loopVars, gstVars, TypeOK,
     Queued
<1>17. ASSUME NEW p \in Pipelines, RaiseState(p) PROVE DeliveredOnce'
  BY <1>17 DEF RaiseState, clientVars, channelVars, loopVars, TypeOK, Queued
<1>18. ASSUME NEW p \in Pipelines, SetStateFails(p) PROVE DeliveredOnce'
  BY <1>18 DEF SetStateFails, clientVars, channelVars, loopVars, gstVars, TypeOK,
     Queued
<1>19. ASSUME NEW p \in Pipelines, EnterRun(p) PROVE DeliveredOnce'
  BY <1>19 DEF EnterRun, clientVars, channelVars, gstVars, TypeOK, Queued
<1>20. ASSUME NEW p \in Pipelines, LeaveRun(p) PROVE DeliveredOnce'
  BY <1>20 DEF LeaveRun, clientVars, channelVars, gstVars, TypeOK, Queued
<1>21. ASSUME NEW p \in Pipelines, Finish(p) PROVE DeliveredOnce'
  BY <1>21 DEF Finish, clientVars, channelVars, loopVars, gstVars, TypeOK, Queued
<1>22. ASSUME NEW p \in Pipelines, Acquire(p) PROVE DeliveredOnce'
  BY <1>22 DEF Acquire, clientVars, channelVars, goVars, gstVars, TypeOK, Queued
<1>23. ASSUME NEW p \in Pipelines, DispatchEOS(p) PROVE DeliveredOnce'
  BY <1>23 DEF DispatchEOS, clientVars, channelVars, goVars, TypeOK, Queued
<1>24. ASSUME NEW p \in Pipelines, DispatchError(p) PROVE DeliveredOnce'
  BY <1>24 DEF DispatchError, clientVars, channelVars, TypeOK, Queued
<1>25. ASSUME NEW p \in Pipelines, NEW m \in Messages, Post(p,
   m) PROVE DeliveredOnce'
  BY <1>25 DEF Post, clientVars, channelVars, goVars, loopVars, TypeOK, Queued
<1>26. CASE UNCHANGED vars
  BY <1>26 DEF vars, TypeOK, Queued
<1>27. CASE RunElsewhere
  BY <1>27, QueuedReceive DEF RunElsewhere, Receive, clientVars, goVars, loopVars, gstVars
<1>28. CASE CloseAgain
  BY <1>28 DEF CloseAgain, channelVars, goVars, loopVars, gstVars, TypeOK, Queued
<1> QED
  BY <1>1, <1>2, <1>3, <1>4, <1>5, <1>6, <1>7, <1>8, <1>9, <1>10, <1>11,
     <1>12, <1>13, <1>14, <1>15, <1>16, <1>17, <1>18, <1>19, <1>20,
     <1>21, <1>22, <1>23, <1>24, <1>25, <1>26, <1>27, <1>28
     DEF Next, ClientStep, Supervisor, Inner, MainLoop, Dispatch

\* No failure is delivered to the client twice.
THEOREM DeliveredOnceCorrect == Spec => []DeliveredOnce
<1>1. Init => DeliveredOnce
  BY DEF Init, DeliveredOnce, Queued
<1>2. QED
  BY <1>1, DeliveryStep, TypeCorrect, InnerCorrect, PTL DEF Spec

\* A supervisor that has yet to send leaves a place in the channel: what the
\* channel holds maps one to one into the other pipelines.
LEMMA RoomToSend ==
  ASSUME TypeOK, DeliveredOnce, NEW p \in Pipelines, sup[p] = "send"
  PROVE  Len(errors) < ErrorsCap
<1> DEFINE Others == Pipelines \ {p}
<1>1. /\ errors \in Seq(Pipelines) /\ Len(errors) \in Nat
      /\ errors \in [1 .. Len(errors) -> Pipelines]
  BY DEF TypeOK
<1>2. \A i \in 1 .. Len(errors) : errors[i] # p
  BY DEF DeliveredOnce, Queued
<1>3. errors \in Injection(1 .. Len(errors), Others)
  BY <1>1, <1>2 DEF DeliveredOnce, Injection, IsInjective
<1>4. /\ IsFiniteSet(Others) /\ Cardinality(Others) = Cardinality(Pipelines) - 1
      /\ Cardinality(Pipelines) \in Nat
  BY PipelinesAssumption, FS_RemoveElement, FS_CardinalityType
<1>5. Cardinality(1 .. Len(errors)) <= Cardinality(Others)
  BY <1>3, <1>4, FS_Injection
<1>6. Cardinality(1 .. Len(errors)) = Len(errors)
  BY <1>1, FS_Interval
<1> QED
  BY <1>1, <1>4, <1>5, <1>6, ErrorsCapAssumption

\* Stop goes on to close the channel only when it has found every loop, and nobody
\* sends once it has: the induction step of ClosedCorrect.
LEMMA ClosedStep == TypeOK /\ WgInv /\ ClosedAtEnd /\ [Next]_vars => ClosedAtEnd'
<1> SUFFICES ASSUME TypeOK, WgInv, ClosedAtEnd, [Next]_vars PROVE ClosedAtEnd'
  OBVIOUS
<1> USE PipelinesAssumption, NPositive DEF TypeOK, WgInv, StopJoins, ClosedAtEnd
<1>1. CASE StartNext
  BY <1>1 DEF StartNext, loopVars, gstVars
<1>2. CASE CallRun
  BY <1>2 DEF CallRun, channelVars, goVars, loopVars, gstVars
<1>3. CASE RunReturns
  BY <1>3 DEF RunReturns, Receive, goVars, loopVars, gstVars
<1>4. CASE CallStop
  BY <1>4 DEF CallStop, channelVars, goVars, loopVars, gstVars
<1>5. CASE StopNext
  <2> DEFINE p == RunPipelines[visit]
  <2>1. p \in Pipelines
    BY VisitInRange
  <2>2. /\ closed' = closed /\ errors' = errors /\ loopSet' = loopSet
        /\ neverStarted' = (neverStarted \/ ~loopSet[p])
    BY <1>5, <2>1 DEF StopNext, channelVars
  <2>3. neverStarted' => ~closed
    BY <1>5, <2>1, <2>2 DEF StopNext
  <2>4. ~neverStarted' => \A i \in 1 .. visit : loopSet[RunPipelines[i]]
    <3> SUFFICES ASSUME ~neverStarted', NEW i \in 1 .. visit
                 PROVE  loopSet[RunPipelines[i]]
      OBVIOUS
    <3>1. client = "stop" /\ ~neverStarted /\ loopSet[p]
      BY <1>5, <2>2 DEF StopNext
    <3>2. i \in 1 .. N /\ (i < visit \/ i = visit)
      BY NPositive
    <3> QED
      BY <3>1, <3>2
  <2>5. CASE visit < N
    <3>1. client' = "stop" /\ visit' = visit + 1
      BY <1>5, <2>5 DEF StopNext
    <3> QED
      BY <2>2, <2>3, <2>4, <3>1
  <2>6. CASE visit = N
    <3>1. client' = IF neverStarted' THEN "stopFailed" ELSE "wait"
      BY <1>5, <2>6 DEF StopNext
    <3>2. ~neverStarted' => \A q \in Pipelines : loopSet[q]
      BY <2>4, <2>6 DEF N
    <3> QED
      BY <2>2, <2>3, <3>1, <3>2
  <2> QED
    BY <2>5, <2>6
<1>6. CASE Wait
  BY <1>6 DEF Wait, channelVars, goVars, loopVars, gstVars
<1>7. CASE CloseErrors
  BY <1>7 DEF CloseErrors, goVars, loopVars, gstVars
<1>8. CASE CancelContext
  BY <1>8 DEF CancelContext, clientVars, channelVars, goVars, loopVars, gstVars
<1>9. ASSUME NEW p \in Pipelines, SpawnInner(p) PROVE ClosedAtEnd'
  BY <1>9 DEF SpawnInner, clientVars, channelVars, loopVars, gstVars
<1>10. ASSUME NEW p \in Pipelines, SelectContext(p) PROVE ClosedAtEnd'
  BY <1>10 DEF SelectContext, clientVars, channelVars, loopVars, gstVars
<1>11. ASSUME NEW p \in Pipelines, SelectComplete(p) PROVE ClosedAtEnd'
  BY <1>11 DEF SelectComplete, clientVars, channelVars, loopVars, gstVars
<1>12. ASSUME NEW p \in Pipelines, CheckErr(p) PROVE ClosedAtEnd'
  BY <1>12 DEF CheckErr, clientVars, channelVars, loopVars, gstVars
<1>13. ASSUME NEW p \in Pipelines, SendError(p) PROVE ClosedAtEnd'
  BY <1>13 DEF SendError, clientVars, loopVars, gstVars
<1>14. ASSUME NEW p \in Pipelines, SupervisorExit(p) PROVE ClosedAtEnd'
  BY <1>14 DEF SupervisorExit, clientVars, gstVars
<1>15. ASSUME NEW p \in Pipelines, SetLoop(p) PROVE ClosedAtEnd'
  <2>1. \A q \in Pipelines : loopSet[q] => loopSet'[q]
    BY <1>15 DEF SetLoop
  <2> QED
    BY <1>15, <2>1 DEF SetLoop, clientVars, channelVars, N
<1>16. ASSUME NEW p \in Pipelines, StartPartials(p) PROVE ClosedAtEnd'
  BY <1>16 DEF StartPartials, clientVars, channelVars, loopVars, gstVars
<1>17. ASSUME NEW p \in Pipelines, RaiseState(p) PROVE ClosedAtEnd'
  BY <1>17 DEF RaiseState, clientVars, channelVars, loopVars
<1>18. ASSUME NEW p \in Pipelines, SetStateFails(p) PROVE ClosedAtEnd'
  BY <1>18 DEF SetStateFails, clientVars, channelVars, loopVars, gstVars
<1>19. ASSUME NEW p \in Pipelines, EnterRun(p) PROVE ClosedAtEnd'
  BY <1>19 DEF EnterRun, clientVars, channelVars, gstVars
<1>20. ASSUME NEW p \in Pipelines, LeaveRun(p) PROVE ClosedAtEnd'
  BY <1>20 DEF LeaveRun, clientVars, channelVars, gstVars
<1>21. ASSUME NEW p \in Pipelines, Finish(p) PROVE ClosedAtEnd'
  BY <1>21 DEF Finish, clientVars, channelVars, loopVars, gstVars
<1>22. ASSUME NEW p \in Pipelines, Acquire(p) PROVE ClosedAtEnd'
  BY <1>22 DEF Acquire, clientVars, channelVars, goVars, gstVars
<1>23. ASSUME NEW p \in Pipelines, DispatchEOS(p) PROVE ClosedAtEnd'
  BY <1>23 DEF DispatchEOS, clientVars, channelVars, goVars
<1>24. ASSUME NEW p \in Pipelines, DispatchError(p) PROVE ClosedAtEnd'
  BY <1>24 DEF DispatchError, clientVars, channelVars
<1>25. ASSUME NEW p \in Pipelines, NEW m \in Messages, Post(p, m) PROVE ClosedAtEnd'
  BY <1>25 DEF Post, clientVars, channelVars, goVars, loopVars
<1>26. CASE UNCHANGED vars
  BY <1>26 DEF vars
<1>27. CASE RunElsewhere
  BY <1>27 DEF RunElsewhere, Receive, clientVars, goVars, loopVars, gstVars
<1>28. CASE CloseAgain
  BY <1>28 DEF CloseAgain, channelVars, goVars, loopVars, gstVars
<1> QED
  BY <1>1, <1>2, <1>3, <1>4, <1>5, <1>6, <1>7, <1>8, <1>9, <1>10, <1>11,
     <1>12, <1>13, <1>14, <1>15, <1>16, <1>17, <1>18, <1>19, <1>20,
     <1>21, <1>22, <1>23, <1>24, <1>25, <1>26,
     <1>27, <1>28
     DEF Next, ClientStep, Supervisor, Inner, MainLoop, Dispatch

\* A closed channel is empty, and so it stays; a Stop that failed has not closed it.
THEOREM ClosedCorrect == Spec => []ClosedAtEnd
<1>1. Init => ClosedAtEnd
  BY NPositive DEF Init, ClosedAtEnd
<1>2. QED
  BY <1>1, ClosedStep, TypeCorrect, WgCorrect, PTL DEF Spec

\* However Run and Stop overlap and are repeated, no supervisor ever sends on a
\* full or on a closed channel, and a Stop that failed leaves it open.
THEOREM ErrorsChannelCorrect == Spec => []ErrorsChannelSafe
<1>1. TypeOK /\ WgInv /\ ClosedAtEnd /\ DeliveredOnce => ErrorsChannelSafe
  BY RoomToSend DEF WgInv, StopJoins, ClosedAtEnd, ErrorsChannelSafe
<1>2. QED
  BY <1>1, TypeCorrect, WgCorrect, ClosedCorrect, DeliveredOnceCorrect, PTL

-----------------------------------------------------------------------------
(***************************************************************************)
(* Failures: without a cancelled context the supervisor reads err after    *)
(* its last write, and Run and Stop return what it read.                   *)
(***************************************************************************)
ErrInv == ErrReadAfterJoin /\ ErrAccounted

\* What a supervisor has read in err stays true, and is sent if and only if it is
\* an error, until the context is done: the induction step of ErrCorrect.
LEMMA ErrStep ==
  TypeOK /\ InnerInv /\ DeliveredOnce /\ ErrInv /\ [Next]_vars => ErrInv'
<1> SUFFICES ASSUME TypeOK, InnerInv, DeliveredOnce, ErrInv, [Next]_vars PROVE ErrInv'
  OBVIOUS
<1> USE DEF ErrInv, ErrReadAfterJoin, ErrAccounted
<1>1. CASE StartNext
  <2>1. RunPipelines[visit] \in Pipelines /\ sup[RunPipelines[visit]] = "none"
    BY <1>1, VisitInRange, NPositive DEF StartNext, TypeOK, InnerInv, StartProgress
  <2> QED
    BY <1>1, <2>1 DEF StartNext, TypeOK, Queued
<1>2. CASE CallRun
  BY <1>2 DEF CallRun, channelVars, goVars, loopVars, gstVars, TypeOK, Queued
<1>3. CASE RunReturns
  <2>1. Queued' \cup got' = Queued \cup got
    BY <1>3, QueuedReceive DEF RunReturns, Receive
  <2> QED
    BY <1>3, <2>1 DEF RunReturns, Receive, goVars
<1>4. CASE CallStop
  BY <1>4 DEF CallStop, channelVars, goVars, loopVars, gstVars, TypeOK, Queued
<1>5. CASE StopNext
  BY <1>5 DEF StopNext, channelVars, goVars, gstVars, TypeOK, Queued
<1>6. CASE Wait
  BY <1>6 DEF Wait, channelVars, goVars, loopVars, gstVars, TypeOK, Queued
<1>7. CASE CloseErrors
  <2>1. Queued' \cup got' = Queued \cup got
    BY <1>7 DEF CloseErrors, Queued
  <2> QED
    BY <1>7, <2>1 DEF CloseErrors, goVars
<1>8. CASE CancelContext
  BY <1>8 DEF CancelContext, clientVars, channelVars, goVars, loopVars, gstVars,
     TypeOK, Queued
<1>9. ASSUME NEW p \in Pipelines, SpawnInner(p) PROVE ErrInv'
  BY <1>9 DEF SpawnInner, clientVars, channelVars, loopVars, gstVars, TypeOK, Queued
<1>10. ASSUME NEW p \in Pipelines, SelectContext(p) PROVE ErrInv'
  BY <1>10 DEF SelectContext, clientVars, channelVars, loopVars, gstVars, TypeOK,
     Queued
<1>11. ASSUME NEW p \in Pipelines, SelectComplete(p) PROVE ErrInv'
  BY <1>11 DEF SelectComplete, clientVars, channelVars, loopVars, gstVars,
     TypeOK, Queued
<1>12. ASSUME NEW p \in Pipelines, CheckErr(p) PROVE ErrInv'
  <2>1. p \notin Queued \cup got
    BY <1>12 DEF CheckErr, DeliveredOnce
  <2> QED
    BY <1>12, <2>1 DEF CheckErr, channelVars, TypeOK, Queued
<1>13. ASSUME NEW p \in Pipelines, SendError(p) PROVE ErrInv'
  <2>1. p \notin Queued \cup got
    BY <1>13 DEF SendError, DeliveredOnce
  <2>2. Queued' \cup got' = Queued \cup got \cup {p}
    BY <1>13, <2>1, QueuedSend DEF SendError
  <2> QED
    BY <1>13, <2>2 DEF SendError, TypeOK
<1>14. ASSUME NEW p \in Pipelines, SupervisorExit(p) PROVE ErrInv'
  BY <1>14 DEF SupervisorExit, clientVars, gstVars, TypeOK, Queued
<1>15. ASSUME NEW p \in Pipelines, SetLoop(p) PROVE ErrInv'
  BY <1>15 DEF SetLoop, clientVars, channelVars, gstVars, TypeOK, Queued
<1>16. ASSUME NEW p \in Pipelines, StartPartials(p) PROVE ErrInv'
  BY <1>16 DEF StartPartials, clientVars, channelVars, loopVars, gstVars, TypeOK,
     Queued
<1>17. ASSUME NEW p \in Pipelines, RaiseState(p) PROVE ErrInv'
  BY <1>17 DEF RaiseState, clientVars, channelVars, loopVars, TypeOK, Queued
<1>18. ASSUME NEW p \in Pipelines, SetStateFails(p) PROVE ErrInv'
  BY <1>18 DEF SetStateFails, clientVars, channelVars, loopVars, gstVars, TypeOK,
     Queued
<1>19. ASSUME NEW p \in Pipelines, EnterRun(p) PROVE ErrInv'
  BY <1>19 DEF EnterRun, clientVars, channelVars, gstVars, TypeOK, Queued
<1>20. ASSUME NEW p \in Pipelines, LeaveRun(p) PROVE ErrInv'
  BY <1>20 DEF LeaveRun, clientVars, channelVars, gstVars, TypeOK, Queued
<1>21. ASSUME NEW p \in Pipelines, Finish(p) PROVE ErrInv'
  BY <1>21 DEF Finish, clientVars, channelVars, loopVars, gstVars, TypeOK, Queued
<1>22. ASSUME NEW p \in Pipelines, Acquire(p) PROVE ErrInv'
  BY <1>22 DEF Acquire, clientVars, channelVars, goVars, gstVars, TypeOK, Queued
<1>23. ASSUME NEW p \in Pipelines, DispatchEOS(p) PROVE ErrInv'
  BY <1>23 DEF DispatchEOS, clientVars, channelVars, goVars, TypeOK, Queued
<1>24. ASSUME NEW p \in Pipelines, DispatchError(p) PROVE ErrInv'
  BY <1>24 DEF DispatchError, clientVars, channelVars, TypeOK, Queued
<1>25. ASSUME NEW p \in Pipelines, NEW m \in Messages, Post(p, m) PROVE ErrInv'
  BY <1>25 DEF Post, clientVars, channelVars, goVars, loopVars, TypeOK, Queued
<1>26. CASE UNCHANGED vars
  BY <1>26 DEF vars, TypeOK, Queued
<1>27. CASE RunElsewhere
  <2>1. Queued' \cup got' = Queued \cup got
    BY <1>27, QueuedReceive DEF RunElsewhere, Receive
  <2> QED
    BY <1>27, <2>1 DEF RunElsewhere, clientVars, goVars
<1>28. CASE CloseAgain
  BY <1>28 DEF CloseAgain, channelVars, goVars, loopVars, gstVars, TypeOK, Queued
<1> QED
  BY <1>1, <1>2, <1>3, <1>4, <1>5, <1>6, <1>7, <1>8, <1>9, <1>10, <1>11,
     <1>12, <1>13, <1>14, <1>15, <1>16, <1>17, <1>18, <1>19, <1>20,
     <1>21, <1>22, <1>23, <1>24, <1>25, <1>26, <1>27, <1>28
     DEF Next, ClientStep, Supervisor, Inner, MainLoop, Dispatch

\* What the supervisors read and what they deliver.
THEOREM ErrCorrect == Spec => []ErrInv
<1>1. Init => ErrInv
  BY DEF Init, ErrInv, ErrReadAfterJoin, ErrAccounted
<1>2. QED
  BY <1>1, ErrStep, TypeCorrect, InnerCorrect, DeliveredOnceCorrect, PTL DEF Spec

\* When Stop has returned and the context was never done, the client holds the
\* error of every pipeline that failed and of no other.
THEOREM NoErrorLostCorrect == Spec => []NoErrorLost
<1>1. TypeOK /\ WgInv /\ ErrInv /\ ClosedAtEnd => NoErrorLost
  BY DEF TypeOK, WgInv, StopJoins, ErrInv, ErrAccounted, ClosedAtEnd, NoErrorLost, Queued
<1>2. QED
  BY <1>1, TypeCorrect, WgCorrect, ErrCorrect, ClosedCorrect, PTL

=============================================================================
