-------------------------- MODULE OrchestratorProofs --------------------------
(***************************************************************************)
(* Proofs about Orchestrator, for every set of cameras, sources and thread *)
(* slots and every number of changes of the surroundings.                  *)
(*                                                                         *)
(* CaptureInv is the inductive invariant: NoOrphanCapture is inductive on  *)
(* top of the types; OutageReleasesSources needs to know besides that the  *)
(* tables are filled only right after a poll that succeeded.               *)
(***************************************************************************)
EXTENDS Orchestrator, TLAPS

(* The initial states: no threads, empty tables, no failures.              *)
LEMMA InitCaptureInv == Init => CaptureInv
<1> SUFFICES ASSUME Init PROVE CaptureInv
  OBVIOUS
<1> USE OrchestratorAssumption DEF Init
<1>1. thread \in [Cams -> [Slots -> ThreadStates]]
  BY DEF ThreadStates, AllDead, Dead
<1>2. TypeOK
  <2>1. failures \in 0..3 /\ changes \in 0..MaxChanges
    OBVIOUS
  <2>2. cams \in [Cams -> Listing] /\ managed \in [Cams -> Slots \cup {None}]
    BY DEF Unmanaged, Listing
  <2>3. released \in BOOLEAN /\ backendUp \in BOOLEAN
    BY Zenon
  <2> QED
    BY <1>1, <2>1, <2>2, <2>3 DEF TypeOK
<1>3. NoOrphanCapture
  BY DEF NoOrphanCapture, Alive, AllDead, Dead
<1> QED
  BY <1>2, <1>3 DEF CaptureInv, ReconcilesFresh, OutageEmptiesTables

(* Becomes(c, k, s), for s the state of a thread: the types stay, and a    *)
(* thread is neither started nor freed of its stop flag.                   *)
LEMMA BecomesStep ==
  ASSUME CaptureInv, NEW c \in Cams, NEW k \in Slots,
         NEW s \in {"waiting", "begun", "running", "dead"},
         Becomes(c, k, s), Alive(c, k)
  PROVE  CaptureInv'
<1> DEFINE t == IF s = "dead" THEN Dead ELSE [thread[c][k] EXCEPT !.state = s]
<1>1. thread \in [Cams -> [Slots -> ThreadStates]]
  BY DEF CaptureInv, TypeOK
<1>2. thread' = [thread EXCEPT ![c][k] = t] /\ UNCHANGED <<proc, loopVars, envVars>>
  BY DEF Becomes
<1>3. t \in ThreadStates /\ (t.state # "dead" => t.stop = thread[c][k].stop)
  <2>1. CASE s = "dead"
    BY <2>1 DEF ThreadStates, Dead
  <2>2. CASE s # "dead"
    <3>1. thread[c][k] \in ThreadStates
      BY <1>1
    <3>2. t = [thread[c][k] EXCEPT !.state = s]
      BY <2>2
    <3> QED
      BY <3>1, <3>2 DEF ThreadStates
  <2> QED
    BY <2>1, <2>2
<1> HIDE DEF t
<1>4. thread' \in [Cams -> [Slots -> ThreadStates]]
  BY <1>1, <1>2, <1>3
<1>5. TypeOK'
  BY <1>2, <1>4 DEF CaptureInv, TypeOK, loopVars, envVars
<1>6. NoOrphanCapture'
  <2> SUFFICES ASSUME NEW d \in Cams, NEW j \in Slots,
                      thread'[d][j].state # "dead", ~thread'[d][j].stop
               PROVE  managed'[d] = j
    BY DEF NoOrphanCapture, Alive
  <2>1. thread[d][j].state # "dead" /\ ~thread[d][j].stop
    BY <1>1, <1>2, <1>3 DEF Alive
  <2> QED
    BY <1>2, <2>1 DEF CaptureInv, NoOrphanCapture, Alive, loopVars
<1>7. ReconcilesFresh' /\ OutageEmptiesTables'
  BY <1>2 DEF CaptureInv, ReconcilesFresh, OutageEmptiesTables, HasPipelines,
              Unmanaged, loopVars
<1> QED
  BY <1>5, <1>6, <1>7 DEF CaptureInv

(* The end of the process leaves no thread, no table and no count behind.  *)
LEMMA ProcessEndsStep == CaptureInv /\ ProcessEnds /\ UNCHANGED envVars => CaptureInv'
<1> SUFFICES ASSUME CaptureInv, ProcessEnds, UNCHANGED envVars PROVE CaptureInv'
  OBVIOUS
<1> USE OrchestratorAssumption DEF ProcessEnds
<1>1. thread' \in [Cams -> [Slots -> ThreadStates]]
  BY DEF ThreadStates, AllDead, Dead
<1>2. TypeOK'
  <2>1. failures' \in 0..3 /\ changes' \in 0..MaxChanges
    BY DEF CaptureInv, TypeOK, envVars
  <2>2. cams' \in [Cams -> Listing] /\ managed' \in [Cams -> Slots \cup {None}]
    BY DEF Unmanaged, Listing
  <2>3. released' \in BOOLEAN /\ proc' \in {"up", "down"}
    BY Zenon
  <2> QED
    BY <1>1, <2>1, <2>2, <2>3 DEF CaptureInv, TypeOK, envVars
<1>3. NoOrphanCapture'
  BY DEF NoOrphanCapture, Alive, AllDead, Dead
<1> QED
  BY <1>2, <1>3 DEF CaptureInv, ReconcilesFresh, OutageEmptiesTables

(* The three passes: a pipeline that is given up is told to stop, and the  *)
(* thread that is started is the one the tables name.                      *)
LEMMA ReconcileStep == CaptureInv /\ Reconcile => CaptureInv'
<1> SUFFICES ASSUME CaptureInv, Reconcile PROVE CaptureInv'
  OBVIOUS
<1> USE OrchestratorAssumption DEF CaptureInv, TypeOK
<1>1. PICK slot \in [Cams -> Slots \cup {None}] :
        /\ \A c \in Cams : IF Keeps(c) THEN slot[c] = managed[c]
                           ELSE IF cams[c] \in Sources
                           THEN slot[c] # None /\ ~Alive(c, slot[c])
                           ELSE slot[c] = None
        /\ managed' = slot
        /\ thread' = [c \in Cams |-> [k \in Slots |->
                        IF Keeps(c) THEN thread[c][k]
                        ELSE IF k = slot[c] THEN Starting(c)
                        ELSE IF k = managed[c] /\ Alive(c, k) THEN Stopped(c, k)
                        ELSE thread[c][k]]]
  BY DEF Reconcile
<1>2. UNCHANGED <<proc, cams, released, failures, envVars>> /\ opc' = "top" /\ failures = 0
  BY DEF Reconcile, ReconcilesFresh
<1>3. thread' \in [Cams -> [Slots -> ThreadStates]]
  <2> SUFFICES ASSUME NEW c \in Cams, NEW k \in Slots
               PROVE  thread'[c][k] \in ThreadStates
    BY <1>1
  <2>1. CASE Keeps(c)
    BY <1>1, <2>1
  <2>2. CASE ~Keeps(c) /\ k = slot[c]
    <3>1. cams[c] \in Sources
      BY <1>1, <2>2
    <3> QED
      BY <1>1, <2>2, <3>1 DEF Starting, ThreadStates
  <2>3. CASE ~Keeps(c) /\ k # slot[c]
    <3>1. thread[c][k] \in ThreadStates
      OBVIOUS
    <3>2. Stopped(c, k) \in ThreadStates
      BY <3>1 DEF Stopped, ThreadStates
    <3>3. thread'[c][k] \in {thread[c][k], Stopped(c, k)}
      BY <1>1, <2>3
    <3> QED
      BY <3>1, <3>2, <3>3
  <2> QED
    BY <2>1, <2>2, <2>3
<1>4. TypeOK'
  BY <1>1, <1>2, <1>3 DEF envVars
<1>5. NoOrphanCapture'
  <2> SUFFICES ASSUME NEW c \in Cams, NEW k \in Slots,
                      thread'[c][k].state # "dead", ~thread'[c][k].stop
               PROVE  slot[c] = k
    BY <1>1 DEF NoOrphanCapture, Alive
  <2>1. CASE Keeps(c)
    BY <1>1, <2>1 DEF NoOrphanCapture, Alive
  <2>2. CASE ~Keeps(c) /\ k # slot[c]
    BY <1>1, <2>2 DEF NoOrphanCapture, Alive, Stopped
  <2> QED
    BY <2>1, <2>2
<1>6. ReconcilesFresh' /\ OutageEmptiesTables'
  BY <1>2 DEF ReconcilesFresh, OutageEmptiesTables
<1> QED
  BY <1>4, <1>5, <1>6

(* Every step preserves the inductive invariant.                           *)
LEMMA StepCaptureInv == CaptureInv /\ [Next]_vars => CaptureInv'
<1> SUFFICES ASSUME CaptureInv, [Next]_vars PROVE CaptureInv'
  OBVIOUS
<1> USE OrchestratorAssumption
<1>1. CASE PausedTurn
  <2>1. CASE ~released /\ HasPipelines
    BY <1>1, <2>1, ProcessEndsStep DEF PausedTurn
  <2>2. CASE ~(~released /\ HasPipelines)
    BY <1>1, <2>2 DEF PausedTurn, CaptureInv, TypeOK, NoOrphanCapture, Alive,
       ReconcilesFresh, OutageEmptiesTables, HasPipelines, Unmanaged, envVars
  <2> QED
    BY <2>1, <2>2
<1>2. CASE StartTurn
  BY <1>2 DEF StartTurn, CaptureInv, TypeOK, NoOrphanCapture, Alive,
     ReconcilesFresh, OutageEmptiesTables, HasPipelines, Unmanaged, envVars
<1>3. CASE PollSucceeds
  BY <1>3 DEF PollSucceeds, CaptureInv, TypeOK, NoOrphanCapture, Alive,
     ReconcilesFresh, OutageEmptiesTables, HasPipelines, Unmanaged, envVars
<1>4. CASE PollFails
  <2>1. CASE failures >= 2 /\ HasPipelines
    BY <1>4, <2>1, ProcessEndsStep DEF PollFails
  <2>2. CASE ~(failures >= 2 /\ HasPipelines)
    BY <1>4, <2>2 DEF PollFails, CaptureInv, TypeOK, NoOrphanCapture, Alive,
       ReconcilesFresh, OutageEmptiesTables, HasPipelines, Unmanaged, envVars
  <2> QED
    BY <2>1, <2>2
<1>5. CASE Reconcile
  BY <1>5, ReconcileStep
<1>6. ASSUME NEW c \in Cams, NEW k \in Slots, Capture(c, k) PROVE CaptureInv'
  BY <1>6, BecomesStep
     DEF Capture, Begin, OpenInitial, SeeStop, SeePause, Reopen, Alive
<1>7. CASE SetPaused \/ SetBackendUp \/ Restart
  <2>1. paused' \in BOOLEAN /\ backendUp' \in BOOLEAN /\ proc' \in {"up", "down"}
    BY <1>7, Zenon DEF SetPaused, SetBackendUp, Restart, envVars, CaptureInv, TypeOK
  <2>2. changes' \in 0..MaxChanges
    BY <1>7 DEF SetPaused, SetBackendUp, Restart, Change, envVars, CaptureInv, TypeOK
  <2>3. UNCHANGED <<loopVars, thread, listed, reachable>>
    BY <1>7 DEF SetPaused, SetBackendUp, Restart, envVars
  <2> QED
    BY <2>1, <2>2, <2>3 DEF CaptureInv, TypeOK, NoOrphanCapture, Alive,
       ReconcilesFresh, OutageEmptiesTables, HasPipelines, Unmanaged, loopVars
<1>8. ASSUME NEW c \in Cams, ChangeListing(c) PROVE CaptureInv'
  BY <1>8 DEF ChangeListing, Change, CaptureInv, TypeOK, NoOrphanCapture, Alive,
     ReconcilesFresh, OutageEmptiesTables, HasPipelines, Unmanaged, loopVars
<1>9. ASSUME NEW s \in Sources, SetReachable(s) PROVE CaptureInv'
  BY <1>9 DEF SetReachable, Change, CaptureInv, TypeOK, NoOrphanCapture, Alive,
     ReconcilesFresh, OutageEmptiesTables, HasPipelines, Unmanaged, loopVars
<1>10. CASE UNCHANGED vars
  BY <1>10 DEF vars, CaptureInv, TypeOK, NoOrphanCapture, Alive,
     ReconcilesFresh, OutageEmptiesTables, HasPipelines, Unmanaged
<1> QED
  BY <1>1, <1>2, <1>3, <1>4, <1>5, <1>6, <1>7, <1>8, <1>9, <1>10 DEF Next, Loop

(* The inductive invariant holds in every reachable state.                 *)
THEOREM Invariance == Spec => []CaptureInv
  BY InitCaptureInv, StepCaptureInv, PTL DEF Spec

(* Every variable keeps its type, whatever changes, dies and is restarted. *)
THEOREM TypeCorrect == Spec => []TypeOK
<1>1. CaptureInv => TypeOK
  BY DEF CaptureInv
<1> QED
  BY Invariance, <1>1, PTL

(* A capture thread that nobody has told to stop is the one the orchestrator *)
(* holds for its camera: _remove_pipeline may drop a thread without joining  *)
(* it, and yet no camera is captured twice for good.                       *)
THEOREM SingleCapture == Spec => []NoOrphanCapture
<1>1. CaptureInv => NoOrphanCapture
  BY DEF CaptureInv
<1> QED
  BY Invariance, <1>1, PTL

(* After the third failed poll in a row the tables are empty and every     *)
(* capture thread that is left has been told to stop.                      *)
THEOREM OutageRelease == Spec => []OutageReleasesSources
<1>1. CaptureInv => OutageReleasesSources
  BY OrchestratorAssumption
     DEF CaptureInv, TypeOK, OutageReleasesSources, OutageEmptiesTables,
         HasPipelines, Unmanaged, NoOrphanCapture
<1> QED
  BY Invariance, <1>1, PTL
=============================================================================
