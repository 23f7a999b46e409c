---------------------------- MODULE Orchestrator ----------------------------
(***************************************************************************)
(* Multi-camera monitoring in the connector: the orchestrator loop on the  *)
(* main thread, one capture thread per camera, the pause switch of the     *)
(* control page, a backend whose camera list changes and which may be      *)
(* unreachable, and the service manager that restarts the process.         *)
(*                                                                         *)
(* Source: connector/app/orchestrator.py, capture.py (run,                 *)
(* _wait_while_paused, _open_initial), runtime.py (set_paused,             *)
(* remove_camera), main.py (_run_capture), installer/winsw.                *)
(***************************************************************************)
EXTENDS Naturals, FiniteSets

CONSTANTS Cams,        (* cameras the backend may list                        *)
          Sources,     (* fingerprints of a camera that has an rtspUrl        *)
          Slots,       (* bound: capture threads of one camera at a time      *)
          MaxChanges,  (* bound: changes of list, switch, backend or network  *)
          None         (* no thread; a camera without rtspUrl                 *)

ASSUME OrchestratorAssumption ==
    /\ MaxChanges \in Nat
    /\ None \notin Slots /\ None \notin Sources /\ "gone" \notin Sources

VARIABLES
    proc,      (* the connector process, and with it the control page         *)
    opc,       (* where StoreOrchestrator.run is                              *)
    cams,      (* the camera list of the last successful poll                 *)
    managed,   (* self.pipelines / self.threads: the slot of each camera      *)
    released,  (* _paused_pipelines_released                                  *)
    failures,  (* backend_failures, counted to 3                              *)
    thread,    (* every capture thread: state, source, and its _stop flag     *)
    paused,    (* capture_paused and the durable setting                      *)
    listed,    (* the backend's camera list                                   *)
    backendUp, (* the backend answers                                         *)
    reachable, (* sources that can be opened                                  *)
    changes    (* changes of the environment so far                           *)

loopVars == <<opc, cams, managed, released, failures>>
envVars  == <<paused, listed, backendUp, reachable, changes>>
vars == <<proc, opc, cams, managed, released, failures, thread, paused, listed,
          backendUp, reachable, changes>>

Listing == Sources \cup {None, "gone"}
Dead    == [state |-> "dead", src |-> None, stop |-> TRUE]
ThreadStates == [state : {"starting", "begun", "waiting", "running", "dead"},
                 src : Sources \cup {None}, stop : BOOLEAN]
Alive(c, k) == thread[c][k].state # "dead"

AllDead == [c \in Cams |-> [k \in Slots |-> Dead]]
Unmanaged == [c \in Cams |-> None]

Init ==
    /\ proc = "up"
    /\ opc = "top"
    /\ cams = [c \in Cams |-> "gone"]
    /\ managed = Unmanaged
    /\ released = FALSE
    /\ failures = 0
    /\ thread = AllDead
    /\ paused \in BOOLEAN
    /\ listed \in [Cams -> Listing]
    /\ backendUp = TRUE
    /\ reachable = Sources
    /\ changes = 0

-----------------------------------------------------------------------------
(* StoreOrchestrator.run.                                                  *)

\* remove_camera takes no argument preserve_frame: the call with it raises a
\* TypeError for the first pipeline.  Nothing catches it before main, whose
\* finally clause stops the rest, and the process ends with its threads.
ProcessEnds ==
    /\ proc' = "down"
    /\ thread' = AllDead
    /\ opc' = "top"
    /\ cams' = [c \in Cams |-> "gone"]
    /\ managed' = Unmanaged
    /\ released' = FALSE
    /\ failures' = 0

HasPipelines == managed # Unmanaged

\* The managed stop: release every pipeline, once.
PausedTurn ==
    /\ proc = "up" /\ opc = "top" /\ paused
    /\ IF ~released /\ HasPipelines
       THEN ProcessEnds
       ELSE /\ released' = TRUE
            /\ UNCHANGED <<proc, opc, cams, managed, failures, thread>>
    /\ UNCHANGED envVars

StartTurn ==
    /\ proc = "up" /\ opc = "top" /\ ~paused
    /\ released' = FALSE
    /\ opc' = "poll"
    /\ UNCHANGED <<proc, cams, managed, failures, thread, envVars>>

PollSucceeds ==
    /\ proc = "up" /\ opc = "poll" /\ backendUp
    /\ cams' = listed
    /\ failures' = 0
    /\ opc' = "reconcile"
    /\ UNCHANGED <<proc, managed, released, thread, envVars>>

\* Mutant of PollFails: the outage is noticed, the pipelines are kept.
PollFailsKeeping ==
    /\ proc = "up" /\ opc = "poll" /\ ~backendUp
    /\ failures' = IF failures = 3 THEN 3 ELSE failures + 1
    /\ opc' = "top"
    /\ UNCHANGED <<proc, cams, managed, released, thread, envVars>>

\* The third failure in a row stops all pipelines, by the same call.
PollFails ==
    /\ proc = "up" /\ opc = "poll" /\ ~backendUp
    /\ IF failures >= 2 /\ HasPipelines
       THEN ProcessEnds
       ELSE /\ failures' = IF failures = 3 THEN 3 ELSE failures + 1
            /\ opc' = "top"
            /\ UNCHANGED <<proc, cams, managed, released, thread>>
    /\ UNCHANGED envVars

\* Mutant of Keeps: a changed source is not noticed.
KeepsAnySource(c) ==
    /\ managed[c] # None /\ cams[c] \in Sources
    /\ Alive(c, managed[c])

\* A pipeline stays if its thread lives and its fingerprint is the listed one.
Keeps(c) ==
    /\ managed[c] # None
    /\ Alive(c, managed[c])
    /\ thread[c][managed[c]].src = cams[c]

\* Mutant of Stopped: the pipeline is dropped from the table and not stopped.
StoppedForgotten(c, k) == thread[c][k]

\* What _remove_pipeline leaves of a thread: it is told to stop, not joined.
Stopped(c, k) == [thread[c][k] EXCEPT !.stop = TRUE]

\* Mutant of Starting: the configuration is looked up again, after the poll.
StartingAnew(c) == [state |-> "starting", src |-> listed[c], stop |-> FALSE]

Starting(c) == [state |-> "starting", src |-> cams[c], stop |-> FALSE]

\* The three passes over the tables: pipelines that changed or died, cameras
\* that are new, cameras that have gone.  None of them waits for anything.
Reconcile ==
    /\ proc = "up" /\ opc = "reconcile"
    /\ opc' = "top"
    /\ \E slot \in [Cams -> Slots \cup {None}] :
          /\ \A c \in Cams : IF Keeps(c) THEN slot[c] = managed[c]
                             ELSE IF cams[c] \in Sources
                             THEN slot[c] # None /\ ~Alive(c, slot[c])
                             ELSE slot[c] = None
          /\ managed' = slot
          /\ thread' = [c \in Cams |-> [k \in Slots |->
                          IF Keeps(c) THEN thread[c][k]
                          ELSE IF k = slot[c] THEN Starting(c)
                          ELSE IF k = managed[c] /\ Alive(c, k) THEN Stopped(c, k)
                          ELSE thread[c][k]]]
    /\ UNCHANGED <<proc, cams, released, failures, envVars>>

Loop == PausedTurn \/ StartTurn \/ PollSucceeds \/ PollFails \/ Reconcile

-----------------------------------------------------------------------------
(* CapturePipeline.run, on its own thread.                                 *)

Becomes(c, k, s) ==
    /\ thread' = [thread EXCEPT ![c][k] =
                    IF s = "dead" THEN Dead ELSE [@ EXCEPT !.state = s]]
    /\ UNCHANGED <<proc, loopVars, envVars>>

\* The first look at the pause switch.
Begin(c, k) ==
    /\ thread[c][k].state = "starting"
    /\ Becomes(c, k, IF paused THEN "waiting" ELSE "begun")

\* The second look: a pause or a stop that comes in between ends the thread.
OpenInitial(c, k) ==
    /\ thread[c][k].state = "begun"
    /\ Becomes(c, k, IF ~paused /\ ~thread[c][k].stop /\ thread[c][k].src \in reachable
                     THEN "running" ELSE "dead")

SeeStop(c, k) ==
    /\ thread[c][k].state \in {"running", "waiting"} /\ thread[c][k].stop
    /\ Becomes(c, k, "dead")

SeePause(c, k) ==
    /\ thread[c][k].state = "running" /\ ~thread[c][k].stop /\ paused
    /\ Becomes(c, k, "waiting")

\* Resumed: the source is opened again, and the thread ends if it cannot be.
Reopen(c, k) ==
    /\ thread[c][k].state = "waiting" /\ ~thread[c][k].stop /\ ~paused
    /\ Becomes(c, k, IF thread[c][k].src \in reachable THEN "running" ELSE "dead")

Capture(c, k) ==
    \/ Begin(c, k) \/ OpenInitial(c, k) \/ SeeStop(c, k) \/ SeePause(c, k)
    \/ Reopen(c, k)

-----------------------------------------------------------------------------
(* The surroundings.                                                       *)

Change == changes < MaxChanges /\ changes' = changes + 1

\* POST /capture/pause and /capture/resume, while there is a control page.
SetPaused ==
    /\ proc = "up" /\ Change
    /\ paused' = ~paused
    /\ UNCHANGED <<proc, loopVars, thread, listed, backendUp, reachable>>

\* A camera is added, removed or given another source at the backend.
ChangeListing(c) ==
    /\ Change
    /\ \E s \in Listing \ {listed[c]} : listed' = [listed EXCEPT ![c] = s]
    /\ UNCHANGED <<proc, loopVars, thread, paused, backendUp, reachable>>

SetBackendUp ==
    /\ Change
    /\ backendUp' = ~backendUp
    /\ UNCHANGED <<proc, loopVars, thread, paused, listed, reachable>>

SetReachable(s) ==
    /\ Change
    /\ reachable' = IF s \in reachable THEN reachable \ {s} ELSE reachable \cup {s}
    /\ UNCHANGED <<proc, loopVars, thread, paused, listed, backendUp>>

\* onfailure restart of the service definition; the pause setting is durable.
Restart ==
    /\ proc = "down"
    /\ proc' = "up"
    /\ UNCHANGED <<loopVars, thread, envVars>>

Next ==
    \/ Loop
    \/ \E c \in Cams, k \in Slots : Capture(c, k)
    \/ SetPaused \/ SetBackendUp \/ Restart
    \/ \E c \in Cams : ChangeListing(c)
    \/ \E s \in Sources : SetReachable(s)

Spec == Init /\ [][Next]_vars

\* The main thread and the capture threads run, and the service manager does
\* restart a process that ended.
FairSpec ==
    /\ Spec
    /\ WF_vars(Loop)
    /\ \A c \in Cams, k \in Slots : WF_vars(Capture(c, k))
    /\ WF_vars(Restart)

-----------------------------------------------------------------------------
TypeOK ==
    /\ proc \in {"up", "down"}
    /\ opc \in {"top", "poll", "reconcile"}
    /\ cams \in [Cams -> Listing]
    /\ managed \in [Cams -> Slots \cup {None}]
    /\ released \in BOOLEAN
    /\ failures \in 0..3
    /\ thread \in [Cams -> [Slots -> ThreadStates]]
    /\ paused \in BOOLEAN
    /\ listed \in [Cams -> Listing]
    /\ backendUp \in BOOLEAN
    /\ reachable \in SUBSET Sources
    /\ changes \in 0..MaxChanges

\* No camera is captured twice for good: a capture thread that nobody has told
\* to stop is the one the orchestrator holds for its camera, whatever changes,
\* deaths and restarts came before.  A second one would cut every event twice.
NoOrphanCapture ==
    \A c \in Cams, k \in Slots :
        (Alive(c, k) /\ ~thread[c][k].stop) => managed[c] = k

\* Once three polls in a row have failed, no camera is being captured.
OutageReleasesSources ==
    failures = 3 => ~HasPipelines /\ \A c \in Cams, k \in Slots :
                                        Alive(c, k) => thread[c][k].stop

Converged ==
    \A c \in Cams :
        /\ listed[c] \in Sources =>
              /\ managed[c] # None
              /\ thread[c][managed[c]].state = "running"
              /\ thread[c][managed[c]].src = listed[c]
        /\ \A k \in Slots : k # managed[c] => ~Alive(c, k)
        /\ listed[c] \notin Sources => managed[c] = None

\* Once the operator lets monitoring run, the backend answers and all sources
\* can be opened, every listed camera is captured from the listed source, and
\* nothing else is, for as long as nothing changes.
MonitoringConverges ==
    (<>[](~paused /\ backendUp /\ reachable = Sources)) => <>[]Converged

-----------------------------------------------------------------------------
(* The inductive strengthening.                                            *)

\* The tables are worked through only right after a successful poll.
ReconcilesFresh == opc = "reconcile" => failures = 0

\* What the outage branch has to have done by the third failure.
OutageEmptiesTables == failures = 3 => ~HasPipelines

CaptureInv ==
    /\ TypeOK
    /\ NoOrphanCapture
    /\ ReconcilesFresh
    /\ OutageEmptiesTables

-----------------------------------------------------------------------------
(* What the code says of itself and does not do.                           *)

\* "Monitoring is stopped. [...] the local control page stays available."
ControlPageStaysUp == [][paused /\ proc = "up" => proc' = "up"]_vars
=============================================================================
