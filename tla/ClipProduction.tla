--------------------------- MODULE ClipProduction ---------------------------
(***************************************************************************)
(* One camera's capture thread (connector/app/capture.py, CapturePipeline) *)
(* and the two worker pools it shares with the other cameras                *)
(* (connector/app/runtime.py): frames are read into a rolling window, every *)
(* frame is analysed on a bounded pool with a time limit, a detection or a  *)
(* manual trigger cuts a clip out of the window and the frames that follow, *)
(* and the clip is written and transcoded on a second bounded pool.  The    *)
(* control page pauses, resumes and triggers, the orchestrator stops.       *)
(*                                                                         *)
(* A frame is its position in the camera's stream, counted modulo Span and *)
(* afresh once the window is empty; an interruption skips a position.  What *)
(* the analysis sees, the zones included, and whether the cooldown is over  *)
(* are left open: ZoneCache has the zones.  Of a camera's status the model  *)
(* keeps whether it is "Live".                                             *)
(***************************************************************************)
EXTENDS Naturals, Sequences, FiniteSets

CONSTANTS
    Sources,           \* kinds of source: "rtsp", "loop" (file repeated), "file"
    Windows,           \* settings [pre, post]: frames kept before and after a cut
    Span,              \* positions in the stream before they repeat
    AnalysisSlots, AnalysisWorkers,
    ClipSlots, ClipWorkers,
    ClipIds            \* names for the files being produced

ASSUME ProductionAssumption ==
    /\ Sources \subseteq {"rtsp", "loop", "file"}
    /\ \A w \in Windows : w.pre \in Nat \ {0} /\ w.post \in Nat \ {0}
    /\ {AnalysisSlots, AnalysisWorkers, ClipSlots, ClipWorkers} \subseteq Nat \ {0}
    /\ Span \in Nat \ {0}
    /\ IsFiniteSet(ClipIds) /\ Cardinality(ClipIds) = ClipSlots

VARIABLES
    source, window,    \* the configuration; the window can be edited live
    paused, stop,      \* capture_paused of the runtime, _stop of this pipeline
    trigger,           \* a manual trigger waits
    pc, begun,         \* where the thread is; whether it has entered its loop
    at,                \* position of the last frame the source gave
    rolling, post,     \* frames before and after the cut
    size,              \* the window as of the last frame read
    manual, found,     \* what this iteration decides on
    live, capturing,   \* what the control page and the heartbeat show
    aFree, aQueued, aRunning, aFinishing,  \* analysis jobs by stage, all cameras
    mine, ahead,       \* the job this thread waits for, and those queued before it
    cFree, cQueue, clip

frames   == <<at, rolling, post>>
choice   == <<manual, found>>
thread   == <<pc, begun, size, frames, choice>>
control  == <<paused, stop, trigger, window>>
shown    == <<live, capturing>>
analysis == <<aFree, aQueued, aRunning, aFinishing, mine, ahead>>
clips    == <<cFree, cQueue, clip>>
vars     == <<source, thread, control, shown, analysis, clips>>

NoClip == [phase |-> "none", raw |-> "none", mp4 |-> "none", result |-> "none"]
ClipRecords ==
    [phase  : {"none", "queued", "encoding", "done"},
     raw    : {"none", "whole"},
     mp4    : {"none", "partial", "whole"},
     result : {"none", "path", "error"}]

InLoop == {"top", "pausing", "publish", "await", "decide", "collect",
           "collected", "handover"}

LastFrames(s, n) == SubSeq(s, IF Len(s) > n THEN Len(s) - n + 1 ELSE 1, Len(s))
Next1(n)         == (n + 1) % Span

Init ==
    /\ source \in Sources /\ window \in Windows
    /\ paused \in BOOLEAN /\ stop = FALSE /\ trigger = FALSE
    /\ pc = "start" /\ begun = FALSE
    /\ at = 0 /\ rolling = <<>> /\ size = window /\ post = <<>>
    /\ manual = FALSE /\ found = FALSE
    /\ live = FALSE /\ capturing = FALSE
    /\ aFree = AnalysisSlots /\ aQueued = 0 /\ aRunning = 0 /\ aFinishing = 0
    /\ mine = "none" /\ ahead = 0
    /\ cFree = ClipSlots /\ cQueue = <<>> /\ clip = [c \in ClipIds |-> NoClip]

-----------------------------------------------------------------------------
(* Starting, pausing and ending.  Every look at a flag that another thread   *)
(* may change between two lines is a step of its own.                        *)

Start ==
    /\ pc = "start"
    /\ IF paused THEN pc' = "waiting" /\ live' = FALSE
                 ELSE pc' = "unopened" /\ UNCHANGED live
    /\ UNCHANGED <<source, begun, frames, size, choice, control, capturing, analysis,
                   clips>>

\* The source is opened outside the wait, unless a pause or a stop came first:
\* then the thread gives up as if the source could not be opened.
OpenOrGiveUp ==
    /\ pc = "unopened"
    /\ IF paused \/ stop THEN pc' = "ended" /\ live' = FALSE
                         ELSE pc' = "opening" /\ UNCHANGED live
    /\ UNCHANGED <<source, begun, frames, size, choice, control, capturing, analysis,
                   clips>>

\* A mutant: a pipeline that waits leaves the status alone.
WaitUnannounced ==
    /\ pc = "pausing"
    /\ IF paused THEN pc' = "waiting" /\ UNCHANGED <<live, capturing>>
                 ELSE pc' = "top" /\ capturing' = TRUE /\ UNCHANGED live
    /\ UNCHANGED <<source, begun, frames, size, choice, control, analysis, clips>>

\* A pause that has ended by the time it is looked at again costs nothing: the
\* source stays open.
Wait ==
    /\ pc = "pausing"
    /\ IF paused THEN pc' = "waiting" /\ live' = FALSE /\ UNCHANGED capturing
                 ELSE pc' = "top" /\ capturing' = TRUE /\ UNCHANGED live
    /\ UNCHANGED <<source, begun, frames, size, choice, control, analysis, clips>>

\* _open_initial, its retries included, is one step that succeeds or not.
WakeUp ==
    /\ pc = "waiting" /\ (stop \/ ~paused)
    /\ pc' = IF ~stop THEN "reopening" ELSE IF begun THEN "ending" ELSE "unopened"
    /\ UNCHANGED <<source, begun, frames, size, choice, control, shown, analysis,
                   clips>>

Opened ==
    /\ pc \in {"opening", "reopening"}
    /\ pc' = "top" /\ begun' = TRUE /\ capturing' = TRUE
    /\ at' = Next1(at)
    /\ UNCHANGED <<source, rolling, size, post, choice, control, live, analysis, clips>>

NotOpened ==
    /\ \/ pc = "opening" /\ pc' = "ended" /\ live' = FALSE
       \/ /\ pc = "reopening" /\ UNCHANGED live
          /\ pc' = IF begun THEN "ending" ELSE "unopened"
    /\ UNCHANGED <<source, begun, frames, size, choice, control, capturing, analysis,
                   clips>>

End ==
    /\ pc = "ending"
    /\ pc' = "ended" /\ capturing' = FALSE /\ live' = FALSE
    /\ UNCHANGED <<source, begun, frames, size, choice, control, analysis, clips>>

LeaveLoop ==
    /\ pc = "top" /\ stop
    /\ pc' = "ending"
    /\ UNCHANGED <<source, begun, frames, size, choice, control, shown, analysis,
                   clips>>

NoticePause ==
    /\ pc = "top" /\ ~stop /\ paused
    /\ pc' = "pausing" /\ rolling' = <<>> /\ at' = 0
    /\ UNCHANGED <<source, begun, size, post, choice, control, shown, analysis, clips>>

-----------------------------------------------------------------------------
(* Reading and analysing a frame.                                            *)

\* A mutant: a shortened window keeps its oldest frames.
TrimFromFront(s, n) == SubSeq(s, 1, IF Len(s) > n THEN n ELSE Len(s))

\* The window keeps the frames before the cut; an edited length takes effect
\* once this frame is in.
Trim(s, n) == LastFrames(s, n)

Read ==
    /\ pc = "top" /\ ~stop /\ ~paused
    /\ at' = Next1(at)
    /\ rolling' = Trim(LastFrames(Append(rolling, at'), size.pre), window.pre)
    /\ size' = window
    /\ live' \in BOOLEAN
    /\ pc' = "publish"
    /\ UNCHANGED <<source, begun, post, choice, control, capturing, analysis, clips>>

\* An RTSP stream is reopened after a back-off, a repeated file from its start,
\* and a file that has ended ends the loop.  The window of a repeated file is
\* kept: its clips may span the end and the beginning.
ReadFails ==
    /\ pc = "top" /\ ~stop /\ ~paused
    /\ CASE source = "file" -> pc' = "ending" /\ UNCHANGED <<at, rolling, live>>
         [] source = "loop" -> at' = Next1(at) /\ UNCHANGED <<pc, rolling, live>>
         [] source = "rtsp" -> rolling' = <<>> /\ at' = 0 /\ live' = FALSE /\ UNCHANGED pc
    /\ UNCHANGED <<source, begun, size, post, choice, control, capturing, analysis,
                   clips>>

\* The preview is at most one every half second; then the trigger is consumed
\* and the analysis submitted, or dropped when no slot is free.
Submit ==
    /\ pc = "publish"
    /\ live' \in {live, TRUE}
    /\ manual' = trigger /\ trigger' = FALSE
    /\ IF aFree > 0
       THEN /\ aFree' = aFree - 1 /\ aQueued' = aQueued + 1
            /\ mine' = "queued" /\ ahead' = aQueued
            /\ pc' = "await"
       ELSE pc' = "decide" /\ UNCHANGED <<aFree, aQueued, mine, ahead>>
    /\ UNCHANGED <<source, begun, frames, size, found, paused, stop, window, capturing,
                   aRunning, aFinishing, clips>>

\* The thread waits three seconds: then the job goes on without it.
Verdict ==
    /\ pc = "await" /\ mine = "finished"
    /\ pc' = "decide" /\ mine' = "none"
    /\ UNCHANGED <<source, begun, frames, size, choice, control, shown,
                   aFree, aQueued, aRunning, aFinishing, ahead, clips>>

\* A mutant: the wait has no limit.
WaitForResult ==
    /\ pc = "await" /\ mine = "finished"
    /\ pc' = "decide" /\ mine' = "none" /\ ahead' = 0
    /\ UNCHANGED <<source, begun, frames, size, choice, control, shown,
                   aFree, aQueued, aRunning, aFinishing, clips>>

\* A mutant: the thread moves on but still counts the job as its own.
TimeOutKeepingJob ==
    /\ pc = "await" /\ mine \in {"queued", "running"}
    /\ pc' = "decide"
    /\ UNCHANGED <<source, begun, frames, size, choice, control, shown, analysis,
                   clips>>

TimeOut ==
    /\ pc = "await" /\ mine \in {"queued", "running"}
    /\ pc' = "decide" /\ mine' = "none" /\ ahead' = 0
    /\ UNCHANGED <<source, begun, frames, size, choice, control, shown,
                   aFree, aQueued, aRunning, aFinishing, clips>>

\* A cut needs the trigger, or a person in motion after the cooldown.
Decide ==
    /\ pc = "decide"
    /\ \/ (manual \/ found) /\ pc' = "collect"
       \/ ~manual /\ pc' = "top"
    /\ manual' = FALSE /\ found' = FALSE
    /\ UNCHANGED <<source, begun, frames, size, control, shown, analysis, clips>>

-----------------------------------------------------------------------------
(* Collecting the frames after the cut and handing the clip to the pool.     *)

CollectFrame ==
    /\ pc = "collect" /\ ~stop /\ ~paused
    /\ at' = Next1(at) /\ post' = Append(post, at')
    /\ pc' = "collected"
    /\ UNCHANGED <<source, begun, rolling, size, choice, control, shown, analysis,
                   clips>>

PublishCollected ==
    /\ pc = "collected"
    /\ live' \in {live, TRUE}
    /\ pc' = IF Len(post) < size.post THEN "collect" ELSE "handover"
    /\ UNCHANGED <<source, begun, frames, size, choice, control, capturing, analysis,
                   clips>>

\* A pause or a stop gives up the frames after the cut; a read that fails keeps
\* those it has.
CollectLess ==
    /\ pc = "collect"
    /\ pc' = "handover"
    /\ \/ /\ stop \/ paused
          /\ post' = <<>> /\ UNCHANGED <<at, live>>
       \/ /\ ~stop /\ ~paused /\ UNCHANGED post
          /\ IF source = "file" THEN UNCHANGED at ELSE at' = Next1(at)
          /\ IF source = "rtsp" THEN live' = FALSE
                                ELSE UNCHANGED live
    /\ UNCHANGED <<source, begun, rolling, size, choice, control, capturing, analysis,
                   clips>>

Queue(c) ==
    /\ cFree' = cFree - 1 /\ cQueue' = Append(cQueue, c)
    /\ clip' = [clip EXCEPT ![c] = [NoClip EXCEPT !.phase = "queued"]]

HandOver ==
    /\ pc = "handover"
    /\ IF cFree > 0 THEN Queue(CHOOSE c \in ClipIds : clip[c].phase = "none")
                    ELSE UNCHANGED clips
    /\ pc' = "top" /\ rolling' = <<>> /\ post' = <<>> /\ at' = 0
    /\ UNCHANGED <<source, begun, size, choice, control, shown, analysis>>

-----------------------------------------------------------------------------
(* The analysis pool.  Jobs of other cameras, and those this thread no longer *)
(* waits for, are only counted.                                               *)

OtherCameraSubmits ==
    /\ aFree > 0
    /\ aFree' = aFree - 1 /\ aQueued' = aQueued + 1
    /\ UNCHANGED <<source, thread, control, shown, aRunning, aFinishing, mine, ahead,
                   clips>>

StartAnalysis ==
    /\ aQueued > 0 /\ aRunning < AnalysisWorkers
    /\ aQueued' = aQueued - 1 /\ aRunning' = aRunning + 1
    /\ IF mine = "queued" /\ ahead = 0
       THEN mine' = "running" /\ UNCHANGED ahead
       ELSE UNCHANGED mine /\ ahead' = IF mine = "queued" THEN ahead - 1 ELSE 0
    /\ UNCHANGED <<source, thread, control, shown, aFree, aFinishing, clips>>

\* While paused a job does nothing.
FinishMine ==
    /\ mine = "running"
    /\ mine' = "finished" /\ aRunning' = aRunning - 1 /\ aFinishing' = aFinishing + 1
    /\ found' \in {FALSE, ~paused}
    /\ UNCHANGED <<source, pc, begun, frames, size, manual, control, shown, aFree,
                   aQueued, ahead, clips>>

FinishOther ==
    /\ aRunning > IF mine = "running" THEN 1 ELSE 0
    /\ aRunning' = aRunning - 1 /\ aFinishing' = aFinishing + 1
    /\ UNCHANGED <<source, thread, control, shown, aFree, aQueued, mine, ahead, clips>>

\* The done callback runs after the waiting thread has been woken.
ReleaseAnalysis ==
    /\ aFinishing > 0
    /\ aFinishing' = aFinishing - 1 /\ aFree' = aFree + 1
    /\ UNCHANGED <<source, thread, control, shown, aQueued, aRunning, mine, ahead,
                   clips>>

-----------------------------------------------------------------------------
(* The clip pool: _write_clip and the callback that follows it.              *)

Busy == {c \in ClipIds : clip[c].phase = "encoding"}
Finish(c, raw, mp4, result) ==
    clip' = [clip EXCEPT ![c] =
        [phase |-> "done", raw |-> raw, mp4 |-> mp4, result |-> result]]

\* A mutant: while paused the job stays in the queue.
StartClipUnpaused ==
    /\ cQueue # <<>> /\ Cardinality(Busy) < ClipWorkers /\ ~paused
    /\ cQueue' = Tail(cQueue)
    /\ IF stop THEN Finish(Head(cQueue), "none", "none", "none")
       ELSE clip' = [clip EXCEPT ![Head(cQueue)] =
                [@ EXCEPT !.phase = "encoding", !.raw = "whole", !.mp4 = "partial"]]
    /\ UNCHANGED <<source, thread, control, shown, analysis, cFree>>

\* The frames are written before ffmpeg starts; a pause or a stop on the way
\* removes what is there.
StartClip ==
    /\ cQueue # <<>> /\ Cardinality(Busy) < ClipWorkers
    /\ cQueue' = Tail(cQueue)
    /\ IF stop \/ paused THEN Finish(Head(cQueue), "none", "none", "none")
       ELSE clip' = [clip EXCEPT ![Head(cQueue)] =
                [@ EXCEPT !.phase = "encoding", !.raw = "whole", !.mp4 = "partial"]]
    /\ UNCHANGED <<source, thread, control, shown, analysis, cFree>>

\* A mutant: the clip is returned under its name without the raw file taking it.
EncodeNoReplace(c) ==
    /\ clip[c].phase = "encoding"
    /\ \/ ~stop /\ ~paused /\ Finish(c, "none", "whole", "path")
       \/ ~stop /\ ~paused /\ Finish(c, "none", "partial", "path")
       \/ (stop \/ paused) /\ Finish(c, "none", "none", "none")
    /\ UNCHANGED <<source, thread, control, shown, analysis, cFree, cQueue>>

\* ffmpeg ends well; or fails, is missing, or is killed at its deadline, and the
\* raw file takes the clip's name; or that fails too because the process still
\* holds the file; or a pause or a stop ends it and removes both files.
Encode(c) ==
    /\ clip[c].phase = "encoding"
    /\ \/ Finish(c, "none", "whole", "path")
       \/ Finish(c, "whole", "partial", "error")
       \/ (stop \/ paused) /\ Finish(c, "none", "none", "none")
    /\ UNCHANGED <<source, thread, control, shown, analysis, cFree, cQueue>>

\* A mutant: an abandoned clip keeps its slot.
ReleaseHanded(c) ==
    /\ clip[c].phase = "done"
    /\ clip' = [clip EXCEPT ![c] = NoClip]
    /\ cFree' = IF clip[c].result = "error" THEN cFree ELSE cFree + 1
    /\ UNCHANGED <<source, thread, control, shown, analysis, cQueue>>

\* clip_finished hands the file on unless it failed or a pause or a stop came in
\* between (the file then stays where it is); the slot is released either way.
ReleaseClip(c) ==
    /\ clip[c].phase = "done"
    /\ clip' = [clip EXCEPT ![c] = NoClip]
    /\ cFree' = cFree + 1
    /\ UNCHANGED <<source, thread, control, shown, analysis, cQueue>>

-----------------------------------------------------------------------------
(* The control page, the orchestrator and time.                              *)

RequestTrigger ==
    /\ pc # "ended" /\ trigger' = TRUE
    /\ UNCHANGED <<source, thread, paused, stop, window, shown, analysis, clips>>

Pause ==
    /\ ~paused /\ paused' = TRUE
    /\ capturing' = FALSE
    /\ live' = FALSE
    /\ UNCHANGED <<source, thread, stop, trigger, window, analysis, clips>>

Resume ==
    /\ paused /\ paused' = FALSE
    /\ UNCHANGED <<source, thread, stop, trigger, window, shown, analysis, clips>>

Stop ==
    /\ ~stop /\ stop' = TRUE
    /\ UNCHANGED <<source, thread, paused, trigger, window, shown, analysis, clips>>

EditWindow ==
    /\ window' \in Windows \ {window}
    /\ UNCHANGED <<source, thread, paused, stop, trigger, shown, analysis, clips>>

CaptureThread ==
    \/ Start \/ OpenOrGiveUp \/ Wait \/ WakeUp \/ Opened \/ NotOpened \/ End
    \/ LeaveLoop \/ NoticePause \/ Read \/ ReadFails \/ Submit \/ Verdict \/ TimeOut
    \/ Decide \/ CollectFrame \/ PublishCollected \/ CollectLess \/ HandOver

AnalysisPool ==
    \/ StartAnalysis \/ FinishMine \/ FinishOther \/ ReleaseAnalysis

ClipPool ==
    \/ StartClip
    \/ \E c \in ClipIds : Encode(c) \/ ReleaseClip(c)

Environment ==
    \/ RequestTrigger \/ Pause \/ Resume \/ Stop \/ EditWindow \/ OtherCameraSubmits

Next == CaptureThread \/ AnalysisPool \/ ClipPool \/ Environment

Spec == Init /\ [][Next]_vars

\* The capture thread and the clip workers run; the transcode has a deadline.
\* A camera whose stream is read again and again gives a frame at last.  Nothing
\* is assumed of the analyses, which the thread does not wait for forever.
FairSpec ==
    /\ Spec
    /\ WF_vars(CaptureThread) /\ SF_vars(Read)
    /\ WF_vars(StartClip)
    /\ \A c \in ClipIds : WF_vars(Encode(c)) /\ WF_vars(ReleaseClip(c))

-----------------------------------------------------------------------------
(* Every variable has its type, and the thread waits for a job exactly where  *)
(* the code blocks on its future.                                             *)
TypeOK ==
    /\ source \in Sources /\ window \in Windows
    /\ {paused, stop, trigger, begun, manual, found, live, capturing} \subseteq BOOLEAN
    /\ pc \in InLoop \cup {"start", "unopened", "opening", "waiting", "reopening",
                           "ending", "ended"}
    /\ at \in 0..(Span - 1)
    /\ rolling \in Seq(0..(Span - 1)) /\ post \in Seq(0..(Span - 1))
    /\ size \in Windows
    /\ aFree \in Nat /\ aQueued \in Nat /\ aRunning \in Nat /\ aFinishing \in Nat
    /\ mine \in {"none", "queued", "running", "finished"} /\ ahead \in Nat
    /\ (mine # "none") <=> (pc = "await")
    /\ cFree \in Nat /\ cQueue \in Seq(ClipIds) /\ clip \in [ClipIds -> ClipRecords]

\* Whatever times out, is dropped, cancelled by a pause or fails, every slot of
\* both semaphores is either free or held by one job that has yet to give it
\* back: a pool never loses capacity and a release never exceeds its bound.
Held == {c \in ClipIds : clip[c].phase # "none"}
SlotsConserved ==
    /\ aFree + aQueued + aRunning + aFinishing = AnalysisSlots
    /\ cFree + Cardinality(Held) = ClipSlots

\* A clip is one piece of the stream: no pause, reconnection or edit of the
\* window leaves a hole between its frames, and no clip repeats frames of the
\* one before (a repeated file aside, whose end and beginning may meet).
Consecutive(s) == \A i \in 1..(Len(s) - 1) : s[i + 1] = Next1(s[i])
ClipsAreOnePiece ==
    pc = "handover" /\ source # "loop" => Consecutive(rolling \o post)

\* When _write_clip returns, a path stands for one complete file, and giving up
\* has left neither the raw nor the transcoded one behind, whichever line the
\* pause, the stop or the failure of ffmpeg reached it at.
FilesMatchResult ==
    \A c \in ClipIds : clip[c].phase = "done" =>
        /\ clip[c].result = "path" => clip[c].raw = "none" /\ clip[c].mp4 = "whole"
        /\ clip[c].result = "none" => clip[c].raw = "none" /\ clip[c].mp4 = "none"

\* A camera is shown "Live", and the connector as capturing, only while the
\* thread is in its loop: a preview published after the pause had already reset
\* the status does not outlive the wait that follows.
ShownAsItIs ==
    /\ live => pc \in InLoop \cup {"ending"}
    /\ pc = "ended" => ~capturing

\* A manual trigger is taken up, or a pause or the end of the thread came first:
\* no analysis, however slow, holds the capture thread.
TriggerAnswered ==
    trigger /\ pc # "ended" ~> ~trigger \/ paused \/ pc = "ended"

\* A clip that got a slot ends and gives the slot back.
ClipsSettle == \A c \in ClipIds : clip[c].phase # "none" ~> clip[c].phase = "none"
=============================================================================
