------------------------ MODULE ClipProductionProofs ------------------------
(***************************************************************************)
(* Proofs about ClipProduction, for every kind of source, every pair of    *)
(* windows and every size of the two pools.                                *)
(*                                                                         *)
(* ProductionInv is the inductive invariant.  SlotsConserved needs to know *)
(* that the job the thread waits for is among those that run, and that the *)
(* clip queue lists each queued clip once.  ClipsAreOnePiece, which speaks  *)
(* of the moment a clip is handed over, needs the shape of the window at    *)
(* every moment before: in one piece, up to the frame read last.            *)
(***************************************************************************)
EXTENDS ClipProduction, FiniteSetTheorems, SequenceTheorems, TLAPS

Positions == 0..(Span - 1)

JobRuns == mine = "running" => aRunning > 0
InLine ==
    /\ \A i \in 1..Len(cQueue) : clip[cQueue[i]].phase = "queued"
    /\ \A i, j \in 1..Len(cQueue) : cQueue[i] = cQueue[j] => i = j

NotReading == {"start", "unopened", "opening", "waiting", "reopening", "pausing"}
Cutting    == {"collect", "collected", "handover"}
Newest(s)  == s[Len(s)]

EmptyUnlessUsed ==
    /\ pc \in NotReading => rolling = <<>>
    /\ pc \notin Cutting => post = <<>>
InOnePiece ==
    source # "loop" =>
        /\ Consecutive(rolling) /\ Consecutive(post)
        /\ rolling # <<>> /\ post # <<>> => post[1] = Next1(Newest(rolling))
        /\ pc # "handover" =>
              /\ post # <<>> => Newest(post) = at
              /\ post = <<>> /\ rolling # <<>> => Newest(rolling) = at

CapturingInLoop ==
    /\ pc \in {"start", "unopened", "opening"} => ~begun
    /\ pc \in InLoop => begun
    /\ ~begun => ~capturing

ProductionInv ==
    /\ TypeOK /\ SlotsConserved /\ JobRuns /\ InLine
    /\ EmptyUnlessUsed /\ InOnePiece
    /\ ShownAsItIs /\ CapturingInLoop
    /\ FilesMatchResult

-----------------------------------------------------------------------------
(* The window and the stream.                                              *)

\* What LastFrames keeps: frames of the sequence, in place, at most n of them and
\* its newest one.
LEMMA LastFramesKeeps ==
  ASSUME NEW s \in Seq(Positions), NEW n \in Nat \ {0}
  PROVE  /\ LastFrames(s, n) \in Seq(Positions)
         /\ LastFrames(s, n) = <<>> <=> s = <<>>
         /\ s # <<>> => Newest(LastFrames(s, n)) = Newest(s)
         /\ Consecutive(s) => Consecutive(LastFrames(s, n))
<1> DEFINE first == IF Len(s) > n THEN Len(s) - n + 1 ELSE 1
           kept  == SubSeq(s, first, Len(s))
<1>1. /\ Len(s) \in Nat /\ first \in Int /\ first >= 1
      /\ first <= Len(s) + 1
      /\ s # <<>> => first <= Len(s)
      /\ s = <<>> => first = 1 /\ Len(s) = 0
  BY EmptySeq, LenProperties
<1> HIDE DEF first
<1>2. \A i \in first..Len(s) : s[i] \in Positions
  BY <1>1, ElementOfSeq
<1>3. /\ kept \in Seq(Positions)
      /\ Len(kept) = IF first <= Len(s) THEN Len(s) - first + 1 ELSE 0
      /\ \A i \in 1..(Len(s) - first + 1) : kept[i] = s[first + i - 1]
  BY <1>1, <1>2, SubSeqProperties
<1>4. LastFrames(s, n) = kept
  BY DEF LastFrames, first
<1> HIDE DEF kept
<1>5. kept = <<>> <=> s = <<>>
  BY <1>1, <1>3, EmptySeq
<1>6. ASSUME s # <<>> PROVE kept[Len(kept)] = s[Len(s)]
  <2>1. Len(kept) = Len(s) - first + 1 /\ Len(kept) \in 1..(Len(s) - first + 1)
    BY <1>1, <1>3, <1>6
  <2>2. kept[Len(kept)] = s[first + Len(kept) - 1]
    BY <1>3, <2>1
  <2> QED
    BY <1>1, <2>1, <2>2
<1>7. ASSUME Consecutive(s) PROVE Consecutive(kept)
  <2> SUFFICES ASSUME NEW i \in 1..(Len(kept) - 1)
               PROVE  kept[i + 1] = Next1(kept[i])
    BY DEF Consecutive
  <2>1. first <= Len(s) /\ Len(kept) = Len(s) - first + 1
    BY <1>1, <1>3
  <2>2. kept[i] = s[first + i - 1] /\ kept[i + 1] = s[first + (i + 1) - 1]
    BY <1>1, <1>3, <2>1
  <2>3. first + i - 1 \in 1..(Len(s) - 1)
    BY <1>1, <2>1
  <2>4. s[(first + i - 1) + 1] = Next1(s[first + i - 1])
    BY <1>7, <2>3 DEF Consecutive
  <2>5. (first + i - 1) + 1 = first + (i + 1) - 1
    BY <1>1
  <2> QED
    BY <2>2, <2>4, <2>5
<1> QED
  BY <1>3, <1>4, <1>5, <1>6, <1>7 DEF Newest

\* A frame that follows the newest one extends the piece.
LEMMA AppendContinues ==
  ASSUME NEW s \in Seq(Positions), NEW p \in Positions
  PROVE  /\ Append(s, p) \in Seq(Positions) /\ Append(s, p) # <<>>
         /\ Newest(Append(s, p)) = p
         /\ Append(s, p)[1] = IF s = <<>> THEN p ELSE s[1]
         /\ Consecutive(s) /\ (s # <<>> => p = Next1(Newest(s))) => Consecutive(Append(s, p))
<1>1. /\ Append(s, p) \in Seq(Positions) /\ Len(Append(s, p)) = Len(s) + 1
      /\ \A i \in 1..Len(s) : Append(s, p)[i] = s[i]
      /\ Append(s, p)[Len(s) + 1] = p /\ Len(s) \in Nat
  OBVIOUS
<1>2. s = <<>> <=> Len(s) = 0
  BY EmptySeq
<1>3. Append(s, p) # <<>>
  BY <1>1, EmptySeq
<1>4. ASSUME Consecutive(s), s # <<>> => p = Next1(Newest(s)) PROVE Consecutive(Append(s, p))
  <2> SUFFICES ASSUME NEW i \in 1..Len(s)
               PROVE  Append(s, p)[i + 1] = Next1(Append(s, p)[i])
    BY <1>1 DEF Consecutive
  <2>1. CASE i < Len(s)
    BY <1>1, <1>4, <2>1 DEF Consecutive
  <2>2. CASE i = Len(s)
    BY <1>1, <1>2, <1>4, <2>2 DEF Newest
  <2> QED
    BY <1>1, <2>1, <2>2
<1> QED
  BY <1>1, <1>2, <1>3, <1>4 DEF Newest

\* The stream's next position is a position.
LEMMA Next1Position == ASSUME NEW n \in Positions PROVE Next1(n) \in Positions
<1>1. Span \in Nat \ {0}
  BY ProductionAssumption
<1>2. n + 1 \in Int
  BY DEF Positions
<1> QED
  BY <1>1, <1>2 DEF Next1, Positions
-----------------------------------------------------------------------------
(* Types.                                                                  *)

\* The initial states have their types.
LEMMA InitTypeOK == Init => TypeOK
<1> SUFFICES ASSUME Init PROVE TypeOK
  OBVIOUS
<1> USE ProductionAssumption DEF Init
<1>1. source \in Sources /\ window \in Windows /\ size \in Windows
  OBVIOUS
<1>2. {paused, stop, trigger, begun, manual, found, live, capturing} \subseteq BOOLEAN
  BY Zenon
<1>3. at \in 0..(Span - 1) /\ rolling \in Seq(0..(Span - 1)) /\ post \in Seq(0..(Span - 1))
  BY EmptySeq
<1>4. aFree \in Nat /\ cFree \in Nat /\ cQueue \in Seq(ClipIds)
  BY EmptySeq
<1>5. clip \in [ClipIds -> ClipRecords]
  BY DEF NoClip, ClipRecords
<1> QED
  BY <1>1, <1>2, <1>3, <1>4, <1>5 DEF TypeOK

\* Naming a file: with a free slot there is a name that no other clip holds.
LEMMA FreeName ==
  ASSUME TypeOK, SlotsConserved, cFree > 0
  PROVE  \E c \in ClipIds : clip[c].phase = "none"
<1>1. IsFiniteSet(ClipIds) /\ Cardinality(ClipIds) = ClipSlots
  BY ProductionAssumption
<1>2. cFree \in Nat /\ cFree + Cardinality(Held) = ClipSlots
  BY DEF TypeOK, SlotsConserved
<1>3. Held \subseteq ClipIds /\ IsFiniteSet(Held) /\ Cardinality(Held) \in Nat
  BY <1>1, FS_Subset, FS_CardinalityType DEF Held
<1>4. Held # ClipIds
  BY <1>1, <1>2, <1>3
<1> QED
  BY <1>3, <1>4 DEF Held

\* A frame read: what the window keeps of it is a sequence of positions.
LEMMA ReadKeeps ==
  ASSUME TypeOK, Read
  PROVE  /\ at' \in Positions /\ at' = Next1(at)
         /\ rolling' \in Seq(Positions) /\ rolling' # <<>> /\ Newest(rolling') = at'
         /\ Consecutive(rolling) /\ (rolling # <<>> => Newest(rolling) = at)
              => Consecutive(rolling')
<1> DEFINE longer == Append(rolling, at')
           held   == LastFrames(longer, size.pre)
<1>1. size.pre \in Nat \ {0} /\ window.pre \in Nat \ {0}
  BY ProductionAssumption DEF TypeOK
<1>2. rolling \in Seq(Positions) /\ at \in Positions /\ at' = Next1(at)
  BY DEF TypeOK, Read, Positions
<1>3. at' \in Positions
  BY <1>2, Next1Position
<1>4. /\ longer \in Seq(Positions) /\ longer # <<>> /\ Newest(longer) = at'
      /\ Consecutive(rolling) /\ (rolling # <<>> => Newest(rolling) = at) => Consecutive(longer)
  BY <1>2, <1>3, AppendContinues
<1> HIDE DEF longer
<1>5. /\ held \in Seq(Positions) /\ held # <<>> /\ Newest(held) = at'
      /\ Consecutive(longer) => Consecutive(held)
  BY <1>1, <1>4, LastFramesKeeps
<1>6. rolling' = LastFrames(held, window.pre)
  BY DEF Read, Trim, longer
<1> HIDE DEF held
<1>7. /\ rolling' \in Seq(Positions) /\ rolling' # <<>> /\ Newest(rolling') = at'
      /\ Consecutive(held) => Consecutive(rolling')
  BY <1>1, <1>5, <1>6, LastFramesKeeps
<1> QED
  BY <1>2, <1>3, <1>4, <1>5, <1>7

\* Every step keeps every variable in its type.
LEMMA TypeStep == ProductionInv /\ [Next]_vars => TypeOK'
<1> SUFFICES ASSUME ProductionInv, [Next]_vars PROVE TypeOK'
  OBVIOUS
<1> USE DEF TypeOK, InLoop
<1>t. TypeOK /\ JobRuns /\ InLine
  BY DEF ProductionInv
<1>1. CASE Start \/ OpenOrGiveUp \/ Wait \/ WakeUp \/ NotOpened \/ End \/ LeaveLoop
  BY <1>t, <1>1 DEF Start, OpenOrGiveUp, Wait, WakeUp, NotOpened, End, LeaveLoop,
     frames, choice, control, shown, analysis, clips
<1>2. CASE NoticePause
  BY <1>t, <1>2, ProductionAssumption, EmptySeq
     DEF NoticePause, choice, control, shown, analysis, clips
<1>19. CASE HandOver
  <2>1. pc' = "top" /\ pc = "handover" /\ rolling' = <<>> /\ post' = <<>> /\ at' = 0
        /\ UNCHANGED <<source, begun, size, choice, control, shown, analysis>>
    BY <1>19 DEF HandOver
  <2>2. clip' \in [ClipIds -> ClipRecords] /\ cFree' \in Nat /\ cQueue' \in Seq(ClipIds)
    <3>1. CASE cFree > 0
      <4>1. PICK c \in ClipIds : Queue(c)
        BY <1>19, <3>1, FreeName DEF HandOver, ProductionInv
      <4>2. [NoClip EXCEPT !.phase = "queued"] \in ClipRecords
        BY DEF NoClip, ClipRecords
      <4> QED
        BY <1>t, <3>1, <4>1, <4>2 DEF Queue
    <3>2. CASE ~(cFree > 0)
      BY <1>t, <1>19, <3>2 DEF HandOver, clips
    <3> QED
      BY <3>1, <3>2
  <2> QED
    BY <1>t, <2>1, <2>2, ProductionAssumption, EmptySeq DEF choice, control, shown, analysis
<1>3. CASE Opened
  BY <1>t, <1>3, Next1Position DEF Opened, choice, control, analysis, clips, Positions
<1>4. CASE Read
  BY <1>t, <1>4, ReadKeeps DEF Read, choice, control, analysis, clips, Positions
<1>5. CASE ReadFails
  <2>1. source \in {"rtsp", "loop", "file"}
    BY <1>t, ProductionAssumption
  <2>2. at' \in 0..(Span - 1)
    <3>1. at' \in {at, 0, Next1(at)}
      BY <1>5, <2>1 DEF ReadFails
    <3> QED
      BY <1>t, <3>1, Next1Position, ProductionAssumption DEF Positions
  <2>3. rolling' \in Seq(0..(Span - 1))
    BY <1>t, <1>5, <2>1, EmptySeq DEF ReadFails
  <2>4. pc' \in {"top", "ending"} /\ pc = "top"
    BY <1>5, <2>1 DEF ReadFails
  <2>5. live' \in BOOLEAN
    BY <1>t, <1>5, <2>1, Zenon DEF ReadFails
  <2> QED
    BY <1>t, <1>5, <2>2, <2>3, <2>4, <2>5 DEF ReadFails, choice, control, analysis, clips
<1>6. CASE Submit
  <2>1. {paused', stop', trigger', begun', manual', found', live', capturing'} \subseteq BOOLEAN
    BY <1>t, <1>6, Zenon DEF Submit
  <2>2. pc = "publish" /\ UNCHANGED <<source, frames, size, window, aRunning, aFinishing, clips>>
    BY <1>6 DEF Submit
  <2>3. /\ aFree' \in Nat /\ aQueued' \in Nat /\ ahead' \in Nat
        /\ pc' \in {"await", "decide"} /\ mine' \in {"none", "queued"}
        /\ mine' # "none" <=> pc' = "await"
    BY <1>t, <1>6 DEF Submit
  <2> QED
    BY <1>t, <2>1, <2>2, <2>3 DEF frames, clips
<1>7. CASE Verdict \/ TimeOut
  BY <1>t, <1>7 DEF Verdict, TimeOut, frames, choice, control, shown, clips
<1>8. CASE Decide \/ PublishCollected
  BY <1>t, <1>8 DEF Decide, PublishCollected, frames, choice, control, shown, analysis, clips
<1>9. CASE CollectFrame
  <2>1. at \in Positions /\ at' \in Positions /\ post \in Seq(Positions) /\ post' = Append(post, at')
    BY <1>t, <1>9, Next1Position DEF CollectFrame, Positions
  <2>2. post' \in Seq(Positions)
    BY <2>1, AppendContinues
  <2> QED
    BY <1>t, <1>9, <2>1, <2>2 DEF CollectFrame, choice, control, shown, analysis, clips, Positions
<1>10. CASE CollectLess
  BY <1>t, <1>10, Next1Position, EmptySeq
     DEF CollectLess, choice, control, analysis, clips, Positions
<1>11. CASE StartAnalysis
  BY <1>t, <1>11 DEF StartAnalysis, thread, frames, choice, control, shown, clips
<1>12. CASE FinishMine
  <2>1. found' \in BOOLEAN
    BY <1>t, <1>12, Zenon DEF FinishMine
  <2> QED
    BY <1>t, <1>12, <2>1 DEF FinishMine, JobRuns, frames, control, shown, clips
<1>13. CASE FinishOther
  BY <1>t, <1>13 DEF FinishOther, thread, frames, choice, control, shown, clips
<1>14. CASE ReleaseAnalysis \/ OtherCameraSubmits
  BY <1>t, <1>14 DEF ReleaseAnalysis, OtherCameraSubmits, thread, frames, choice,
     control, shown, clips
<1>15. CASE StartClip
  <2>1. UNCHANGED <<source, thread, control, shown, analysis, cFree>>
    BY <1>15 DEF StartClip
  <2>2. Head(cQueue) \in ClipIds /\ cQueue' \in Seq(ClipIds)
    BY <1>t, <1>15, HeadTailProperties DEF StartClip
  <2>3. clip' \in [ClipIds -> ClipRecords]
    <3>1. PICK r \in ClipRecords : clip' = [clip EXCEPT ![Head(cQueue)] = r]
      <4>1. CASE stop \/ paused
        BY <1>15, <4>1 DEF StartClip, Finish, ClipRecords
      <4>2. CASE ~(stop \/ paused)
        <5>1. [clip[Head(cQueue)] EXCEPT !.phase = "encoding", !.raw = "whole", !.mp4 = "partial"]
                \in ClipRecords
          BY <1>t, <2>2 DEF ClipRecords
        <5> QED
          BY <1>t, <1>15, <2>2, <4>2, <5>1 DEF StartClip
      <4> QED
        BY <4>1, <4>2
    <3> QED
      BY <1>t, <2>2, <3>1
  <2> QED
    BY <1>t, <2>1, <2>2, <2>3 DEF thread, frames, choice, control, shown, analysis
<1>16. ASSUME NEW c \in ClipIds, Encode(c) \/ ReleaseClip(c) PROVE TypeOK'
  <2>1. UNCHANGED <<source, thread, control, shown, analysis, cQueue>>
    BY <1>16 DEF Encode, ReleaseClip
  <2>2. clip' \in [ClipIds -> ClipRecords] /\ cFree' \in Nat
    BY <1>t, <1>16 DEF Encode, ReleaseClip, Finish, NoClip, ClipRecords
  <2> QED
    BY <1>t, <2>1, <2>2 DEF thread, frames, choice, control, shown, analysis
<1>17. CASE RequestTrigger \/ Pause \/ Resume \/ Stop \/ EditWindow
  BY <1>t, <1>17 DEF RequestTrigger, Pause, Resume, Stop, EditWindow, thread, frames, choice,
     shown, analysis, clips
<1>18. CASE UNCHANGED vars
  BY <1>t, <1>18 DEF vars, thread, frames, choice, control, shown, analysis, clips
<1> QED
  BY <1>1, <1>2, <1>3, <1>4, <1>5, <1>6, <1>7, <1>8, <1>9, <1>10, <1>11, <1>12, <1>13,
     <1>14, <1>15, <1>16, <1>17, <1>18, <1>19
     DEF Next, CaptureThread, AnalysisPool, ClipPool, Environment
-----------------------------------------------------------------------------
(* Slots.                                                                  *)

\* Initially every slot is free.
LEMMA InitSlots == Init => SlotsConserved /\ JobRuns /\ InLine
<1> SUFFICES ASSUME Init PROVE SlotsConserved /\ JobRuns /\ InLine
  OBVIOUS
<1>1. Held = {}
  BY DEF Init, Held, NoClip
<1>2. Cardinality(Held) = 0
  BY <1>1, FS_EmptySet
<1> QED
  BY <1>2, ProductionAssumption DEF Init, SlotsConserved, JobRuns, InLine

\* A step that leaves the clips alone keeps what is said of them.
LEMMA ClipsKept ==
  ASSUME SlotsConserved, InLine, UNCHANGED clips
  PROVE  (cFree + Cardinality(Held) = ClipSlots)' /\ InLine'
<1>1. Held' = Held /\ cFree' = cFree /\ cQueue' = cQueue /\ clip' = clip
  BY DEF Held, clips
<1> QED
  BY <1>1 DEF SlotsConserved, InLine

\* Every step moves a slot from one stage of its job to the next, or none.
LEMMA SlotsStep ==
  ProductionInv /\ [Next]_vars => SlotsConserved' /\ JobRuns' /\ InLine'
<1> SUFFICES ASSUME ProductionInv, [Next]_vars PROVE SlotsConserved' /\ JobRuns' /\ InLine'
  OBVIOUS
<1>t. TypeOK /\ SlotsConserved /\ JobRuns /\ InLine
  BY DEF ProductionInv
<1>a. /\ aFree \in Nat /\ aQueued \in Nat /\ aRunning \in Nat /\ aFinishing \in Nat
      /\ aFree + aQueued + aRunning + aFinishing = AnalysisSlots
      /\ cFree \in Nat /\ cQueue \in Seq(ClipIds) /\ clip \in [ClipIds -> ClipRecords]
  BY <1>t DEF TypeOK, SlotsConserved
<1>b. IsFiniteSet(Held) /\ Cardinality(Held) \in Nat
  BY ProductionAssumption, FS_Subset, FS_CardinalityType DEF Held
<1>1. ASSUME UNCHANGED <<analysis, clips>> PROVE SlotsConserved' /\ JobRuns' /\ InLine'
  BY <1>t, <1>a, <1>1, ClipsKept DEF SlotsConserved, JobRuns, analysis
<1>2. CASE Start \/ OpenOrGiveUp \/ Wait \/ WakeUp \/ Opened \/ NotOpened \/ End \/ LeaveLoop
  BY <1>1, <1>2 DEF Start, OpenOrGiveUp, Wait, WakeUp, Opened, NotOpened, End, LeaveLoop
<1>3. CASE NoticePause \/ Read \/ ReadFails
  BY <1>1, <1>3 DEF NoticePause, Read, ReadFails
<1>4. CASE Decide \/ CollectFrame \/ PublishCollected \/ CollectLess
  BY <1>1, <1>4 DEF Decide, CollectFrame, PublishCollected, CollectLess
<1>5. CASE RequestTrigger \/ Pause \/ Resume \/ Stop \/ EditWindow
  BY <1>1, <1>5 DEF RequestTrigger, Pause, Resume, Stop, EditWindow
<1>6. CASE Submit \/ Verdict \/ TimeOut
  <2>1. UNCHANGED clips
    BY <1>6 DEF Submit, Verdict, TimeOut
  <2>2. /\ aFree' + aQueued' + aRunning' + aFinishing' = AnalysisSlots
        /\ JobRuns'
    <3>1. CASE Submit
      <4>1. UNCHANGED <<aRunning, aFinishing>>
        BY <3>1 DEF Submit
      <4>2. CASE aFree > 0
        BY <1>a, <3>1, <4>1, <4>2 DEF Submit, JobRuns
      <4>3. CASE ~(aFree > 0)
        <5>1. UNCHANGED <<aFree, aQueued, mine>>
          BY <3>1, <4>3 DEF Submit
        <5> QED
          BY <1>t, <1>a, <4>1, <5>1 DEF JobRuns
      <4> QED
        BY <4>2, <4>3
    <3>2. CASE Verdict \/ TimeOut
      BY <1>a, <1>6, <3>2 DEF Verdict, TimeOut, JobRuns
    <3> QED
      BY <1>6, <3>1, <3>2
  <2> QED
    BY <1>t, <2>1, <2>2, ClipsKept DEF SlotsConserved
<1>7. CASE StartAnalysis \/ FinishMine \/ FinishOther \/ ReleaseAnalysis \/ OtherCameraSubmits
  <2>1. UNCHANGED clips
    BY <1>7 DEF StartAnalysis, FinishMine, FinishOther, ReleaseAnalysis, OtherCameraSubmits
  <2>2. /\ aFree' + aQueued' + aRunning' + aFinishing' = AnalysisSlots
        /\ JobRuns'
    <3>1. CASE StartAnalysis
      BY <1>t, <1>a, <1>7, <3>1 DEF StartAnalysis, JobRuns
    <3>2. CASE FinishMine
      BY <1>t, <1>a, <1>7, <3>2 DEF FinishMine, JobRuns
    <3>3. CASE FinishOther
      BY <1>t, <1>a, <1>7, <3>3 DEF FinishOther, JobRuns
    <3>4. CASE ReleaseAnalysis \/ OtherCameraSubmits
      BY <1>t, <1>a, <1>7, <3>4 DEF ReleaseAnalysis, OtherCameraSubmits, JobRuns
    <3> QED
      BY <1>7, <3>1, <3>2, <3>3, <3>4
  <2> QED
    BY <1>t, <2>1, <2>2, ClipsKept DEF SlotsConserved
<1>8. CASE HandOver
  <2>1. UNCHANGED analysis
    BY <1>8 DEF HandOver
  <2>2. CASE ~(cFree > 0)
    BY <1>1, <1>8, <2>1, <2>2 DEF HandOver
  <2>3. CASE cFree > 0
    <3>1. PICK c \in ClipIds : clip[c].phase = "none" /\ Queue(c)
      BY <1>t, <1>8, <2>3, FreeName DEF HandOver
    <3>2. /\ clip'[c].phase = "queued"
          /\ \A d \in ClipIds \ {c} : clip'[d] = clip[d]
      BY <1>a, <3>1 DEF Queue, NoClip
    <3>3. Held' = Held \cup {c} /\ c \notin Held
      BY <3>1, <3>2 DEF Held
    <3>4. Cardinality(Held') = Cardinality(Held) + 1
      BY <1>b, <3>3, FS_AddElement
    <3>5. cQueue' = Append(cQueue, c) /\ cFree' = cFree - 1
      BY <3>1 DEF Queue
    <3>6. \A i \in 1..Len(cQueue) : cQueue[i] \in ClipIds \ {c}
      BY <1>t, <1>a, <3>1, ElementOfSeq DEF InLine
    <3>7. InLine'
      BY <1>t, <1>a, <3>2, <3>5, <3>6 DEF InLine
    <3>8. (cFree + Cardinality(Held) = ClipSlots)'
      BY <1>t, <1>a, <1>b, <3>4, <3>5 DEF SlotsConserved
    <3> QED
      BY <1>t, <1>a, <2>1, <3>7, <3>8 DEF SlotsConserved, JobRuns, analysis
  <2> QED
    BY <2>2, <2>3
<1>9. CASE StartClip
  <2> DEFINE c == Head(cQueue)
  <2>1. UNCHANGED <<analysis, cFree>> /\ cQueue # <<>> /\ cQueue' = Tail(cQueue)
    BY <1>9 DEF StartClip
  <2>2. c = cQueue[1] /\ Len(cQueue) \in Nat \ {0} /\ c \in ClipIds
    BY <1>a, <2>1, EmptySeq, ElementOfSeq
  <2> HIDE DEF c
  <2>3. /\ clip[c].phase = "queued" /\ clip'[c].phase # "none"
        /\ \A d \in ClipIds \ {c} : clip'[d] = clip[d]
    <3>1. clip[c].phase = "queued"
      BY <1>t, <2>2 DEF InLine
    <3>2. CASE stop \/ paused
      BY <1>a, <1>9, <2>2, <3>1, <3>2 DEF StartClip, Finish, c
    <3>3. CASE ~(stop \/ paused)
      <4>1. clip' = [clip EXCEPT ![c] =
                [clip[c] EXCEPT !.phase = "encoding", !.raw = "whole", !.mp4 = "partial"]]
        BY <1>9, <3>3 DEF StartClip, c
      <4>2. clip[c] \in ClipRecords
        BY <1>a, <2>2
      <4> QED
        BY <1>a, <2>2, <3>1, <4>1, <4>2 DEF ClipRecords
    <3> QED
      BY <3>1, <3>2, <3>3
  <2>4. Held' = Held
    BY <2>3 DEF Held
  <2>5. /\ Len(cQueue') = Len(cQueue) - 1
        /\ \A i \in 1..Len(cQueue') : cQueue'[i] = cQueue[i + 1]
    BY <1>a, <2>1, HeadTailProperties
  <2>6. \A i \in 1..Len(cQueue') : cQueue'[i] \in ClipIds \ {c}
    <3> SUFFICES ASSUME NEW i \in 1..Len(cQueue') PROVE cQueue'[i] \in ClipIds \ {c}
      OBVIOUS
    <3>1. i + 1 \in 1..Len(cQueue) /\ i + 1 # 1 /\ 1 \in 1..Len(cQueue)
      BY <2>2, <2>5
    <3>2. cQueue[i + 1] \in ClipIds
      BY <1>a, <3>1, ElementOfSeq
    <3> QED
      BY <1>t, <2>2, <2>5, <3>1, <3>2 DEF InLine
  <2>7. InLine'
    <3>1. ASSUME NEW i \in 1..Len(cQueue') PROVE clip'[cQueue'[i]].phase = "queued"
      <4>1. i + 1 \in 1..Len(cQueue)
        BY <2>2, <2>5
      <4> QED
        BY <1>t, <2>3, <2>5, <2>6, <4>1 DEF InLine
    <3>2. ASSUME NEW i \in 1..Len(cQueue'), NEW j \in 1..Len(cQueue'), cQueue'[i] = cQueue'[j]
          PROVE  i = j
      <4>1. i + 1 \in 1..Len(cQueue) /\ j + 1 \in 1..Len(cQueue)
        BY <2>2, <2>5
      <4>2. i + 1 = j + 1
        BY <1>t, <2>5, <3>2, <4>1 DEF InLine
      <4> QED
        BY <4>2
    <3> QED
      BY <3>1, <3>2 DEF InLine
  <2> QED
    BY <1>t, <1>a, <2>1, <2>4, <2>7 DEF SlotsConserved, JobRuns, analysis
<1>10. ASSUME NEW c \in ClipIds, Encode(c) PROVE SlotsConserved' /\ JobRuns' /\ InLine'
  <2>1. /\ UNCHANGED <<analysis, cFree, cQueue>>
        /\ clip[c].phase = "encoding" /\ clip'[c].phase = "done"
        /\ \A d \in ClipIds \ {c} : clip'[d] = clip[d]
    BY <1>a, <1>10 DEF Encode, Finish
  <2>2. Held' = Held
    BY <2>1 DEF Held
  <2>3. InLine'
    BY <1>t, <1>a, <2>1, ElementOfSeq DEF InLine
  <2> QED
    BY <1>t, <1>a, <2>1, <2>2, <2>3 DEF SlotsConserved, JobRuns, analysis
<1>11. ASSUME NEW c \in ClipIds, ReleaseClip(c) PROVE SlotsConserved' /\ JobRuns' /\ InLine'
  <2>1. /\ UNCHANGED <<analysis, cQueue>> /\ cFree' = cFree + 1
        /\ clip[c].phase = "done" /\ clip'[c].phase = "none"
        /\ \A d \in ClipIds \ {c} : clip'[d] = clip[d]
    BY <1>a, <1>11 DEF ReleaseClip, NoClip
  <2>2. Held' = Held \ {c} /\ c \in Held
    BY <2>1 DEF Held
  <2>3. Cardinality(Held') = Cardinality(Held) - 1
    BY <1>b, <2>2, FS_RemoveElement
  <2>4. InLine'
    BY <1>t, <1>a, <2>1, ElementOfSeq DEF InLine
  <2> QED
    BY <1>t, <1>a, <1>b, <2>1, <2>3, <2>4 DEF SlotsConserved, JobRuns, analysis
<1>12. CASE UNCHANGED vars
  BY <1>1, <1>12 DEF vars
<1> QED
  BY <1>2, <1>3, <1>4, <1>5, <1>6, <1>7, <1>8, <1>9, <1>10, <1>11, <1>12
     DEF Next, CaptureThread, AnalysisPool, ClipPool, Environment
-----------------------------------------------------------------------------
(* The window and the frames after the cut.                                *)

\* An empty window is in one piece.
LEMMA EmptyConsecutive == Consecutive(<<>>)
  BY EmptySeq DEF Consecutive

\* Every step keeps the window in one piece, up to the frame read last.
LEMMA PieceStep == ProductionInv /\ [Next]_vars => EmptyUnlessUsed' /\ InOnePiece'
<1> SUFFICES ASSUME ProductionInv, [Next]_vars PROVE EmptyUnlessUsed' /\ InOnePiece'
  OBVIOUS
<1>t. TypeOK /\ EmptyUnlessUsed /\ InOnePiece
  BY DEF ProductionInv
<1>a. at \in Positions /\ rolling \in Seq(Positions) /\ post \in Seq(Positions)
  BY <1>t DEF TypeOK, Positions
<1> USE DEF NotReading, Cutting
<1>1. ASSUME UNCHANGED <<source, frames>>,
             pc' \in NotReading => rolling = <<>>,
             pc' \notin Cutting => post = <<>>,
             pc' # "handover" => pc # "handover"
      PROVE  EmptyUnlessUsed' /\ InOnePiece'
  BY <1>t, <1>1 DEF EmptyUnlessUsed, InOnePiece, frames, Consecutive, Newest, Next1
<1>2. CASE Start \/ OpenOrGiveUp \/ Wait \/ WakeUp \/ NotOpened \/ End \/ LeaveLoop
  BY <1>t, <1>1, <1>2 DEF Start, OpenOrGiveUp, Wait, WakeUp, NotOpened, End, LeaveLoop,
     EmptyUnlessUsed
<1>3. CASE Submit \/ Verdict \/ TimeOut \/ Decide \/ PublishCollected
  BY <1>t, <1>1, <1>3 DEF Submit, Verdict, TimeOut, Decide, PublishCollected, EmptyUnlessUsed,
     choice
<1>4. CASE AnalysisPool \/ ClipPool \/ Environment
  <2>1. UNCHANGED <<source, frames, pc>>
    BY <1>4 DEF AnalysisPool, ClipPool, Environment, StartAnalysis, FinishMine, FinishOther,
       ReleaseAnalysis, StartClip, Encode, ReleaseClip, RequestTrigger, Pause, Resume, Stop,
       EditWindow, OtherCameraSubmits, thread
  <2> QED
    BY <1>t, <1>1, <2>1 DEF EmptyUnlessUsed
<1>5. CASE NoticePause \/ HandOver
  <2>1. rolling' = <<>> /\ post' = <<>>
    BY <1>t, <1>5 DEF NoticePause, HandOver, EmptyUnlessUsed
  <2> QED
    BY <2>1, EmptyConsecutive DEF EmptyUnlessUsed, InOnePiece
<1>6. CASE Opened
  <2>1. rolling' = <<>> /\ post' = <<>>
    BY <1>t, <1>6 DEF Opened, EmptyUnlessUsed
  <2> QED
    BY <2>1, EmptyConsecutive DEF EmptyUnlessUsed, InOnePiece
<1>7. CASE Read
  <2>1. post = <<>> /\ post' = <<>> /\ pc' = "publish" /\ source' = source
    BY <1>t, <1>7 DEF Read, EmptyUnlessUsed
  <2>2. EmptyUnlessUsed'
    BY <2>1 DEF EmptyUnlessUsed
  <2>3. ASSUME source # "loop" PROVE Consecutive(rolling) /\ (rolling # <<>> => Newest(rolling) = at)
    BY <1>t, <1>7, <2>1, <2>3 DEF InOnePiece, Read
  <2>4. ASSUME source # "loop" PROVE Consecutive(rolling') /\ Newest(rolling') = at'
    BY <1>t, <1>7, <2>3, <2>4, ReadKeeps
  <2> QED
    BY <2>1, <2>2, <2>4, EmptyConsecutive DEF InOnePiece
<1>8. CASE ReadFails
  <2>1. post = <<>> /\ post' = <<>> /\ pc = "top" /\ pc' \in {"top", "ending"} /\ source' = source
    BY <1>t, <1>8, ProductionAssumption DEF ReadFails, EmptyUnlessUsed, TypeOK
  <2>2. EmptyUnlessUsed'
    BY <2>1 DEF EmptyUnlessUsed
  <2>3. ASSUME source # "loop"
        PROVE  rolling' = <<>> \/ (rolling' = rolling /\ at' = at)
    BY <1>t, <1>8, <2>3, ProductionAssumption DEF ReadFails, TypeOK
  <2> QED
    BY <1>t, <2>1, <2>2, <2>3, EmptyConsecutive DEF InOnePiece
<1>9. CASE CollectFrame
  <2>1. /\ at' = Next1(at) /\ at' \in Positions /\ post' = Append(post, at')
        /\ pc = "collect" /\ pc' = "collected" /\ UNCHANGED <<source, rolling>>
    BY <1>a, <1>9, Next1Position DEF CollectFrame
  <2>2. EmptyUnlessUsed'
    BY <2>1 DEF EmptyUnlessUsed
  <2>3. ASSUME source # "loop" PROVE InOnePiece'
    <3>1. /\ Consecutive(rolling) /\ Consecutive(post)
          /\ rolling # <<>> /\ post # <<>> => post[1] = Next1(Newest(rolling))
          /\ post # <<>> => Newest(post) = at
          /\ post = <<>> /\ rolling # <<>> => Newest(rolling) = at
      BY <1>t, <2>1, <2>3 DEF InOnePiece
    <3>2. /\ post' # <<>> /\ Newest(post') = at' /\ Consecutive(post')
          /\ post'[1] = IF post = <<>> THEN at' ELSE post[1]
      BY <1>a, <2>1, <3>1, AppendContinues
    <3> QED
      BY <2>1, <3>1, <3>2 DEF InOnePiece
  <2> QED
    BY <2>1, <2>2, <2>3 DEF InOnePiece
<1>10. CASE CollectLess
  <2>1. /\ pc' = "handover" /\ UNCHANGED <<source, rolling>>
        /\ post' = <<>> \/ post' = post
    BY <1>10 DEF CollectLess
  <2>2. EmptyUnlessUsed'
    BY <2>1 DEF EmptyUnlessUsed
  <2> QED
    BY <1>t, <2>1, <2>2, EmptyConsecutive DEF InOnePiece
<1>11. CASE UNCHANGED vars
  BY <1>t, <1>1, <1>11 DEF vars, thread, EmptyUnlessUsed
<1> QED
  BY <1>2, <1>3, <1>4, <1>5, <1>6, <1>7, <1>8, <1>9, <1>10, <1>11 DEF Next, CaptureThread

\* A window in one piece and the frames that follow it are one piece together.
LEMMA PiecesJoin == TypeOK /\ InOnePiece => ClipsAreOnePiece
<1> SUFFICES ASSUME TypeOK, InOnePiece, source # "loop"
             PROVE  Consecutive(rolling \o post)
  BY DEF ClipsAreOnePiece
<1> DEFINE n == Len(rolling)
           s == rolling \o post
<1>1. rolling \in Seq(Positions) /\ post \in Seq(Positions)
  BY DEF TypeOK, Positions
<1>2. /\ Len(s) = n + Len(post) /\ n \in Nat /\ Len(post) \in Nat
      /\ \A i \in 1..(n + Len(post)) : s[i] = IF i <= n THEN rolling[i] ELSE post[i - n]
  BY <1>1, ConcatProperties, LenProperties
<1>3. /\ Consecutive(rolling) /\ Consecutive(post)
      /\ rolling # <<>> /\ post # <<>> => post[1] = Next1(rolling[n])
  BY DEF InOnePiece, Newest
<1> HIDE DEF n, s
<1> SUFFICES ASSUME NEW i \in 1..(Len(s) - 1) PROVE s[i + 1] = Next1(s[i])
  BY DEF Consecutive, s
<1>4. CASE i < n
  BY <1>2, <1>3, <1>4 DEF Consecutive, n
<1>5. CASE i = n
  <2>1. rolling # <<>> /\ post # <<>>
    BY <1>1, <1>2, <1>5, EmptySeq DEF n
  <2> QED
    BY <1>2, <1>3, <1>5, <2>1
<1>6. CASE i > n
  <2>1. i - n \in 1..(Len(post) - 1) /\ (i + 1) - n = (i - n) + 1
    BY <1>2, <1>6
  <2>2. s[i] = post[i - n] /\ s[i + 1] = post[(i + 1) - n]
    BY <1>2, <1>6
  <2> QED
    BY <1>3, <2>1, <2>2 DEF Consecutive
<1> QED
  BY <1>2, <1>4, <1>5, <1>6

-----------------------------------------------------------------------------
(* What is shown, and the files of a clip.                                 *)

\* Every step keeps the status true to the thread.
LEMMA ShownStep == ProductionInv /\ [Next]_vars => ShownAsItIs' /\ CapturingInLoop'
<1> SUFFICES ASSUME ProductionInv, [Next]_vars PROVE ShownAsItIs' /\ CapturingInLoop'
  OBVIOUS
<1>t. /\ TypeOK /\ ShownAsItIs /\ CapturingInLoop
      /\ live \in BOOLEAN /\ capturing \in BOOLEAN /\ begun \in BOOLEAN
  BY DEF ProductionInv, TypeOK
<1> USE DEF ShownAsItIs, CapturingInLoop, InLoop
<1>1. CASE Start \/ OpenOrGiveUp
  BY <1>t, <1>1 DEF Start, OpenOrGiveUp
<1>2. CASE Wait \/ WakeUp
  BY <1>t, <1>2 DEF Wait, WakeUp, shown
<1>3. CASE Opened \/ NotOpened \/ End
  BY <1>t, <1>3 DEF Opened, NotOpened, End
<1>4. CASE LeaveLoop \/ NoticePause \/ Read
  BY <1>t, <1>4 DEF LeaveLoop, NoticePause, Read, shown
<1>5. CASE ReadFails
  <2>1. pc = "top" /\ pc' \in {"top", "ending"} /\ UNCHANGED <<begun, capturing>>
    BY <1>t, <1>5, ProductionAssumption DEF ReadFails, TypeOK
  <2> QED
    BY <1>t, <2>1
<1>6. CASE Submit \/ Verdict \/ TimeOut \/ Decide
  <2>1. pc \in InLoop /\ pc' \in InLoop /\ UNCHANGED <<begun, capturing>>
    BY <1>6 DEF Submit, Verdict, TimeOut, Decide, shown
  <2> QED
    BY <1>t, <2>1
<1>7. CASE CollectFrame \/ PublishCollected \/ CollectLess \/ HandOver
  <2>1. pc \in InLoop /\ pc' \in InLoop /\ UNCHANGED <<begun, capturing>>
    BY <1>7 DEF CollectFrame, PublishCollected, CollectLess, HandOver, shown
  <2> QED
    BY <1>t, <2>1
<1>8. CASE AnalysisPool \/ ClipPool
  <2>1. UNCHANGED <<pc, begun, shown>>
    BY <1>8 DEF AnalysisPool, ClipPool, StartAnalysis, FinishMine, FinishOther,
       ReleaseAnalysis, StartClip, Encode, ReleaseClip, thread
  <2> QED
    BY <1>t, <2>1 DEF shown
<1>9. CASE Environment
  <2>1. UNCHANGED <<pc, begun>> /\ (live' => live) /\ (capturing' => capturing)
    BY <1>9 DEF Environment, RequestTrigger, Pause, Resume, Stop, EditWindow,
       OtherCameraSubmits, thread, shown
  <2> QED
    BY <1>t, <2>1
<1>10. CASE UNCHANGED vars
  BY <1>t, <1>10 DEF vars, thread, shown
<1> QED
  BY <1>1, <1>2, <1>3, <1>4, <1>5, <1>6, <1>7, <1>8, <1>9, <1>10 DEF Next, CaptureThread

\* Every step leaves a finished clip with the files its result speaks of.
LEMMA FilesStep == ProductionInv /\ [Next]_vars => FilesMatchResult'
<1> SUFFICES ASSUME ProductionInv, [Next]_vars PROVE FilesMatchResult'
  OBVIOUS
<1>t. /\ FilesMatchResult
      /\ cQueue \in Seq(ClipIds) /\ clip \in [ClipIds -> ClipRecords]
  BY DEF ProductionInv, TypeOK
<1>1. ASSUME UNCHANGED clip PROVE FilesMatchResult'
  BY <1>t, <1>1 DEF FilesMatchResult
<1>2. CASE CaptureThread
  <2>1. CASE HandOver
    <3>1. clip' = clip \/ \E c \in ClipIds : clip' = [clip EXCEPT ![c] = [NoClip EXCEPT !.phase = "queued"]]
      <4>1. CASE cFree > 0
        <5>1. SlotsConserved /\ TypeOK
          BY DEF ProductionInv
        <5>2. PICK c \in ClipIds : Queue(c)
          BY <2>1, <4>1, <5>1, FreeName DEF HandOver
        <5> QED
          BY <5>2 DEF Queue
      <4>2. CASE ~(cFree > 0)
        BY <2>1, <4>2 DEF HandOver, clips
      <4> QED
        BY <4>1, <4>2
    <3> QED
      BY <1>t, <1>1, <3>1 DEF FilesMatchResult, NoClip
  <2>2. CASE ~HandOver
    BY <1>1, <1>2, <2>2 DEF CaptureThread, Start, OpenOrGiveUp, Wait, WakeUp, Opened, NotOpened,
       End, LeaveLoop, NoticePause, Read, ReadFails, Submit, Verdict, TimeOut, Decide,
       CollectFrame, PublishCollected, CollectLess, clips
  <2> QED
    BY <2>1, <2>2
<1>3. CASE AnalysisPool \/ Environment
  BY <1>1, <1>3 DEF AnalysisPool, Environment, StartAnalysis, FinishMine, FinishOther,
     ReleaseAnalysis, RequestTrigger, Pause, Resume, Stop, EditWindow, OtherCameraSubmits, clips
<1>4. CASE StartClip
  <2> DEFINE c == Head(cQueue)
  <2>1. c \in ClipIds
    BY <1>t, <1>4, HeadTailProperties DEF StartClip
  <2> HIDE DEF c
  <2>2. CASE stop \/ paused
    BY <1>t, <1>4, <2>1, <2>2 DEF StartClip, Finish, FilesMatchResult, c
  <2>3. CASE ~(stop \/ paused)
    <3>1. clip' = [clip EXCEPT ![c] =
              [clip[c] EXCEPT !.phase = "encoding", !.raw = "whole", !.mp4 = "partial"]]
      BY <1>4, <2>3 DEF StartClip, c
    <3>2. clip'[c].phase = "encoding" /\ \A d \in ClipIds \ {c} : clip'[d] = clip[d]
      <4>1. clip[c] \in ClipRecords
        BY <1>t, <2>1
      <4> QED
        BY <1>t, <2>1, <3>1, <4>1 DEF ClipRecords
    <3> QED
      BY <1>t, <2>1, <3>2 DEF FilesMatchResult
  <2> QED
    BY <2>2, <2>3
<1>5. ASSUME NEW c \in ClipIds, Encode(c) \/ ReleaseClip(c) PROVE FilesMatchResult'
  BY <1>t, <1>5 DEF Encode, ReleaseClip, Finish, NoClip, FilesMatchResult
<1>6. CASE UNCHANGED vars
  BY <1>1, <1>6 DEF vars, clips
<1> QED
  BY <1>2, <1>3, <1>4, <1>5, <1>6 DEF Next, ClipPool

-----------------------------------------------------------------------------
(* The invariant, and what follows from it.                                *)

\* The initial states satisfy the inductive invariant.
LEMMA InitProductionInv == Init => ProductionInv
<1> SUFFICES ASSUME Init PROVE ProductionInv
  OBVIOUS
<1>1. TypeOK /\ SlotsConserved /\ JobRuns /\ InLine
  BY InitTypeOK, InitSlots
<1>2. EmptyUnlessUsed /\ InOnePiece
  BY EmptyConsecutive DEF Init, EmptyUnlessUsed, InOnePiece
<1>3. ShownAsItIs /\ CapturingInLoop
  BY DEF Init, ShownAsItIs, CapturingInLoop, InLoop
<1>4. FilesMatchResult
  BY DEF Init, FilesMatchResult, NoClip
<1> QED
  BY <1>1, <1>2, <1>3, <1>4 DEF ProductionInv

\* ProductionInv holds in every state of every behaviour.
THEOREM ProductionInvariant == Spec => []ProductionInv
<1>1. ProductionInv /\ [Next]_vars => ProductionInv'
  BY TypeStep, SlotsStep, PieceStep, ShownStep, FilesStep DEF ProductionInv
<1> QED
  BY InitProductionInv, <1>1, PTL DEF Spec

\* Whatever the thread, the pools and the page do, every variable keeps its type,
\* and the thread waits for a job exactly where the code blocks on its future.
THEOREM ProductionTypes == Spec => []TypeOK
  BY ProductionInvariant, PTL DEF ProductionInv

\* Neither a timeout, a full pool, a pause, a stop nor a failed transcode loses a
\* slot of the two pools or gives one back twice, however large the pools are.
THEOREM NoSlotLost == Spec => []SlotsConserved
  BY ProductionInvariant, PTL DEF ProductionInv

\* No pause, reconnection or edit of the window, of any length, leaves a hole in a
\* clip.
THEOREM ClipsContiguous == Spec => []ClipsAreOnePiece
<1>1. ProductionInv => ClipsAreOnePiece
  BY PiecesJoin DEF ProductionInv
<1> QED
  BY ProductionInvariant, <1>1, PTL

\* A camera is shown as live, and the connector as capturing, only while the
\* thread is in its loop.
THEOREM StatusTrue == Spec => []ShownAsItIs
  BY ProductionInvariant, PTL DEF ProductionInv

\* A clip job that ends with a path has left one complete file, one that gave up none.
THEOREM ResultsMatchFiles == Spec => []FilesMatchResult
  BY ProductionInvariant, PTL DEF ProductionInv
=============================================================================
