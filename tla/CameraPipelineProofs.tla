------------------------ MODULE CameraPipelineProofs ------------------------
(***************************************************************************)
(* Safety of the recording pipeline for every value of the constants.      *)
(***************************************************************************)
EXTENDS CameraPipeline, SequenceTheorems, FiniteSetTheorems, WellFoundedInduction, TLAPS

(* The frame in the stream goroutine's hand was read before. *)
HeldIsFrame == strPc = "send" => nextFrame > 1

(* Every step keeps the types of the control variables. *)
LEMMA ControlStep == ControlOK /\ [Next]_vars => ControlOK'
<1> SUFFICES ASSUME ControlOK, [Next]_vars PROVE ControlOK'
  OBVIOUS
<1> USE DEF ControlOK, monVars, bcVars, strVars, genVars, perVars, ctlVars
<1>1. CASE Starter
  <2>1. CASE Setup
    BY <2>1 DEF Setup
  <2>2. CASE Start
    BY <2>2 DEF Start
  <2> QED
    BY <1>1, <2>1, <2>2 DEF Starter
<1>2. CASE Schedule
  <2>1. CASE MonitorTick
    BY <2>1 DEF MonitorTick, Event
  <2> QED
    BY <1>2, <2>1 DEF Schedule
<1>3. CASE Monitor
  <2>1. CASE MonitorBegin
    BY <2>1 DEF MonitorBegin
  <2>2. CASE MonitorStop
    BY <2>2 DEF MonitorStop
  <2>3. CASE SendLock
    BY <2>3 DEF SendLock
  <2>4. CASE SendNext
    BY <2>4 DEF SendNext, Listener
  <2>5. CASE SendReturn
    <3>1. wasOff' \in BOOLEAN /\ mutex' \in BOOLEAN
      BY <2>5 DEF SendReturn, Unlock
    <3>2. monPc' = "loop" /\ evt' = "none"
      BY <2>5 DEF SendReturn
    <3>3. UNCHANGED <<ctlVars, listeners, pending, target, strVars, cam, genPc, perPc>>
      BY <2>5 DEF SendReturn
    <3> QED
      BY <3>1, <3>2, <3>3
  <2> QED
    BY <1>3, <2>1, <2>2, <2>3, <2>4, <2>5 DEF Monitor
<1>4. CASE Stream
  <2>1. CASE StreamStop
    BY <2>1 DEF StreamStop
  <2>2. CASE StreamReceive
    BY <2>2 DEF StreamReceive, OnAfter
  <2>3. CASE StreamPoll
    BY <2>3 DEF StreamPoll
  <2>4. CASE StreamRead
    BY <2>4 DEF StreamRead
  <2>5. CASE StreamReadFails
    BY <2>5 DEF StreamReadFails
  <2>6. CASE StreamSend
    BY <2>6 DEF StreamSend
  <2> QED
    BY <1>4, <2>1, <2>2, <2>3, <2>4, <2>5, <2>6 DEF Stream
<1>5. CASE Generate
  <2>1. CASE GenerateStop
    BY <2>1 DEF GenerateStop
  <2>2. CASE GenerateNewClip
    BY <2>2 DEF GenerateNewClip
  <2>3. CASE GenerateAbandon
    BY <2>3 DEF GenerateAbandon
  <2>4. CASE GenerateReceive
    BY <2>4 DEF GenerateReceive
  <2>5. CASE GenerateFrame
    BY <2>5 DEF GenerateFrame
  <2>6. CASE GeneratePut
    BY <2>6 DEF GeneratePut
  <2> QED
    BY <1>5, <2>1, <2>2, <2>3, <2>4, <2>5, <2>6 DEF Generate
<1>6. CASE Persist
  <2>1. CASE PersistStop
    BY <2>1 DEF PersistStop
  <2>2. CASE PersistPoll
    BY <2>2 DEF PersistPoll
  <2>3. CASE PersistIdle
    BY <2>3 DEF PersistIdle
  <2>4. CASE PersistTake
    BY <2>4 DEF PersistTake
  <2>5. CASE PersistWrite
    BY <2>5 DEF PersistWrite
  <2>6. CASE PersistWriteFails
    BY <2>6 DEF PersistWriteFails, AfterWriteError
  <2> QED
    BY <1>6, <2>1, <2>2, <2>3, <2>4, <2>5, <2>6 DEF Persist
<1>7. CASE Shutdown
  <2>1. CASE StopPersist
    BY <2>1 DEF StopPersist, StopPc, Worker
  <2>2. CASE CloseListener
    BY <2>2 DEF CloseListener, ListenersLeft, StopPc
  <2>3. CASE StopGenerate
    BY <2>3 DEF StopGenerate, StopPc, Worker
  <2>4. CASE StopStream
    BY <2>4 DEF StopStream, StopPc, Worker
  <2>5. CASE CloseCamera
    BY <2>5 DEF CloseCamera, StopPc
  <2> QED
    BY <1>7, <2>1, <2>2, <2>3, <2>4, <2>5 DEF Shutdown
<1>8. CASE Waiter
  <2>1. CASE StopWaited
    BY <2>1 DEF StopWaited
  <2> QED
    BY <1>8, <2>1 DEF Waiter
<1>9. CASE StopMonitor
  BY <1>9 DEF StopMonitor, StopPc, Worker
<1>10. CASE Exit
  BY <1>10 DEF Exit, StopPc
<1>11. CASE CameraLost
  BY <1>11 DEF CameraLost
<1>12. CASE UNCHANGED vars
  BY <1>12 DEF vars
<1> QED
  BY <1>1, <1>2, <1>3, <1>4, <1>5, <1>6, <1>7, <1>8, <1>9, <1>10, <1>11, <1>12 DEF Next

(* Nothing but the actions cited below touches frames, clips or the histories. *)
dataVars == <<nextFrame, frames, clips, clip, writing, written, lost>>

LEMMA DataStep == DataOK /\ HeldIsFrame /\ [Next]_vars => DataOK' /\ HeldIsFrame'
<1> SUFFICES ASSUME DataOK, HeldIsFrame, [Next]_vars PROVE DataOK' /\ HeldIsFrame'
  OBVIOUS
<1> USE FramesCapAssumption, ClipsCapAssumption, MaxFramesAssumption
    DEF monVars, bcVars, strVars, genVars, perVars, chanVars, ctlVars, histVars
<1>a. ASSUME UNCHANGED dataVars, strPc' = "send" => strPc = "send"
      PROVE  DataOK' /\ HeldIsFrame'
  BY <1>a DEF dataVars, DataOK, HeldIsFrame
<1>1. CASE Starter
  BY <1>1, <1>a DEF Starter, Setup, Start, dataVars
<1>2. CASE Schedule
  BY <1>2, <1>a DEF Schedule, MonitorTick, dataVars
<1>3. CASE Monitor
  BY <1>3, <1>a DEF Monitor, MonitorBegin, MonitorStop, SendLock, SendNext, SendReturn, dataVars
<1>4. CASE Stream
  <2>1. CASE StreamStop \/ StreamReceive \/ StreamPoll \/ StreamReadFails
    BY <2>1, <1>a DEF StreamStop, StreamReceive, StreamPoll, StreamReadFails, dataVars
  <2>2. CASE StreamRead
    BY <2>2 DEF StreamRead, DataOK, HeldIsFrame
  <2>3. CASE StreamSend
    <3>1. nextFrame - 1 \in Frame
      BY <2>3 DEF StreamSend, DataOK, HeldIsFrame, Frame
    <3>2. lost' \in [Cause -> SUBSET Frame]
      BY <2>3, <3>1 DEF StreamSend, SendOrClose, Lose, DataOK
    <3>3. /\ Append(frames, nextFrame - 1) \in Seq(Frame)
          /\ Len(Append(frames, nextFrame - 1)) = Len(frames) + 1
          /\ Len(frames) \in Nat
      BY <3>1, AppendProperties DEF DataOK
    <3>4. \/ frames' = frames
          \/ Len(frames) < FramesCap /\ frames' = Append(frames, nextFrame - 1)
      BY <2>3 DEF StreamSend, SendOrClose
    <3>5. CASE frames' = frames
      BY <2>3, <3>2, <3>5 DEF StreamSend, DataOK, HeldIsFrame
    <3>6. CASE Len(frames) < FramesCap /\ frames' = Append(frames, nextFrame - 1)
      <4>1. Len(frames') <= FramesCap
        BY <3>3, <3>6 DEF DataOK
      <4> QED
        BY <2>3, <3>2, <3>3, <3>6, <4>1 DEF StreamSend, DataOK, HeldIsFrame
    <3> QED
      BY <3>4, <3>5, <3>6
  <2> QED
    BY <1>4, <2>1, <2>2, <2>3 DEF Stream
<1>5. CASE Generate
  <2>1. CASE GenerateStop \/ GenerateNewClip \/ GenerateReceive
    BY <2>1, <1>a DEF GenerateStop, GenerateNewClip, GenerateReceive, dataVars
  <2>2. CASE GenerateAbandon
    <3>1. Elements(clip) \subseteq Frame
      BY DEF Elements, DataOK, Clip
    <3>2. lost' \in [Cause -> SUBSET Frame]
      BY <2>2, <3>1 DEF GenerateAbandon, Lose, DataOK
    <3>3. clip' \in Clip
      BY <2>2 DEF GenerateAbandon, Clip
    <3> QED
      BY <2>2, <3>2, <3>3 DEF GenerateAbandon, DataOK, HeldIsFrame
  <2>3. CASE GenerateFrame
    <3>1. /\ Head(frames) \in Frame /\ Tail(frames) \in Seq(Frame)
          /\ Len(Tail(frames)) <= FramesCap
      BY <2>3, HeadTailProperties DEF GenerateFrame, DataOK
    <3>2. lost' \in [Cause -> SUBSET Frame]
      BY <2>3, <3>1 DEF GenerateFrame, Lose, DataOK
    <3>3. Append(clip, Head(frames)) \in Clip
      BY <3>1, AppendProperties DEF DataOK, Clip
    <3>4. clip' \in Clip
      BY <2>3, <3>3 DEF GenerateFrame, DataOK
    <3> QED
      BY <2>3, <3>1, <3>2, <3>4 DEF GenerateFrame, DataOK, HeldIsFrame
  <2>4. CASE GeneratePut
    <3>1. clips' \in Seq(Clip) /\ Len(clips') <= ClipsCap
      BY <2>4, AppendProperties DEF GeneratePut, ClipsRoom, DataOK
    <3>2. clip' \in Clip
      BY <2>4 DEF GeneratePut, Clip
    <3> QED
      BY <2>4, <3>1, <3>2 DEF GeneratePut, DataOK, HeldIsFrame
  <2> QED
    BY <1>5, <2>1, <2>2, <2>3, <2>4 DEF Generate
<1>6. CASE Persist
  <2>1. CASE PersistStop \/ PersistPoll \/ PersistIdle
    BY <2>1, <1>a DEF PersistStop, PersistPoll, PersistIdle, dataVars
  <2>2. CASE PersistTake
    <3>1. /\ Head(clips) \in Clip /\ Tail(clips) \in Seq(Clip)
          /\ Len(Tail(clips)) <= ClipsCap
      BY <2>2, HeadTailProperties DEF PersistTake, DataOK
    <3> QED
      BY <2>2, <3>1 DEF PersistTake, DataOK, HeldIsFrame
  <2>3. CASE PersistWrite
    <3>1. written' \in Seq(Clip)
      BY <2>3, AppendProperties DEF PersistWrite, DataOK
    <3>2. writing' \in Clip
      BY <2>3 DEF PersistWrite, Clip
    <3> QED
      BY <2>3, <3>1, <3>2 DEF PersistWrite, DataOK, HeldIsFrame
  <2>4. CASE PersistWriteFails
    <3>1. Elements(writing) \subseteq Frame
      BY DEF Elements, DataOK, Clip
    <3>2. lost' \in [Cause -> SUBSET Frame]
      BY <2>4, <3>1 DEF PersistWriteFails, Lose, DataOK
    <3>3. writing' \in Clip
      BY <2>4 DEF PersistWriteFails, Clip
    <3> QED
      BY <2>4, <3>2, <3>3 DEF PersistWriteFails, DataOK, HeldIsFrame
  <2> QED
    BY <1>6, <2>1, <2>2, <2>3, <2>4 DEF Persist
<1>7. CASE StopMonitor \/ Shutdown \/ Waiter \/ Exit \/ CameraLost
  BY <1>7, <1>a DEF StopMonitor, Shutdown, StopPersist, CloseListener, StopGenerate, StopStream,
              CloseCamera, Waiter, StopWaited, Exit, CameraLost, dataVars
<1>8. CASE UNCHANGED vars
  BY <1>8, <1>a DEF vars, dataVars
<1> QED
  BY <1>1, <1>2, <1>3, <1>4, <1>5, <1>6, <1>7, <1>8 DEF Next

LEMMA DataInit == Init => DataOK /\ HeldIsFrame
BY FramesCapAssumption, ClipsCapAssumption, MaxFramesAssumption
   DEF Init, DataOK, HeldIsFrame, Clip

(***************************************************************************)
(* Type correctness, with the bounds of both channels: no goroutine ever   *)
(* puts more into them than core.go gives them room for.                   *)
(***************************************************************************)
THEOREM TypeCorrect == Spec => []TypeOK
<1>1. Init => ControlOK
  BY DEF Init, ControlOK, Worker, Listener, Event, StopPc
<1> QED
  BY <1>1, DataInit, ControlStep, DataStep, PTL DEF Spec, TypeOK

-----------------------------------------------------------------------------
(* The inductive invariant behind the safety of the event path. *)

(* Before Start there are no goroutines; before Setup nobody can call Stop. *)
StartInv ==
    /\ startPc = "new" => stopPc = "run"
    /\ startPc # "started" => /\ monPc = "idle" /\ strPc = "idle"
                              /\ genPc = "idle" /\ perPc = "idle"
    /\ startPc # "new" => "stream" \in listeners

(* The mutex is held exactly during Send, which serves each listener once. *)
SendInv ==
    /\ mutex <=> monPc = "send"
    /\ ~mutex => pending = {} /\ target = "none"
    /\ pending \subseteq listeners /\ target \in listeners \cup {"none"}
    /\ target \notin pending

(* How far Stop has come tells what is cancelled and who still listens. *)
StopInv ==
    /\ "generate" \in cancelled => stopPc \in {"stream", "camera", "returned", "exited"}
    /\ "stream" \in cancelled => stopPc \in {"camera", "returned", "exited"}
    /\ stopPc \in {"generate", "stream", "camera", "returned", "exited"}
          => "generate" \notin listeners

DoneInv == stopDone => AllWaitedFor

ShutInv == StartInv /\ SendInv /\ StopInv /\ DoneInv

(* The event under way is the one that changes what was announced last. *)
AnnounceInv ==
    /\ monPc \in {"lock", "send"} /\ wasOff => evt = "ON"
    /\ monPc \in {"lock", "send"} /\ ~wasOff => evt = "OFF"

(* Between deciding to read and having sent the frame, the stream is on. *)
ReadInv == strPc \in {"read", "send"} => isOn

FollowInv == AnnounceInv /\ StreamFollowsMonitor /\ ReadInv

(* Every step keeps the first half of it: who runs, who listens, who holds what. *)
LEMMA ShutStep == ControlOK /\ ShutInv /\ [Next]_vars => ShutInv'
<1> SUFFICES ASSUME ControlOK, ShutInv, [Next]_vars PROVE ShutInv'
  OBVIOUS
<1> USE DEF ControlOK, ShutInv, StartInv, SendInv, StopInv, DoneInv, AllWaitedFor,
        monVars, bcVars, strVars, genVars, perVars, ctlVars
<1>1. CASE Starter
  <2>1. CASE Setup
    BY <2>1 DEF Setup, Listener
  <2>2. CASE Start
    BY <2>2 DEF Start
  <2> QED
    BY <1>1, <2>1, <2>2 DEF Starter
<1>2. CASE Schedule
  BY <1>2 DEF Schedule, MonitorTick
<1>3. CASE Monitor
  <2>1. CASE MonitorBegin
    BY <2>1 DEF MonitorBegin
  <2>2. CASE MonitorStop
    BY <2>2 DEF MonitorStop
  <2>3. CASE SendLock
    <3>1. StartInv' /\ StopInv' /\ DoneInv'
      BY <2>3 DEF SendLock
    <3>2. target = "none" /\ target' = "none" /\ pending' = listeners /\ listeners' = listeners
      BY <2>3 DEF SendLock
    <3>3. mutex' /\ monPc' = "send"
      BY <2>3 DEF SendLock
    <3> QED
      BY <3>1, <3>2, <3>3 DEF Listener
  <2>4. CASE SendNext
    BY <2>4 DEF SendNext, Listener
  <2>5. CASE SendReturn
    BY <2>5 DEF SendReturn, Unlock
  <2> QED
    BY <1>3, <2>1, <2>2, <2>3, <2>4, <2>5 DEF Monitor
<1>4. CASE Stream
  <2>1. CASE StreamStop
    BY <2>1 DEF StreamStop
  <2>2. CASE StreamReceive
    <3>1. StartInv' /\ StopInv' /\ DoneInv'
      BY <2>2 DEF StreamReceive
    <3>2. target' = "none" /\ UNCHANGED <<monPc, mutex, pending, listeners>>
      BY <2>2 DEF StreamReceive
    <3>3. "none" \notin pending
      BY DEF Listener
    <3> QED
      BY <3>1, <3>2, <3>3
  <2>3. CASE StreamPoll
    BY <2>3 DEF StreamPoll
  <2>4. CASE StreamRead
    BY <2>4 DEF StreamRead
  <2>5. CASE StreamReadFails
    BY <2>5 DEF StreamReadFails
  <2>6. CASE StreamSend
    BY <2>6 DEF StreamSend
  <2> QED
    BY <1>4, <2>1, <2>2, <2>3, <2>4, <2>5, <2>6 DEF Stream
<1>5. CASE Generate
  <2>1. CASE GenerateStop
    BY <2>1 DEF GenerateStop
  <2>2. CASE GenerateNewClip
    BY <2>2 DEF GenerateNewClip
  <2>3. CASE GenerateAbandon
    BY <2>3 DEF GenerateAbandon
  <2>4. CASE GenerateReceive
    <3>1. StartInv' /\ StopInv' /\ DoneInv'
      BY <2>4 DEF GenerateReceive
    <3>2. target' = "none" /\ UNCHANGED <<monPc, mutex, pending, listeners>>
      BY <2>4 DEF GenerateReceive
    <3>3. "none" \notin pending
      BY DEF Listener
    <3> QED
      BY <3>1, <3>2, <3>3
  <2>5. CASE GenerateFrame
    BY <2>5 DEF GenerateFrame
  <2>6. CASE GeneratePut
    BY <2>6 DEF GeneratePut
  <2> QED
    BY <1>5, <2>1, <2>2, <2>3, <2>4, <2>5, <2>6 DEF Generate
<1>6. CASE Persist
  <2>1. CASE PersistStop
    BY <2>1 DEF PersistStop
  <2>2. CASE PersistPoll
    BY <2>2 DEF PersistPoll
  <2>3. CASE PersistIdle
    BY <2>3 DEF PersistIdle
  <2>4. CASE PersistTake
    BY <2>4 DEF PersistTake
  <2>5. CASE PersistWrite
    BY <2>5 DEF PersistWrite
  <2>6. CASE PersistWriteFails
    BY <2>6 DEF PersistWriteFails, AfterWriteError
  <2> QED
    BY <1>6, <2>1, <2>2, <2>3, <2>4, <2>5, <2>6 DEF Persist
<1>7. CASE Shutdown
  <2>1. CASE StopPersist
    BY <2>1 DEF StopPersist
  <2>2. CASE CloseListener
    BY <2>2 DEF CloseListener, ListenersLeft
  <2>3. CASE StopGenerate
    BY <2>3 DEF StopGenerate
  <2>4. CASE StopStream
    BY <2>4 DEF StopStream
  <2>5. CASE CloseCamera
    BY <2>5 DEF CloseCamera
  <2> QED
    BY <1>7, <2>1, <2>2, <2>3, <2>4, <2>5 DEF Shutdown
<1>8. CASE Waiter
  BY <1>8 DEF Waiter, StopWaited
<1>9. CASE StopMonitor
  BY <1>9 DEF StopMonitor
<1>10. CASE Exit
  BY <1>10 DEF Exit
<1>11. CASE CameraLost
  BY <1>11 DEF CameraLost
<1>12. CASE UNCHANGED vars
  BY <1>12 DEF vars
<1> QED
  BY <1>1, <1>2, <1>3, <1>4, <1>5, <1>6, <1>7, <1>8, <1>9, <1>10, <1>11, <1>12 DEF Next

(* Every step keeps the second half: what the stream has been told. *)
LEMMA FollowStep == ControlOK /\ ShutInv /\ FollowInv /\ [Next]_vars => FollowInv'
<1> SUFFICES ASSUME ControlOK, ShutInv, FollowInv, [Next]_vars PROVE FollowInv'
  OBVIOUS
<1> USE DEF ControlOK, ShutInv, StartInv, SendInv, FollowInv, AnnounceInv,
        StreamFollowsMonitor, Undelivered, ReadInv,
        monVars, bcVars, strVars, genVars, perVars, ctlVars
<1>1. CASE Starter
  <2>1. CASE Setup
    BY <2>1 DEF Setup
  <2>2. CASE Start
    BY <2>2 DEF Start
  <2> QED
    BY <1>1, <2>1, <2>2 DEF Starter
<1>2. CASE Schedule
  BY <1>2 DEF Schedule, MonitorTick
<1>3. CASE Monitor
  <2>1. CASE MonitorBegin
    BY <2>1 DEF MonitorBegin
  <2>2. CASE MonitorStop
    BY <2>2 DEF MonitorStop
  <2>3. CASE SendLock
    BY <2>3 DEF SendLock
  <2>4. CASE SendNext
    BY <2>4 DEF SendNext, Listener
  <2>5. CASE SendReturn
    BY <2>5 DEF SendReturn, Unlock
  <2> QED
    BY <1>3, <2>1, <2>2, <2>3, <2>4, <2>5 DEF Monitor
<1>4. CASE Stream
  <2>1. CASE StreamStop
    BY <2>1 DEF StreamStop
  <2>2. CASE StreamReceive
    BY <2>2 DEF StreamReceive, OnAfter
  <2>3. CASE StreamPoll
    BY <2>3 DEF StreamPoll, ShouldStream
  <2>4. CASE StreamRead
    BY <2>4 DEF StreamRead
  <2>5. CASE StreamReadFails
    BY <2>5 DEF StreamReadFails
  <2>6. CASE StreamSend
    BY <2>6 DEF StreamSend
  <2> QED
    BY <1>4, <2>1, <2>2, <2>3, <2>4, <2>5, <2>6 DEF Stream
<1>5. CASE Generate
  <2>1. CASE GenerateStop
    BY <2>1 DEF GenerateStop
  <2>2. CASE GenerateNewClip
    BY <2>2 DEF GenerateNewClip
  <2>3. CASE GenerateAbandon
    BY <2>3 DEF GenerateAbandon
  <2>4. CASE GenerateReceive
    BY <2>4 DEF GenerateReceive
  <2>5. CASE GenerateFrame
    BY <2>5 DEF GenerateFrame
  <2>6. CASE GeneratePut
    BY <2>6 DEF GeneratePut
  <2> QED
    BY <1>5, <2>1, <2>2, <2>3, <2>4, <2>5, <2>6 DEF Generate
<1>6. CASE Persist
  <2>1. CASE PersistStop
    BY <2>1 DEF PersistStop
  <2>2. CASE PersistPoll
    BY <2>2 DEF PersistPoll
  <2>3. CASE PersistIdle
    BY <2>3 DEF PersistIdle
  <2>4. CASE PersistTake
    BY <2>4 DEF PersistTake
  <2>5. CASE PersistWrite
    BY <2>5 DEF PersistWrite
  <2>6. CASE PersistWriteFails
    BY <2>6 DEF PersistWriteFails
  <2> QED
    BY <1>6, <2>1, <2>2, <2>3, <2>4, <2>5, <2>6 DEF Persist
<1>7. CASE Shutdown
  <2>1. CASE StopPersist
    BY <2>1 DEF StopPersist
  <2>2. CASE CloseListener
    BY <2>2 DEF CloseListener
  <2>3. CASE StopGenerate
    BY <2>3 DEF StopGenerate
  <2>4. CASE StopStream
    BY <2>4 DEF StopStream
  <2>5. CASE CloseCamera
    BY <2>5 DEF CloseCamera
  <2> QED
    BY <1>7, <2>1, <2>2, <2>3, <2>4, <2>5 DEF Shutdown
<1>8. CASE Waiter
  BY <1>8 DEF Waiter, StopWaited
<1>9. CASE StopMonitor
  BY <1>9 DEF StopMonitor
<1>10. CASE Exit
  BY <1>10 DEF Exit
<1>11. CASE CameraLost
  BY <1>11 DEF CameraLost
<1>12. CASE UNCHANGED vars
  BY <1>12 DEF vars
<1> QED
  BY <1>1, <1>2, <1>3, <1>4, <1>5, <1>6, <1>7, <1>8, <1>9, <1>10, <1>11, <1>12 DEF Next

(* What the inductive invariant needs holds from the start. *)
LEMMA SafeInv == Spec => [](ControlOK /\ ShutInv /\ FollowInv)
<1>1. Init => ControlOK
  BY DEF Init, ControlOK, Worker, Listener, Event, StopPc
<1>2. Init => ShutInv
  BY DEF Init, ShutInv, StartInv, SendInv, StopInv, DoneInv, Worker
<1>3. Init => FollowInv
  BY DEF Init, FollowInv, AnnounceInv, StreamFollowsMonitor, Undelivered, ReadInv
<1> QED
  BY <1>1, <1>2, <1>3, ControlStep, ShutStep, FollowStep, PTL DEF Spec

(***************************************************************************)
(* The stream goroutine's isOn and the monitor's wasOff agree, except      *)
(* between a delivery and the return of Send: sendEvtOnCameraStateChange   *)
(* and run of stream_conn_process.go never drift apart.                    *)
(***************************************************************************)
THEOREM StreamFollows == Spec => []StreamFollowsMonitor
  BY SafeInv, PTL DEF FollowInv

(***************************************************************************)
(* A Send never waits for the cancelled generator, nor for the cancelled   *)
(* stream while Stop may still need the mutex.                             *)
(***************************************************************************)
THEOREM SendHarmless == Spec => []SendNeverStrandsStop
<1>1. ControlOK /\ ShutInv => SendNeverStrandsStop
  BY DEF ControlOK, ShutInv, SendInv, StopInv, SendNeverStrandsStop, Undelivered, Listener
<1> QED
  BY <1>1, SafeInv, PTL

(***************************************************************************)
(* No read of the camera ends after Send(CAM_SWITCHED_OFF_EVT) returned    *)
(* and before the next Send.                                               *)
(***************************************************************************)
THEOREM NoFramesWhenOff == Spec => OffMeansNoFrames
<1>1. FollowInv /\ [Next]_vars => [(wasOff /\ monPc # "send") => nextFrame' = nextFrame]_vars
  <2> SUFFICES ASSUME FollowInv, [Next]_vars, wasOff, monPc # "send"
               PROVE  nextFrame' = nextFrame
    OBVIOUS
  <2> USE DEF histVars
  <2>1. ~StreamRead
    BY DEF FollowInv, StreamFollowsMonitor, ReadInv, StreamRead
  <2>2. CASE Starter \/ Schedule \/ Monitor
    BY <2>2 DEF Starter, Setup, Start, Schedule, MonitorTick, Monitor, MonitorBegin, MonitorStop,
                SendLock, SendNext, SendReturn
  <2>3. CASE Stream
    BY <2>1, <2>3 DEF Stream, StreamStop, StreamReceive, StreamPoll, StreamReadFails, StreamSend
  <2>4. CASE Generate
    BY <2>4 DEF Generate, GenerateStop, GenerateNewClip, GenerateAbandon, GenerateReceive,
                GenerateFrame, GeneratePut
  <2>5. CASE Persist
    BY <2>5 DEF Persist, PersistStop, PersistPoll, PersistIdle, PersistTake, PersistWrite,
                PersistWriteFails
  <2>6. CASE StopMonitor \/ Shutdown \/ Waiter \/ Exit \/ CameraLost
    BY <2>6 DEF StopMonitor, Shutdown, StopPersist, CloseListener, StopGenerate, StopStream,
                CloseCamera, Waiter, StopWaited, Exit, CameraLost
  <2>7. CASE UNCHANGED vars
    BY <2>7 DEF vars
  <2> QED
    BY <2>2, <2>3, <2>4, <2>5, <2>6, <2>7 DEF Next
<1> QED
  BY <1>1, SafeInv, PTL DEF Spec, OffMeansNoFrames

(***************************************************************************)
(* Once the channel that Stop returned is closed, the pipeline stands      *)
(* still: the goroutines persistCameraToDisk.wait has waited for are all   *)
(* the ones that could move a frame or a clip.                             *)
(***************************************************************************)
THEOREM QuietAfterStop == Spec => QuietWhenStopDone
<1>1. ShutInv /\ [Next]_vars =>
         [stopDone => UNCHANGED <<frames, clips, clip, written, nextFrame, isOn>>]_vars
  <2> SUFFICES ASSUME ShutInv, [Next]_vars, stopDone
               PROVE  UNCHANGED <<frames, clips, clip, written, nextFrame, isOn>>
    OBVIOUS
  <2> USE DEF chanVars, histVars, genVars, strVars
  <2>1. genPc = "done" /\ strPc = "done" /\ perPc = "done"
    BY DEF ShutInv, DoneInv, AllWaitedFor
  <2>2. CASE Starter \/ Schedule \/ Monitor
    BY <2>1, <2>2
       DEF Starter, Setup, Start, Schedule, MonitorTick, Monitor, MonitorBegin, MonitorStop,
                SendLock, SendNext, SendReturn
  <2>3. CASE Stream
    BY <2>1, <2>3 DEF Stream, StreamStop, StreamReceive, StreamPoll, StreamRead,
                StreamReadFails, StreamSend
  <2>4. CASE Generate
    BY <2>1, <2>4 DEF Generate, GenerateStop, GenerateNewClip, GenerateAbandon, GenerateReceive,
                GenerateFrame, GeneratePut
  <2>5. CASE Persist
    BY <2>1, <2>5 DEF Persist, PersistStop, PersistPoll, PersistIdle, PersistTake, PersistWrite,
                PersistWriteFails
  <2>6. CASE StopMonitor \/ Shutdown \/ Waiter \/ Exit \/ CameraLost
    BY <2>6 DEF StopMonitor, Shutdown, StopPersist, CloseListener, StopGenerate, StopStream,
                CloseCamera, Waiter, StopWaited, Exit, CameraLost
  <2>7. CASE UNCHANGED vars
    BY <2>7 DEF vars
  <2> QED
    BY <2>2, <2>3, <2>4, <2>5, <2>6, <2>7 DEF Next
<1> QED
  BY <1>1, SafeInv, PTL DEF Spec, QuietWhenStopDone

-----------------------------------------------------------------------------
(* Where a frame can be. *)
Place == {"disk", "writing", "queue", "clip", "frames", "held"} \cup Cause

FramesOf(cs) == UNION {Elements(cs[i]) : i \in 1..Len(cs)}

At == [p \in Place |-> CASE p = "disk"    -> FramesOf(written)
                         [] p = "writing" -> Elements(writing)
                         [] p = "queue"   -> FramesOf(clips)
                         [] p = "clip"    -> Elements(clip)
                         [] p = "frames"  -> Elements(frames)
                         [] p = "held"    -> Elements(Held)
                         [] OTHER         -> lost[p]]

(* Exactly the frames read so far are somewhere, each in one place. *)
Placed(at, n) ==
    /\ \A f \in Frame : f < n <=> \E p \in Place : f \in at[p]
    /\ \A p, q \in Place : p # q => at[p] \cap at[q] = {}

NoRepeats(s) == \A i, j \in 1..Len(s) : s[i] = s[j] => i = j
Apart(cs) == \A i, j \in 1..Len(cs) : i # j => Elements(cs[i]) \cap Elements(cs[j]) = {}

PlaceInv ==
    /\ Placed(At, nextFrame)
    /\ NoRepeats(frames) /\ Apart(clips)
    /\ perPc # "write" => writing = <<>>

(* A step takes the frames M from p to q. *)
Moves(p, q, M) ==
    /\ p \in Place /\ q \in Place /\ p # q /\ M \subseteq At[p]
    /\ \A r \in Place : At'[r] = IF r = p THEN At[r] \ M
                                 ELSE IF r = q THEN At[r] \cup M ELSE At[r]

(* Frames that go from one place to another are in one place still. *)
LEMMA Moved ==
  ASSUME PlaceInv, NEW p, NEW q, NEW M, Moves(p, q, M)
  PROVE  Placed(At', nextFrame)
<1> USE DEF Moves
<1>1. /\ \A f \in Frame : f < nextFrame <=> \E r \in Place : f \in At[r]
      /\ \A r, s \in Place : r # s => At[r] \cap At[s] = {}
  BY DEF PlaceInv, Placed
<1>2. /\ At'[p] = At[p] \ M /\ At'[q] = At[q] \cup M
      /\ \A r \in Place \ {p, q} : At'[r] = At[r]
  OBVIOUS
<1>3. ASSUME NEW f, NEW r \in Place, f \in At[r] PROVE \E s \in Place : f \in At'[s]
  BY <1>2, <1>3
<1>4. ASSUME NEW f, NEW r \in Place, f \in At'[r] PROVE \E s \in Place : f \in At[s]
  BY <1>2, <1>4
<1>5. ASSUME NEW r \in Place, NEW s \in Place, r # s PROVE At'[r] \cap At'[s] = {}
  BY <1>1, <1>2, <1>5
<1> QED
  BY <1>1, <1>3, <1>4, <1>5 DEF Placed

(* The elements of a sequence, of its parts, and of one that grows. *)
LEMMA ElementsAppend ==
  ASSUME NEW S, NEW s \in Seq(S), NEW e \in S
  PROVE  /\ Elements(Append(s, e)) = Elements(s) \cup {e}
         /\ NoRepeats(s) /\ e \notin Elements(s) => NoRepeats(Append(s, e))
<1> DEFINE t == Append(s, e)
<1>1. /\ Len(s) \in Nat /\ Len(t) = Len(s) + 1 /\ t[Len(s) + 1] = e
      /\ \A i \in 1..Len(s) : t[i] = s[i]
  BY AppendProperties
<1> HIDE DEF t
<1>2. 1..Len(t) = 1..Len(s) \cup {Len(s) + 1}
  BY <1>1
<1>3. Elements(t) = Elements(s) \cup {e}
  BY <1>1, <1>2 DEF Elements
<1>4. ASSUME NoRepeats(s), e \notin Elements(s) PROVE NoRepeats(t)
  BY <1>1, <1>2, <1>4 DEF NoRepeats, Elements
<1> QED
  BY <1>3, <1>4 DEF t

LEMMA ElementsTail ==
  ASSUME NEW S, NEW s \in Seq(S), s # <<>>
  PROVE  /\ Elements(s) = Elements(Tail(s)) \cup {Head(s)}
         /\ NoRepeats(s) => NoRepeats(Tail(s)) /\ Head(s) \notin Elements(Tail(s))
<1> DEFINE t == Tail(s)
<1>1. /\ Len(s) \in Nat /\ Len(s) >= 1 /\ Len(t) = Len(s) - 1 /\ Head(s) = s[1]
      /\ \A i \in 1..Len(t) : t[i] = s[i + 1]
  BY HeadTailProperties, EmptySeq
<1> HIDE DEF t
<1>2. /\ \A i \in 1..Len(t) : i + 1 \in 1..Len(s) /\ i + 1 # 1
      /\ \A i \in 1..Len(s) : i = 1 \/ (i - 1 \in 1..Len(t) /\ s[i] = t[i - 1])
  BY <1>1
<1>3. Elements(s) = Elements(t) \cup {s[1]}
  <2>1. ASSUME NEW x \in Elements(s) PROVE x \in Elements(t) \cup {s[1]}
    BY <1>2 DEF Elements
  <2>2. ASSUME NEW x \in Elements(t) PROVE x \in Elements(s)
    BY <1>1, <1>2 DEF Elements
  <2>3. s[1] \in Elements(s)
    BY <1>1 DEF Elements
  <2> QED
    BY <2>1, <2>2, <2>3
<1>4. ASSUME NoRepeats(s) PROVE NoRepeats(t) /\ s[1] \notin Elements(t)
  <2>1. ASSUME NEW i \in 1..Len(t), NEW j \in 1..Len(t), t[i] = t[j] PROVE i = j
    <3>1. i + 1 \in 1..Len(s) /\ j + 1 \in 1..Len(s) /\ s[i + 1] = s[j + 1]
      BY <1>1, <1>2, <2>1
    <3>2. i + 1 = j + 1
      BY <1>4, <3>1 DEF NoRepeats
    <3> QED
      BY <3>2
  <2>2. ASSUME NEW i \in 1..Len(t) PROVE t[i] # s[1]
    <3>1. 1 \in 1..Len(s)
      BY <1>1
    <3> QED
      BY <1>1, <1>2, <1>4, <3>1 DEF NoRepeats
  <2> QED
    BY <2>1, <2>2 DEF NoRepeats, Elements
<1> QED
  BY <1>1, <1>3, <1>4 DEF t

(* The same for the frames of a sequence of clips. *)
LEMMA FramesAppend ==
  ASSUME NEW cs \in Seq(Clip), NEW c \in Clip
  PROVE  /\ FramesOf(Append(cs, c)) = FramesOf(cs) \cup Elements(c)
         /\ Apart(cs) /\ FramesOf(cs) \cap Elements(c) = {} => Apart(Append(cs, c))
<1> DEFINE ds == Append(cs, c)
<1>1. /\ Len(cs) \in Nat /\ Len(ds) = Len(cs) + 1 /\ ds[Len(cs) + 1] = c
      /\ \A i \in 1..Len(cs) : ds[i] = cs[i]
  BY AppendProperties
<1> HIDE DEF ds
<1>2. 1..Len(ds) = 1..Len(cs) \cup {Len(cs) + 1}
  BY <1>1
<1>3. FramesOf(ds) = FramesOf(cs) \cup Elements(c)
  BY <1>1, <1>2 DEF FramesOf
<1>4. ASSUME Apart(cs), FramesOf(cs) \cap Elements(c) = {} PROVE Apart(ds)
  <2>1. \A i \in 1..Len(cs) : Elements(cs[i]) \subseteq FramesOf(cs)
    BY DEF FramesOf
  <2>2. \A i \in 1..Len(cs) : Elements(cs[i]) \cap Elements(c) = {}
    BY <1>4, <2>1
  <2> QED
    BY <1>1, <1>2, <1>4, <2>2 DEF Apart
<1> QED
  BY <1>3, <1>4 DEF ds

LEMMA FramesTail ==
  ASSUME NEW cs \in Seq(Clip), cs # <<>>
  PROVE  /\ FramesOf(cs) = FramesOf(Tail(cs)) \cup Elements(Head(cs))
         /\ Apart(cs) => Apart(Tail(cs)) /\ FramesOf(Tail(cs)) \cap Elements(Head(cs)) = {}
<1> DEFINE ds == Tail(cs)
<1>1. /\ Len(cs) \in Nat /\ Len(cs) >= 1 /\ Len(ds) = Len(cs) - 1 /\ Head(cs) = cs[1]
      /\ \A i \in 1..Len(ds) : ds[i] = cs[i + 1]
  BY HeadTailProperties, EmptySeq
<1> HIDE DEF ds
<1>2. /\ \A i \in 1..Len(ds) : i + 1 \in 1..Len(cs) /\ i + 1 # 1
      /\ \A i \in 1..Len(cs) : i = 1 \/ (i - 1 \in 1..Len(ds) /\ cs[i] = ds[i - 1])
  BY <1>1
<1>3. FramesOf(cs) = FramesOf(ds) \cup Elements(cs[1])
  <2>1. ASSUME NEW i \in 1..Len(cs), NEW x \in Elements(cs[i])
        PROVE  x \in FramesOf(ds) \cup Elements(cs[1])
    BY <1>2 DEF FramesOf
  <2>2. ASSUME NEW i \in 1..Len(ds), NEW x \in Elements(ds[i]) PROVE x \in FramesOf(cs)
    BY <1>1, <1>2 DEF FramesOf
  <2>3. Elements(cs[1]) \subseteq FramesOf(cs)
    BY <1>1 DEF FramesOf
  <2> QED
    BY <2>1, <2>2, <2>3 DEF FramesOf
<1>4. ASSUME Apart(cs) PROVE Apart(ds) /\ FramesOf(ds) \cap Elements(cs[1]) = {}
  <2>1. ASSUME NEW i \in 1..Len(ds), NEW j \in 1..Len(ds), i # j
        PROVE  Elements(ds[i]) \cap Elements(ds[j]) = {}
    <3>1. /\ i + 1 \in 1..Len(cs) /\ j + 1 \in 1..Len(cs) /\ i + 1 # j + 1
          /\ ds[i] = cs[i + 1] /\ ds[j] = cs[j + 1]
      BY <1>1, <1>2, <2>1
    <3> QED
      BY <1>4, <3>1 DEF Apart
  <2>2. ASSUME NEW i \in 1..Len(ds) PROVE Elements(ds[i]) \cap Elements(cs[1]) = {}
    <3>1. 1 \in 1..Len(cs)
      BY <1>1
    <3> QED
      BY <1>1, <1>2, <1>4, <3>1 DEF Apart
  <2> QED
    BY <2>1, <2>2 DEF Apart, FramesOf
<1> QED
  BY <1>1, <1>3, <1>4 DEF ds

LEMMA ElementsEmpty == Elements(<<>>) = {}
BY DEF Elements

LEMMA HeldIs ==
  /\ strPc = "send" => Elements(Held) = {nextFrame - 1}
  /\ strPc # "send" => Elements(Held) = {}
BY DEF Elements, Held

LEMMA PlaceInit == Init => PlaceInv
<1> SUFFICES ASSUME Init PROVE PlaceInv
  OBVIOUS
<1> USE DEF Init
<1>1. \A p \in Place : At[p] = {}
  <2>1. Elements(Held) = {} /\ FramesOf(<<>>) = {}
    BY HeldIs DEF FramesOf
  <2> QED
    BY <2>1, ElementsEmpty DEF At, Place, Cause
<1>2. \A f \in Frame : ~(f < nextFrame)
  BY DEF Frame
<1> QED
  BY <1>1, <1>2 DEF PlaceInv, Placed, NoRepeats, Apart

LEMMA PlaceStep == DataOK /\ HeldIsFrame /\ StartInv /\ PlaceInv /\ [Next]_vars => PlaceInv'
<1> SUFFICES ASSUME DataOK, HeldIsFrame, StartInv, PlaceInv, [Next]_vars PROVE PlaceInv'
  OBVIOUS
<1> USE DEF monVars, bcVars, strVars, genVars, perVars, chanVars, ctlVars, histVars
<1>h. Elements(Held)' = IF strPc' = "send" THEN {nextFrame' - 1} ELSE {}
  BY DEF Elements, Held
<1>a. ASSUME UNCHANGED dataVars, strPc' = "send" <=> strPc = "send",
             perPc' = "write" <=> perPc = "write"
      PROVE  PlaceInv'
  <2>1. Elements(Held)' = Elements(Held)
    BY <1>a, <1>h, HeldIs DEF dataVars
  <2>2. \A p \in Place : At'[p] = At[p]
    BY <1>a, <2>1 DEF dataVars, At
  <2>3. Placed(At', nextFrame')
    BY <1>a, <2>2 DEF dataVars, PlaceInv, Placed
  <2> QED
    BY <1>a, <2>3 DEF dataVars, PlaceInv
<1>1. CASE Starter
  BY <1>1, <1>a DEF Starter, Setup, Start, StartInv, dataVars
<1>2. CASE Schedule
  BY <1>2, <1>a DEF Schedule, MonitorTick, dataVars
<1>3. CASE Monitor
  BY <1>3, <1>a DEF Monitor, MonitorBegin, MonitorStop, SendLock, SendNext, SendReturn, dataVars
<1>4. CASE Stream
  <2>1. CASE StreamStop \/ StreamReceive \/ StreamPoll \/ StreamReadFails
    BY <2>1, <1>a DEF StreamStop, StreamReceive, StreamPoll, StreamReadFails, dataVars
  <2>2. CASE StreamRead
    <3> USE <2>2 DEF StreamRead
    <3>1. Elements(Held) = {} /\ Elements(Held)' = {nextFrame} /\ nextFrame \in Frame
      BY <1>h, HeldIs DEF DataOK, Frame
    <3>2. /\ At'["held"] = {nextFrame} /\ At["held"] = {}
          /\ \A p \in Place \ {"held"} : At'[p] = At[p]
      BY <3>1 DEF At, Place, Cause
    <3>3. \A p \in Place : nextFrame \notin At[p]
      BY <3>1 DEF PlaceInv, Placed, DataOK
    <3>4. "held" \in Place
      BY DEF Place
    <3>5. \A f \in Frame : f < nextFrame + 1 <=> f < nextFrame \/ f = nextFrame
      BY <3>1 DEF Frame
    <3>6. \A f \in Frame : f < nextFrame' <=> \E p \in Place : f \in At'[p]
      BY <3>2, <3>4, <3>5 DEF PlaceInv, Placed
    <3>7. \A p, q \in Place : p # q => At'[p] \cap At'[q] = {}
      BY <3>2, <3>3, <3>4 DEF PlaceInv, Placed
    <3> QED
      BY <3>6, <3>7 DEF PlaceInv, Placed
  <2>3. CASE StreamSend
    <3> USE <2>3 DEF StreamSend, SendOrClose
    <3> DEFINE f == nextFrame - 1
    <3>1. Elements(Held) = {f} /\ Elements(Held)' = {} /\ f \in Frame
      <4>1. nextFrame - 1 \in Frame
        BY MaxFramesAssumption DEF DataOK, HeldIsFrame, Frame
      <4>2. Elements(Held) = {f} /\ Elements(Held)' = {}
        BY <1>h, HeldIs
      <4> QED
        BY <4>1, <4>2
    <3>2. {"held", "frames", "closed"} \subseteq Place
      BY DEF Place, Cause
    <3>3. f \notin Elements(frames)
      <4>1. At["held"] = {f} /\ At["frames"] = Elements(frames) /\ "held" # "frames"
        BY <3>1, <3>2 DEF At
      <4> QED
        BY <3>2, <4>1 DEF PlaceInv, Placed
    <3> HIDE DEF f
    <3>4. CASE frames' = Append(frames, f) /\ UNCHANGED lost
      <4>1. Elements(frames') = Elements(frames) \cup {f} /\ NoRepeats(frames')
        BY <3>1, <3>3, <3>4, ElementsAppend DEF DataOK, PlaceInv
      <4>2. Moves("held", "frames", {f})
        BY <3>1, <3>4, <4>1 DEF Moves, At, Place, Cause
      <4>3. Placed(At', nextFrame)
        BY <3>1, <3>2, <4>2, Moved
      <4> QED
        BY <4>1, <4>3 DEF PlaceInv
    <3>5. CASE Lose("closed", {f}) /\ UNCHANGED frames
      <4>1. \A c \in Cause : lost'[c] = IF c = "closed" THEN lost[c] \cup {f} ELSE lost[c]
        BY <3>5 DEF Lose, DataOK
      <4>2. Moves("held", "closed", {f})
        BY <3>1, <3>5, <4>1 DEF Moves, At, Place, Cause
      <4>3. Placed(At', nextFrame)
        BY <3>1, <3>2, <4>2, Moved
      <4> QED
        BY <3>5, <4>3 DEF PlaceInv
    <3> QED
      BY <3>4, <3>5 DEF f
  <2> QED
    BY <1>4, <2>1, <2>2, <2>3 DEF Stream
<1>5. CASE Generate
  <2>1. CASE GenerateStop \/ GenerateNewClip \/ GenerateReceive
    BY <2>1, <1>a DEF GenerateStop, GenerateNewClip, GenerateReceive, dataVars
  <2>2. CASE GenerateAbandon
    <3> USE <2>2 DEF GenerateAbandon
    <3> DEFINE M == Elements(clip)
    <3>1. Elements(Held)' = Elements(Held) /\ Elements(clip') = {}
      BY <1>h, HeldIs, ElementsEmpty
    <3>2. \A c \in Cause : lost'[c] = IF c = "abandoned" THEN lost[c] \cup M ELSE lost[c]
      BY DEF Lose, DataOK
    <3>3. Moves("clip", "abandoned", M)
      BY <3>1, <3>2 DEF Moves, At, Place, Cause
    <3>4. {"clip", "abandoned"} \subseteq Place /\ M \subseteq At["clip"]
      BY DEF At, Place, Cause
    <3>5. Placed(At', nextFrame)
      BY <3>3, <3>4, Moved
    <3> QED
      BY <3>5 DEF PlaceInv
  <2>3. CASE GenerateFrame
    <3> USE <2>3 DEF GenerateFrame
    <3> DEFINE f == Head(frames)
    <3>1. /\ f \in Frame /\ Elements(frames) = Elements(frames') \cup {f}
          /\ NoRepeats(frames') /\ f \notin Elements(frames')
      BY HeadTailProperties, ElementsTail DEF DataOK, PlaceInv
    <3>2. Elements(Held)' = Elements(Held)
      BY <1>h, HeldIs
    <3>3. {"frames", "swallowed", "clip"} \subseteq Place /\ {f} \subseteq At["frames"]
      BY <3>1 DEF At, Place, Cause
    <3> HIDE DEF f
    <3>4. CASE Lose("swallowed", {f}) /\ UNCHANGED clip
      <4>1. \A c \in Cause : lost'[c] = IF c = "swallowed" THEN lost[c] \cup {f} ELSE lost[c]
        BY <3>4 DEF Lose, DataOK
      <4>2. Moves("frames", "swallowed", {f})
        BY <3>1, <3>2, <3>4, <4>1 DEF Moves, At, Place, Cause
      <4>3. Placed(At', nextFrame)
        BY <3>3, <4>2, Moved
      <4> QED
        BY <3>1, <4>3 DEF PlaceInv
    <3>5. CASE clip' = Append(clip, f) /\ UNCHANGED lost
      <4>1. Elements(clip') = Elements(clip) \cup {f}
        BY <3>1, <3>5, ElementsAppend DEF DataOK, Clip
      <4>2. Moves("frames", "clip", {f})
        BY <3>1, <3>2, <3>5, <4>1 DEF Moves, At, Place, Cause
      <4>3. Placed(At', nextFrame)
        BY <3>3, <4>2, Moved
      <4> QED
        BY <3>1, <4>3 DEF PlaceInv
    <3> QED
      BY <3>4, <3>5 DEF f
  <2>4. CASE GeneratePut
    <3> USE <2>4 DEF GeneratePut
    <3> DEFINE M == Elements(clip)
    <3>1. Elements(Held)' = Elements(Held) /\ Elements(clip') = {}
      BY <1>h, HeldIs, ElementsEmpty
    <3>2. {"clip", "queue"} \subseteq Place /\ M \subseteq At["clip"]
      BY DEF At, Place
    <3>3. FramesOf(clips) \cap M = {}
      BY <3>2 DEF PlaceInv, Placed, At
    <3>4. FramesOf(clips') = FramesOf(clips) \cup M /\ Apart(clips')
      BY <3>3, FramesAppend DEF DataOK, PlaceInv
    <3>5. Moves("clip", "queue", M)
      BY <3>1, <3>4 DEF Moves, At, Place, Cause
    <3>6. Placed(At', nextFrame)
      BY <3>2, <3>5, Moved
    <3> QED
      BY <3>4, <3>6 DEF PlaceInv
  <2> QED
    BY <1>5, <2>1, <2>2, <2>3, <2>4 DEF Generate
<1>6. CASE Persist
  <2>1. CASE PersistStop \/ PersistPoll \/ PersistIdle
    BY <2>1, <1>a DEF PersistStop, PersistPoll, PersistIdle, dataVars
  <2>2. CASE PersistTake
    <3> USE <2>2 DEF PersistTake
    <3> DEFINE M == Elements(writing')
    <3>1. Elements(Held)' = Elements(Held) /\ Elements(writing) = {}
      BY <1>h, HeldIs, ElementsEmpty DEF PlaceInv
    <3>2. /\ FramesOf(clips) = FramesOf(clips') \cup M /\ FramesOf(clips') \cap M = {}
          /\ Apart(clips')
      BY FramesTail DEF DataOK, PlaceInv
    <3>3. {"queue", "writing"} \subseteq Place /\ M \subseteq At["queue"]
      BY <3>2 DEF At, Place
    <3>4. Moves("queue", "writing", M)
      BY <3>1, <3>2 DEF Moves, At, Place, Cause
    <3>5. Placed(At', nextFrame)
      BY <3>3, <3>4, Moved
    <3> QED
      BY <3>2, <3>5 DEF PlaceInv
  <2>3. CASE PersistWrite
    <3> USE <2>3 DEF PersistWrite
    <3> DEFINE M == Elements(writing)
    <3>1. Elements(Held)' = Elements(Held) /\ Elements(writing') = {}
      BY <1>h, HeldIs, ElementsEmpty
    <3>2. FramesOf(written') = FramesOf(written) \cup M
      BY FramesAppend DEF DataOK
    <3>3. Moves("writing", "disk", M)
      BY <3>1, <3>2 DEF Moves, At, Place, Cause
    <3>4. {"writing", "disk"} \subseteq Place /\ M \subseteq At["writing"]
      BY DEF At, Place
    <3>5. Placed(At', nextFrame)
      BY <3>3, <3>4, Moved
    <3> QED
      BY <3>5 DEF PlaceInv
  <2>4. CASE PersistWriteFails
    <3> USE <2>4 DEF PersistWriteFails
    <3> DEFINE M == Elements(writing)
    <3>1. Elements(Held)' = Elements(Held) /\ Elements(writing') = {}
      BY <1>h, HeldIs, ElementsEmpty
    <3>2. \A c \in Cause : lost'[c] = IF c = "unwritten" THEN lost[c] \cup M ELSE lost[c]
      BY DEF Lose, DataOK
    <3>3. Moves("writing", "unwritten", M)
      BY <3>1, <3>2 DEF Moves, At, Place, Cause
    <3>4. {"writing", "unwritten"} \subseteq Place /\ M \subseteq At["writing"]
      BY DEF At, Place, Cause
    <3>5. Placed(At', nextFrame)
      BY <3>3, <3>4, Moved
    <3> QED
      BY <3>5 DEF PlaceInv
  <2> QED
    BY <1>6, <2>1, <2>2, <2>3, <2>4 DEF Persist
<1>7. CASE StopMonitor \/ Shutdown \/ Waiter \/ Exit \/ CameraLost
  BY <1>7, <1>a DEF StopMonitor, Shutdown, StopPersist, CloseListener, StopGenerate, StopStream,
              CloseCamera, Waiter, StopWaited, Exit, CameraLost, dataVars
<1>8. CASE UNCHANGED vars
  BY <1>8, <1>a DEF vars, dataVars
<1> QED
  BY <1>1, <1>2, <1>3, <1>4, <1>5, <1>6, <1>7, <1>8 DEF Next

(* Line is the pipeline, place by place. *)
LEMMA FramesConcat ==
  ASSUME NEW cs \in Seq(Clip), NEW ds \in Seq(Clip)
  PROVE  FramesOf(cs \o ds) = FramesOf(cs) \cup FramesOf(ds)
<1> DEFINE es == cs \o ds
<1>1. /\ Len(cs) \in Nat /\ Len(ds) \in Nat /\ Len(es) = Len(cs) + Len(ds)
      /\ \A i \in 1..Len(es) : es[i] = IF i <= Len(cs) THEN cs[i] ELSE ds[i - Len(cs)]
  BY ConcatProperties
<1> HIDE DEF es
<1>2. ASSUME NEW i \in 1..Len(es)
      PROVE  \/ i \in 1..Len(cs) /\ es[i] = cs[i]
             \/ i - Len(cs) \in 1..Len(ds) /\ es[i] = ds[i - Len(cs)]
  BY <1>1
<1>3. ASSUME NEW i \in 1..Len(cs) PROVE i \in 1..Len(es) /\ es[i] = cs[i]
  BY <1>1
<1>4. ASSUME NEW i \in 1..Len(ds)
      PROVE  Len(cs) + i \in 1..Len(es) /\ es[Len(cs) + i] = ds[i]
  BY <1>1
<1>5. FramesOf(es) \subseteq FramesOf(cs) \cup FramesOf(ds)
  BY <1>2 DEF FramesOf
<1>6. FramesOf(cs) \subseteq FramesOf(es)
  BY <1>3 DEF FramesOf
<1>7. FramesOf(ds) \subseteq FramesOf(es)
  BY <1>4 DEF FramesOf
<1> QED
  BY <1>5, <1>6, <1>7 DEF es

LEMMA InLineIs ==
  ASSUME DataOK, HeldIsFrame
  PROVE  InLine = FramesOf(written) \cup Elements(writing) \cup FramesOf(clips)
                    \cup Elements(clip) \cup Elements(frames) \cup Elements(Held)
<1>1. InLine = FramesOf(Line)
  BY DEF InLine, FramesOf
<1>2. /\ written \in Seq(Clip) /\ writing \in Clip /\ clips \in Seq(Clip) /\ clip \in Clip
      /\ frames \in Clip /\ Held \in Clip
  <2>1. strPc = "send" => nextFrame - 1 \in Frame
    BY MaxFramesAssumption DEF DataOK, HeldIsFrame, Frame
  <2>2. Held \in Clip
    BY <2>1 DEF Held, Clip
  <2> QED
    BY <2>2 DEF DataOK, Clip
<1>3. <<writing>> \in Seq(Clip) /\ <<clip, frames, Held>> \in Seq(Clip)
  BY <1>2
<1>4. FramesOf(<<writing>>) = Elements(writing)
  BY DEF FramesOf
<1>5. FramesOf(<<clip, frames, Held>>) = Elements(clip) \cup Elements(frames) \cup Elements(Held)
  <2> DEFINE cs == <<clip, frames, Held>>
  <2>1. 1..Len(cs) = {1, 2, 3} /\ cs[1] = clip /\ cs[2] = frames /\ cs[3] = Held
    OBVIOUS
  <2> HIDE DEF cs
  <2> QED
    BY <2>1 DEF FramesOf, cs
<1> DEFINE begun == written \o <<writing>>
<1>6. begun \in Seq(Clip) /\ FramesOf(begun) = FramesOf(written) \cup Elements(writing)
  <2>1. begun \in Seq(Clip)
    BY <1>2, <1>3, ConcatProperties
  <2>2. FramesOf(begun) = FramesOf(written) \cup FramesOf(<<writing>>)
    BY <1>2, <1>3, FramesConcat
  <2> QED
    BY <1>4, <2>1, <2>2
<1> HIDE DEF begun
<1>7. /\ begun \o clips \in Seq(Clip)
      /\ FramesOf(begun \o clips) = FramesOf(begun) \cup FramesOf(clips)
  BY <1>2, <1>6, FramesConcat
<1>8. FramesOf((begun \o clips) \o <<clip, frames, Held>>)
        = FramesOf(begun \o clips) \cup FramesOf(<<clip, frames, Held>>)
  BY <1>3, <1>7, FramesConcat
<1> QED
  BY <1>1, <1>5, <1>6, <1>7, <1>8 DEF Line, begun

LEMMA PlaceAlways == Spec => [](DataOK /\ HeldIsFrame /\ StartInv /\ PlaceInv)
<1>1. Init => DataOK /\ HeldIsFrame
  BY DataInit
<1>2. ShutInv => StartInv
  BY DEF ShutInv
<1> QED
  BY <1>1, <1>2, SafeInv, DataStep, PlaceInit, PlaceStep, PTL DEF Spec

(***************************************************************************)
(* Each frame the camera gave is in exactly one place of the pipeline, on  *)
(* disk, or lost for exactly one cause: no hand-over between stream,       *)
(* makeClip and the persister loses a frame silently or closes it twice.   *)
(***************************************************************************)
THEOREM AllFramesAccountedFor == Spec => []EveryFrameAccountedFor
<1>1. DataOK /\ HeldIsFrame /\ PlaceInv => EveryFrameAccountedFor
  <2> SUFFICES ASSUME DataOK, HeldIsFrame, PlaceInv, NEW f \in Frame
               PROVE  Cardinality({c \in Cause : f \in lost[c]}) + (IF f \in InLine THEN 1 ELSE 0)
                        = IF f < nextFrame THEN 1 ELSE 0
    BY DEF EveryFrameAccountedFor
  <2> DEFINE causes == {c \in Cause : f \in lost[c]}
  <2>1. \A c \in Cause : c \in Place /\ At[c] = lost[c]
    BY DEF At, Place, Cause
  <2>2. f \in InLine <=> \E p \in Place \ Cause : f \in At[p]
    <3>1. /\ At["disk"] = FramesOf(written) /\ At["writing"] = Elements(writing)
          /\ At["queue"] = FramesOf(clips) /\ At["clip"] = Elements(clip)
          /\ At["frames"] = Elements(frames) /\ At["held"] = Elements(Held)
      BY DEF At, Place
    <3>2. Place \ Cause = {"disk", "writing", "queue", "clip", "frames", "held"}
      BY DEF Place, Cause
    <3> QED
      BY <3>1, <3>2, InLineIs
  <2>3. CASE ~(f < nextFrame)
    <3>1. \A p \in Place : f \notin At[p]
      BY <2>3 DEF PlaceInv, Placed
    <3>2. causes = {} /\ f \notin InLine
      BY <2>1, <2>2, <3>1
    <3> QED
      BY <2>3, <3>2, FS_EmptySet
  <2>4. CASE f < nextFrame
    <3>1. PICK p \in Place : f \in At[p]
      BY <2>4 DEF PlaceInv, Placed
    <3>2. \A q \in Place : f \in At[q] => q = p
      BY <3>1 DEF PlaceInv, Placed
    <3>3. CASE p \in Cause
      <4>1. causes = {p} /\ f \notin InLine
        BY <2>1, <2>2, <3>1, <3>2, <3>3
      <4>2. Cardinality(causes) = 1
        BY <4>1, FS_Singleton
      <4> QED
        BY <2>4, <4>1, <4>2
    <3>4. CASE p \notin Cause
      <4>1. causes = {} /\ f \in InLine
        BY <2>1, <2>2, <3>1, <3>2, <3>4
      <4>2. Cardinality(causes) = 0
        BY <4>1, FS_EmptySet
      <4> QED
        BY <2>4, <4>1, <4>2
    <3> QED
      BY <3>3, <3>4
  <2> QED
    BY <2>3, <2>4
<1> QED
  BY <1>1, PlaceAlways, PTL

-----------------------------------------------------------------------------
(* Of a set of naturals one is the least, so what each natural up to n passes on, all have. *)
LEMMA UpTo ==
  ASSUME NEW N \in Nat, NEW S, 0 \in S, \A n \in 0..(N - 1) : n \in S => n + 1 \in S
  PROVE  \A n \in 0..N : n \in S
<1> SUFFICES ASSUME NEW k \in 0..N, k \notin S PROVE FALSE
  OBVIOUS
<1> DEFINE lt == OpToRel(<, Nat)
           out == {n \in 0..N : n \notin S}
<1>1. IsWellFoundedOn(lt, Nat)
  BY NatLessThanWellFounded
<1>2. \A m, n \in Nat : <<m, n>> \in lt <=> m < n
  BY DEF OpToRel
<1> HIDE DEF lt
<1>3. out \subseteq Nat /\ k \in out
  OBVIOUS
<1>4. PICK m \in out : \A n \in out : ~(<<n, m>> \in lt)
  <2> HIDE DEF out
  <2> QED
    BY <1>1, <1>3, WFMin
<1>5. m \in 0..N /\ m \notin S /\ m # 0
  BY <1>4
<1>6. /\ m - 1 \in 0..(N - 1) /\ m - 1 \in 0..N /\ m - 1 + 1 = m /\ m - 1 < m
      /\ m \in Nat /\ m - 1 \in Nat
  BY <1>5
<1>7. m - 1 \notin S
  BY <1>5, <1>6
<1>8. m - 1 \in out
  BY <1>6, <1>7
<1>9. ~(<<m - 1, m>> \in lt)
  BY <1>4, <1>8, Zenon
<1> QED
  BY <1>2, <1>6, <1>9

(* The frames of the clips of cs, in order, up to the n-th clip. *)
Flat(cs) == CHOOSE q : q = [n \in 0..Len(cs) |-> IF n = 0 THEN <<>> ELSE q[n - 1] \o cs[n]]

(* Clips are sequences: what \o does with them. *)
Associative(a, b, c) == (a \o b) \o c = a \o (b \o c)

LEMMA Associates ==
  ASSUME NEW a \in Clip, NEW b \in Clip, NEW c \in Clip
  PROVE  Associative(a, b, c)
BY ConcatAssociative DEF Clip, Associative

LEMMA Joins ==
  ASSUME NEW a \in Clip, NEW b \in Clip
  PROVE  /\ a \o b \in Clip /\ Len(a \o b) = Len(a) + Len(b) /\ Len(a) \in Nat
         /\ <<>> \in Clip /\ a \o <<>> = a /\ <<>> \o a = a
<1> USE DEF Clip
<1>1. a \o b \in Clip /\ Len(a \o b) = Len(a) + Len(b)
  BY ConcatProperties
<1>2. a \o <<>> = a /\ <<>> \o a = a
  BY ConcatEmptySeq
<1> QED
  BY <1>1, <1>2

LEMMA FlatIs ==
  ASSUME NEW cs \in Seq(Clip)
  PROVE  /\ Flat(cs)[0] = <<>>
         /\ \A n \in 0..(Len(cs) - 1) : Flat(cs)[n + 1] = Flat(cs)[n] \o cs[n + 1]
         /\ \A n \in 0..Len(cs) : Flat(cs)[n] \in Clip
<1> DEFINE N == Len(cs)
           Good(m, q) == q = [n \in 0..m |-> IF n = 0 THEN <<>> ELSE q[n - 1] \o cs[n]]
           S == {m \in 0..N : \E q : Good(m, q)}
<1>1. N \in Nat
  OBVIOUS
<1>2. 0 \in S
  <2> DEFINE q == [n \in 0..0 |-> <<>>]
  <2>1. Good(0, q) /\ 0 \in 0..N
    BY <1>1
  <2> HIDE DEF q, Good
  <2> QED
    BY <2>1
<1>3. ASSUME NEW m \in 0..(N - 1), m \in S PROVE m + 1 \in S
  <2>1. PICK q : Good(m, q)
    BY <1>3
  <2> DEFINE r == [n \in 0..(m + 1) |-> IF n = m + 1 THEN q[m] \o cs[m + 1] ELSE q[n]]
  <2>2. ASSUME NEW n \in 0..(m + 1)
        PROVE  r[n] = IF n = 0 THEN <<>> ELSE r[n - 1] \o cs[n]
    <3>1. CASE n = m + 1
      <4>1. m \in 0..(m + 1) /\ m # m + 1 /\ n # 0 /\ n - 1 = m
        BY <1>1, <3>1
      <4> QED
        BY <3>1, <4>1
    <3>2. CASE n # m + 1
      <4>1. n \in 0..m /\ r[n] = q[n] /\ (n # 0 => n - 1 \in 0..(m + 1) /\ n - 1 # m + 1)
        BY <1>1, <3>2
      <4>2. q[n] = IF n = 0 THEN <<>> ELSE q[n - 1] \o cs[n]
        BY <2>1, <4>1
      <4> QED
        BY <4>1, <4>2
    <3> QED
      BY <3>1, <3>2
  <2>3. Good(m + 1, r)
    BY <2>2
  <2>4. m + 1 \in 0..N
    BY <1>1
  <2> HIDE DEF Good, r
  <2> QED
    BY <2>3, <2>4
<1> HIDE DEF S
<1>4. N \in S
  <2>1. \A n \in 0..N : n \in S
    BY <1>1, <1>2, <1>3, UpTo
  <2> QED
    BY <1>1, <2>1
<1>5. PICK q : Good(N, q)
  BY <1>4 DEF S
<1>6. Flat(cs) = [n \in 0..N |-> IF n = 0 THEN <<>> ELSE Flat(cs)[n - 1] \o cs[n]]
  BY <1>5 DEF Flat
<1> HIDE DEF N, Good
<1>7. /\ Flat(cs)[0] = <<>>
      /\ \A n \in 0..(N - 1) : Flat(cs)[n + 1] = Flat(cs)[n] \o cs[n + 1]
  <2> DEFINE f == Flat(cs)
  <2> HIDE DEF f
  <2>1. f = [n \in 0..N |-> IF n = 0 THEN <<>> ELSE f[n - 1] \o cs[n]]
    BY <1>6 DEF f
  <2>2. \A n \in 0..N : f[n] = IF n = 0 THEN <<>> ELSE f[n - 1] \o cs[n]
    BY ONLY <2>1, Zenon
  <2>3. f[0] = <<>>
    BY <1>1, <2>2
  <2>4. \A m \in 0..N : m # 0 => f[m] = f[m - 1] \o cs[m]
    BY <2>2
  <2>5. ASSUME NEW n \in 0..(N - 1) PROVE f[n + 1] = f[n] \o cs[n + 1]
    <3>1. PICK m \in 0..N : m = n + 1 /\ m # 0 /\ m - 1 = n
      BY <1>1
    <3>2. f[m] = f[m - 1] \o cs[m]
      BY <2>4, <3>1
    <3> QED
      BY <3>1, <3>2
  <2> QED
    BY <2>3, <2>5 DEF f
<1> DEFINE T == {n \in 0..N : Flat(cs)[n] \in Clip}
<1>8. 0 \in T
  <2>1. 0 \in 0..N /\ <<>> \in Clip
    BY <1>1 DEF Clip
  <2> QED
    BY <1>7, <2>1
<1>9. ASSUME NEW n \in 0..(N - 1), n \in T PROVE n + 1 \in T
  <2>1. n + 1 \in 1..N /\ n + 1 \in 0..N /\ n + 1 - 1 = n
    BY <1>1
  <2>2. Flat(cs)[n] \in Clip /\ cs[n + 1] \in Clip
    BY <1>9, <2>1, ElementOfSeq DEF N
  <2>3. Flat(cs)[n] \o cs[n + 1] \in Clip
    BY <2>2, ConcatProperties DEF Clip
  <2>4. Flat(cs)[n + 1] = Flat(cs)[n] \o cs[n + 1]
    BY <1>7, Zenon
  <2> QED
    BY <2>1, <2>3, <2>4
<1> HIDE DEF T
<1>10. \A n \in 0..N : n \in T
  BY <1>1, <1>8, <1>9, UpTo
<1> QED
  BY <1>7, <1>10 DEF T, N

(* All frames of the clips. *)
Flatten(cs) == Flat(cs)[Len(cs)]

LEMMA FlattenEmpty == Flatten(<<>>) = <<>>
<1>1. <<>> \in Seq(Clip) /\ Len(<<>>) = 0
  OBVIOUS
<1> QED
  BY <1>1, FlatIs DEF Flatten

LEMMA FlattenAppend ==
  ASSUME NEW cs \in Seq(Clip), NEW c \in Clip
  PROVE  Flatten(Append(cs, c)) = Flatten(cs) \o c
<1> DEFINE ds == Append(cs, c)
           N == Len(cs)
           S == {n \in 0..N : Flat(ds)[n] = Flat(cs)[n]}
<1>1. /\ ds \in Seq(Clip) /\ N \in Nat /\ Len(ds) = N + 1 /\ ds[N + 1] = c
      /\ \A i \in 1..N : ds[i] = cs[i]
  BY AppendProperties
<1>f. /\ Flat(cs)[0] = <<>>
      /\ \A n \in 0..(N - 1) : Flat(cs)[n + 1] = Flat(cs)[n] \o cs[n + 1]
  BY FlatIs
<1> HIDE DEF N, ds
<1>g. /\ Flat(ds)[0] = <<>>
      /\ \A n \in 0..N : Flat(ds)[n + 1] = Flat(ds)[n] \o ds[n + 1]
  <2>1. Len(ds) - 1 = N
    BY <1>1
  <2> QED
    BY <1>1, <2>1, FlatIs
<1>2. 0 \in S
  BY <1>1, <1>f, <1>g
<1>3. ASSUME NEW n \in 0..(N - 1), n \in S PROVE n + 1 \in S
  <2>1. n + 1 \in 1..N /\ n + 1 \in 0..N /\ n \in 0..N
    BY <1>1
  <2>2. Flat(cs)[n + 1] = Flat(cs)[n] \o cs[n + 1]
    BY <1>f, Zenon
  <2>3. Flat(ds)[n + 1] = Flat(ds)[n] \o ds[n + 1]
    BY <1>g, <2>1, Zenon
  <2> QED
    BY <1>1, <1>3, <2>1, <2>2, <2>3
<1> HIDE DEF S
<1>4. N \in S
  <2>1. \A n \in 0..N : n \in S
    BY <1>1, <1>2, <1>3, UpTo
  <2> QED
    BY <1>1, <2>1
<1>5. Flat(ds)[N + 1] = Flat(ds)[N] \o c
  <2>1. N \in 0..N
    BY <1>1
  <2>2. Flat(ds)[N + 1] = Flat(ds)[N] \o ds[N + 1]
    BY <1>g, <2>1, Zenon
  <2> QED
    BY <1>1, <2>2
<1> QED
  BY <1>1, <1>4, <1>5 DEF S, Flatten, ds, N

LEMMA FlattenTail ==
  ASSUME NEW cs \in Seq(Clip), cs # <<>>
  PROVE  Flatten(cs) = Head(cs) \o Flatten(Tail(cs))
<1> DEFINE ds == Tail(cs)
           N == Len(ds)
           c == Head(cs)
           S == {n \in 0..N : Flat(cs)[n + 1] = c \o Flat(ds)[n]}
<1>1. /\ ds \in Seq(Clip) /\ N \in Nat /\ Len(cs) = N + 1 /\ c = cs[1] /\ c \in Clip
      /\ \A i \in 1..N : ds[i] = cs[i + 1] /\ ds[i] \in Clip
  BY HeadTailProperties, EmptySeq, ElementOfSeq
<1>f. /\ \A n \in 0..N : Flat(cs)[n + 1] = Flat(cs)[n] \o cs[n + 1]
      /\ Flat(cs)[0] = <<>>
  <2>1. Len(cs) - 1 = N
    BY <1>1
  <2> QED
    BY <1>1, <2>1, FlatIs
<1>g. /\ Flat(ds)[0] = <<>> /\ \A n \in 0..N : Flat(ds)[n] \in Clip
      /\ \A n \in 0..(N - 1) : Flat(ds)[n + 1] = Flat(ds)[n] \o ds[n + 1]
  BY <1>1, FlatIs
<1> HIDE DEF ds, N, c
<1>2. 0 \in S
  <2>1. 0 \in 0..N /\ 0 + 1 = 1
    BY <1>1
  <2>2. Flat(cs)[1] = <<>> \o c /\ Flat(ds)[0] = <<>>
    BY <1>1, <1>f, <1>g, <2>1
  <2>3. <<>> \o c = c /\ c \o <<>> = c
    BY <1>1, ConcatEmptySeq DEF Clip
  <2> QED
    BY <2>1, <2>2, <2>3
<1>3. ASSUME NEW n \in 0..(N - 1), n \in S PROVE n + 1 \in S
  <2>1. n + 1 \in 1..N /\ n + 1 \in 0..N /\ n \in 0..N
    BY <1>1
  <2>2. Flat(cs)[n + 1 + 1] = Flat(cs)[n + 1] \o cs[n + 1 + 1]
    BY <1>f, <2>1, Zenon
  <2>3. Flat(ds)[n + 1] = Flat(ds)[n] \o ds[n + 1] /\ Flat(ds)[n] \in Clip
    BY <1>g, <2>1, Zenon
  <2>4. ds[n + 1] = cs[n + 1 + 1] /\ ds[n + 1] \in Clip
    BY <1>1, <2>1, Zenon
  <2>5. Associative(c, Flat(ds)[n], ds[n + 1])
    BY <1>1, <2>3, <2>4, Associates
  <2> QED
    BY <1>3, <2>1, <2>2, <2>3, <2>4, <2>5 DEF Associative
<1> HIDE DEF S
<1>4. N \in S
  <2>1. \A n \in 0..N : n \in S
    BY <1>1, <1>2, <1>3, UpTo
  <2> QED
    BY <1>1, <2>1
<1> QED
  BY <1>1, <1>4 DEF S, Flatten, ds, N, c

-----------------------------------------------------------------------------
(* Cutting a sequence of frames in two. *)
LEMMA Cut ==
  ASSUME NEW a \in Clip, NEW b \in Clip
  PROVE  /\ SubSeq(a \o b, 1, Len(a)) = a
         /\ SubSeq(a \o b, Len(a) + 1, Len(a \o b)) = b
<1> DEFINE ab == a \o b
           l == SubSeq(ab, 1, Len(a))
           r == SubSeq(ab, Len(a) + 1, Len(ab))
<1>1. /\ ab \in Seq(Frame) /\ Len(a) \in Nat /\ Len(b) \in Nat /\ Len(ab) = Len(a) + Len(b)
      /\ \A i \in 1..(Len(a) + Len(b)) : ab[i] = IF i <= Len(a) THEN a[i] ELSE b[i - Len(a)]
      /\ a \in Seq(Frame) /\ b \in Seq(Frame)
  BY ConcatProperties DEF Clip
<1> HIDE DEF ab
<1>2. \A i \in 1..Len(ab) : ab[i] \in Frame
  BY <1>1, ElementOfSeq
<1>3. l = a
  <2>1. \A i \in 1..Len(a) : i \in 1..Len(ab) /\ i \in 1..(Len(a) + Len(b)) /\ i <= Len(a)
    BY <1>1
  <2>2. \A i \in 1..Len(a) : ab[i] \in Frame
    BY <1>2, <2>1
  <2>3. /\ l \in Seq(Frame) /\ Len(l) = Len(a)
        /\ \A i \in 1..Len(a) : l[i] = ab[1 + i - 1]
    <3>1. /\ l \in Seq(Frame) /\ Len(l) = IF 1 <= Len(a) THEN Len(a) - 1 + 1 ELSE 0
          /\ \A i \in 1..(Len(a) - 1 + 1) : l[i] = ab[1 + i - 1]
      BY <1>1, <2>2, SubSeqProperties
    <3>2. Len(a) - 1 + 1 = Len(a) /\ (~(1 <= Len(a)) => Len(a) = 0)
      BY <1>1
    <3> QED
      BY <3>1, <3>2
  <2> HIDE DEF l
  <2>4. \A i \in 1..Len(a) : l[i] = a[i]
    <3> SUFFICES ASSUME NEW i \in 1..Len(a) PROVE l[i] = a[i]
      OBVIOUS
    <3>1. 1 + i - 1 = i
      BY <1>1
    <3> QED
      BY <1>1, <2>1, <2>3, <3>1
  <2> QED
    BY <1>1, <2>3, <2>4, SeqEqual
<1>4. r = b
  <2>1. \A i \in 1..Len(b) : /\ Len(a) + i \in 1..(Len(a) + Len(b)) /\ ~(Len(a) + i <= Len(a))
                             /\ Len(a) + i - Len(a) = i /\ Len(a) + 1 + i - 1 = Len(a) + i
    BY <1>1
  <2>2. \A i \in (Len(a) + 1)..Len(ab) : ab[i] \in Frame
    <3> SUFFICES ASSUME NEW i \in (Len(a) + 1)..Len(ab) PROVE ab[i] \in Frame
      OBVIOUS
    <3>1. i \in 1..Len(ab)
      BY <1>1
    <3> QED
      BY <1>2, <3>1
  <2>3. /\ r \in Seq(Frame) /\ Len(r) = Len(b)
        /\ \A i \in 1..Len(b) : r[i] = ab[Len(a) + 1 + i - 1]
    <3>0. Len(a) + 1 \in Int /\ Len(ab) \in Int
      BY <1>1
    <3>1. /\ r \in Seq(Frame)
          /\ Len(r) = IF Len(a) + 1 <= Len(ab) THEN Len(ab) - (Len(a) + 1) + 1 ELSE 0
          /\ \A i \in 1..(Len(ab) - (Len(a) + 1) + 1) : r[i] = ab[Len(a) + 1 + i - 1]
      BY <2>2, <3>0, SubSeqProperties
    <3>2. /\ Len(ab) - (Len(a) + 1) + 1 = Len(b)
          /\ ~(Len(a) + 1 <= Len(ab)) => Len(b) = 0
      BY <1>1
    <3> QED
      BY <3>1, <3>2
  <2> HIDE DEF r
  <2>4. \A i \in 1..Len(b) : r[i] = b[i]
    <3> SUFFICES ASSUME NEW i \in 1..Len(b) PROVE r[i] = b[i]
      OBVIOUS
    <3>1. r[i] = ab[Len(a) + i]
      BY <2>1, <2>3
    <3>2. ab[Len(a) + i] = b[i]
      <4>1. ab[Len(a) + i] = b[Len(a) + i - Len(a)]
        BY <1>1, <2>1
      <4> QED
        BY <2>1, <4>1
    <3> QED
      BY <3>1, <3>2
  <2> QED
    BY <1>1, <2>3, <2>4, SeqEqual
<1> QED
  BY <1>3, <1>4 DEF ab, l, r

LEMMA HeadFirst ==
  ASSUME NEW s \in Clip, s # <<>>
  PROVE  s = <<Head(s)>> \o Tail(s) /\ <<Head(s)>> \in Clip /\ Tail(s) \in Clip
<1>1. Head(s) \in Frame /\ Tail(s) \in Clip
  BY HeadTailProperties DEF Clip
<1>2. <<Head(s)>> \in Clip
  BY <1>1 DEF Clip
<1>3. Len(s) \in 1..Len(s) /\ 1 \in 1..Len(s) /\ s \in Seq(Frame)
  BY EmptySeq DEF Clip
<1>4. SubSeq(s, 1, Len(s)) = <<s[1]>> \o SubSeq(s, 1 + 1, Len(s))
  BY <1>3, SubSeqRecursiveFirst
<1>5. SubSeq(s, 1, Len(s)) = s /\ Tail(s) = SubSeq(s, 2, Len(s)) /\ Head(s) = s[1]
  BY <1>3, SubSeqFull, TailIsSubSeq
<1> QED
  BY <1>1, <1>2, <1>4, <1>5

-----------------------------------------------------------------------------
(* No clip is longer than a clip may be, wherever it is. *)
ShortInv ==
    /\ Len(clip) <= FramesPerClip /\ Len(writing) <= FramesPerClip
    /\ \A i \in 1..Len(clips) : Len(clips[i]) <= FramesPerClip

LEMMA ShortStep == DataOK /\ ShortInv /\ [Next]_vars => ShortInv'
<1> SUFFICES ASSUME DataOK, ShortInv, [Next]_vars PROVE ShortInv'
  OBVIOUS
<1> USE FramesPerClipAssumption
    DEF monVars, bcVars, strVars, genVars, perVars, chanVars, ctlVars, histVars
<1>a. ASSUME UNCHANGED <<clip, clips, writing>> PROVE ShortInv'
  BY <1>a DEF ShortInv
<1>1. CASE Starter
  BY <1>1, <1>a DEF Starter, Setup, Start
<1>2. CASE Schedule
  BY <1>2, <1>a DEF Schedule, MonitorTick
<1>3. CASE Monitor
  BY <1>3, <1>a DEF Monitor, MonitorBegin, MonitorStop, SendLock, SendNext, SendReturn
<1>4. CASE Stream
  BY <1>4, <1>a DEF Stream, StreamStop, StreamReceive, StreamPoll, StreamRead, StreamReadFails,
                    StreamSend
<1>5. CASE Generate
  <2>1. CASE GenerateStop \/ GenerateNewClip \/ GenerateReceive
    BY <2>1, <1>a DEF GenerateStop, GenerateNewClip, GenerateReceive
  <2>2. CASE GenerateAbandon
    BY <2>2 DEF GenerateAbandon, ShortInv
  <2>3. CASE GenerateFrame
    <3>1. UNCHANGED <<clips, writing>>
      BY <2>3 DEF GenerateFrame
    <3>2. CASE UNCHANGED clip
      BY <1>a, <3>1, <3>2
    <3>3. CASE ~ClipFull /\ clip' = Append(clip, Head(frames))
      <4>1. frames # <<>> /\ Head(frames) \in Frame
        BY <2>3, HeadTailProperties DEF GenerateFrame, DataOK
      <4>2. Len(clip') = Len(clip) + 1 /\ Len(clip) \in Nat
        BY <3>3, <4>1, AppendProperties DEF DataOK, Clip
      <4>3. Len(clip') <= FramesPerClip
        BY <3>3, <4>2 DEF ClipFull
      <4> QED
        BY <3>1, <4>3 DEF ShortInv
    <3> QED
      BY <2>3, <3>2, <3>3 DEF GenerateFrame
  <2>4. CASE GeneratePut
    <3>1. clips' = Append(clips, clip) /\ clip' = <<>> /\ writing' = writing
      BY <2>4 DEF GeneratePut
    <3>2. /\ Len(clips') = Len(clips) + 1 /\ clips'[Len(clips) + 1] = clip /\ Len(clips) \in Nat
          /\ \A i \in 1..Len(clips) : clips'[i] = clips[i]
      BY <3>1, AppendProperties DEF DataOK
    <3>3. ASSUME NEW i \in 1..Len(clips') PROVE Len(clips'[i]) <= FramesPerClip
      <4>1. i \in 1..Len(clips) \/ i = Len(clips) + 1
        BY <3>2
      <4> QED
        BY <3>2, <4>1 DEF ShortInv
    <3> QED
      BY <3>1, <3>3 DEF ShortInv
  <2> QED
    BY <1>5, <2>1, <2>2, <2>3, <2>4 DEF Generate
<1>6. CASE Persist
  <2>1. CASE PersistStop \/ PersistPoll \/ PersistIdle
    BY <2>1, <1>a DEF PersistStop, PersistPoll, PersistIdle
  <2>2. CASE PersistTake
    <3>1. clips # <<>> /\ clips' = Tail(clips) /\ writing' = Head(clips) /\ clip' = clip
      BY <2>2 DEF PersistTake
    <3>2. /\ Len(clips) \in Nat /\ Len(clips) >= 1 /\ Len(clips') = Len(clips) - 1
          /\ writing' = clips[1] /\ \A i \in 1..Len(clips') : clips'[i] = clips[i + 1]
      BY <3>1, HeadTailProperties, EmptySeq DEF DataOK
    <3>3. 1 \in 1..Len(clips) /\ \A i \in 1..Len(clips') : i + 1 \in 1..Len(clips)
      BY <3>2
    <3> QED
      BY <3>1, <3>2, <3>3 DEF ShortInv
  <2>3. CASE PersistWrite
    BY <2>3 DEF PersistWrite, ShortInv
  <2>4. CASE PersistWriteFails
    BY <2>4 DEF PersistWriteFails, ShortInv
  <2> QED
    BY <1>6, <2>1, <2>2, <2>3, <2>4 DEF Persist
<1>7. CASE StopMonitor \/ Shutdown \/ Waiter \/ Exit \/ CameraLost
  BY <1>7, <1>a DEF StopMonitor, Shutdown, StopPersist, CloseListener, StopGenerate, StopStream,
              CloseCamera, Waiter, StopWaited, Exit, CameraLost
<1>8. CASE UNCHANGED vars
  BY <1>8, <1>a DEF vars
<1> QED
  BY <1>1, <1>2, <1>3, <1>4, <1>5, <1>6, <1>7, <1>8 DEF Next

-----------------------------------------------------------------------------
(* What waits in the channels and goroutines, from the persister to the stream. *)
LEMMA InFlightIs ==
  InFlight = (((writing \o Flatten(clips)) \o clip) \o frames) \o Held
BY DEF InFlight, Flatten, Flat

LEMMA PartsAreClips ==
  ASSUME DataOK, HeldIsFrame
  PROVE  /\ writing \in Clip /\ Flatten(clips) \in Clip /\ clip \in Clip /\ frames \in Clip
         /\ Held \in Clip /\ (strPc = "send" => nextFrame - 1 \in Frame)
<1>1. strPc = "send" => nextFrame - 1 \in Frame
  BY MaxFramesAssumption DEF DataOK, HeldIsFrame, Frame
<1>2. Held \in Clip
  BY <1>1 DEF Held, Clip
<1>3. Flatten(clips) \in Clip
  <2>1. Len(clips) \in 0..Len(clips)
    BY DEF DataOK
  <2> QED
    BY <2>1, FlatIs DEF Flatten, DataOK
<1> QED
  BY <1>1, <1>2, <1>3 DEF DataOK, Clip

(* Losing the frames b from between a and c, and recording the first frames. *)
LEMMA Drops ==
  ASSUME NEW a \in Clip, NEW b \in Clip, NEW c \in Clip, Len(b) <= FramesPerClip,
         InFlight = (a \o b) \o c, InFlight' = a \o c, UNCHANGED <<nextFrame, written, stopDone>>,
         ~stopDone
  PROVE  [Recorder!RecorderNext]_(Recorder!recorderVars)
<1>1. CASE b = <<>>
  <2>1. a \o b = a
    BY <1>1, Joins
  <2> QED
    BY <2>1 DEF Recorder!recorderVars
<1>2. CASE b # <<>>
  <2>1. /\ a \o b \in Clip /\ b \o c \in Clip /\ Len(a) \in Nat /\ Len(b) \in Nat /\ Len(c) \in Nat
        /\ Len(a \o b) = Len(a) + Len(b) /\ Len(InFlight) = Len(a) + Len(b) + Len(c)
    <3>1. a \o b \in Clip /\ Len(a \o b) = Len(a) + Len(b) /\ Len(a) \in Nat
      BY Joins
    <3>2. b \o c \in Clip /\ Len(b) \in Nat
      BY Joins
    <3>3. Len(c) \in Nat /\ Len((a \o b) \o c) = Len(a \o b) + Len(c)
      BY <3>1, Joins
    <3> QED
      BY <3>1, <3>2, <3>3
  <2>2. Len(b) \in 1..FramesPerClip
    <3>1. Len(b) # 0
      BY <1>2, EmptySeq DEF Clip
    <3> QED
      BY <2>1, <3>1, FramesPerClipAssumption
  <2>3. InFlight = a \o (b \o c)
    BY Associates DEF Associative
  <2>4. SubSeq(InFlight, 1, Len(a)) = a
    BY <2>1, <2>3, Cut
  <2>5. SubSeq(InFlight, Len(a) + Len(b) + 1, Len(InFlight)) = c
    BY <2>1, Cut
  <2>6. Len(a) \in 0..Len(InFlight) /\ Len(a) + Len(b) <= Len(InFlight)
    BY <2>1
  <2>7. Recorder!Drop(Len(a), Len(b))
    BY <2>4, <2>5, <2>6 DEF Recorder!Drop
  <2> QED
    BY <2>2, <2>6, <2>7 DEF Recorder!RecorderNext
<1> QED
  BY <1>1, <1>2

LEMMA Records ==
  ASSUME NEW a \in Clip, NEW b \in Clip, a # <<>>, Len(a) <= FramesPerClip,
         InFlight = a \o b, InFlight' = b, written' = Append(written, a),
         UNCHANGED <<nextFrame, stopDone>>, ~stopDone
  PROVE  Recorder!RecorderNext
<1>1. Len(a) \in Nat /\ Len(b) \in Nat /\ Len(InFlight) = Len(a) + Len(b)
  BY Joins
<1>2. Len(a) # 0
  BY EmptySeq DEF Clip
<1>3. Len(a) \in 1..FramesPerClip /\ Len(a) <= Len(InFlight)
  BY <1>1, <1>2, FramesPerClipAssumption
<1>4. Recorder!Record(Len(a))
  BY <1>3, Cut DEF Recorder!Record
<1> QED
  BY <1>3, <1>4 DEF Recorder!RecorderNext

(* What no step of this kind changes does not change the queue. *)
LEMMA StillInFlight ==
  ASSUME UNCHANGED <<frames, clips, clip, writing, written, nextFrame, stopDone>>,
         Held' = Held
  PROVE  UNCHANGED Recorder!recorderVars
<1>1. InFlight' = InFlight
  BY DEF InFlight
<1> QED
  BY <1>1 DEF Recorder!recorderVars

(* What the stream goroutine does to the queue. *)
LEMMA StreamRecords ==
  ASSUME DataOK, HeldIsFrame, DoneInv, Stream
  PROVE  [Recorder!RecorderNext]_(Recorder!recorderVars)
<1> USE DEF monVars, bcVars, strVars, genVars, perVars, chanVars, ctlVars, histVars
<1> DEFINE X == (writing \o Flatten(clips)) \o clip
<1>x. InFlight = (X \o frames) \o Held
  BY InFlightIs
<1>y. UNCHANGED <<clips, clip, writing>> => InFlight' = (X \o frames') \o Held'
  BY DEF InFlight, Flatten, Flat
<1>c. /\ frames \in Clip /\ Held \in Clip /\ X \in Clip
      /\ strPc = "send" => nextFrame - 1 \in Frame
  <2>1. /\ writing \in Clip /\ Flatten(clips) \in Clip /\ clip \in Clip /\ frames \in Clip
        /\ Held \in Clip /\ (strPc = "send" => nextFrame - 1 \in Frame)
    BY PartsAreClips
  <2>2. writing \o Flatten(clips) \in Clip
    BY <2>1, Joins
  <2> QED
    BY <2>1, <2>2, Joins
<1> HIDE DEF X
<1>1. CASE StreamStop \/ StreamReceive \/ StreamPoll \/ StreamReadFails
  <2>1. UNCHANGED <<frames, clips, clip, writing, written, nextFrame, stopDone>> /\ Held' = Held
    BY <1>1 DEF StreamStop, StreamReceive, StreamPoll, StreamReadFails, Held
  <2> QED
    BY <2>1, StillInFlight
<1>2. CASE StreamRead
  <2>1. /\ strPc = "read" /\ strPc' = "send" /\ nextFrame' = nextFrame + 1 /\ nextFrame <= MaxFrames
        /\ UNCHANGED <<frames, clips, clip, writing, written, stopDone>>
    BY <1>2 DEF StreamRead
  <2>2. nextFrame \in Nat /\ nextFrame' - 1 = nextFrame /\ nextFrame \in Frame
    BY <2>1, MaxFramesAssumption DEF DataOK, Frame
  <2>3. Held = <<>> /\ Held' = <<nextFrame>>
    BY <2>1, <2>2 DEF Held
  <2>4. X \o frames \in Clip /\ (X \o frames) \o <<>> = X \o frames
    BY <1>c, Joins
  <2>5. InFlight' = Append(InFlight, nextFrame)
    <3>1. Append(X \o frames, nextFrame) = (X \o frames) \o <<nextFrame>>
      BY <2>2, <2>4, AppendIsConcat DEF Clip
    <3> QED
      BY <1>x, <1>y, <2>1, <2>3, <2>4, <3>1
  <2>6. ~stopDone
    BY <2>1 DEF DoneInv, AllWaitedFor
  <2> QED
    BY <2>1, <2>5, <2>6 DEF Recorder!RecorderNext, Recorder!Capture
<1>3. CASE StreamSend
  <2>1. /\ strPc = "send" /\ strPc' = "loop" /\ SendOrClose(nextFrame - 1)
        /\ UNCHANGED <<clips, clip, writing, nextFrame, written, stopDone>>
    BY <1>3 DEF StreamSend
  <2>2. nextFrame - 1 \in Frame /\ Held = <<nextFrame - 1>> /\ Held' = <<>>
    BY <1>c, <2>1 DEF Held
  <2>3. CASE frames' = Append(frames, nextFrame - 1)
    <3>1. frames' = frames \o Held
      BY <1>c, <2>2, <2>3, AppendIsConcat DEF Clip
    <3>2. (X \o frames) \o Held = X \o (frames \o Held)
      <4>1. Associative(X, frames, Held)
        BY <1>c, Associates
      <4> QED
        BY <4>1 DEF Associative
    <3>3. frames \o Held \in Clip
      BY <1>c, Joins
    <3>4. X \o (frames \o Held) \in Clip
      BY <1>c, <3>3, Joins
    <3>5. (X \o (frames \o Held)) \o <<>> = X \o (frames \o Held)
      BY <3>4, Joins
    <3>6. InFlight' = InFlight
      BY <1>x, <1>y, <2>1, <2>2, <3>1, <3>2, <3>5
    <3> QED
      BY <2>1, <3>6 DEF Recorder!recorderVars
  <2>4. CASE frames' = frames
    <3>1. X \o frames \in Clip /\ <<>> \in Clip
      BY <1>c, Joins
    <3>2. (X \o frames) \o Held \in Clip
      BY <1>c, <3>1, Joins
    <3>3. InFlight = ((X \o frames) \o Held) \o <<>>
      BY <1>x, <3>2, Joins
    <3>4. InFlight' = (X \o frames) \o <<>>
      BY <1>y, <2>1, <2>2, <2>4
    <3>5. Len(Held) <= FramesPerClip
      BY <2>2, FramesPerClipAssumption
    <3>6. ~stopDone
      BY <2>1 DEF DoneInv, AllWaitedFor
    <3> QED
      BY <1>c, <2>1, <3>1, <3>3, <3>4, <3>5, <3>6, Drops
  <2> QED
    BY <2>1, <2>3, <2>4 DEF SendOrClose
<1> QED
  BY <1>1, <1>2, <1>3 DEF Stream

Regrouped(a, b, c, d) == ((a \o b) \o c) \o d = a \o (b \o (c \o d))

LEMMA Regroups ==
  ASSUME NEW a \in Clip, NEW b \in Clip, NEW c \in Clip, NEW d \in Clip
  PROVE  Regrouped(a, b, c, d)
<1>1. PICK e : e = a \o b
  OBVIOUS
<1>2. PICK f : f = c \o d
  OBVIOUS
<1>3. e \in Clip /\ f \in Clip
  BY <1>1, <1>2, Joins
<1>4. Associative(e, c, d)
  BY <1>3, Associates
<1>5. Associative(a, b, f)
  BY <1>3, Associates
<1> QED
  BY <1>1, <1>2, <1>4, <1>5 DEF Regrouped, Associative

(* What the generate goroutine does to it. *)
LEMMA GenerateRecords ==
  ASSUME DataOK, HeldIsFrame, DoneInv, ShortInv, Generate
  PROVE  [Recorder!RecorderNext]_(Recorder!recorderVars)
<1> USE DEF monVars, bcVars, strVars, genVars, perVars, chanVars, ctlVars, histVars
<1> DEFINE P == writing \o Flatten(clips)
<1>x. InFlight = ((P \o clip) \o frames) \o Held
  BY InFlightIs
<1>y. UNCHANGED <<clips, writing, strPc, nextFrame>>
        => P' = P /\ InFlight' = ((P \o clip') \o frames') \o Held
  BY DEF InFlight, Flatten, Flat, Held
<1> DEFINE Q == P \o clip
<1>c. /\ writing \in Clip /\ Flatten(clips) \in Clip /\ P \in Clip /\ clip \in Clip
      /\ frames \in Clip /\ Held \in Clip /\ Q \in Clip
  <2>1. /\ writing \in Clip /\ Flatten(clips) \in Clip /\ clip \in Clip /\ frames \in Clip
        /\ Held \in Clip
    BY PartsAreClips
  <2>2. writing \o Flatten(clips) \in Clip
    BY <2>1, Joins
  <2> QED
    BY <2>1, <2>2, Joins
<1>h. ASSUME frames # <<>>
      PROVE  /\ frames = <<Head(frames)>> \o Tail(frames) /\ <<Head(frames)>> \in Clip
             /\ Head(frames) \in Frame /\ Tail(frames) \in Clip
  <2>1. Head(frames) \in Frame
    BY <1>c, <1>h, HeadTailProperties DEF Clip
  <2> QED
    BY <1>c, <1>h, <2>1, HeadFirst
<1>d. genPc # "done" => ~stopDone
  BY DEF DoneInv, AllWaitedFor
<1> HIDE DEF P
<1>q. InFlight = (Q \o frames) \o Held
  BY <1>x
<1>r. UNCHANGED <<clip, clips, writing, strPc, nextFrame>> => InFlight' = (Q \o frames') \o Held
  BY <1>y
<1>1. CASE GenerateStop \/ GenerateNewClip \/ GenerateReceive
  <2>1. UNCHANGED <<frames, clips, clip, writing, written, nextFrame, stopDone>> /\ Held' = Held
    BY <1>1 DEF GenerateStop, GenerateNewClip, GenerateReceive, Held
  <2> QED
    BY <2>1, StillInFlight
<1>2. CASE GenerateAbandon
  <2>1. /\ clip' = <<>> /\ genPc = "make"
        /\ UNCHANGED <<frames, clips, writing, strPc, nextFrame, written, stopDone>>
    BY <1>2 DEF GenerateAbandon
  <2>2. InFlight' = (P \o frames) \o Held
    <3>1. P \o <<>> = P
      BY <1>c, Joins
    <3> QED
      BY <1>y, <2>1, <3>1
  <2>3. frames \o Held \in Clip
    BY <1>c, Joins
  <2>4. InFlight' = P \o (frames \o Held)
    <3>1. Associative(P, frames, Held)
      BY <1>c, Associates
    <3> QED
      BY <2>2, <3>1 DEF Associative
  <2>5. InFlight = (P \o clip) \o (frames \o Held)
    <3> HIDE DEF Q
    <3>1. Associative(Q, frames, Held)
      BY <1>c, Associates
    <3>2. InFlight = Q \o (frames \o Held)
      BY <1>q, <3>1 DEF Associative
    <3> QED
      BY <3>2 DEF Q
  <2>6. Len(clip) <= FramesPerClip /\ ~stopDone
    BY <1>d, <2>1 DEF ShortInv
  <2> QED
    BY <1>c, <2>1, <2>3, <2>4, <2>5, <2>6, Drops
<1>3. CASE GenerateFrame
  <2>1. /\ frames # <<>> /\ frames' = Tail(frames) /\ genPc = "make"
        /\ UNCHANGED <<clips, writing, strPc, nextFrame, written, stopDone>>
        /\ clip' = clip \/ clip' = Append(clip, Head(frames))
    BY <1>3 DEF GenerateFrame
  <2> DEFINE hd == <<Head(frames)>>
             tl == Tail(frames)
  <2>1a. frames = hd \o tl /\ Len(hd) = 1
    BY <1>h, <2>1
  <2>2. hd \in Clip /\ tl \in Clip
    BY <1>h, <2>1
  <2>3. frames' = tl
    BY <2>1
  <2>4. clip' = clip \/ clip' = clip \o hd
    BY <1>c, <1>h, <2>1, AppendIsConcat DEF Clip
  <2> HIDE DEF hd, tl
  <2>5. CASE clip' = clip
    <3> HIDE DEF Q
    <3>1. InFlight' = (Q \o tl) \o Held
      BY <1>r, <2>1, <2>3, <2>5
    <3>2. InFlight' = Q \o (tl \o Held)
      <4>1. Associative(Q, tl, Held)
        BY <1>c, <2>2, Associates
      <4> QED
        BY <3>1, <4>1 DEF Associative
    <3>3. Q \o frames = (Q \o hd) \o tl
      <4>1. Associative(Q, hd, tl)
        BY <1>c, <2>2, Associates
      <4> QED
        BY <2>1a, <4>1 DEF Associative
    <3>4. Q \o hd \in Clip /\ tl \o Held \in Clip
      BY <1>c, <2>2, Joins
    <3>5. ((Q \o hd) \o tl) \o Held = (Q \o hd) \o (tl \o Held)
      <4>1. PICK e : e = Q \o hd
        OBVIOUS
      <4>2. e \in Clip /\ tl \in Clip /\ Held \in Clip
        BY <1>c, <2>2, <3>4, <4>1
      <4>3. Associative(e, tl, Held)
        BY <4>2, Associates
      <4> QED
        BY <4>1, <4>3 DEF Associative
    <3>6. InFlight = (Q \o hd) \o (tl \o Held)
      BY <1>q, <3>3, <3>5
    <3>7. Len(hd) <= FramesPerClip
      BY <2>1a, FramesPerClipAssumption
    <3>8. ~stopDone
      BY <1>d, <2>1
    <3> QED
      BY <1>c, <2>1, <2>2, <3>2, <3>4, <3>6, <3>7, <3>8, Drops
  <2>6. CASE clip' = clip \o hd
    <3>1. P \o (clip \o hd) = Q \o hd
      <4>1. Associative(P, clip, hd)
        BY <1>c, <2>2, Associates
      <4> QED
        BY <4>1 DEF Associative
    <3>2. (Q \o hd) \o tl = Q \o frames
      <4> HIDE DEF Q
      <4>1. Associative(Q, hd, tl)
        BY <1>c, <2>2, Associates
      <4> QED
        BY <2>1a, <4>1 DEF Associative
    <3>3. InFlight' = InFlight
      <4>1. InFlight' = ((P \o (clip \o hd)) \o tl) \o Held
        BY <1>y, <2>1, <2>3, <2>6
      <4> HIDE DEF Q
      <4> QED
        BY <1>q, <3>1, <3>2, <4>1
    <3> QED
      BY <2>1, <3>3 DEF Recorder!recorderVars
  <2> QED
    BY <2>4, <2>5, <2>6
<1>4. CASE GeneratePut
  <2>1. /\ clips' = Append(clips, clip) /\ clip' = <<>>
        /\ UNCHANGED <<frames, writing, strPc, nextFrame, written, stopDone>>
    BY <1>4 DEF GeneratePut
  <2>2. Flatten(clips)' = Flatten(clips) \o clip
    <3>1. Flatten(Append(clips, clip)) = Flatten(clips) \o clip
      BY FlattenAppend DEF DataOK
    <3> QED
      BY <2>1, <3>1 DEF Flatten, Flat
  <2>3. P' = P \o clip
    <3>1. Associative(writing, Flatten(clips), clip)
      BY <1>c, Associates
    <3> QED
      BY <2>1, <2>2, <3>1 DEF P, Associative
  <2>4. InFlight' = ((P' \o clip') \o frames') \o Held'
    BY DEF InFlight, Flatten, Flat, P
  <2>5. Held' = Held /\ (P \o clip) \o <<>> = P \o clip
    BY <1>c, <2>1, Joins DEF Held
  <2>6. InFlight' = InFlight
    BY <1>x, <2>1, <2>3, <2>4, <2>5
  <2> QED
    BY <2>1, <2>6 DEF Recorder!recorderVars
<1> QED
  BY <1>1, <1>2, <1>3, <1>4 DEF Generate

(* What the persist goroutine does to it. *)
LEMMA PersistRecords ==
  ASSUME DataOK, HeldIsFrame, DoneInv, ShortInv, PlaceInv, Persist
  PROVE  [Recorder!RecorderNext]_(Recorder!recorderVars)
<1> USE DEF monVars, bcVars, strVars, genVars, perVars, chanVars, ctlVars, histVars
<1> DEFINE F == Flatten(clips)
           R == clip \o (frames \o Held)
<1>c. /\ writing \in Clip /\ F \in Clip /\ clip \in Clip /\ frames \in Clip /\ Held \in Clip
      /\ R \in Clip
  <2>1. writing \in Clip /\ F \in Clip /\ clip \in Clip /\ frames \in Clip /\ Held \in Clip
    BY PartsAreClips
  <2>2. frames \o Held \in Clip
    BY <2>1, Joins
  <2> QED
    BY <2>1, <2>2, Joins
<1> HIDE DEF F, R
<1>d. frames \o Held \in Clip /\ F \o R \in Clip /\ writing \o F \in Clip
  BY <1>c, Joins
<1> DEFINE W == writing \o F
<1>x. InFlight = W \o R
  <2>1. InFlight = ((W \o clip) \o frames) \o Held
    BY InFlightIs DEF F
  <2> HIDE DEF W
  <2>2. W \in Clip /\ clip \in Clip /\ frames \in Clip /\ Held \in Clip
    BY <1>c, <1>d DEF W
  <2>3. Regrouped(W, clip, frames, Held)
    BY <2>2, Regroups
  <2> QED
    BY <2>1, <2>3 DEF R, Regrouped
<1>1. CASE PersistStop \/ PersistPoll \/ PersistIdle
  <2>1. UNCHANGED <<frames, clips, clip, writing, written, nextFrame, stopDone>> /\ Held' = Held
    BY <1>1 DEF PersistStop, PersistPoll, PersistIdle, Held
  <2> QED
    BY <2>1, StillInFlight
<1>2. CASE PersistTake
  <2>1. /\ perPc = "poll" /\ clips # <<>> /\ writing' = Head(clips) /\ clips' = Tail(clips)
        /\ UNCHANGED <<clip, frames, strPc, nextFrame, written, stopDone>>
    BY <1>2 DEF PersistTake
  <2>2. writing = <<>> /\ writing \o F = F
    BY <1>c, <2>1, Joins DEF PlaceInv
  <2>3. F = writing' \o Flatten(clips')
    BY <2>1, FlattenTail DEF F, DataOK
  <2>4. InFlight' = (((writing' \o Flatten(clips')) \o clip) \o frames) \o Held
    BY <2>1 DEF InFlight, Flatten, Flat, Held
  <2>5. InFlight = (((writing \o F) \o clip) \o frames) \o Held
    BY InFlightIs DEF F
  <2> QED
    BY <2>1, <2>2, <2>3, <2>4, <2>5 DEF Recorder!recorderVars
<1>3. CASE PersistWrite \/ PersistWriteFails
  <2>1. /\ perPc = "write" /\ writing' = <<>>
        /\ UNCHANGED <<clip, clips, frames, strPc, nextFrame, stopDone>>
    BY <1>3 DEF PersistWrite, PersistWriteFails
  <2>2. InFlight' = F \o R
    <3>1. <<>> \o F = F
      BY <1>c, Joins
    <3>2. InFlight' = (((<<>> \o F) \o clip) \o frames) \o Held
      BY <2>1 DEF InFlight, Flatten, Flat, Held, F
    <3>3. Regrouped(F, clip, frames, Held)
      <4>1. F \in Clip /\ clip \in Clip /\ frames \in Clip /\ Held \in Clip
        BY <1>c
      <4> QED
        BY <4>1, Regroups
    <3> QED
      BY <3>1, <3>2, <3>3 DEF R, Regrouped
  <2>3. InFlight = writing \o (F \o R)
    <3>1. Associative(writing, F, R)
      BY <1>c, Associates
    <3> QED
      BY <1>x, <3>1 DEF Associative
  <2>4. Len(writing) <= FramesPerClip /\ ~stopDone
    BY <2>1 DEF ShortInv, DoneInv, AllWaitedFor
  <2>5. CASE PersistWrite
    <3>1. writing # <<>> /\ written' = Append(written, writing)
      BY <2>5 DEF PersistWrite
    <3> QED
      BY <1>c, <1>d, <2>1, <2>2, <2>3, <2>4, <3>1, Records
  <2>6. CASE PersistWriteFails
    <3>1. written' = written
      BY <2>6 DEF PersistWriteFails
    <3>2. <<>> \o writing = writing /\ <<>> \o (F \o R) = F \o R /\ <<>> \in Clip
      BY <1>c, <1>d, Joins
    <3> QED
      BY <1>c, <1>d, <2>1, <2>2, <2>3, <2>4, <3>1, <3>2, Drops
  <2> QED
    BY <1>3, <2>5, <2>6
<1> QED
  BY <1>1, <1>2, <1>3 DEF Persist

LEMMA RecorderStep ==
  ASSUME DataOK, HeldIsFrame, StartInv, DoneInv, PlaceInv, ShortInv, [Next]_vars
  PROVE  [Recorder!RecorderNext]_(Recorder!recorderVars)
<1> USE DEF monVars, bcVars, strVars, genVars, perVars, chanVars, ctlVars, histVars
<1>1. CASE Starter
  <2>1. UNCHANGED <<frames, clips, clip, writing, written, nextFrame, stopDone>> /\ Held' = Held
    BY <1>1 DEF Starter, Setup, Start, StartInv, Held
  <2> QED
    BY <2>1, StillInFlight
<1>2. CASE Schedule \/ Monitor \/ StopMonitor \/ Shutdown \/ Exit \/ CameraLost \/ UNCHANGED vars
  <2>1. UNCHANGED <<frames, clips, clip, writing, written, nextFrame, stopDone, strPc>>
    <3>1. CASE Schedule \/ Monitor
      BY <3>1 DEF Schedule, MonitorTick, Monitor, MonitorBegin, MonitorStop, SendLock, SendNext,
                  SendReturn
    <3>2. CASE StopMonitor \/ Shutdown \/ Exit \/ CameraLost
      BY <3>2 DEF StopMonitor, Shutdown, StopPersist, CloseListener, StopGenerate, StopStream,
                  CloseCamera, Exit, CameraLost
    <3>3. CASE UNCHANGED vars
      BY <3>3 DEF vars
    <3> QED
      BY <1>2, <3>1, <3>2, <3>3
  <2>2. Held' = Held
    BY <2>1 DEF Held
  <2> QED
    BY <2>1, <2>2, StillInFlight
<1>3. CASE Waiter
  <2>1. /\ ~stopDone /\ stopDone' = TRUE
        /\ UNCHANGED <<frames, clips, clip, writing, written, nextFrame, strPc>>
    BY <1>3 DEF Waiter, StopWaited
  <2>2. InFlight' = InFlight
    BY <2>1 DEF InFlight, Held
  <2> QED
    BY <2>1, <2>2 DEF Recorder!RecorderNext, Recorder!End
<1>4. CASE Stream
  BY <1>4, StreamRecords
<1>5. CASE Generate
  BY <1>5, GenerateRecords
<1>6. CASE Persist
  BY <1>6, PersistRecords
<1> QED
  BY <1>1, <1>2, <1>3, <1>4, <1>5, <1>6 DEF Next

(***************************************************************************)
(* Whatever the order in which the goroutines run, fail and are cancelled, *)
(* the pipeline behaves as one recorder with one queue: the clips on disk  *)
(* hold frames in the order of their reads, none twice, none in a clip     *)
(* longer than framesPerClip, and nothing comes after the channel of Stop  *)
(* is closed.                                                              *)
(***************************************************************************)
THEOREM ImplementsRecorder == Spec => IsARecorder
<1>1. Init => ShortInv
  BY FramesPerClipAssumption DEF Init, ShortInv
<1>2. Init => Recorder!RecorderInit
  <2> SUFFICES ASSUME Init PROVE Recorder!RecorderInit
    OBVIOUS
  <2>1. writing = <<>> /\ clips = <<>> /\ clip = <<>> /\ frames = <<>> /\ Held = <<>>
    BY DEF Init, Held
  <2>2. InFlight = (((<<>> \o <<>>) \o <<>>) \o <<>>) \o <<>>
    BY <2>1, InFlightIs, FlattenEmpty
  <2>3. <<>> \o <<>> = <<>>
    BY Joins DEF Clip
  <2> QED
    BY <2>2, <2>3 DEF Init, Recorder!RecorderInit
<1>3. ShutInv => DoneInv
  BY DEF ShutInv
<1> QED
  BY <1>1, <1>2, <1>3, PlaceAlways, SafeInv, ShortStep, RecorderStep, PTL
     DEF Spec, IsARecorder, Recorder!RecorderSpec
=============================================================================
