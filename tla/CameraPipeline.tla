--------------------------- MODULE CameraPipeline ---------------------------
(***************************************************************************)
(* The recording pipeline of one camera (pkg/dragon/process/core.go): four *)
(* goroutines, the broadcaster that links two of them to the monitor, the  *)
(* two bounded channels between them, the goroutine that starts the        *)
(* pipeline and the goroutine that shuts it down.                          *)
(*                                                                         *)
(*   monitor  -- OFF/ON events, through the broadcaster -->  stream        *)
(*                                                      -->  generate      *)
(*   camera --> stream --> [frames] --> generate --> [clips] --> persist   *)
(*                                                                         *)
(* A frame is the number of the read that produced it; a clip is the       *)
(* sequence of its frames.  What the schedule says at a tick, the order in *)
(* which Send visits its listeners, which ready case a select takes and    *)
(* whether a read or a write fails are nondeterministic choices.           *)
(***************************************************************************)
EXTENDS Naturals, Sequences, FiniteSets

CONSTANTS
    FramesCap,      \* capacity of the frames channel (3 in core.go)
    ClipsCap,       \* capacity of the clips channel (3 in core.go)
    FramesPerClip,  \* cam.FPS() * cam.SPC()
    MaxFrames       \* model bound: how many reads of the camera succeed

ASSUME FramesCapAssumption     == FramesCap \in Nat \ {0}
ASSUME ClipsCapAssumption      == ClipsCap \in Nat \ {0}
ASSUME FramesPerClipAssumption == FramesPerClip \in Nat \ {0}
ASSUME MaxFramesAssumption     == MaxFrames \in Nat \ {0}

Frame   == 1..MaxFrames
Clip    == Seq(Frame)
Worker  == {"monitor", "stream", "generate", "persist"}
Listener == {"stream", "generate"}
Event   == {"OFF", "ON"}

(***************************************************************************)
(* How a frame that was read can fail to reach a file: closed because the  *)
(* frames channel was full, taken to find out that the clip is complete,   *)
(* in a clip given up on cancellation, in a clip the writer refused.       *)
(***************************************************************************)
Cause == {"closed", "swallowed", "abandoned", "unwritten"}

VARIABLES
    startPc,    \* the goroutine of RunProcesses: "new", "ready", "started"
    stopPc,     \* the goroutine of Shutdown: the call it makes next
    stopDone,   \* the channel returned by Stop is closed
    cancelled,  \* the workers whose context is cancelled
    canceller,  \* process.canceller of the monitor is set
    monPc, wasOff, evt,
    listeners,  \* Broadcaster.listeners
    mutex,      \* Broadcaster.m is held (only the monitor holds it across steps)
    pending,    \* listeners the running Send has yet to visit
    target,     \* the listener the running Send is blocked on
    strPc, isOn,
    cam,        \* the camera: "open", "lost" (the stream died), "closed"
    genPc, clip,
    perPc, writing,
    frames, clips,
    nextFrame,  \* history: the number of the next frame read
    written,    \* history: the clips on disk, in order
    lost        \* history: the frames that reached no file, by cause

monVars  == <<monPc, wasOff, evt>>
bcVars   == <<listeners, mutex, pending, target>>
strVars  == <<strPc, isOn>>
genVars  == <<genPc, clip>>
perVars  == <<perPc, writing>>
chanVars == <<frames, clips>>
ctlVars  == <<startPc, stopPc, stopDone, cancelled, canceller>>
histVars == <<nextFrame, written, lost>>
vars == <<ctlVars, monVars, bcVars, strVars, cam, genVars, perVars, chanVars, histVars>>

StopPc == {"run", "persist", "unlisten", "generate", "stream", "camera", "returned", "exited"}

ControlOK ==
    /\ startPc \in {"new", "ready", "started"}
    /\ stopPc \in StopPc
    /\ stopDone \in BOOLEAN /\ canceller \in BOOLEAN
    /\ cancelled \subseteq Worker
    /\ monPc \in {"idle", "spawned", "loop", "lock", "send", "done"}
    /\ wasOff \in BOOLEAN
    /\ evt \in Event \cup {"none"}
    /\ listeners \subseteq Listener /\ pending \subseteq Listener
    /\ mutex \in BOOLEAN
    /\ target \in Listener \cup {"none"}
    /\ strPc \in {"idle", "loop", "read", "send", "done"}
    /\ isOn \in BOOLEAN
    /\ cam \in {"open", "lost", "closed"}
    /\ genPc \in {"idle", "loop", "make", "put", "done"}
    /\ perPc \in {"idle", "loop", "poll", "write", "done"}

DataOK ==
    /\ nextFrame \in 1..(MaxFrames + 1)
    /\ frames \in Seq(Frame) /\ Len(frames) <= FramesCap
    /\ clips \in Seq(Clip) /\ Len(clips) <= ClipsCap
    /\ clip \in Clip /\ writing \in Clip
    /\ written \in Seq(Clip)
    /\ lost \in [Cause -> SUBSET Frame]

TypeOK == ControlOK /\ DataOK

(* A fresh NewCoreProcess on a camera that has just been connected. *)
Init ==
    /\ startPc = "new" /\ stopPc = "run" /\ stopDone = FALSE
    /\ cancelled = {} /\ canceller = FALSE
    /\ monPc = "idle" /\ wasOff = FALSE /\ evt = "none"
    /\ listeners = {} /\ mutex = FALSE /\ pending = {} /\ target = "none"
    /\ strPc = "idle" /\ isOn = TRUE /\ cam = "open"
    /\ genPc = "idle" /\ clip = <<>>
    /\ perPc = "idle" /\ writing = <<>>
    /\ frames = <<>> /\ clips = <<>>
    /\ nextFrame = 1 /\ written = <<>>
    /\ lost = [c \in Cause |-> {}]

Running == stopPc # "exited"

Elements(s) == {s[i] : i \in 1..Len(s)}
Lose(cause, fs) == lost' = [lost EXCEPT ![cause] = @ \cup fs]

-----------------------------------------------------------------------------
(* The goroutine that sets the pipeline up and starts it. *)

(* persistCameraToDisk.Setup: both listeners are registered here. *)
Setup ==
    /\ startPc = "new"
    /\ startPc' = "ready"
    /\ listeners' = listeners \cup Listener
    /\ UNCHANGED <<stopPc, stopDone, cancelled, canceller, monVars, mutex, pending, target,
                   strVars, cam, genVars, perVars, chanVars, histVars>>

(***************************************************************************)
(* persistCameraToDisk.Start spawns the four goroutines.  It may run after *)
(* Stop has begun: nothing orders RunProcesses and Shutdown.               *)
(***************************************************************************)
Start ==
    /\ startPc = "ready"
    /\ startPc' = "started"
    /\ monPc' = "spawned" /\ strPc' = "loop" /\ genPc' = "loop" /\ perPc' = "loop"
    /\ UNCHANGED <<stopPc, stopDone, cancelled, canceller, wasOff, evt, bcVars, isOn, cam,
                   clip, writing, chanVars, histVars>>

-----------------------------------------------------------------------------
(* The monitor goroutine: process.Start around sendEvtOnCameraStateChange. *)

(* The goroutine publishes its canceller, then closes started (a barrier). *)
MonitorBegin ==
    /\ monPc = "spawned"
    /\ canceller' = TRUE
    /\ monPc' = "loop"
    /\ UNCHANGED <<startPc, stopPc, stopDone, cancelled, wasOff, evt, bcVars, strVars, cam,
                   genVars, perVars, chanVars, histVars>>

MonitorStop ==
    /\ monPc = "loop" /\ "monitor" \in cancelled
    /\ monPc' = "done"
    /\ UNCHANGED <<ctlVars, wasOff, evt, bcVars, strVars, cam, genVars, perVars, chanVars,
                   histVars>>

(***************************************************************************)
(* A tick.  It changes something only when the schedule's answer differs   *)
(* from the last one sent.  select may take the tick when ctx is done too. *)
(***************************************************************************)
MonitorTick ==
    /\ monPc = "loop"
    /\ monPc' = "lock"
    /\ evt' = IF wasOff THEN "ON" ELSE "OFF"
    /\ UNCHANGED <<ctlVars, wasOff, bcVars, strVars, cam, genVars, perVars, chanVars, histVars>>

(* Broadcaster.Send: takes the mutex and keeps it until all are served. *)
SendLock ==
    /\ monPc = "lock" /\ ~mutex
    /\ monPc' = "send" /\ mutex' = TRUE /\ pending' = listeners
    /\ UNCHANGED <<ctlVars, wasOff, evt, listeners, target, strVars, cam, genVars, perVars,
                   chanVars, histVars>>

(* The range over the map reaches a listener, in any order, and blocks on it. *)
SendNext ==
    /\ monPc = "send" /\ target = "none"
    /\ \E l \in pending : target' = l /\ pending' = pending \ {l}
    /\ UNCHANGED <<ctlVars, monVars, listeners, mutex, strVars, cam, genVars, perVars, chanVars,
                   histVars>>

NoUnlock == mutex' = mutex                                       \* mutant
Unlock   == mutex' = FALSE

(* Send returns (deferred Unlock) and the monitor records what it announced. *)
SendReturn ==
    /\ monPc = "send" /\ target = "none" /\ pending = {}
    /\ monPc' = "loop" /\ Unlock
    /\ wasOff' = (evt = "OFF") /\ evt' = "none"
    /\ UNCHANGED <<ctlVars, listeners, pending, target, strVars, cam, genVars, perVars, chanVars,
                   histVars>>

Monitor == Running /\ (MonitorBegin \/ MonitorStop \/ SendLock \/ SendNext \/ SendReturn)
Schedule == Running /\ MonitorTick

-----------------------------------------------------------------------------
(* The stream goroutine: run and stream of stream_conn_process.go. *)

StreamStop ==
    /\ strPc = "loop" /\ "stream" \in cancelled
    /\ strPc' = "done"
    /\ UNCHANGED <<ctlVars, monVars, bcVars, isOn, cam, genVars, perVars, chanVars, histVars>>

OnSwitchIgnored(e) == isOn /\ e = "ON"                            \* mutant
OnAfter(e) == e = "ON"

StreamReceive ==
    /\ strPc = "loop" /\ target = "stream"
    /\ isOn' = OnAfter(evt)
    /\ target' = "none"
    /\ UNCHANGED <<ctlVars, monVars, listeners, mutex, pending, strPc, cam, genVars, perVars,
                   chanVars, histVars>>

StreamAlways == cam = "open"                                      \* mutant
ShouldStream == cam = "open" /\ isOn

(* The default case: no other case is ready, the camera is open and on. *)
StreamPoll ==
    /\ strPc = "loop" /\ "stream" \notin cancelled /\ target # "stream"
    /\ ShouldStream
    /\ strPc' = "read"
    /\ UNCHANGED <<ctlVars, monVars, bcVars, isOn, cam, genVars, perVars, chanVars, histVars>>

StreamRead ==
    /\ strPc = "read" /\ cam = "open" /\ nextFrame <= MaxFrames
    /\ strPc' = "send" /\ nextFrame' = nextFrame + 1
    /\ UNCHANGED <<ctlVars, monVars, bcVars, isOn, cam, genVars, perVars, chanVars, written,
                   lost>>

StreamReadFails ==
    /\ strPc = "read"
    /\ strPc' = "loop"
    /\ UNCHANGED <<ctlVars, monVars, bcVars, isOn, cam, genVars, perVars, chanVars, histVars>>

LeakWhenFull(f) ==                                                \* mutant
    \/ Len(frames) < FramesCap /\ frames' = Append(frames, f) /\ UNCHANGED lost
    \/ Len(frames) = FramesCap /\ UNCHANGED <<frames, lost>>

(* The select of stream: the frame is queued, or closed when there is no room. *)
SendOrClose(f) ==
    \/ Len(frames) < FramesCap /\ frames' = Append(frames, f) /\ UNCHANGED lost
    \/ Len(frames) = FramesCap /\ Lose("closed", {f}) /\ UNCHANGED frames

StreamSend ==
    /\ strPc = "send"
    /\ strPc' = "loop"
    /\ SendOrClose(nextFrame - 1)
    /\ UNCHANGED <<ctlVars, monVars, bcVars, isOn, cam, genVars, perVars, clips, nextFrame,
                   written>>

Stream == Running /\ (StreamStop \/ StreamReceive \/ StreamPoll \/ StreamRead
                        \/ StreamReadFails \/ StreamSend)

-----------------------------------------------------------------------------
(* The generate goroutine: run and makeClip of generate_clip_process.go. *)

GenerateStop ==
    /\ genPc = "loop" /\ "generate" \in cancelled
    /\ genPc' = "done"
    /\ UNCHANGED <<ctlVars, monVars, bcVars, strVars, cam, clip, perVars, chanVars, histVars>>

GenerateNewClip ==
    /\ genPc = "loop" /\ "generate" \notin cancelled
    /\ genPc' = "make"
    /\ UNCHANGED <<ctlVars, monVars, bcVars, strVars, cam, clip, perVars, chanVars, histVars>>

(* makeClip, ctx is done: the unfinished clip is closed and forgotten. *)
GenerateAbandon ==
    /\ genPc = "make" /\ "generate" \in cancelled
    /\ genPc' = "loop" /\ clip' = <<>>
    /\ Lose("abandoned", Elements(clip))
    /\ UNCHANGED <<ctlVars, monVars, bcVars, strVars, cam, perVars, chanVars, nextFrame, written>>

(* makeClip, an event: OFF ends the clip, however short; ON is ignored. *)
GenerateReceive ==
    /\ genPc = "make" /\ target = "generate"
    /\ genPc' = IF evt = "OFF" THEN "put" ELSE "make"
    /\ target' = "none"
    /\ UNCHANGED <<ctlVars, monVars, listeners, mutex, pending, strVars, cam, clip, perVars,
                   chanVars, histVars>>

ClipFullLate == Len(clip) > FramesPerClip                         \* mutant
ClipFull == Len(clip) >= FramesPerClip

(* makeClip, a frame: one that comes when the clip is complete goes nowhere. *)
GenerateFrame ==
    /\ genPc = "make" /\ frames # <<>>
    /\ frames' = Tail(frames)
    /\ \/ /\ ClipFull
          /\ genPc' = "put"
          /\ Lose("swallowed", {Head(frames)})
          /\ UNCHANGED clip
       \/ /\ ~ClipFull
          /\ clip' = Append(clip, Head(frames))
          /\ UNCHANGED <<genPc, lost>>
    /\ UNCHANGED <<ctlVars, monVars, bcVars, strVars, cam, perVars, clips, nextFrame, written>>

ClipsRoom == Len(clips) < ClipsCap

(* run: the clip is sent to persist; this send listens to nothing else. *)
GeneratePut ==
    /\ genPc = "put" /\ ClipsRoom
    /\ clips' = Append(clips, clip)
    /\ genPc' = "loop" /\ clip' = <<>>
    /\ UNCHANGED <<ctlVars, monVars, bcVars, strVars, cam, perVars, frames, histVars>>

Generate == Running /\ (GenerateStop \/ GenerateNewClip \/ GenerateAbandon
                          \/ GenerateReceive \/ GenerateFrame \/ GeneratePut)

-----------------------------------------------------------------------------
(* The persist goroutine: run of persist_clips_process.go. *)

PersistStop ==
    /\ perPc = "loop" /\ "persist" \in cancelled
    /\ perPc' = "done"
    /\ UNCHANGED <<ctlVars, monVars, bcVars, strVars, cam, genVars, writing, chanVars, histVars>>

PersistPoll ==
    /\ perPc = "loop" /\ "persist" \notin cancelled
    /\ perPc' = "poll"
    /\ UNCHANGED <<ctlVars, monVars, bcVars, strVars, cam, genVars, writing, chanVars, histVars>>

PersistIdle ==
    /\ perPc = "poll" /\ clips = <<>>
    /\ perPc' = "loop"
    /\ UNCHANGED <<ctlVars, monVars, bcVars, strVars, cam, genVars, writing, chanVars, histVars>>

PersistTake ==
    /\ perPc = "poll" /\ clips # <<>>
    /\ perPc' = "write"
    /\ writing' = Head(clips) /\ clips' = Tail(clips)
    /\ UNCHANGED <<ctlVars, monVars, bcVars, strVars, cam, genVars, frames, histVars>>

(* writer.Write returns nil; the writer refuses a clip with no frames. *)
PersistWrite ==
    /\ perPc = "write" /\ writing # <<>>
    /\ perPc' = "loop" /\ writing' = <<>>
    /\ written' = Append(written, writing)
    /\ UNCHANGED <<ctlVars, monVars, bcVars, strVars, cam, genVars, chanVars, nextFrame, lost>>

EndOnWriteError == "done"                                         \* mutant
RetryOnWriteError == "write"                                      \* mutant
AfterWriteError == "loop"

(* writer.Write returns an error: it is logged and the clip is forgotten. *)
PersistWriteFails ==
    /\ perPc = "write"
    /\ perPc' = AfterWriteError /\ writing' = <<>>
    /\ Lose("unwritten", Elements(writing))
    /\ UNCHANGED <<ctlVars, monVars, bcVars, strVars, cam, genVars, chanVars, nextFrame, written>>

Persist == Running /\ (PersistStop \/ PersistPoll \/ PersistIdle \/ PersistTake
                         \/ PersistWrite \/ PersistWriteFails)

-----------------------------------------------------------------------------
(* The goroutine that shuts down: Server.Shutdown, persistCameraToDisk.Stop. *)

(* Cancels the monitor only if its goroutine has published the canceller. *)
StopMonitor ==
    /\ stopPc = "run" /\ startPc # "new"
    /\ stopPc' = "persist"
    /\ cancelled' = IF canceller THEN cancelled \cup {"monitor"} ELSE cancelled
    /\ UNCHANGED <<startPc, stopDone, canceller, monVars, bcVars, strVars, cam, genVars, perVars,
                   chanVars, histVars>>

StopPersist ==
    /\ stopPc = "persist"
    /\ stopPc' = "unlisten"
    /\ cancelled' = cancelled \cup {"persist"}
    /\ UNCHANGED <<startPc, stopDone, canceller, monVars, bcVars, strVars, cam, genVars, perVars,
                   chanVars, histVars>>

ListenerLeft  == listeners                                        \* mutant
ListenersLeft == listeners \ {"generate"}

(* generateClipProcess.Stop, first half: Listener.Close needs the mutex. *)
CloseListener ==
    /\ stopPc = "unlisten" /\ ~mutex
    /\ stopPc' = "generate"
    /\ listeners' = ListenersLeft
    /\ UNCHANGED <<startPc, stopDone, cancelled, canceller, monVars, mutex, pending, target,
                   strVars, cam, genVars, perVars, chanVars, histVars>>

StopGenerate ==
    /\ stopPc = "generate"
    /\ stopPc' = "stream"
    /\ cancelled' = cancelled \cup {"generate"}
    /\ UNCHANGED <<startPc, stopDone, canceller, monVars, bcVars, strVars, cam, genVars, perVars,
                   chanVars, histVars>>

(* streamConnProccess.Stop leaves its listener registered. *)
StopStream ==
    /\ stopPc = "stream"
    /\ stopPc' = "camera"
    /\ cancelled' = cancelled \cup {"stream"}
    /\ UNCHANGED <<startPc, stopDone, canceller, monVars, bcVars, strVars, cam, genVars, perVars,
                   chanVars, histVars>>

(* Wait() starts a goroutine and returns at once; Server.shutdown goes on. *)
CloseCamera ==
    /\ stopPc = "camera"
    /\ stopPc' = "returned"
    /\ cam' = "closed"
    /\ UNCHANGED <<startPc, stopDone, cancelled, canceller, monVars, bcVars, strVars, genVars,
                   perVars, chanVars, histVars>>

Shutdown == StopPersist \/ CloseListener \/ StopGenerate \/ StopStream \/ CloseCamera

StreamNotWaitedFor == perPc = "done" /\ genPc = "done"            \* mutant
AllWaitedFor == perPc = "done" /\ genPc = "done" /\ strPc = "done"

(* persistCameraToDisk.wait: closes the channel Stop returned. *)
StopWaited ==
    /\ stopPc \in {"camera", "returned"} /\ ~stopDone
    /\ AllWaitedFor
    /\ stopDone' = TRUE
    /\ UNCHANGED <<startPc, stopPc, cancelled, canceller, monVars, bcVars, strVars, cam, genVars,
                   perVars, chanVars, histVars>>

(* main returns: every goroutine dies where it stands. *)
Exit ==
    /\ stopPc = "returned"
    /\ stopPc' = "exited"
    /\ UNCHANGED <<startPc, stopDone, cancelled, canceller, monVars, bcVars, strVars, cam,
                   genVars, perVars, chanVars, histVars>>

(* The camera drops the connection; there is no reconnecting. *)
CameraLost ==
    /\ Running /\ cam = "open"
    /\ cam' = "lost"
    /\ UNCHANGED <<ctlVars, monVars, bcVars, strVars, genVars, perVars, chanVars, histVars>>

Starter == Running /\ (Setup \/ Start)
Waiter  == Running /\ StopWaited

Next ==
    \/ Starter \/ Schedule \/ Monitor \/ Stream \/ Generate \/ Persist
    \/ StopMonitor \/ Shutdown \/ Waiter \/ Exit \/ CameraLost

Spec == Init /\ [][Next]_vars

(***************************************************************************)
(* What Go's scheduler gives: a goroutine that can go on does, and a       *)
(* select that keeps finding a case ready takes it at last (it picks among *)
(* the ready cases at random).  Reads and writes return.  Nothing makes    *)
(* the schedule change, the camera drop or a shutdown begin.               *)
(***************************************************************************)
Fairness ==
    /\ WF_vars(Starter) /\ WF_vars(Monitor) /\ WF_vars(Stream) /\ WF_vars(Generate)
    /\ WF_vars(Persist) /\ WF_vars(Shutdown) /\ WF_vars(Waiter)
    /\ SF_vars(Running /\ GenerateReceive)
    /\ SF_vars(Running /\ GenerateAbandon)
    /\ SF_vars(Running /\ StreamStop)
    /\ SF_vars(Running /\ MonitorStop)

FairSpec == Spec /\ Fairness
-----------------------------------------------------------------------------
(* Safety. *)

(* What the stream goroutine has read but not yet sent. *)
Held == IF strPc = "send" THEN <<nextFrame - 1>> ELSE <<>>

(* Everything between the camera and the disk, the oldest frames first. *)
Line == written \o <<writing>> \o clips \o <<clip, frames, Held>>

InLine == LET line == Line IN UNION {Elements(line[i]) : i \in 1..Len(line)}

(***************************************************************************)
(* Every frame the camera gave is in exactly one place: in the pipeline or *)
(* on disk, or lost in one of the four ways Cause names.  A frame must not *)
(* vanish in a hand-over (its image is memory outside the Go heap) nor be  *)
(* both closed and passed on.                                              *)
(***************************************************************************)
EveryFrameAccountedFor ==
    LET inLine == InLine IN
    \A f \in Frame :
        Cardinality({c \in Cause : f \in lost[c]}) + (IF f \in inLine THEN 1 ELSE 0)
            = IF f < nextFrame THEN 1 ELSE 0

(* The frames between the camera and the disk. *)
InFlight ==
    LET queued[n \in 0..Len(clips)] == IF n = 0 THEN <<>> ELSE queued[n - 1] \o clips[n]
    IN  writing \o queued[Len(clips)] \o clip \o frames \o Held

Recorder == INSTANCE ClipRecorder
    WITH next <- nextFrame, inFlight <- InFlight, recorded <- written, ended <- stopDone

(***************************************************************************)
(* The four goroutines and two channels together are one recorder with one *)
(* queue of frames, until the channel returned by Stop is closed: frames   *)
(* are never reordered or duplicated on their way across goroutines, clip  *)
(* boundaries and cancellations, no clip is longer than framesPerClip, and *)
(* nothing moves afterwards.                                               *)
(***************************************************************************)
IsARecorder == Recorder!RecorderSpec

(* The running Send has still to give the event to l. *)
Undelivered(l) == l = target \/ l \in pending

(***************************************************************************)
(* The stream goroutine's isOn is the negation of the monitor's wasOff,    *)
(* except between the delivery of an event to it and the return of Send:   *)
(* no event is missed, doubled or seen out of order, whatever the order of *)
(* delivery and the other goroutines do.                                   *)
(***************************************************************************)
StreamFollowsMonitor ==
    isOn <=> (IF monPc = "send" /\ ~Undelivered("stream") THEN wasOff ELSE ~wasOff)

(***************************************************************************)
(* Once Send(CAM_SWITCHED_OFF_EVT) has returned, and until the next Send,  *)
(* no frame is read from the camera: not even one whose read had been      *)
(* decided before the event came.                                          *)
(***************************************************************************)
OffMeansNoFrames ==
    [][(wasOff /\ monPc # "send") => nextFrame' = nextFrame]_vars

(***************************************************************************)
(* While Send holds the mutex, it serves registered listeners only, each   *)
(* once; a Send to a cancelled worker can only be one to the stream, and   *)
(* only when Stop no longer needs the mutex.  This is what closing the     *)
(* listener before cancelling the generator is for.                        *)
(***************************************************************************)
SendNeverStrandsStop ==
    /\ mutex <=> monPc = "send"
    /\ \A l \in Listener : Undelivered(l) =>
          /\ mutex /\ l \in listeners
          /\ ~(l = target /\ l \in pending)
          /\ l \in cancelled => l = "stream" /\ stopPc \notin {"run", "persist", "unlisten"}

(***************************************************************************)
(* When the channel returned by Stop is closed, nothing moves in the       *)
(* pipeline any more: no read, no clip made, no file written.              *)
(***************************************************************************)
QuietWhenStopDone ==
    [][stopDone => UNCHANGED <<frames, clips, clip, written, nextFrame, isOn>>]_vars

-----------------------------------------------------------------------------
(* Liveness. *)

GenerateStuck == genPc = "put" /\ Len(clips) = ClipsCap /\ perPc = "done"

(* Until a shutdown begins, every Send the monitor starts comes to its end. *)
EventsDelivered == []<>(monPc \notin {"lock", "send"} \/ stopPc # "run")

(* Until a shutdown begins, no frame stays in a queued clip, or in the persister's hands. *)
ClipsPersisted ==
    \A f \in Frame :
        []<>( \/ stopPc # "run"
              \/ f \notin Elements(writing) \cup UNION {Elements(clips[i]) : i \in 1..Len(clips)} )

(***************************************************************************)
(* Shutdown, once begun, returns, unless the generator is blocked for good *)
(* on the clips channel that nobody drains any more.                       *)
(***************************************************************************)
ShutdownReturnsUnlessStuck == []<>(stopPc \in {"run", "returned", "exited"} \/ GenerateStuck)

(* The worker has ended, or is in one of the blocking situations. *)
Ends(worker) ==
    CASE worker = "stream"   -> strPc \in {"done", "idle"}
      [] worker = "persist"  -> perPc \in {"done", "idle"}
      [] worker = "generate" -> genPc \in {"done", "idle"} \/ GenerateStuck
      [] worker = "monitor"  -> \/ monPc = "done" \/ GenerateStuck
                                \/ target = "stream" /\ strPc = "done"

(***************************************************************************)
(* A cancelled worker ends, unless: the generator is stuck as above; the   *)
(* monitor is in a Send to the stuck generator, or to the stream when it   *)
(* has gone.  (Nobody is uncancelled, and who has ended has ended.)        *)
(***************************************************************************)
CancelledWorkersEnd == []<>(~Running \/ \A worker \in cancelled : Ends(worker))

-----------------------------------------------------------------------------
(***************************************************************************)
(* A claim of the repository that the pipeline does not keep:              *)
(* server_test.go: the wait for Shutdown must end.                         *)
(***************************************************************************)
ShutdownReturns == (stopPc # "run") ~> (stopPc \in {"returned", "exited"})
=============================================================================
