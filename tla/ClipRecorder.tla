---------------------------- MODULE ClipRecorder ----------------------------
(***************************************************************************)
(* What the recording pipeline of a camera promises: frames go through one *)
(* queue, from the camera to the disk.  A clip on disk is the head of that *)
(* queue, never longer than a clip may be; what is lost is lost a clip's   *)
(* worth of neighbouring frames at a time; after the end nothing moves.    *)
(***************************************************************************)
EXTENDS Naturals, Sequences

CONSTANT FramesPerClip

VARIABLES
    next,      \* the number of the next frame the camera gives
    inFlight,  \* the frames read and neither recorded nor lost, in order
    recorded,  \* the clips on disk, in order
    ended      \* the recorder has said that it has ended

recorderVars == <<next, inFlight, recorded, ended>>

RecorderInit == next = 1 /\ inFlight = <<>> /\ recorded = <<>> /\ ended = FALSE

Capture ==
    /\ next' = next + 1
    /\ inFlight' = Append(inFlight, next)
    /\ UNCHANGED recorded

Record(n) ==
    /\ n <= Len(inFlight)
    /\ recorded' = Append(recorded, SubSeq(inFlight, 1, n))
    /\ inFlight' = SubSeq(inFlight, n + 1, Len(inFlight))
    /\ UNCHANGED next

(* The n frames that follow the first i. *)
Drop(i, n) ==
    /\ i + n <= Len(inFlight)
    /\ inFlight' = SubSeq(inFlight, 1, i) \o SubSeq(inFlight, i + n + 1, Len(inFlight))
    /\ UNCHANGED <<next, recorded>>

End == ended' = TRUE /\ UNCHANGED <<next, inFlight, recorded>>

RecorderNext ==
    /\ ~ended
    /\ \/ /\ UNCHANGED ended
          /\ \/ Capture
             \/ \E n \in 1..FramesPerClip :
                    Record(n) \/ \E i \in 0..Len(inFlight) : Drop(i, n)
       \/ End

RecorderSpec == RecorderInit /\ [][RecorderNext]_recorderVars
=============================================================================
