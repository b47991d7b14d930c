------------------------ MODULE CameraConnectionProofs ----------------------
(***************************************************************************)
(* The connection of a camera, for any number of goroutines that poll it:  *)
(* its types, its locks, and that it implements Camera.                    *)
(***************************************************************************)
EXTENDS CameraConnection, FiniteSetTheorems, TLAPS

(* A goroutine past the outer mutex, and one that holds the inner one too. *)
Busy(t) == at[t] \in {"inner", "capture", "inside", "return"}
HoldsInner(t) ==
    backend = "opencv" /\ call[t] # "Close" /\ at[t] \in {"capture", "inside", "return"}

(* Who makes which call. *)
CallsInv ==
    /\ \A p \in Pollers : call[p] \in {"none", "IsOpen", "Read"}
    /\ call["closer"] \in {"none", "Close"}
    /\ \A t \in Threads : at[t] # "idle" => call[t] # "none"

LocksInv ==
    /\ \A t \in Threads : Busy(t) => outer = t
    /\ inner = 1 <=> \E t \in Threads : HoldsInner(t)
    /\ \A t \in Threads : at[t] = "inner" => backend = "opencv"
    /\ using = {t \in Threads : at[t] = "inside"}

(* How far Close is decides both flags and the capture. *)
Closing(steps) == call["closer"] = "Close" /\ at["closer"] \in steps
ClosingInv ==
    /\ isClosing <=> Closing({"inner", "capture", "inside", "return", "idle"})
    /\ isOpen <=> ~(backend = "opencv" /\ Closing({"capture", "inside", "return", "idle"}))
    /\ capture = "closed" <=> Closing({"return", "idle"})

(* A poller reads only on a yes, and touches a released capture only then. *)
PollsInv ==
    \A p \in Pollers :
        /\ call[p] = "Read" /\ at[p] \notin {"idle", "return"} => result[p] = "yes"
        /\ call[p] = "IsOpen" /\ at[p] = "inside" /\ backend = "opencv" => isOpen
        /\ touches[p] > 0 => backend = "opencv" /\ capture = "closed"
        /\ touches[p] <= (IF result[p] = "yes" THEN 0 ELSE 1)

Inv == TypeOK /\ CallsInv /\ LocksInv /\ ClosingInv /\ PollsInv

(* It holds at the start. *)
LEMMA InvInit == Init => Inv
<1> SUFFICES ASSUME Init PROVE Inv
  OBVIOUS
<1> USE PollersAssumption DEF Init, Threads
<1>1. TypeOK
  <2>1. isClosing \in BOOLEAN /\ isOpen \in BOOLEAN /\ crashed \in BOOLEAN
    BY Zenon
  <2>2. /\ call \in [Threads -> {"none", "IsOpen", "Read", "Close"}]
        /\ at \in [Threads -> {"idle", "outer", "inner", "capture", "inside", "return"}]
        /\ result \in [Pollers -> {"none", "yes", "no", "frame", "fail"}]
        /\ touches \in [Pollers -> Nat]
    OBVIOUS
  <2> QED
    BY <2>1, <2>2 DEF TypeOK
<1>2. CallsInv
  BY DEF CallsInv
<1>3. LocksInv
  BY DEF LocksInv, Busy, HoldsInner
<1>4. ClosingInv
  BY DEF ClosingInv, Closing
<1>5. PollsInv
  BY DEF PollsInv
<1> QED
  BY <1>1, <1>2, <1>3, <1>4, <1>5 DEF Inv

(* Every step keeps the types and the callers of the calls. *)
LEMMA TypeStep == Inv /\ [Next]_vars => TypeOK'
<1> SUFFICES ASSUME Inv, [Next]_vars PROVE TypeOK'
  OBVIOUS
<1> USE PollersAssumption DEF TypeOK, Inv, Threads, locks, flags, Move, Answer
<1>1. ASSUME NEW p \in Pollers, Poll(p) PROVE TypeOK'
  BY <1>1 DEF Poll
<1>2. CASE CallClose
  BY <1>2 DEF CallClose
<1>3. CASE CaptureLost
  BY <1>3 DEF CaptureLost
<1>4. ASSUME NEW t \in Threads, LockOuter(t) PROVE TypeOK'
  BY <1>4 DEF LockOuter
<1>5. ASSUME NEW t \in Threads, LockInner(t) \/ EnterCapture(t) \/ LeaveClose(t)
      PROVE  TypeOK'
  BY <1>5 DEF LockInner, EnterCapture, LeaveClose
<1>11. ASSUME NEW t \in Threads, MarkClosed(t) PROVE TypeOK'
  <2>1. isOpen' \in BOOLEAN
    BY <1>11, Zenon DEF MarkClosed
  <2> QED
    BY <1>11, <2>1 DEF MarkClosed
<1>6. ASSUME NEW t \in Threads, AnswerFromFlag(t) PROVE TypeOK'
  BY <1>6 DEF AnswerFromFlag, KnownClosed, CallsInv
<1>7. ASSUME NEW t \in Threads, LeaveIsOpen(t) PROVE TypeOK'
  BY <1>7 DEF LeaveIsOpen, CallsInv, Touch
<1>8. ASSUME NEW t \in Threads, LeaveRead(t) PROVE TypeOK'
  BY <1>8 DEF LeaveRead, CallsInv, Touch
<1>9. ASSUME NEW t \in Threads, Return(t) PROVE TypeOK'
  <2>1. InnerAfter(t) \in 0..1
    BY <1>9 DEF Return, InnerAfter, LocksInv, HoldsInner
  <2> QED
    BY <1>9, <2>1 DEF Return
<1>10. CASE UNCHANGED vars
  BY <1>10 DEF vars
<1> QED
  BY <1>1, <1>2, <1>3, <1>4, <1>5, <1>6, <1>7, <1>8, <1>9, <1>10, <1>11
     DEF Next, Step, Waiting

LEMMA CallsStep == Inv /\ [Next]_vars => CallsInv'
<1> SUFFICES ASSUME Inv, [Next]_vars PROVE CallsInv'
  OBVIOUS
<1> USE PollersAssumption DEF TypeOK, Inv, CallsInv, Threads, Move
<1>1. ASSUME NEW p \in Pollers, Poll(p) PROVE CallsInv'
  BY <1>1 DEF Poll
<1>2. CASE CallClose
  BY <1>2 DEF CallClose
<1>3. CASE CaptureLost
  BY <1>3 DEF CaptureLost
<1>4. ASSUME NEW t \in Threads, Waiting(t) \/ Step(t) PROVE CallsInv'
  BY <1>4 DEF Waiting, Step, LockOuter, LockInner, MarkClosed, AnswerFromFlag, EnterCapture,
              LeaveIsOpen, LeaveRead, LeaveClose, Return
<1>5. CASE UNCHANGED vars
  BY <1>5 DEF vars
<1> QED
  BY <1>1, <1>2, <1>3, <1>4, <1>5 DEF Next

(* At most one goroutine is past the outer mutex. *)
LEMMA OneBusy ==
  ASSUME LocksInv, NEW s \in Threads, NEW t \in Threads, Busy(s), Busy(t)
  PROVE  s = t
  BY DEF LocksInv

LEMMA LocksStep == Inv /\ [Next]_vars => LocksInv'
<1> SUFFICES ASSUME Inv, [Next]_vars PROVE LocksInv'
  OBVIOUS
<1> USE PollersAssumption DEF TypeOK, Inv, CallsInv, LocksInv, Threads, Move, Busy, HoldsInner,
        locks, flags
<1>1. ASSUME NEW p \in Pollers, Poll(p) PROVE LocksInv'
  BY <1>1 DEF Poll
<1>2. CASE CallClose
  BY <1>2 DEF CallClose
<1>3. CASE CaptureLost
  BY <1>3 DEF CaptureLost
<1>4. ASSUME NEW t \in Threads, LockOuter(t) PROVE LocksInv'
  BY <1>4 DEF LockOuter, ForEveryCall
<1>5. ASSUME NEW t \in Threads, LockInner(t) PROVE LocksInv'
  BY <1>5 DEF LockInner
<1>6. ASSUME NEW t \in Threads, MarkClosed(t) PROVE LocksInv'
  BY <1>6 DEF MarkClosed
<1>7. ASSUME NEW t \in Threads, AnswerFromFlag(t) \/ EnterCapture(t) PROVE LocksInv'
  BY <1>7 DEF AnswerFromFlag, EnterCapture
<1>8. ASSUME NEW t \in Threads, LeaveIsOpen(t) \/ LeaveRead(t) \/ LeaveClose(t) PROVE LocksInv'
  BY <1>8 DEF LeaveIsOpen, LeaveRead, LeaveClose
<1>9. ASSUME NEW t \in Threads, Return(t) PROVE LocksInv'
  <2>1. outer = t /\ \A s \in Threads : Busy(s) => s = t
    BY <1>9 DEF Return
  <2>2. inner' = 0
    BY <1>9, <2>1 DEF Return, InnerAfter
  <2> QED
    BY <1>9, <2>1, <2>2 DEF Return
<1>10. CASE UNCHANGED vars
  BY <1>10 DEF vars
<1> QED
  BY <1>1, <1>2, <1>3, <1>4, <1>5, <1>6, <1>7, <1>8, <1>9, <1>10 DEF Next, Step, Waiting

LEMMA ClosingStep == Inv /\ [Next]_vars => ClosingInv'
<1> SUFFICES ASSUME Inv, [Next]_vars PROVE ClosingInv'
  OBVIOUS
<1> USE PollersAssumption DEF TypeOK, Inv, CallsInv, LocksInv, ClosingInv, Closing, Threads, Move,
        Busy, locks, flags
<1>1. ASSUME NEW p \in Pollers, Poll(p) PROVE ClosingInv'
  BY <1>1 DEF Poll
<1>2. CASE CallClose
  BY <1>2 DEF CallClose
<1>3. CASE CaptureLost
  BY <1>3 DEF CaptureLost
<1>4. ASSUME NEW t \in Threads, LockOuter(t) PROVE ClosingInv'
  BY <1>4 DEF LockOuter
<1>5. ASSUME NEW t \in Threads, LockInner(t) PROVE ClosingInv'
  BY <1>5 DEF LockInner
<1>6. ASSUME NEW t \in Threads, MarkClosed(t) PROVE ClosingInv'
  BY <1>6 DEF MarkClosed
<1>7. ASSUME NEW t \in Threads, AnswerFromFlag(t) \/ EnterCapture(t) PROVE ClosingInv'
  BY <1>7 DEF AnswerFromFlag, EnterCapture, KnownClosed
<1>8. ASSUME NEW t \in Threads, LeaveIsOpen(t) \/ LeaveRead(t) \/ LeaveClose(t)
      PROVE  ClosingInv'
  BY <1>8 DEF LeaveIsOpen, LeaveRead, LeaveClose
<1>9. ASSUME NEW t \in Threads, Return(t) PROVE ClosingInv'
  BY <1>9 DEF Return
<1>10. CASE UNCHANGED vars
  BY <1>10 DEF vars
<1> QED
  BY <1>1, <1>2, <1>3, <1>4, <1>5, <1>6, <1>7, <1>8, <1>9, <1>10 DEF Next, Step, Waiting

LEMMA PollsStep == Inv /\ [Next]_vars => PollsInv'
<1> SUFFICES ASSUME Inv, [Next]_vars PROVE PollsInv'
  OBVIOUS
<1> USE PollersAssumption DEF TypeOK, Inv, CallsInv, ClosingInv, Closing, PollsInv, Threads, Move,
        locks, flags, Answer
<1>1. ASSUME NEW p \in Pollers, Poll(p) PROVE PollsInv'
  BY <1>1 DEF Poll
<1>2. CASE CallClose
  BY <1>2 DEF CallClose
<1>3. CASE CaptureLost
  BY <1>3 DEF CaptureLost
<1>4. ASSUME NEW t \in Threads, LockOuter(t) PROVE PollsInv'
  BY <1>4 DEF LockOuter
<1>5. ASSUME NEW t \in Threads, LockInner(t) PROVE PollsInv'
  BY <1>5 DEF LockInner
<1>6. ASSUME NEW t \in Threads, MarkClosed(t) PROVE PollsInv'
  <2>1. \A p \in Pollers : p # t /\ at[p] # "inside"
    BY <1>6 DEF MarkClosed, LocksInv, Busy
  <2> QED
    BY <1>6, <2>1 DEF MarkClosed
<1>7. ASSUME NEW t \in Threads, AnswerFromFlag(t) PROVE PollsInv'
  BY <1>7 DEF AnswerFromFlag, KnownClosed
<1>8. ASSUME NEW t \in Threads, EnterCapture(t) PROVE PollsInv'
  BY <1>8 DEF EnterCapture, KnownClosed
<1>9. ASSUME NEW t \in Threads, LeaveIsOpen(t) PROVE PollsInv'
  BY <1>9 DEF LeaveIsOpen, Touch, Usable
<1>10. ASSUME NEW t \in Threads, LeaveRead(t) PROVE PollsInv'
  BY <1>10 DEF LeaveRead, Touch, Usable
<1>11. ASSUME NEW t \in Threads, LeaveClose(t) PROVE PollsInv'
  BY <1>11 DEF LeaveClose
<1>12. ASSUME NEW t \in Threads, Return(t) PROVE PollsInv'
  BY <1>12 DEF Return
<1>13. CASE UNCHANGED vars
  BY <1>13 DEF vars
<1> QED
  BY <1>1, <1>2, <1>3, <1>4, <1>5, <1>6, <1>7, <1>8, <1>9, <1>10, <1>11, <1>12, <1>13
     DEF Next, Step, Waiting

(***************************************************************************)
(* The invariant holds throughout, under fairness or without.              *)
(***************************************************************************)
THEOREM TypeCorrect == Spec => [](Inv /\ TypeOK)
<1>1. Inv /\ [Next]_vars => Inv'
  BY TypeStep, CallsStep, LocksStep, ClosingStep, PollsStep DEF Inv
<1>2. Inv => TypeOK
  BY DEF Inv
<1> QED
  BY InvInit, <1>1, <1>2, PTL DEF Spec

(***************************************************************************)
(* However many goroutines poll, the capture is never called by two at a   *)
(* time.                                                                   *)
(***************************************************************************)
THEOREM OneCall == Spec => []OneCallAtATime
<1>1. Inv => OneCallAtATime
  <2> SUFFICES ASSUME Inv PROVE OneCallAtATime
    OBVIOUS
  <2>1. CASE using = {}
    BY <2>1, FS_EmptySet DEF OneCallAtATime
  <2>2. CASE using # {}
    <3>1. PICK t \in Threads : t \in using
      BY <2>2 DEF Inv, LocksInv
    <3>2. using = {t}
      BY <3>1, OneBusy DEF Inv, LocksInv, Busy
    <3>3. Cardinality({t}) = 1
      BY FS_Singleton
    <3> QED
      BY <3>2, <3>3 DEF OneCallAtATime
  <2> QED
    BY <2>1, <2>2
<1> QED
  BY <1>1, TypeCorrect, PTL

(***************************************************************************)
(* Between calls the flags of the connection and of the backend say what   *)
(* has become of the capture.                                              *)
(***************************************************************************)
THEOREM Agree == Spec => []LayersAgree
<1>1. Inv => LayersAgree
  BY DEF Inv, TypeOK, CallsInv, LocksInv, ClosingInv, Closing, Busy, LayersAgree, Threads
<1> QED
  BY <1>1, TypeCorrect, PTL

(* A released capture is touched at most once by each poller. *)
THEOREM TouchedOnce == Spec => []ReleasedTouchedOnce
<1>1. Inv => ReleasedTouchedOnce
  BY DEF Inv, TypeOK, PollsInv, ReleasedTouchedOnce
<1> QED
  BY <1>1, TypeCorrect, PTL

(***************************************************************************)
(* The connection implements Camera: IsOpen and Read take effect when they *)
(* leave the capture, or find the flag, and Close when it has released it. *)
(***************************************************************************)
THEOREM Implements == Spec => IsACamera
<1> USE DEF Move, Answer, locks, flags, AbstractCamera!cameraVars
<1>1. Init => AbstractCamera!CameraInit
  BY DEF Init, AbstractCamera!CameraInit
<1>2. Inv /\ [Next]_vars => [AbstractCamera!CameraNext]_(AbstractCamera!cameraVars)
  <2> SUFFICES ASSUME Inv, [Next]_vars
               PROVE  [AbstractCamera!CameraNext]_(AbstractCamera!cameraVars)
    OBVIOUS
  <2> USE DEF AbstractCamera!CameraNext
  <2>1. ASSUME NEW p \in Pollers, Poll(p) PROVE UNCHANGED AbstractCamera!cameraVars
    BY <2>1 DEF Poll
  <2>2. CASE CallClose
    BY <2>2 DEF CallClose
  <2>3. CASE CaptureLost
    BY <2>3 DEF CaptureLost, AbstractCamera!Lose
  <2>4. ASSUME NEW t \in Threads, \/ LockOuter(t) \/ LockInner(t) \/ MarkClosed(t)
                                  \/ EnterCapture(t) \/ Return(t)
        PROVE  UNCHANGED AbstractCamera!cameraVars
    BY <2>4 DEF LockOuter, LockInner, MarkClosed, EnterCapture, Return
  <2>5. ASSUME NEW t \in Threads, AnswerFromFlag(t)
        PROVE  t \in Pollers /\ AbstractCamera!IsOpen(t)
    <3>1. t \in Pollers /\ backend = "opencv" /\ ~isOpen /\ at[t] = "capture"
      BY <2>5 DEF AnswerFromFlag, KnownClosed, Inv, CallsInv, Threads
    <3>2. ~Busy("closer")
      <4>1. Busy(t) /\ t # "closer"
        BY <3>1, PollersAssumption DEF Busy
      <4> QED
        BY <4>1, OneBusy DEF Inv, Threads
    <3>3. Closing({"capture", "inside", "return", "idle"})
      BY <3>1 DEF Inv, ClosingInv
    <3>4. capture = "closed"
      BY <3>2, <3>3 DEF Inv, ClosingInv, Closing, Busy
    <3> QED
      BY <2>5, <3>1, <3>4 DEF AnswerFromFlag, AbstractCamera!IsOpen, AbstractCamera!Answers,
                              AbstractCamera!Usable
  <2>6. ASSUME NEW t \in Threads, LeaveIsOpen(t)
        PROVE  t \in Pollers /\ AbstractCamera!IsOpen(t)
    BY <2>6 DEF LeaveIsOpen, Usable, Inv, CallsInv, Threads, AbstractCamera!IsOpen,
                AbstractCamera!Answers, AbstractCamera!Usable
  <2>7. ASSUME NEW t \in Threads, LeaveRead(t)
        PROVE  t \in Pollers /\ AbstractCamera!Read(t)
    BY <2>7 DEF LeaveRead, Usable, Inv, CallsInv, Threads, AbstractCamera!Read,
                AbstractCamera!Answers, AbstractCamera!Usable
  <2>8. ASSUME NEW t \in Threads, LeaveClose(t) PROVE AbstractCamera!Close
    <3>1. capture # "closed"
      BY <2>8, PollersAssumption DEF LeaveClose, Inv, CallsInv, ClosingInv, Closing, Threads
    <3> QED
      BY <2>8, <3>1 DEF LeaveClose, AbstractCamera!Close
  <2>9. CASE UNCHANGED vars
    BY <2>9 DEF vars
  <2> QED
    BY <2>1, <2>2, <2>3, <2>4, <2>5, <2>6, <2>7, <2>8, <2>9 DEF Next, Step, Waiting
<1> QED
  BY <1>1, <1>2, TypeCorrect, PTL DEF Spec, IsACamera, AbstractCamera!CameraSpec
=============================================================================
