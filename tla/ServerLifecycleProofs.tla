------------------------ MODULE ServerLifecycleProofs -----------------------
(***************************************************************************)
(* The server's start and end, for any number of cameras.                  *)
(***************************************************************************)
EXTENDS ServerLifecycle, FiniteSetTheorems, TLAPS

(* The WaitGroup is never below zero unless that has brought the program down. *)
TypeInv == TypeOK /\ (~crashed => wg >= 0)

(* Counting a set of cameras. *)
LEMMA CountIs ==
  ASSUME NEW S \in SUBSET Cameras
  PROVE  /\ IsFiniteSet(S) /\ Cardinality(S) \in 0..Cardinality(Cameras)
         /\ Cardinality(Cameras) \in Nat
         /\ Cardinality(S) = 0 <=> S = {}
<1>1. IsFiniteSet(S) /\ Cardinality(S) <= Cardinality(Cameras)
  BY CamerasAssumption, FS_Subset
<1>2. Cardinality(S) \in Nat /\ Cardinality(Cameras) \in Nat
  BY <1>1, CamerasAssumption, FS_CardinalityType
<1>3. Cardinality(S) = 0 <=> S = {}
  BY <1>1, FS_EmptySet
<1> QED
  BY <1>1, <1>2, <1>3

LEMMA TypeInit == Init => TypeInv
<1> SUFFICES ASSUME Init PROVE TypeInv
  OBVIOUS
<1> USE DEF Init
<1>1. /\ statsOn \in BOOLEAN /\ ctxDone \in BOOLEAN /\ resultsClosed \in BOOLEAN
      /\ crashed \in BOOLEAN
  BY Zenon
<1>2. Statistics!ProcessTypeOK
  BY Zenon DEF Statistics!ProcessInit, Statistics!ProcessTypeOK
<1>3. wg \in -1..Cardinality(Cameras) /\ wg >= 0
  BY CountIs
<1>4. /\ connector \in [Cameras -> {"none", "spawned", "connecting", "sending", "done"}]
      /\ opener \in [Cameras -> {"none", "opening", "cam", "err", "taken"}]
      /\ answer \in [Cameras -> {"none", "cam", "err"}]
      /\ procs \in [Cameras -> ProcState]
  BY DEF ProcState
<1> QED
  BY <1>1, <1>2, <1>3, <1>4 DEF TypeInv, TypeOK, MainPc

(* The statistics process keeps its types whatever is done to it. *)
LEMMA ProcessStep ==
  ASSUME Statistics!ProcessTypeOK,
         \/ Statistics!New \/ Statistics!Start \/ Statistics!Stop \/ Statistics!Goroutine
         \/ UNCHANGED statsVars
  PROVE  Statistics!ProcessTypeOK'
<1> USE DEF Statistics!ProcessTypeOK
<1>1. CASE Statistics!New
  BY <1>1 DEF Statistics!New
<1>2. CASE Statistics!Start
  BY <1>2 DEF Statistics!Start
<1>3. CASE Statistics!Stop
  BY <1>3 DEF Statistics!Stop
<1>4. CASE Statistics!Begin
  <2>1. canceller' \in BOOLEAN
    BY <1>4, Zenon DEF Statistics!Begin
  <2> QED
    BY <1>4, <2>1 DEF Statistics!Begin
<1>5. CASE Statistics!Finish
  BY <1>5 DEF Statistics!Finish
<1>6. CASE UNCHANGED statsVars
  BY <1>6 DEF statsVars
<1> QED
  BY <1>1, <1>2, <1>3, <1>4, <1>5, <1>6 DEF Statistics!Goroutine

LEMMA TypeStep == TypeInv /\ [Next]_vars => TypeInv'
<1> SUFFICES ASSUME TypeInv, [Next]_vars PROVE TypeInv'
  OBVIOUS
<1> USE DEF TypeInv, TypeOK, settled, upVars, mainVars, connVars
<1>1. ASSUME NEW c \in Cameras, Connector(c) \/ Opener(c) PROVE TypeInv'
  <2>1. CASE ConnectorStart(c) \/ ConnectorResult(c) \/ ConnectorCancelled(c) \/ OpenerReturns(c)
    BY <2>1, ProcessStep
       DEF ConnectorStart, ConnectorResult, ConnectorCancelled, OpenerReturns
  <2> QED
    BY <1>1, <2>1 DEF Connector, Opener
<1>2. CASE Closer
  <2>1. resultsClosed' \in BOOLEAN
    BY <1>2, Zenon DEF Closer
  <2> QED
    BY <1>2, <2>1, ProcessStep DEF Closer
<1>3. CASE Connect \/ ReceiveLock \/ ReceiveEnd \/ SetupEnd \/ RunEnd
  BY <1>3, ProcessStep DEF Connect, ReceiveLock, ReceiveEnd, SetupEnd, RunEnd, Present
<1>4. CASE SetupStatistics
  BY <1>4, ProcessStep DEF SetupStatistics
<1>5. CASE RunStatistics
  BY <1>5, ProcessStep DEF RunStatistics
<1>6. ASSUME NEW c \in Cameras, Receive(c) \/ RunProcess(c) PROVE TypeInv'
  BY <1>6, ProcessStep DEF Receive, RunProcess, ProcState
<1>7. ASSUME NEW c \in Cameras, SetupProcess(c) PROVE TypeInv'
  <2>1. crashed' = TRUE \/ crashed' = crashed
    BY <1>7 DEF SetupProcess
  <2>2. crashed' \in BOOLEAN /\ (~crashed' => ~crashed)
    BY <2>1, Zenon
  <2> QED
    BY <1>7, <2>2, ProcessStep DEF SetupProcess, ProcState
<1>8. CASE StatisticsGoroutine
  BY <1>8, ProcessStep DEF StatisticsGoroutine
<1>9. CASE Signal
  <2>1. signalAt' \in {"none", "early", "setUp", "started"}
    BY <1>9 DEF Signal, Progress
  <2> QED
    BY <1>9, <2>1, ProcessStep DEF Signal, MainPc
<1>10. CASE CancelStartup
  <2>1. ctxDone' \in BOOLEAN
    BY <1>10, Zenon DEF CancelStartup
  <2> QED
    BY <1>10, <2>1, ProcessStep DEF CancelStartup, MainPc
<1>11. CASE StopStatistics
  <2>1. crashed' \in BOOLEAN /\ (~crashed' => ~crashed)
    BY <1>11, Zenon DEF StopStatistics
  <2>2. Statistics!ProcessTypeOK'
    BY <1>11, ProcessStep DEF StopStatistics, StopsStatistics
  <2> QED
    BY <1>11, <2>1, <2>2 DEF StopStatistics, MainPc
<1>12. CASE CountProcesses
  <2>1. wg' \in -1..Cardinality(Cameras) /\ wg' >= 0
    BY <1>12, CountIs DEF CountProcesses, Present
  <2> QED
    BY <1>12, <2>1, ProcessStep DEF CountProcesses, MainPc, Present
<1>13. CASE VisitEnd \/ Join \/ ShutdownLock \/ CloseCameras \/ Exit
  BY <1>13, ProcessStep DEF VisitEnd, Join, ShutdownLock, CloseCameras, Exit, MainPc
<1>14. ASSUME NEW c \in Cameras, VisitProcess(c) \/ StopHangs(c) PROVE TypeInv'
  BY <1>14, ProcessStep DEF VisitProcess, StopHangs
<1>15. ASSUME NEW c \in Cameras, Stopper(c) PROVE TypeInv'
  <2>1. crashed' = (wg = 0) /\ ~crashed /\ wg' = wg - 1
    BY <1>15, Zenon DEF Stopper, StopReturns, Alive
  <2>2. crashed' \in BOOLEAN /\ (~crashed' => wg # 0)
    BY <2>1, Zenon
  <2>3. wg \in 0..Cardinality(Cameras) /\ Cardinality(Cameras) \in Nat
    BY <2>1, CountIs
  <2>4. wg' \in -1..Cardinality(Cameras) /\ (~crashed' => wg' >= 0)
    BY <2>1, <2>2, <2>3
  <2> QED
    BY <1>15, <2>2, <2>4, ProcessStep DEF Stopper, StopReturns, ProcState
<1>16. ASSUME NEW c \in Cameras, WorkersEnd(c) PROVE TypeInv'
  BY <1>16, ProcessStep DEF WorkersEnd, ProcState
<1>17. CASE UNCHANGED vars
  BY <1>17, ProcessStep DEF vars
<1> QED
  BY <1>1, <1>2, <1>3, <1>4, <1>5, <1>6, <1>7, <1>8, <1>9, <1>10, <1>11, <1>12, <1>13, <1>14,
     <1>15, <1>16, <1>17 DEF Next, Startup, Shutdown

(* A process that has not crashed counts down to zero at worst; every variable keeps its type. *)
THEOREM TypeCorrect == Spec => [](TypeInv /\ TypeOK)
<1>1. TypeInv => TypeOK
  BY DEF TypeInv
<1> QED
  BY <1>1, TypeInit, TypeStep, PTL DEF Spec

-----------------------------------------------------------------------------
(* How far the connector of one camera is, and what is known of the camera then. *)

Unsettled(c) == c \notin cameras \cup errs

ConnectorInv(c) ==
    /\ connector[c] \in {"none", "spawned"} => Unsettled(c) /\ opener[c] = "none"
    /\ connector[c] = "connecting" => Unsettled(c) /\ c \notin disabled
    /\ connector[c] = "sending" =>
          /\ Unsettled(c) /\ c \notin disabled
          /\ answer[c] \in {"cam", "err"}
          /\ opener[c] = "taken" \/ (ctxDone /\ answer[c] = "err")
    /\ connector[c] = "done" =>
          /\ c \notin cameras \cap errs
          /\ c \in disabled => Unsettled(c)
          /\ Unsettled(c) => c \in disabled \/ ctxDone
          /\ opener[c] \in {"opening", "cam", "err"} => ctxDone /\ c \in errs

(* Where the two goroutines are, and what they hold. *)
ControlInv ==
    /\ upPc = "connect" => \A c \in Cameras : connector[c] = "none"
    /\ upPc \in {"connect", "lock"} => cameras = {}
    /\ resultsClosed => upPc # "connect" /\ \A c \in Cameras : connector[c] = "done"
    /\ upPc \notin {"connect", "lock", "receive"} => resultsClosed
    /\ upPc = "receive" <=> mu = "startup"
    /\ mainPc = "close" <=> mu = "main"
    /\ closed # {} => closed = cameras /\ upPc \notin {"connect", "lock", "receive"}

StartInv == ControlInv /\ \A c \in Cameras : ConnectorInv(c)

LEMMA StartInit == Init => StartInv
BY DEF Init, StartInv, ControlInv, ConnectorInv, Unsettled

LEMMA StartStep == TypeOK /\ StartInv /\ [Next]_vars => StartInv'
<1> SUFFICES ASSUME TypeOK, StartInv, [Next]_vars PROVE StartInv'
  OBVIOUS
<1> USE DEF StartInv, settled, upVars, mainVars, connVars
<1>1. ASSUME NEW c \in Cameras, ConnectorStart(c) \/ ConnectorResult(c) \/ ConnectorCancelled(c)
      PROVE  StartInv'
  <2> USE DEF ConnectorStart, ConnectorResult, ConnectorCancelled, TypeOK
  <2>1. ControlInv'
    BY <1>1 DEF ControlInv
  <2>2. ConnectorInv(c)'
    BY <1>1 DEF ConnectorInv, Unsettled, Skipped, SeesCancel
  <2>3. ASSUME NEW d \in Cameras, d # c PROVE ConnectorInv(d)'
    BY <1>1, <2>3 DEF ConnectorInv, Unsettled
  <2> QED
    BY <2>1, <2>2, <2>3
<1>2. ASSUME NEW c \in Cameras, OpenerReturns(c) PROVE StartInv'
  BY <1>2 DEF OpenerReturns, ControlInv, ConnectorInv, Unsettled, TypeOK
<1>3. CASE Closer
  BY <1>3 DEF Closer, AllFinished, ControlInv, ConnectorInv, Unsettled
<1>4. CASE Connect
  BY <1>4 DEF Connect, ControlInv, ConnectorInv, Unsettled
<1>5. CASE ReceiveLock \/ ReceiveEnd
  BY <1>5 DEF ReceiveLock, ReceiveEnd, ControlInv, ConnectorInv, Unsettled
<1>6. ASSUME NEW c \in Cameras, Receive(c) PROVE StartInv'
  <2> USE DEF Receive, TypeOK
  <2>1. ControlInv'
    BY <1>6 DEF ControlInv
  <2>2. ConnectorInv(c)'
    BY <1>6 DEF ConnectorInv, Unsettled
  <2>3. ASSUME NEW d \in Cameras, d # c PROVE ConnectorInv(d)'
    BY <1>6, <2>3 DEF ConnectorInv, Unsettled
  <2> QED
    BY <2>1, <2>2, <2>3
<1>7. CASE SetupStatistics \/ SetupEnd \/ RunStatistics \/ RunEnd
  BY <1>7 DEF SetupStatistics, SetupEnd, RunStatistics, RunEnd, ControlInv, ConnectorInv, Unsettled
<1>8. ASSUME NEW c \in Cameras, SetupProcess(c) \/ RunProcess(c) PROVE StartInv'
  BY <1>8 DEF SetupProcess, RunProcess, ControlInv, ConnectorInv, Unsettled
<1>9. CASE StatisticsGoroutine \/ Signal \/ StopStatistics
  BY <1>9 DEF StatisticsGoroutine, Signal, StopStatistics, ControlInv, ConnectorInv, Unsettled
<1>10. CASE CancelStartup
  BY <1>10 DEF CancelStartup, ControlInv, ConnectorInv, Unsettled
<1>11. CASE CountProcesses \/ VisitEnd \/ Join \/ Exit
  BY <1>11 DEF CountProcesses, VisitEnd, Join, Exit, ControlInv, ConnectorInv, Unsettled
<1>12. ASSUME NEW c \in Cameras,
              VisitProcess(c) \/ StopHangs(c) \/ Stopper(c) \/ WorkersEnd(c)
       PROVE  StartInv'
  BY <1>12 DEF VisitProcess, StopHangs, Stopper, StopReturns, WorkersEnd, ControlInv,
     ConnectorInv, Unsettled
<1>13. CASE ShutdownLock \/ CloseCameras
  BY <1>13 DEF ShutdownLock, MuFree, CloseCameras, ControlInv, ConnectorInv, Unsettled, TypeOK
<1>14. CASE UNCHANGED vars
  BY <1>14 DEF vars, ControlInv, ConnectorInv, Unsettled
<1> QED
  BY <1>1, <1>2, <1>3, <1>4, <1>5, <1>6, <1>7, <1>8, <1>9, <1>10, <1>11, <1>12, <1>13, <1>14
     DEF Next, Startup, Shutdown, Connector, Opener

LEMMA StartAlways == Spec => [](TypeOK /\ StartInv)
<1> QED
  BY TypeCorrect, StartInit, StartStep, PTL DEF Spec

(* When connect returns, each camera is tracked, failed, disabled or seen cancelled, never two. *)
THEOREM Answered == Spec => []EveryCameraAnswered
<1>1. TypeOK /\ StartInv => EveryCameraAnswered
  BY DEF TypeOK, StartInv, ControlInv, ConnectorInv, Unsettled, EveryCameraAnswered
<1> QED
  BY <1>1, StartAlways, PTL

(* Only the cancellation makes the server drop a capture that it has opened. *)
THEOREM DroppedByCancel == Spec => []CaptureDroppedOnlyByCancel
<1>1. StartInv => CaptureDroppedOnlyByCancel
  BY DEF StartInv, ConnectorInv, CaptureDroppedOnlyByCancel
<1> QED
  BY <1>1, StartAlways, PTL

(* Shutdown closes every camera that is ever tracked, or none. *)
THEOREM ClosedTogether == Spec => []AllClosedOrNone
<1>1. StartInv => AllClosedOrNone
  BY DEF StartInv, ControlInv, AllClosedOrNone
<1> QED
  BY <1>1, StartAlways, PTL

-----------------------------------------------------------------------------
(***************************************************************************)
(* The processes.  Before the shutdown counts them none is stopped.  Once  *)
(* all are set up their set does not change any more, so the WaitGroup     *)
(* holds exactly those that are yet to be stopped, and a process that is   *)
(* started after its Stop becomes an orphan.                               *)
(***************************************************************************)

Counting == mainPc \in {"wait", "cancel", "stats", "count"}
Unstopped == toStop \cup stopping
Late == signalAt \in {"setUp", "started"}

ProcessesInv ==
    /\ Present \subseteq cameras /\ toStart \cup Unstopped \subseteq Present
    /\ upPc \in {"runStats", "run", "done"} => cameras \subseteq Present
    /\ upPc \in {"setupStats", "setup", "connect", "lock", "receive", "done"} => toStart = {}
    /\ mainPc \in {"wait", "cancel"} => closed = {}
    /\ closed # {} => mainPc \in {"returned", "exited"}

(* No process is told to end before the shutdown, nor runs before it is started. *)
ToldInv ==
    /\ Counting => \A c \in Cameras : procs[c] \notin Told
    /\ upPc \notin {"runStats", "run", "done"} =>
          \A c \in Cameras : procs[c] \in {"absent", "new", "stopped"}
    /\ \A c \in toStart : procs[c] \in {"new", "stopped"}
    /\ signalAt = "none" <=> mainPc = "wait"
    /\ signalAt = "started" => upPc = "done" /\ \A c \in Cameras : procs[c] # "orphan"

OrderlyInv ==
    Late =>
        /\ upPc \in {"runStats", "run", "done"} /\ ~crashed
        /\ ~Counting =>
              /\ Unstopped \subseteq cameras /\ toStop \cap stopping = {}
              /\ wg = Cardinality(Unstopped)
              /\ \A c \in cameras \ Unstopped : procs[c] \in Told
        /\ mainPc \notin {"wait", "cancel", "stats", "count", "visit"} => toStop = {}
        /\ mainPc \in {"lock", "close", "returned", "exited"} => Unstopped = {}
        /\ mainPc \in {"returned", "exited"} => closed = cameras

ShutdownInv == (Counting => Unstopped = {}) /\ ProcessesInv /\ OrderlyInv

EndInv == ToldInv /\ ShutdownInv

LEMMA EndInit == Init => EndInv
BY DEF Init, EndInv, ShutdownInv, ProcessesInv, ToldInv, OrderlyInv, Late, Present, Counting,
   Unstopped, Told

(* The goroutine that stops process c counts down by one, which is what it takes away. *)
LEMMA CountDown ==
  ASSUME TypeInv, NEW c \in Cameras, c \in stopping, toStop \cap stopping = {}
  PROVE  /\ Cardinality(toStop \cup (stopping \ {c})) = Cardinality(Unstopped) - 1
         /\ Cardinality(Unstopped) > 0
<1>1. /\ Unstopped \subseteq Cameras /\ c \in Unstopped
      /\ toStop \cup (stopping \ {c}) = Unstopped \ {c}
  BY DEF Unstopped, TypeInv, TypeOK
<1>2. IsFiniteSet(Unstopped) /\ Cardinality(Unstopped) \in Nat /\ Cardinality(Unstopped) # 0
  BY <1>1, CountIs
<1>3. Cardinality(Unstopped \ {c}) = Cardinality(Unstopped) - 1
  BY <1>1, <1>2, FS_RemoveElement
<1> QED
  BY <1>1, <1>2, <1>3

(* Where no process is started or stopped, what is known of them stays. *)
LEMMA ToldHolds ==
  ASSUME ToldInv, UNCHANGED <<procs, toStart, mainPc, signalAt>>,
         upPc' \in {"runStats", "run", "done"} <=> upPc \in {"runStats", "run", "done"},
         upPc = "done" => upPc' = "done"
  PROVE  ToldInv'
BY DEF ToldInv, Counting

(* The main goroutine goes on; it does not go back to counting. *)
LEMMA ToldGoesOn ==
  ASSUME ToldInv, UNCHANGED <<procs, toStart, upPc, signalAt>>,
         Counting' => Counting, mainPc # "wait" /\ mainPc' # "wait"
  PROVE  ToldInv'
BY DEF ToldInv

LEMMA ToldStep ==
  ASSUME TypeInv, EndInv, [Next]_vars
  PROVE  ToldInv'
<1> USE DEF EndInv, ShutdownInv, settled, upVars, mainVars, connVars
<1>1. ASSUME NEW c \in Cameras, Connector(c) \/ Opener(c) PROVE ToldInv'
  BY <1>1, ToldHolds DEF Connector, Opener, ConnectorStart, ConnectorResult, ConnectorCancelled,
     OpenerReturns
<1>2. CASE Closer \/ Connect \/ ReceiveLock \/ ReceiveEnd
  BY <1>2, ToldHolds DEF Closer, Connect, ReceiveLock, ReceiveEnd
<1>3. ASSUME NEW c \in Cameras, Receive(c) PROVE ToldInv'
  BY <1>3, ToldHolds DEF Receive
<1>4. CASE SetupStatistics \/ RunStatistics
  BY <1>4, ToldHolds DEF SetupStatistics, RunStatistics
<1>5. CASE SetupEnd
  <2>1. /\ upPc = "setup" /\ upPc' = "runStats" /\ toStart' = Present
        /\ UNCHANGED <<procs, mainPc, signalAt>>
    BY <1>5 DEF SetupEnd
  <2>2. \A c \in toStart' : procs[c] \in {"new", "stopped"}
    BY <2>1 DEF ToldInv, Present
  <2> QED
    BY <2>1, <2>2 DEF ToldInv, Counting
<1>6. CASE RunEnd
  BY <1>6 DEF RunEnd, ToldInv, Counting
<1>7. ASSUME NEW c \in Cameras, SetupProcess(c) PROVE ToldInv'
  <2>1. /\ upPc = "setup" /\ procs[c] = "absent" /\ procs' = [procs EXCEPT ![c] = "new"]
        /\ UNCHANGED <<upPc, toStart, mainPc, signalAt>>
    BY <1>7 DEF SetupProcess
  <2>2. \A d \in Cameras : procs'[d] = IF d = c THEN "new" ELSE procs[d]
    BY <2>1 DEF TypeInv, TypeOK
  <2> QED
    BY <2>1, <2>2 DEF ToldInv, Counting, Told, TypeInv, TypeOK
<1>8. ASSUME NEW c \in Cameras, RunProcess(c) PROVE ToldInv'
  <2>1. /\ upPc = "run" /\ c \in toStart /\ toStart' = toStart \ {c}
        /\ UNCHANGED <<upPc, mainPc, signalAt>>
    BY <1>8 DEF RunProcess
  <2>2. \A d \in Cameras : procs'[d] = IF d # c THEN procs[d]
                              ELSE IF procs[c] = "stopped" THEN "orphan" ELSE "running"
    BY <1>8 DEF RunProcess, TypeInv, TypeOK
  <2>3. Counting => procs[c] # "stopped"
    BY <2>1 DEF ToldInv, Told
  <2> QED
    BY <2>1, <2>2, <2>3 DEF ToldInv, Counting, Told, TypeInv, TypeOK
<1>9. CASE StatisticsGoroutine
  BY <1>9, ToldHolds DEF StatisticsGoroutine
<1>10. CASE Signal
  <2>1. /\ mainPc = "wait" /\ mainPc' = "cancel" /\ signalAt' = Progress
        /\ UNCHANGED <<procs, toStart, upPc>>
    BY <1>10 DEF Signal
  <2>2. Progress = "started" => upPc = "done"
    BY DEF Progress
  <2>3. Progress # "none"
    BY DEF Progress
  <2>4. \A c \in Cameras : procs[c] # "orphan"
    BY <2>1 DEF ToldInv, Counting, Told
  <2> QED
    BY <2>1, <2>2, <2>3, <2>4 DEF ToldInv, Counting
<1>11. CASE CancelStartup \/ StopStatistics \/ CountProcesses
  BY <1>11, ToldGoesOn DEF CancelStartup, StopStatistics, CountProcesses, Counting
<1>12. CASE VisitEnd \/ Join \/ ShutdownLock \/ CloseCameras \/ Exit
  BY <1>12, ToldGoesOn DEF VisitEnd, Join, ShutdownLock, CloseCameras, Exit, Counting
<1>13. ASSUME NEW c \in Cameras, VisitProcess(c) \/ StopHangs(c) PROVE ToldInv'
  BY <1>13, ToldHolds DEF VisitProcess, StopHangs
<1>14. ASSUME NEW c \in Cameras, Stopper(c) PROVE ToldInv'
  <2>1. ~Counting /\ UNCHANGED <<upPc, toStart, mainPc, signalAt>>
    BY <1>14 DEF Stopper, StopReturns, Unstopped
  <2>2. \A d \in Cameras : procs'[d] = IF d # c THEN procs[d]
                              ELSE IF procs[c] = "running" THEN "cancelled" ELSE "stopped"
    BY <1>14 DEF Stopper, StopReturns, TypeInv, TypeOK
  <2>3. c \in toStart => procs[c] # "running"
    BY DEF ToldInv
  <2>4. upPc \notin {"runStats", "run", "done"} => procs[c] # "running"
    BY DEF ToldInv
  <2> QED
    BY <2>1, <2>2, <2>3, <2>4 DEF ToldInv, Counting, TypeInv, TypeOK
<1>15. ASSUME NEW c \in Cameras, WorkersEnd(c) PROVE ToldInv'
  <2>1. procs[c] = "cancelled" /\ UNCHANGED <<upPc, toStart, mainPc, signalAt>>
    BY <1>15 DEF WorkersEnd
  <2>2. \A d \in Cameras : procs'[d] = IF d = c THEN "ended" ELSE procs[d]
    BY <1>15 DEF WorkersEnd, TypeInv, TypeOK
  <2> QED
    BY <2>1, <2>2 DEF ToldInv, Counting, Told, TypeInv, TypeOK
<1>16. CASE UNCHANGED vars
  BY <1>16, ToldHolds DEF vars
<1> QED
  BY <1>1, <1>2, <1>3, <1>4, <1>5, <1>6, <1>7, <1>8, <1>9, <1>10, <1>11, <1>12, <1>13, <1>14,
     <1>15, <1>16 DEF Next, Startup, Shutdown

LEMMA EndStep == TypeInv /\ StartInv /\ EndInv /\ [Next]_vars => EndInv'
<1> SUFFICES ASSUME TypeInv, StartInv, EndInv, [Next]_vars PROVE EndInv'
  OBVIOUS
<1>t. ToldInv'
  BY ToldStep
<1> SUFFICES ShutdownInv'
  BY <1>t DEF EndInv
<1> USE DEF EndInv, ShutdownInv, settled, upVars, mainVars, connVars
<1>1. ASSUME NEW c \in Cameras, Connector(c) \/ Opener(c) PROVE ShutdownInv'
  BY <1>1 DEF Connector, Opener, ConnectorStart, ConnectorResult, ConnectorCancelled,
     OpenerReturns, ProcessesInv, OrderlyInv, Late, Present, Counting, Unstopped
<1>2. CASE Closer
  BY <1>2 DEF Closer, ProcessesInv, OrderlyInv, Late, Present, Counting, Unstopped
<1>3. CASE Connect \/ ReceiveLock \/ ReceiveEnd
  BY <1>3 DEF Connect, ReceiveLock, ReceiveEnd, ProcessesInv, OrderlyInv, Late, Present, Counting,
     Unstopped
<1>4. ASSUME NEW c \in Cameras, Receive(c) PROVE ShutdownInv'
  <2>1. closed = {}
    BY <1>4 DEF Receive, StartInv, ControlInv
  <2> QED
    BY <1>4, <2>1 DEF Receive, ProcessesInv, OrderlyInv, Late, Present, Counting, Unstopped
<1>5. CASE SetupStatistics \/ SetupEnd \/ RunStatistics \/ RunEnd
  BY <1>5 DEF SetupStatistics, SetupEnd, RunStatistics, RunEnd, ProcessesInv, OrderlyInv, Late,
     Present, Counting, Unstopped
<1>6. ASSUME NEW c \in Cameras, SetupProcess(c) PROVE ShutdownInv'
  BY <1>6 DEF SetupProcess, ProcessesInv, OrderlyInv, Late, Present, Counting, Unstopped, TypeInv,
     TypeOK
<1>7. ASSUME NEW c \in Cameras, RunProcess(c) PROVE ShutdownInv'
  <2>1. Present' = Present
    BY <1>7 DEF RunProcess, ProcessesInv, Present, TypeInv, TypeOK
  <2>2. \A d \in Cameras : procs[d] \in Told => procs'[d] \in Told
    <3>1. c \in toStart /\ procs[c] \in {"new", "stopped"}
      BY <1>7 DEF RunProcess, ToldInv
    <3>2. \A d \in Cameras : procs'[d] = IF d # c THEN procs[d]
                                ELSE IF procs[c] = "stopped" THEN "orphan" ELSE "running"
      BY <1>7 DEF RunProcess, TypeInv, TypeOK
    <3> QED
      BY <3>1, <3>2 DEF Told
  <2>3. ProcessesInv'
    BY <1>7, <2>1 DEF RunProcess, ProcessesInv, Unstopped
  <2>4. OrderlyInv'
    BY <1>7, <2>2 DEF RunProcess, OrderlyInv, Late, Counting, Unstopped, TypeInv, TypeOK
  <2> QED
    BY <1>7, <2>3, <2>4 DEF RunProcess, Counting, Unstopped
<1>8. CASE StatisticsGoroutine \/ StopStatistics
  <2>1. CASE StatisticsGoroutine
    BY <2>1 DEF StatisticsGoroutine, ProcessesInv, OrderlyInv, Late, Present, Counting, Unstopped
  <2>2. CASE StopStatistics
    <3>1. /\ mainPc = "stats" /\ mainPc' = "count"
          /\ UNCHANGED <<upPc, toStart, toStop, stopping, wg, closed, signalAt, cameras, procs>>
      BY <2>2 DEF StopStatistics
    <3>2. crashed' = crashed \/ upPc = "setupStats"
      BY <2>2, Zenon DEF StopStatistics
    <3>3. Late => ~crashed'
      BY <3>2, Zenon DEF OrderlyInv
    <3>4. ProcessesInv' /\ (Counting => Unstopped = {})'
      BY <3>1 DEF ProcessesInv, Present, Counting, Unstopped
    <3>5. OrderlyInv'
      BY <3>1, <3>3 DEF OrderlyInv, Late, Counting, Unstopped
    <3> QED
      BY <3>4, <3>5
  <2> QED
    BY <1>8, <2>1, <2>2
<1>9. CASE Signal
  <2>1. Progress \in {"setUp", "started"} => upPc \in {"runStats", "run", "done"}
    BY DEF Progress
  <2> QED
    BY <1>9, <2>1 DEF Signal, Alive, ProcessesInv, OrderlyInv, Late, Present, Counting, Unstopped
<1>10. CASE CancelStartup
  BY <1>10 DEF CancelStartup, ProcessesInv, OrderlyInv, Late, Present, Counting, Unstopped
<1>11. CASE CountProcesses
  BY <1>11 DEF CountProcesses, ProcessesInv, OrderlyInv, Late, Present, Counting, Unstopped
<1>12. ASSUME NEW c \in Cameras, VisitProcess(c) PROVE ShutdownInv'
  <2>1. Unstopped' = Unstopped
    BY <1>12 DEF VisitProcess, Unstopped
  <2> QED
    BY <1>12, <2>1 DEF VisitProcess, ProcessesInv, OrderlyInv, Late, Present, Counting, Unstopped
<1>13. CASE VisitEnd
  BY <1>13 DEF VisitEnd, ProcessesInv, OrderlyInv, Late, Present, Counting, Unstopped
<1>14. CASE Join
  <2>1. Late => Unstopped = {}
    BY <1>14, CountIs
       DEF Join, AllJoined, OrderlyInv, Counting, Unstopped, TypeInv, TypeOK
  <2> QED
    BY <1>14, <2>1 DEF Join, ProcessesInv, OrderlyInv, Late, Present, Counting, Unstopped
<1>15. CASE ShutdownLock \/ CloseCameras \/ Exit
  <2>1. Present' = Present /\ Unstopped' = Unstopped /\ ~Counting /\ ~Counting' /\ Late' = Late
    BY <1>15 DEF ShutdownLock, CloseCameras, Exit, Present, Unstopped, Counting, Late
  <2>2. ProcessesInv'
    BY <1>15, <2>1 DEF ShutdownLock, CloseCameras, Exit, ProcessesInv
  <2>3. OrderlyInv'
    <3>1. CASE ShutdownLock
      BY <3>1, <2>1 DEF ShutdownLock, OrderlyInv
    <3>2. CASE CloseCameras
      BY <3>2, <2>1 DEF CloseCameras, OrderlyInv
    <3>3. CASE Exit
      BY <3>3, <2>1 DEF Exit, Alive, OrderlyInv
    <3> QED
      BY <1>15, <3>1, <3>2, <3>3
  <2> QED
    BY <2>1, <2>2, <2>3
<1>16. ASSUME NEW c \in Cameras, Stopper(c) PROVE ShutdownInv'
  <2> USE DEF Stopper, StopReturns
  <2>1. ~Counting /\ c \in stopping
    BY <1>16 DEF Unstopped
  <2>2. Present' = Present
    BY <1>16, <2>1 DEF ProcessesInv, Present, Unstopped, TypeInv, TypeOK
  <2>3. ProcessesInv'
    BY <1>16, <2>2 DEF ProcessesInv, Unstopped
  <2>4. OrderlyInv'
    <3> SUFFICES ASSUME Late' PROVE OrderlyInv'
      BY DEF OrderlyInv
    <3>1. Late /\ toStop \cap stopping = {} /\ wg = Cardinality(Unstopped)
      BY <1>16, <2>1 DEF OrderlyInv, Late
    <3>2. wg' = Cardinality(Unstopped') /\ wg # 0
      <4>1. Unstopped' = toStop \cup (stopping \ {c}) /\ wg' = wg - 1
        BY <1>16 DEF Unstopped
      <4>2. /\ Cardinality(toStop \cup (stopping \ {c})) = Cardinality(Unstopped) - 1
            /\ Cardinality(Unstopped) > 0
        BY <2>1, <3>1, CountDown
      <4> QED
        BY <3>1, <4>1, <4>2
    <3>3. ~crashed'
      BY <1>16, <3>2
    <3>4. \A d \in Cameras : procs'[d] \in Told \/ (d # c /\ procs'[d] = procs[d])
      BY <1>16 DEF Told, TypeInv, TypeOK
    <3>5. \A d \in cameras \ Unstopped' : procs'[d] \in Told
      BY <1>16, <2>1, <3>1, <3>4 DEF OrderlyInv, Unstopped, TypeInv, TypeOK
    <3> QED
      BY <1>16, <2>1, <3>1, <3>2, <3>3, <3>5 DEF OrderlyInv, Counting, Unstopped
  <2> QED
    BY <1>16, <2>1, <2>2, <2>3, <2>4 DEF Counting
<1>17. ASSUME NEW c \in Cameras, WorkersEnd(c) PROVE ShutdownInv'
  <2>1. \A d \in Cameras : procs'[d] = IF d = c THEN "ended" ELSE procs[d]
    BY <1>17 DEF WorkersEnd, TypeInv, TypeOK
  <2>2. Present' = Present /\ \A d \in Cameras : procs[d] \in Told => procs'[d] \in Told
    BY <1>17, <2>1 DEF WorkersEnd, Present, Told
  <2> QED
    BY <1>17, <2>2 DEF WorkersEnd, ProcessesInv, OrderlyInv, Late, Counting, Unstopped, TypeInv,
       TypeOK
<1>18. ASSUME NEW c \in Cameras, StopHangs(c) PROVE ShutdownInv'
  BY <1>18 DEF StopHangs, ProcessesInv, OrderlyInv, Late, Present, Counting, Unstopped
<1>19. CASE UNCHANGED vars
  BY <1>19 DEF vars, ProcessesInv, OrderlyInv, Late, Present, Counting, Unstopped
<1> QED
  BY <1>1, <1>2, <1>3, <1>4, <1>5, <1>6, <1>7, <1>8, <1>9, <1>10, <1>11, <1>12, <1>13, <1>14,
     <1>15, <1>16, <1>17, <1>18, <1>19 DEF Next, Startup, Shutdown

(***************************************************************************)
(* However many cameras there are, a shutdown that begins once their       *)
(* processes are set up does not abort, and closes no camera before every  *)
(* Stop has returned; in the end all cameras are closed.                   *)
(***************************************************************************)
THEOREM Orderly == Spec => []OrderlyShutdown
<1>1. EndInv => OrderlyShutdown
  <2> SUFFICES ASSUME EndInv PROVE OrderlyShutdown
    OBVIOUS
  <2>1. signalAt \in {"none", "started"} => \A c \in Cameras : procs[c] # "orphan"
    BY DEF EndInv, ToldInv, Counting, Told
  <2>2. Late => /\ ~crashed
                /\ closed # {} => stopping = {} /\ \A c \in cameras : procs[c] \in Told
                /\ mainPc \in {"returned", "exited"} => closed = cameras
    BY DEF EndInv, ShutdownInv, ProcessesInv, OrderlyInv, Unstopped, Counting
  <2> QED
    BY <2>1, <2>2 DEF OrderlyShutdown, Late
<1> QED
  BY <1>1, TypeInit, TypeStep, StartInit, StartStep, EndInit, EndStep, PTL DEF Spec, TypeInv
=============================================================================
