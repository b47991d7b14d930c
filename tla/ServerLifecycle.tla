--------------------------- MODULE ServerLifecycle --------------------------
(***************************************************************************)
(* The server's start and end (cmd/dragondaemon/main.go and pkg/dragon):   *)
(* the goroutine of startupServer connects the cameras, sets their         *)
(* processes up and runs them, while the main goroutine waits for a signal *)
(* and then cancels the startup and shuts the server down.  Each camera is *)
(* connected by a goroutine of its own, whose backend opens the capture in *)
(* yet another one.  What a camera's process does between Start and Stop   *)
(* is the subject of CameraPipeline; here both are single steps, the       *)
(* second of which may hang.  Stop does not wait for the goroutines it     *)
(* cancels: they end some time later.  The statistics process is a Process.*)
(***************************************************************************)
EXTENDS Integers, FiniteSets

CONSTANT Cameras  \* the cameras of the configuration

ASSUME CamerasAssumption == IsFiniteSet(Cameras)

VARIABLES
    disabled,    \* the cameras the configuration disables
    upPc,        \* the goroutine of startupServer
    toStart,     \* the processes RunProcesses has yet to start
    mainPc,      \* the goroutine of Service.Manage
    toStop,      \* the processes shutdownProcesses has yet to visit
    stopping,    \* the processes whose Stop goroutine is running
    wg,          \* the WaitGroup counter of shutdownProcesses
    ctxDone,     \* the startup context is cancelled
    mu,          \* Server.mu: "free", "startup" or "main"
    connector,   \* the goroutine of Server.connect for each camera
    opener,      \* the goroutine of openVideoStream for each camera
    answer,      \* what each connector has to report: "cam", "err" or "none"
    resultsClosed, \* the results channel is closed
    cameras,     \* Server.cameras
    errs,        \* the cameras that connect returned an error for
    procs,       \* Server.coreProcesses: the state of each camera's process
    closed,      \* the cameras Shutdown has closed
    hung,        \* the processes whose Stop never returns
    statsOn,     \* DRAGON_RUNTIME_STATS asks for the statistics process
    stats, canceller, cancelled, \* that process: see Process
    crashed,     \* the runtime has aborted the program
    signalAt     \* history: how far the startup was when the signal came

upVars   == <<upPc, toStart>>
mainVars == <<mainPc, toStop, stopping, wg, closed, signalAt>>
connVars == <<connector, opener, answer, resultsClosed>>
statsVars == <<stats, canceller, cancelled>>
settled == <<disabled, statsOn, statsVars, hung>>  \* what most steps leave alone
vars == <<settled, upVars, mainVars, ctxDone, mu, connVars, cameras, errs, procs, crashed>>

Statistics == INSTANCE Process WITH pc <- stats

MainPc == {"wait", "cancel", "stats", "count", "visit", "join", "lock", "close", "returned",
           "exited"}
ProcState == {"absent", "new", "running", "stopped", "orphan", "cancelled", "ended"}

TypeOK ==
    /\ disabled \subseteq Cameras /\ hung \subseteq stopping
    /\ statsOn \in BOOLEAN /\ Statistics!ProcessTypeOK
    /\ upPc \in {"connect", "lock", "receive", "setupStats", "setup", "runStats", "run", "done"}
    /\ toStart \subseteq Cameras
    /\ mainPc \in MainPc
    /\ toStop \subseteq Cameras /\ stopping \subseteq Cameras /\ closed \subseteq Cameras
    /\ wg \in -1..Cardinality(Cameras)
    /\ ctxDone \in BOOLEAN /\ resultsClosed \in BOOLEAN
    /\ crashed \in BOOLEAN /\ signalAt \in {"none", "early", "setUp", "started"}
    /\ mu \in {"free", "startup", "main"}
    /\ connector \in [Cameras -> {"none", "spawned", "connecting", "sending", "done"}]
    /\ opener \in [Cameras -> {"none", "opening", "cam", "err", "taken"}]
    /\ answer \in [Cameras -> {"none", "cam", "err"}]
    /\ cameras \subseteq Cameras /\ errs \subseteq Cameras
    /\ procs \in [Cameras -> ProcState]

Init ==
    /\ disabled \in SUBSET Cameras /\ hung = {}
    /\ statsOn \in BOOLEAN /\ Statistics!ProcessInit
    /\ upPc = "connect" /\ toStart = {}
    /\ mainPc = "wait" /\ toStop = {} /\ stopping = {} /\ wg = 0 /\ closed = {}
    /\ signalAt = "none" /\ ctxDone = FALSE /\ mu = "free" /\ crashed = FALSE
    /\ connector = [c \in Cameras |-> "none"]
    /\ opener = [c \in Cameras |-> "none"]
    /\ answer = [c \in Cameras |-> "none"]
    /\ resultsClosed = FALSE
    /\ cameras = {} /\ errs = {}
    /\ procs = [c \in Cameras |-> "absent"]

Alive == mainPc # "exited" /\ ~crashed

Present == {c \in Cameras : procs[c] # "absent"}
Told == {"stopped", "orphan", "cancelled", "ended"}

-----------------------------------------------------------------------------
(* The connector of one camera, and the opener behind it. *)

(* select on cancel.Done before anything else; a disabled camera reports nothing. *)
Skipped(c) == ctxDone \/ c \in disabled

ConnectorStart(c) ==
    /\ connector[c] = "spawned"
    /\ \/ /\ Skipped(c)
          /\ connector' = [connector EXCEPT ![c] = "done"]
          /\ UNCHANGED opener
       \/ /\ ~Skipped(c)
          /\ connector' = [connector EXCEPT ![c] = "connecting"]
          /\ opener' = [opener EXCEPT ![c] = "opening"]
    /\ UNCHANGED <<settled, upVars, mainVars, ctxDone, mu, answer, resultsClosed, cameras, errs,
                   procs, crashed>>

(* gocv.OpenVideoCapture returns, at any time or never. *)
OpenerReturns(c) ==
    /\ opener[c] = "opening"
    /\ \E r \in {"cam", "err"} : opener' = [opener EXCEPT ![c] = r]
    /\ UNCHANGED <<settled, upVars, mainVars, ctxDone, mu, connector, answer, resultsClosed,
                   cameras, errs, procs, crashed>>

(* openCVConnection.connect: select between the opener's result... *)
ConnectorResult(c) ==
    /\ connector[c] = "connecting" /\ opener[c] \in {"cam", "err"}
    /\ connector' = [connector EXCEPT ![c] = "sending"]
    /\ answer' = [answer EXCEPT ![c] = opener[c]]
    /\ opener' = [opener EXCEPT ![c] = "taken"]
    /\ UNCHANGED <<settled, upVars, mainVars, ctxDone, mu, resultsClosed, cameras, errs, procs,
                   crashed>>

IgnoresCancel(c) == FALSE                                         \* mutant
DoesNotWait(c) == TRUE                                            \* mutant
SeesCancel(c) == ctxDone

(* ...and cancel.Done; the opener is then left blocked on its channel. *)
ConnectorCancelled(c) ==
    /\ connector[c] = "connecting" /\ SeesCancel(c)
    /\ connector' = [connector EXCEPT ![c] = "sending"]
    /\ answer' = [answer EXCEPT ![c] = "err"]
    /\ UNCHANGED <<settled, upVars, mainVars, ctxDone, mu, opener, resultsClosed, cameras, errs,
                   procs, crashed>>

Connector(c) == Alive /\ (ConnectorStart(c) \/ ConnectorResult(c) \/ ConnectorCancelled(c))
Opener(c) == Alive /\ OpenerReturns(c)

AnyOneFinished == \E c \in Cameras : connector[c] = "done"        \* mutant
AllFinished == \A c \in Cameras : connector[c] = "done"

(* The goroutine that waits for all connectors and closes the results. *)
Closer ==
    /\ Alive /\ upPc # "connect" /\ AllFinished /\ ~resultsClosed
    /\ resultsClosed' = TRUE
    /\ UNCHANGED <<settled, upVars, mainVars, ctxDone, mu, connector, opener, answer, cameras,
                   errs, procs, crashed>>

-----------------------------------------------------------------------------
(* The startup goroutine. *)

(* Server.connect spawns a connector for each camera. *)
Connect ==
    /\ upPc = "connect"
    /\ upPc' = "lock"
    /\ connector' = [c \in Cameras |-> "spawned"]
    /\ UNCHANGED <<settled, toStart, mainVars, ctxDone, mu, opener, answer, resultsClosed,
                   cameras, errs, procs, crashed>>

(* recieveConnsToTrack holds the mutex until the results channel is closed. *)
ReceiveLock ==
    /\ upPc = "lock" /\ mu = "free"
    /\ upPc' = "receive" /\ mu' = "startup"
    /\ UNCHANGED <<settled, toStart, mainVars, ctxDone, connVars, cameras, errs, procs, crashed>>

Receive(c) ==
    /\ upPc = "receive" /\ connector[c] = "sending"
    /\ connector' = [connector EXCEPT ![c] = "done"]
    /\ cameras' = IF answer[c] = "cam" THEN cameras \cup {c} ELSE cameras
    /\ errs' = IF answer[c] = "err" THEN errs \cup {c} ELSE errs
    /\ UNCHANGED <<settled, upVars, mainVars, ctxDone, mu, opener, answer, resultsClosed, procs,
                   crashed>>

ReceiveEnd ==
    /\ upPc = "receive" /\ resultsClosed
    /\ upPc' = "setupStats" /\ mu' = "free"
    /\ UNCHANGED <<settled, toStart, mainVars, ctxDone, connVars, cameras, errs, procs, crashed>>

(* SetupProcesses, first half: the statistics process is made when asked for. *)
SetupStatistics ==
    /\ upPc = "setupStats"
    /\ upPc' = "setup"
    /\ IF statsOn THEN Statistics!New ELSE UNCHANGED statsVars
    /\ UNCHANGED <<disabled, statsOn, hung, toStart, mainVars, ctxDone, mu, connVars, cameras, errs,
                   procs, crashed>>

(***************************************************************************)
(* SetupProcesses writes the map without the mutex.  When the main         *)
(* goroutine is ranging over it, that is a data race: the runtime may      *)
(* abort, and the range may or may not come to the new entry.              *)
(***************************************************************************)
SetupProcess(c) ==
    /\ upPc = "setup" /\ c \in cameras /\ procs[c] = "absent"
    /\ procs' = [procs EXCEPT ![c] = "new"]
    /\ \/ mainPc = "visit" /\ crashed' = TRUE /\ UNCHANGED toStop
       \/ mainPc = "visit" /\ toStop' = toStop \cup {c} /\ UNCHANGED crashed
       \/ UNCHANGED <<toStop, crashed>>
    /\ UNCHANGED <<settled, upVars, mainPc, stopping, wg, closed, signalAt, ctxDone, mu, connVars,
                   cameras, errs>>

SetupEnd ==
    /\ upPc = "setup" /\ cameras \subseteq Present
    /\ upPc' = "runStats" /\ toStart' = Present
    /\ UNCHANGED <<settled, mainVars, ctxDone, mu, connVars, cameras, errs, procs, crashed>>

RunStatistics ==
    /\ upPc = "runStats"
    /\ upPc' = "run"
    /\ IF statsOn THEN Statistics!Start ELSE UNCHANGED statsVars
    /\ UNCHANGED <<disabled, statsOn, hung, toStart, mainVars, ctxDone, mu, connVars, cameras, errs,
                   procs, crashed>>

(* A process stopped before it is started keeps its monitor, an orphan: see StopMonitor. *)
RunProcess(c) ==
    /\ upPc = "run" /\ c \in toStart
    /\ toStart' = toStart \ {c}
    /\ procs' = [procs EXCEPT ![c] = IF @ = "stopped" THEN "orphan" ELSE "running"]
    /\ UNCHANGED <<settled, upPc, mainVars, ctxDone, mu, connVars, cameras, errs, crashed>>

RunEnd ==
    /\ upPc = "run" /\ toStart = {}
    /\ upPc' = "done"
    /\ UNCHANGED <<settled, toStart, mainVars, ctxDone, mu, connVars, cameras, errs, procs,
                   crashed>>

Startup ==
    Alive /\ ( \/ Connect \/ ReceiveLock \/ ReceiveEnd
               \/ SetupStatistics \/ SetupEnd \/ RunStatistics \/ RunEnd
               \/ \E c \in Cameras : Receive(c) \/ SetupProcess(c) \/ RunProcess(c) )

-----------------------------------------------------------------------------
(* The goroutine of the statistics process. *)
StatisticsGoroutine ==
    /\ Alive /\ Statistics!Goroutine
    /\ UNCHANGED <<disabled, statsOn, hung, upVars, mainVars, ctxDone, mu, connVars, cameras, errs,
                   procs, crashed>>

-----------------------------------------------------------------------------
(* The main goroutine. *)

Progress ==
    CASE upPc = "done" -> "started"
      [] upPc \in {"runStats", "run"} -> "setUp"
      [] OTHER -> "early"

Signal ==
    /\ Alive /\ mainPc = "wait"
    /\ mainPc' = "cancel"
    /\ signalAt' = Progress
    /\ UNCHANGED <<settled, upVars, toStop, stopping, wg, closed, ctxDone, mu, connVars, cameras,
                   errs, procs, crashed>>

CancelStartup ==
    /\ mainPc = "cancel"
    /\ mainPc' = "stats" /\ ctxDone' = TRUE
    /\ UNCHANGED <<settled, upVars, toStop, stopping, wg, closed, signalAt, mu, connVars, cameras,
                   errs, procs, crashed>>

OnlyWaits == UNCHANGED statsVars                                  \* mutant
StopsStatistics == Statistics!Stop

(***************************************************************************)
(* shutdownProcesses reads the flag and the process SetupProcesses writes, *)
(* without a lock: during that write the interface may be read half        *)
(* written, and Stop then dereferences nil.                                *)
(***************************************************************************)
StopStatistics ==
    /\ mainPc = "stats"
    /\ mainPc' = "count"
    /\ \/ /\ IF stats # "absent" THEN StopsStatistics ELSE UNCHANGED statsVars
          /\ UNCHANGED crashed
       \/ /\ statsOn /\ upPc = "setupStats"
          /\ crashed' = TRUE
          /\ UNCHANGED statsVars
    /\ UNCHANGED <<disabled, statsOn, hung, upVars, toStop, stopping, wg, closed, signalAt, ctxDone,
                   mu, connVars, cameras, errs, procs>>

(* shutdownProcesses: wg.Add(len(coreProcesses)), then the range begins. *)
CountProcesses ==
    /\ mainPc = "count"
    /\ mainPc' = "visit"
    /\ wg' = Cardinality(Present) /\ toStop' = Present
    /\ UNCHANGED <<settled, upVars, stopping, closed, signalAt, ctxDone, mu, connVars, cameras,
                   errs, procs, crashed>>

VisitProcess(c) ==
    /\ mainPc = "visit" /\ c \in toStop
    /\ toStop' = toStop \ {c} /\ stopping' = stopping \cup {c}
    /\ UNCHANGED <<settled, upVars, mainPc, wg, closed, signalAt, ctxDone, mu, connVars, cameras,
                   errs, procs, crashed>>

VisitEnd ==
    /\ mainPc = "visit" /\ toStop = {}
    /\ mainPc' = "join"
    /\ UNCHANGED <<settled, upVars, toStop, stopping, wg, closed, signalAt, ctxDone, mu, connVars,
                   cameras, errs, procs, crashed>>

(***************************************************************************)
(* The goroutine of one process: Stop, Wait, then Done, which must not go  *)
(* below 0.  Both drop the channel they should receive from, so a process  *)
(* that ran is cancelled by then and no more: its goroutines still run.    *)
(***************************************************************************)
StopReturns(c) ==
    /\ c \in stopping \ hung
    /\ procs' = [procs EXCEPT ![c] = IF @ = "running" THEN "cancelled" ELSE "stopped"]
    /\ stopping' = stopping \ {c} /\ wg' = wg - 1
    /\ crashed' = (wg = 0)
    /\ UNCHANGED <<settled, upVars, mainPc, toStop, closed, signalAt, ctxDone, mu, connVars,
                   cameras, errs>>

(* The last goroutine of a cancelled process ends, before or after its camera is closed. *)
WorkersEnd(c) ==
    /\ Alive /\ procs[c] = "cancelled"
    /\ procs' = [procs EXCEPT ![c] = "ended"]
    /\ UNCHANGED <<settled, upVars, mainVars, ctxDone, mu, connVars, cameras, errs, crashed>>

(***************************************************************************)
(* The Stop of a process that runs may never return: CameraPipeline shows  *)
(* how (ShutdownReturns).                                                  *)
(***************************************************************************)
StopHangs(c) ==
    /\ Alive /\ c \in stopping \ hung /\ procs[c] = "running"
    /\ hung' = hung \cup {c}
    /\ UNCHANGED <<disabled, statsOn, statsVars, upVars, mainVars, ctxDone, mu, connVars, cameras,
                   errs, procs, crashed>>

JoinsNobody == TRUE                                               \* mutant
AllJoined == wg = 0

Join ==
    /\ mainPc = "join" /\ AllJoined
    /\ mainPc' = "lock"
    /\ UNCHANGED <<settled, upVars, toStop, stopping, wg, closed, signalAt, ctxDone, mu, connVars,
                   cameras, errs, procs, crashed>>

MuNotNeeded == mu # "main"                                        \* mutant
MuFree == mu = "free"

(* Server.shutdown. *)
ShutdownLock ==
    /\ mainPc = "lock" /\ MuFree
    /\ mainPc' = "close" /\ mu' = "main"
    /\ UNCHANGED <<settled, upVars, toStop, stopping, wg, closed, signalAt, ctxDone, connVars,
                   cameras, errs, procs, crashed>>

CloseCameras ==
    /\ mainPc = "close"
    /\ mainPc' = "returned"
    /\ closed' = cameras /\ mu' = "free"
    /\ UNCHANGED <<settled, upVars, toStop, stopping, wg, signalAt, ctxDone, connVars, cameras,
                   errs, procs, crashed>>

Exit ==
    /\ Alive /\ mainPc = "returned"
    /\ mainPc' = "exited"
    /\ UNCHANGED <<settled, upVars, toStop, stopping, wg, closed, signalAt, ctxDone, mu, connVars,
                   cameras, errs, procs, crashed>>

Shutdown ==
    Alive /\ ( \/ CancelStartup \/ StopStatistics \/ CountProcesses \/ VisitEnd \/ Join
               \/ ShutdownLock \/ CloseCameras \/ \E c \in Cameras : VisitProcess(c) )
Stopper(c) == Alive /\ StopReturns(c)

Next ==
    \/ Startup \/ Closer \/ StatisticsGoroutine \/ Signal \/ Shutdown \/ Exit
    \/ \E c \in Cameras : Connector(c) \/ Opener(c) \/ Stopper(c) \/ StopHangs(c)
                        \/ WorkersEnd(c)

Spec == Init /\ [][Next]_vars

(***************************************************************************)
(* Every goroutine that can go on does, except that a capture may never    *)
(* open, a signal may never come, and the program need not exit at once.   *)
(***************************************************************************)
FairSpec ==
    /\ Spec
    /\ WF_vars(Startup) /\ WF_vars(Closer) /\ WF_vars(Shutdown) /\ WF_vars(StatisticsGoroutine)
    /\ \A c \in Cameras : WF_vars(Connector(c)) /\ WF_vars(Stopper(c))

-----------------------------------------------------------------------------
(***************************************************************************)
(* When Server.connect returns, every camera has been answered for exactly *)
(* once: it is tracked, or it has an error, or it is disabled, or its      *)
(* connector saw the cancellation first.                                   *)
(***************************************************************************)
EveryCameraAnswered ==
    upPc \notin {"connect", "lock", "receive"} =>
        /\ cameras \cap errs = {}
        /\ (cameras \cup errs) \cap disabled = {}
        /\ Cameras \ (cameras \cup errs \cup disabled) # {} => ctxDone

(***************************************************************************)
(* A capture that was opened is dropped without being closed (its opener   *)
(* stays blocked for ever) only when the startup was cancelled.            *)
(***************************************************************************)
CaptureDroppedOnlyByCancel ==
    \A c \in Cameras :
        connector[c] = "done" /\ opener[c] \in {"opening", "cam", "err"} => ctxDone /\ c \in errs

(***************************************************************************)
(* When the signal comes after SetupProcesses, even before or while        *)
(* RunProcesses starts them, the shutdown never aborts; no camera is       *)
(* closed before the Stop of every process has returned, and in the end    *)
(* all are closed.  An orphan comes of a signal before all were started    *)
(* only.                                                                   *)
(***************************************************************************)
OrderlyShutdown ==
    /\ signalAt \in {"setUp", "started"} =>
        /\ ~crashed
        /\ closed # {} => stopping = {} /\ \A c \in cameras : procs[c] \in Told
        /\ mainPc \in {"returned", "exited"} => closed = cameras
    /\ signalAt \in {"none", "started"} => \A c \in Cameras : procs[c] # "orphan"

(***************************************************************************)
(* Whenever the signal comes, shutdown closes all the cameras that connect *)
(* ever tracks, or none (it got the mutex before recieveConnsToTrack, and  *)
(* they stay open): no connection slips in while cameras are closed.       *)
(***************************************************************************)
AllClosedOrNone == closed # {} => closed = cameras

(***************************************************************************)
(* Shutdown returns after a signal, even when cameras never answer: the    *)
(* cancellation frees the mutex.  The exceptions are the abort, and a      *)
(* process whose own Stop hangs: one is enough to keep every camera open.  *)
(***************************************************************************)
ShutdownEnds == (mainPc = "cancel") ~> (mainPc \in {"returned", "exited"} \/ crashed \/ hung # {})

(***************************************************************************)
(* A statistics process that runs when the signal comes ends, unless the   *)
(* program is gone first.                                                  *)
(***************************************************************************)
StatisticsEnd == (mainPc = "cancel" /\ stats = "running") ~> (stats = "ended" \/ ~Alive)
=============================================================================
