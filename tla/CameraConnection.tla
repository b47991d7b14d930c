--------------------------- MODULE CameraConnection -------------------------
(***************************************************************************)
(* A camera's connection (pkg/camera/connect.go) over the connection of a  *)
(* video backend (opencv_backend.go or mock_video_backend.go), shared by   *)
(* goroutines that poll it and by the shutdown, which closes it.  Each has *)
(* a mutex, the outer and the inner one; below both is the capture, a C++  *)
(* object that bears one call at a time and none after its release.        *)
(***************************************************************************)
EXTENDS FiniteSets, Integers

CONSTANT Pollers  \* goroutines that call IsOpen and Read (the program has one)

ASSUME PollersAssumption == Pollers \cap {"closer", "free"} = {}

Threads == Pollers \cup {"closer"}

VARIABLES
    backend,   \* "opencv" or "mock"
    outer,     \* connection.mu: "free" or who holds it
    inner,     \* openCVConnection.mu: 1 when it is held
    isClosing, \* connection.isClosing
    isOpen,    \* openCVConnection.isOpen
    capture,   \* "open", "lost" (its stream died) or "closed" (released)
    using,     \* the goroutines inside a call of the capture
    call,      \* the call each goroutine is making, or "none"
    at,        \* and how far it is
    result,    \* what each poller's last IsOpen or Read returned
    touches,   \* history: each poller's calls of a released capture
    crashed    \* such a call has brought the program down

locks == <<outer, inner>>
flags == <<isClosing, isOpen>>
vars == <<backend, locks, flags, capture, using, call, at, result, touches, crashed>>

TypeOK ==
    /\ backend \in {"opencv", "mock"}
    /\ outer \in Threads \cup {"free"} /\ inner \in 0..1
    /\ isClosing \in BOOLEAN /\ isOpen \in BOOLEAN /\ crashed \in BOOLEAN
    /\ capture \in {"open", "lost", "closed"}
    /\ using \subseteq Threads
    /\ call \in [Threads -> {"none", "IsOpen", "Read", "Close"}]
    /\ at \in [Threads -> {"idle", "outer", "inner", "capture", "inside", "return"}]
    /\ result \in [Pollers -> {"none", "yes", "no", "frame", "fail"}]
    /\ touches \in [Pollers -> Nat]

(* connect has returned: the capture is there and open. *)
Init ==
    /\ backend \in {"opencv", "mock"}
    /\ outer = "free" /\ inner = 0
    /\ isClosing = FALSE /\ isOpen = TRUE /\ capture = "open" /\ using = {}
    /\ call = [t \in Threads |-> "none"] /\ at = [t \in Threads |-> "idle"]
    /\ result = [p \in Pollers |-> "none"] /\ touches = [p \in Pollers |-> 0]
    /\ crashed = FALSE

Move(t, from, to) == at[t] = from /\ at' = [at EXCEPT ![t] = to]
Answer(t, r) == result' = [result EXCEPT ![t] = r]

-----------------------------------------------------------------------------
(* The stream goroutine reads, when it is on, after an IsOpen that said yes. *)
Poll(p) ==
    /\ Move(p, "idle", "outer")
    /\ \E c \in {"IsOpen", "Read"} :
          /\ c = "Read" => result[p] = "yes"
          /\ call' = [call EXCEPT ![p] = c]
    /\ UNCHANGED <<backend, locks, flags, capture, using, result, touches, crashed>>

(* Server.shutdown closes each camera once. *)
CallClose ==
    /\ call["closer"] = "none" /\ Move("closer", "idle", "outer")
    /\ call' = [call EXCEPT !["closer"] = "Close"]
    /\ UNCHANGED <<backend, locks, flags, capture, using, result, touches, crashed>>

ForReadsOnly(t) == outer = "free" \/ call[t] = "Close"            \* mutant
ForEveryCall(t) == outer = "free"

(* The mock connection has no mutex of its own. *)
LockOuter(t) ==
    /\ ForEveryCall(t)
    /\ Move(t, "outer", IF backend = "mock" THEN "capture" ELSE "inner")
    /\ outer' = t
    /\ isClosing' = (isClosing \/ call[t] = "Close")
    /\ UNCHANGED <<backend, inner, isOpen, capture, using, call, result, touches, crashed>>

LockInner(t) ==
    /\ inner = 0 /\ call[t] # "Close"
    /\ Move(t, "inner", "capture")
    /\ inner' = 1
    /\ UNCHANGED <<backend, outer, flags, capture, using, call, result, touches, crashed>>

(* openCVConnection.Close holds the inner mutex for the flag only. *)
MarkClosed(t) ==
    /\ inner = 0 /\ call[t] = "Close"
    /\ Move(t, "inner", "capture")
    /\ isOpen' = FALSE
    /\ UNCHANGED <<backend, locks, isClosing, capture, using, call, result, touches, crashed>>

FlagIgnored(t) == FALSE                                           \* mutant
FlagStopsClose(t) == call[t] # "Read" /\ backend = "opencv" /\ ~isOpen  \* mutant
KnownClosed(t) == call[t] = "IsOpen" /\ backend = "opencv" /\ ~isOpen

(* IsOpen looks at the flag before it asks the capture; Read does not. *)
AnswerFromFlag(t) ==
    /\ KnownClosed(t) /\ Move(t, "capture", "return")
    /\ Answer(t, "no")
    /\ UNCHANGED <<backend, locks, flags, capture, using, call, touches, crashed>>

EnterCapture(t) ==
    /\ ~KnownClosed(t) /\ Move(t, "capture", "inside")
    /\ using' = using \cup {t}
    /\ UNCHANGED <<backend, locks, flags, capture, call, result, touches, crashed>>

Usable == backend = "mock" \/ capture = "open"

(* Touching a released capture is undefined: no, or the end of the program. *)
Touch(t) ==
    IF backend = "opencv" /\ capture = "closed"
    THEN /\ touches' = [touches EXCEPT ![t] = @ + 1]
         /\ crashed' \in BOOLEAN
    ELSE UNCHANGED <<touches, crashed>>

LeaveIsOpen(t) ==
    /\ call[t] = "IsOpen" /\ Move(t, "inside", "return")
    /\ Answer(t, IF Usable THEN "yes" ELSE "no") /\ Touch(t)
    /\ using' = using \ {t}
    /\ UNCHANGED <<backend, locks, flags, capture, call>>

LeaveRead(t) ==
    /\ call[t] = "Read" /\ Move(t, "inside", "return")
    /\ \E r \in IF Usable THEN {"frame", "fail"} ELSE {"fail"} : Answer(t, r)
    /\ Touch(t)
    /\ using' = using \ {t}
    /\ UNCHANGED <<backend, locks, flags, capture, call>>

LeaveClose(t) ==
    /\ call[t] = "Close" /\ Move(t, "inside", "return")
    /\ capture' = "closed" /\ using' = using \ {t}
    /\ UNCHANGED <<backend, locks, flags, call, result, touches, crashed>>

InnerKept(t) == inner                                             \* mutant
InnerAfter(t) == IF backend = "opencv" /\ call[t] # "Close" THEN inner - 1 ELSE inner

(* The deferred Unlocks. *)
Return(t) ==
    /\ Move(t, "return", "idle")
    /\ inner' = InnerAfter(t) /\ outer' = "free"
    /\ UNCHANGED <<backend, flags, capture, using, call, result, touches, crashed>>

(* The camera drops the stream; the mock backend's has none. *)
CaptureLost ==
    /\ backend = "opencv" /\ capture = "open"
    /\ capture' = "lost"
    /\ UNCHANGED <<backend, locks, flags, using, call, at, result, touches, crashed>>

Step(t) ==
    /\ ~crashed
    /\ \/ LockInner(t) \/ MarkClosed(t) \/ AnswerFromFlag(t) \/ EnterCapture(t)
       \/ LeaveIsOpen(t) \/ LeaveRead(t) \/ LeaveClose(t) \/ Return(t)

Waiting(t) == ~crashed /\ LockOuter(t)

Next ==
    \/ ~crashed /\ (CallClose \/ CaptureLost \/ \E p \in Pollers : Poll(p))
    \/ \E t \in Threads : Waiting(t) \/ Step(t)

Spec == Init /\ [][Next]_vars

(***************************************************************************)
(* Calls of the capture return.  Whoever waits for the outer mutex gets it *)
(* in the end, however busy the pollers are: Go's mutexes are fair to a    *)
(* goroutine that has waited for a millisecond.                            *)
(***************************************************************************)
FairSpec == Spec /\ \A t \in Threads : WF_vars(Step(t)) /\ SF_vars(Waiting(t))

-----------------------------------------------------------------------------
(***************************************************************************)
(* The capture is never called by two goroutines at a time: Close releases *)
(* it outside the inner mutex (opencv_backend.go:207), so only the outer   *)
(* one keeps the release out of a Read that is under way.                  *)
(***************************************************************************)
OneCallAtATime == Cardinality(using) <= 1

(***************************************************************************)
(* A released capture is touched at most once by each poller: by the Read  *)
(* it had decided on before the Close.  After that IsOpen keeps it away.   *)
(***************************************************************************)
ReleasedTouchedOnce == \A p \in Pollers : touches[p] <= 1

(***************************************************************************)
(* Between calls the two layers agree: the connection is closing exactly   *)
(* when the capture is released, and the backend's flag says the same.     *)
(***************************************************************************)
LayersAgree ==
    outer = "free" =>
        /\ isClosing <=> capture = "closed"
        /\ backend = "opencv" => (isClosing <=> ~isOpen)

(***************************************************************************)
(* The connection behaves as a Camera, each of whose calls takes effect at *)
(* once: what CameraPipeline takes it for.                                 *)
(***************************************************************************)
AbstractCamera == INSTANCE Camera WITH state <- capture
IsACamera == AbstractCamera!CameraSpec

(* Every call returns, unless the program is brought down. *)
CallsReturn == \A t \in Threads : (at[t] # "idle") ~> (at[t] = "idle" \/ crashed)
=============================================================================
