------------------------------- MODULE Camera -------------------------------
(***************************************************************************)
(* A camera as the recording pipeline sees it: every call takes effect at  *)
(* once.  A camera that is lost or closed neither is open nor gives        *)
(* frames, except that the mock backend's does both for ever.              *)
(***************************************************************************)
CONSTANT Pollers

VARIABLES
    backend,  \* "opencv" or "mock"
    state,    \* "open", "lost" or "closed"
    result    \* the answer each poller got last

cameraVars == <<backend, state, result>>

CameraInit ==
    /\ backend \in {"opencv", "mock"}
    /\ state = "open"
    /\ result = [p \in Pollers |-> "none"]

Usable == backend = "mock" \/ state = "open"

Answers(p, answers) ==
    /\ \E a \in answers : result' = [result EXCEPT ![p] = a]
    /\ UNCHANGED <<backend, state>>

IsOpen(p) == Answers(p, IF Usable THEN {"yes"} ELSE {"no"})
Read(p) == Answers(p, IF Usable THEN {"frame", "fail"} ELSE {"fail"})

Lose == state = "open" /\ state' = "lost" /\ UNCHANGED <<backend, result>>
Close == state # "closed" /\ state' = "closed" /\ UNCHANGED <<backend, result>>

CameraNext == Lose \/ Close \/ \E p \in Pollers : IsOpen(p) \/ Read(p)
CameraSpec == CameraInit /\ [][CameraNext]_cameraVars
=============================================================================
