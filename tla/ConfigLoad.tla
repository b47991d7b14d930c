----------------------------- MODULE ConfigLoad -----------------------------
(***************************************************************************)
(* Loading the configuration (internal/config/load.go, pkg/configdef): the *)
(* file is read and parsed, missing locations are meant to get a default,  *)
(* the cameras are validated, and one goroutine per camera fills in a      *)
(* missing date format.  The server connects to what load returns.         *)
(***************************************************************************)
EXTENDS Integers, FiniteSets

CONSTANTS
    Titles, Locations, Formats,  \* values a file may give; Unset stands for ""
    Ages, Rates, Seconds,        \* values of max_clip_age_days, fps, seconds_per_clip
    MaxCameras                   \* model bound: cameras in a file

Unset == "unset"

ASSUME NumbersAssumption == Ages \cup Rates \cup Seconds \subseteq Int
ASSUME MaxCamerasAssumption == MaxCameras \in Nat
ASSUME FormatsAssumption == "default" \in Formats

Camera == [title : Titles \cup {Unset}, location : Locations \cup {Unset}, age : Ages,
           fps : Rates, seconds : Seconds, format : Formats \cup {Unset}]

VARIABLES
    file,    \* the cameras of the file on disk
    cameras, \* Values.Cameras as load works on them
    pc,      \* "read", "default", "titles", "validate", "formats", "loaded" or "error"
    filling  \* the goroutines of loadDefaultCameraDataLabelFormats still to run
vars == <<file, cameras, pc, filling>>

Files == UNION {[1..n -> Camera] : n \in 0..MaxCameras}

TypeOK ==
    /\ file \in Files
    /\ cameras \in Files
    /\ pc \in {"read", "default", "titles", "validate", "formats", "loaded", "error"}
    /\ filling \subseteq DOMAIN cameras

Init ==
    /\ file \in Files
    /\ cameras = <<>> /\ pc = "read" /\ filling = {}

(* Resolving, reading and parsing may fail. *)
ReadFile ==
    /\ pc = "read"
    /\ \/ cameras' = file /\ pc' = "default"
       \/ pc' = "error" /\ UNCHANGED cameras
    /\ UNCHANGED <<file, filling>>

(* defaultPersistLocToDot assigns to copies of the cameras. *)
DefaultPersistLoc ==
    /\ pc = "default"
    /\ pc' = "titles"
    /\ UNCHANGED <<file, cameras, filling>>

HasDupTitles ==
    \E i, j \in DOMAIN cameras : i < j /\ cameras[i].title = cameras[j].title

CheckTitles ==
    /\ pc = "titles"
    /\ pc' = IF HasDupTitles THEN "error" ELSE "validate"
    /\ UNCHANGED <<file, cameras, filling>>

(* The validate tags of configdef.Camera. *)
Validates(c) ==
    /\ c.title # Unset /\ c.location # Unset
    /\ c.age \in 1..30 /\ c.fps \in 1..30 /\ c.seconds \in 1..3

Validate ==
    /\ pc = "validate"
    /\ IF \A i \in DOMAIN cameras : Validates(cameras[i])
       THEN pc' = "formats" /\ filling' = DOMAIN cameras
       ELSE pc' = "error" /\ UNCHANGED filling
    /\ UNCHANGED <<file, cameras>>

Filled(f) == IF f = Unset THEN "default" ELSE f

FillFormat(i) ==
    /\ pc = "formats" /\ i \in filling
    /\ cameras' = [cameras EXCEPT ![i].format = Filled(@)]
    /\ filling' = filling \ {i}
    /\ UNCHANGED <<file, pc>>

NotWaitedFor == TRUE                                              \* mutant
AllFilled == filling = {}

Return ==
    /\ pc = "formats" /\ AllFilled
    /\ pc' = "loaded"
    /\ UNCHANGED <<file, cameras, filling>>

Next ==
    \/ ReadFile \/ DefaultPersistLoc \/ CheckTitles \/ Validate \/ Return
    \/ \E i \in 1..MaxCameras : FillFormat(i)

Spec == Init /\ [][Next]_vars

-----------------------------------------------------------------------------
(***************************************************************************)
(* What CameraPipeline and ClipStore assume of a camera holds of every     *)
(* loaded one: a clip has at least one frame, and the maximum age of clips *)
(* is at least a day.                                                      *)
(***************************************************************************)
ClipsArePossible ==
    pc = "loaded" =>
        \A i \in DOMAIN cameras :
            cameras[i].fps * cameras[i].seconds >= 1 /\ cameras[i].age >= 1

(***************************************************************************)
(* load returns when every camera has its date format and is otherwise     *)
(* what the file says, whatever the order the goroutines run in.           *)
(***************************************************************************)
FormatsComplete ==
    pc = "loaded" =>
        cameras = [i \in DOMAIN file |-> [file[i] EXCEPT !.format = Filled(@)]]
=============================================================================
