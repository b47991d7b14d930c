--------------------------- MODULE ConfigLoadProofs -------------------------
(***************************************************************************)
(* What load returns, for files of any number of cameras and any values.   *)
(***************************************************************************)
EXTENDS ConfigLoad, TLAPS

Checked == {"validate", "formats", "loaded"}

LimitsInv == pc \in {"formats", "loaded"} => \A i \in DOMAIN cameras : Validates(cameras[i])

(* A camera is the file's, but for the format of those already filled in. *)
Complete(c) == [c EXCEPT !.format = Filled(@)]
FillInv ==
    /\ pc \in {"default", "titles"} \cup Checked =>
           /\ DOMAIN cameras = DOMAIN file
           /\ \A i \in DOMAIN file :
                  cameras[i] = IF pc \in {"formats", "loaded"} /\ i \notin filling
                               THEN Complete(file[i]) ELSE file[i]
    /\ filling # {} => pc = "formats"

Inv == TypeOK /\ LimitsInv /\ FillInv

(* A list of cameras, and what filling in a format leaves alone. *)
LEMMA FilesAre ==
  ASSUME NEW f
  PROVE  f \in Files <=> \E n \in 0..MaxCameras : f \in [1..n -> Camera]
  BY DEF Files

LEMMA CompleteIs ==
  ASSUME NEW c \in Camera
  PROVE  /\ Complete(c) \in Camera
         /\ Complete(c) = [c EXCEPT !.format = Filled(c.format)]
         /\ Complete(c).title = c.title /\ Complete(c).location = c.location
         /\ Validates(c) => Validates(Complete(c))
<1>1. Filled(c.format) \in Formats \cup {Unset}
  BY FormatsAssumption DEF Filled, Camera
<1> QED
  BY <1>1 DEF Camera, Complete, Validates

LEMMA InvInit == Init => Inv
<1> SUFFICES ASSUME Init PROVE Inv
  OBVIOUS
<1>1. <<>> \in [1..0 -> Camera]
  OBVIOUS
<1>2. \E n \in 0..MaxCameras : cameras \in [1..n -> Camera]
  BY <1>1, MaxCamerasAssumption DEF Init
<1>3. cameras \in Files
  BY <1>2, FilesAre
<1> QED
  BY <1>3 DEF Init, Inv, TypeOK, LimitsInv, FillInv, Checked

LEMMA InvStep == Inv /\ [Next]_vars => Inv'
<1> SUFFICES ASSUME Inv, [Next]_vars PROVE Inv'
  OBVIOUS
<1> USE DEF Inv, Checked
<1>1. CASE ReadFile
  BY <1>1 DEF ReadFile, TypeOK, LimitsInv, FillInv
<1>2. CASE DefaultPersistLoc
  BY <1>2 DEF DefaultPersistLoc, TypeOK, LimitsInv, FillInv
<1>3. CASE CheckTitles
  BY <1>3 DEF CheckTitles, TypeOK, LimitsInv, FillInv
<1>4. CASE Validate
  BY <1>4 DEF Validate, TypeOK, LimitsInv, FillInv
<1>5. CASE Return
  BY <1>5 DEF Return, AllFilled, TypeOK, LimitsInv, FillInv
<1>6. ASSUME NEW i \in 1..MaxCameras, FillFormat(i) PROVE Inv'
  <2>1. PICK n \in 0..MaxCameras : cameras \in [1..n -> Camera]
    BY FilesAre DEF TypeOK
  <2>2. i \in 1..n /\ cameras[i] \in Camera
    BY <1>6, <2>1 DEF FillFormat, TypeOK
  <2>3. cameras' = [cameras EXCEPT ![i] = Complete(cameras[i])]
    BY <1>6 DEF FillFormat, Complete
  <2>4. cameras' \in [1..n -> Camera]
    BY <2>1, <2>2, <2>3, CompleteIs
  <2>5. TypeOK'
    BY <1>6, <2>1, <2>4, FilesAre DEF FillFormat, TypeOK
  <2>6. /\ UNCHANGED <<file, pc>> /\ pc = "formats" /\ i \in filling /\ filling' = filling \ {i}
    BY <1>6 DEF FillFormat
  <2>7. \A j \in 1..n : cameras'[j] = IF j = i THEN Complete(cameras[i]) ELSE cameras[j]
    BY <2>1, <2>3
  <2>8. LimitsInv'
    BY <2>1, <2>2, <2>4, <2>6, <2>7, CompleteIs DEF LimitsInv
  <2>9. FillInv'
    BY <2>1, <2>2, <2>4, <2>6, <2>7 DEF FillInv
  <2> QED
    BY <2>5, <2>8, <2>9
<1>7. CASE UNCHANGED vars
  BY <1>7 DEF vars, TypeOK, LimitsInv, FillInv
<1> QED
  BY <1>1, <1>2, <1>3, <1>4, <1>5, <1>6, <1>7 DEF Next

(***************************************************************************)
(* The types of a configuration being loaded.                              *)
(***************************************************************************)
THEOREM TypeCorrect == Spec => [](Inv /\ TypeOK)
<1>1. Inv => TypeOK
  BY DEF Inv
<1> QED
  BY InvInit, InvStep, <1>1, PTL DEF Spec

(***************************************************************************)
(* A clip of a loaded camera has at least one frame, and its maximum age   *)
(* is at least a day: what the pipeline and the store start from.          *)
(***************************************************************************)
THEOREM Possible == Spec => []ClipsArePossible
<1>1. Inv => ClipsArePossible
  <2> SUFFICES ASSUME Inv, pc = "loaded", NEW i \in DOMAIN cameras
               PROVE  cameras[i].fps * cameras[i].seconds >= 1 /\ cameras[i].age >= 1
    BY DEF ClipsArePossible
  <2> DEFINE f == cameras[i].fps
             s == cameras[i].seconds
  <2>1. f \in 1..30 /\ s \in 1..3 /\ cameras[i].age \in 1..30
    BY DEF Inv, LimitsInv, Validates
  <2> HIDE DEF f, s
  <2>2. f * s >= 1
    <3>1. CASE s = 1
      BY <2>1, <3>1
    <3>2. CASE s = 2
      BY <2>1, <3>2
    <3>3. CASE s = 3
      BY <2>1, <3>3
    <3> QED
      BY <2>1, <3>1, <3>2, <3>3
  <2> QED
    BY <2>1, <2>2 DEF f, s
<1> QED
  BY <1>1, TypeCorrect, PTL

(***************************************************************************)
(* Whatever the order of the goroutines, what load returns is the file     *)
(* with every missing date format filled in, and nothing else.             *)
(***************************************************************************)
THEOREM Filling == Spec => []FormatsComplete
<1>1. Inv => FormatsComplete
  <2> SUFFICES ASSUME Inv, pc = "loaded"
               PROVE  cameras = [i \in DOMAIN file |-> [file[i] EXCEPT !.format = Filled(@)]]
    BY DEF FormatsComplete
  <2>1. PICK n \in 0..MaxCameras : cameras \in [1..n -> Camera]
    BY FilesAre DEF Inv, TypeOK
  <2>2. DOMAIN cameras = DOMAIN file /\ \A i \in DOMAIN file : cameras[i] = Complete(file[i])
    BY DEF Inv, FillInv, Checked
  <2>3. cameras = [i \in DOMAIN file |-> Complete(file[i])]
    BY <2>1, <2>2
  <2> QED
    BY <2>3 DEF Complete
<1> QED
  BY <1>1, TypeCorrect, PTL
=============================================================================
