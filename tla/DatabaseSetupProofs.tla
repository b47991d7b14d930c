------------------------ MODULE DatabaseSetupProofs -------------------------
(***************************************************************************)
(* Proofs about DatabaseSetup, for every set of passwords and any number   *)
(* of commands.  The inductive invariant says what a running setup that    *)
(* has passed createFile knows: the database is its own and has no user.   *)
(***************************************************************************)
EXTENDS DatabaseSetup, TLAPS

(* The steps of a setup between createFile and the insertion. *)
Owning == {"open", "migrate", "username", "password", "repeat", "insert"}
Prompting == {"username", "password", "repeat", "insert"}

OwnedInv ==
    /\ pc \in Owning => owner = "us" /\ users = 0 /\ db # "absent"
    /\ pc \in Prompting => db = "migrated"
    /\ pc = "create" => db = "absent"
    /\ users = 0 \/ (users = 1 /\ db = "migrated")

PromptInv ==
    /\ pc \in Prompting \ {"repeat", "insert"} => pairs = attempts
    /\ pc \in {"repeat", "insert"} => pairs = attempts + 1
    /\ pc \in Owning \ Prompting => attempts = 0 /\ pairs = 0
    /\ pc \in {"createConfig", "writeConfig", "stat", "create"} => attempts = 0 /\ pairs = 0
    /\ pc = "insert" => password = repeated

IInv == TypeOK /\ OwnedInv /\ PromptInv

LEMMA InitIInv == Init => IInv
<1> SUFFICES ASSUME Init PROVE IInv
  OBVIOUS
<1>1. owner \in {"us", "others"}
  BY DEF Init
<1>2. TypeOK
  BY <1>1, MaxCommandsAssumption DEF Init, TypeOK, Steps
<1>3. OwnedInv
  BY DEF Init, OwnedInv, Owning, Prompting
<1>4. PromptInv
  BY DEF Init, PromptInv, Owning, Prompting
<1> QED
  BY <1>2, <1>3, <1>4 DEF IInv

USE DEF disk, prompts, vars, Goto, EndWith, Fails, Step

LEMMA NextIInv == IInv /\ [Next]_vars => IInv'
<1> SUFFICES ASSUME IInv, [Next]_vars PROVE IInv'
  OBVIOUS
<1> USE MaxCommandsAssumption DEF IInv, TypeOK, OwnedInv, PromptInv, Owning, Prompting, Steps
<1>1. CASE Command
  BY <1>1 DEF Command
<1>2. CASE CreateConfig
  BY <1>2 DEF CreateConfig
<1>3. CASE WriteConfig
  BY <1>3 DEF WriteConfig
<1>4. CASE StatDB
  BY <1>4 DEF StatDB, AlreadyExists
<1>5. CASE CreateDB
  BY <1>5 DEF CreateDB
<1>6. CASE OpenDB
  BY <1>6 DEF OpenDB
<1>7. CASE Migrate
  BY <1>7 DEF Migrate
<1>8. CASE AskForUsername
  BY <1>8 DEF AskForUsername
<1>9. CASE AskForPassword
  BY <1>9 DEF AskForPassword
<1>10. CASE AskAgain
  BY <1>10 DEF AskAgain, Repeat, TooManyTries, Tries
<1>11. CASE CreateRootUser
  BY <1>11 DEF CreateRootUser
<1>12. CASE RemoveSetup
  BY <1>12 DEF RemoveSetup
<1>13. CASE Kill
  BY <1>13 DEF Kill
<1>14. CASE UNCHANGED vars
  BY <1>14
<1> QED
  BY <1>1, <1>2, <1>3, <1>4, <1>5, <1>6, <1>7, <1>8, <1>9, <1>10, <1>11, <1>12, <1>13, <1>14
     DEF Next, Running

THEOREM Inductive == Spec => []IInv
  BY InitIInv, NextIInv, PTL DEF Spec

(* The database never holds two root users, nor one without tables. *)
THEOREM OneRoot == Spec => []AtMostOneRoot
<1>1. IInv => AtMostOneRoot
  BY DEF IInv, TypeOK, OwnedInv, AtMostOneRoot
<1> QED
  BY <1>1, Inductive, PTL

(* The root user's password was typed twice in a row within three tries. *)
THEOREM Confirmed == Spec => []PasswordConfirmed
<1>1. IInv => PasswordConfirmed
  BY DEF IInv, TypeOK, PromptInv, PasswordConfirmed
<1> QED
  BY <1>1, Inductive, PTL

(* A setup leaves configurations and databases of earlier setups alone. *)
THEOREM Kept == Spec => ExistingDataKept
<1>1. IInv /\ [Next]_vars => [KeepsExisting]_vars
  <2> SUFFICES ASSUME IInv, Next PROVE KeepsExisting
    OBVIOUS
  <2> USE DEF IInv, OwnedInv, Owning, KeepsExisting
  <2>1. CASE Command \/ Kill \/ RemoveSetup
    BY <2>1 DEF Command, Kill, RemoveSetup
  <2>2. CASE CreateConfig \/ WriteConfig
    BY <2>2 DEF CreateConfig, WriteConfig
  <2>3. CASE StatDB \/ CreateDB \/ OpenDB
    BY <2>3 DEF StatDB, AlreadyExists, CreateDB, OpenDB
  <2>4. CASE Migrate \/ CreateRootUser
    BY <2>4 DEF Migrate, CreateRootUser
  <2>5. CASE AskForUsername \/ AskForPassword \/ AskAgain
    BY <2>5 DEF AskForUsername, AskForPassword, AskAgain
  <2> QED
    BY <2>1, <2>2, <2>3, <2>4, <2>5 DEF Next, Running
<1> QED
  BY <1>1, Inductive, PTL DEF Spec, ExistingDataKept
=============================================================================
