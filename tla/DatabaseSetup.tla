---------------------------- MODULE DatabaseSetup ---------------------------
(***************************************************************************)
(* The commands "setup" and "remove-setup" of the daemon's command line:   *)
(* the configuration file (internal/config), the database file and its     *)
(* root user (pkg/database).  Every step on disk may fail, every prompt    *)
(* may be aborted, and the process may be killed between any two steps;    *)
(* what is on disk stays for the next command.                             *)
(***************************************************************************)
EXTENDS Integers

CONSTANTS
    Passwords,   \* what the admin may type
    MaxCommands  \* model bound: commands run

ASSUME MaxCommandsAssumption == MaxCommands \in Nat

VARIABLES
    config,    \* config.json on disk: "absent", "empty" or "written"
    db,        \* the database file: "absent", "empty" or "migrated"
    users,     \* the number of root users in it
    pc,        \* the running command, by the step it takes next
    attempts,  \* the argument of askForPassword
    password, repeated,  \* what askForPassword has read
    commands,  \* commands begun
    result,    \* how the last command ended
    owner,     \* history: who created the database file, "us" or "others"
    pairs      \* history: password pairs asked for (capped)

disk == <<config, db, users>>
prompts == <<attempts, password, repeated, pairs>>
vars == <<disk, pc, prompts, commands, result, owner>>

Steps == {"createConfig", "writeConfig", "stat", "create", "open", "migrate", "username",
          "password", "repeat", "insert", "remove"}

TypeOK ==
    /\ config \in {"absent", "empty", "written"}
    /\ db \in {"absent", "empty", "migrated"}
    /\ users \in Nat
    /\ pc \in Steps \cup {"idle"}
    /\ attempts \in 0..2 /\ pairs \in 0..4
    /\ password \in Passwords \cup {"nothing"} /\ repeated \in Passwords \cup {"nothing"}
    /\ commands \in 0..MaxCommands
    /\ result \in {"none", "done", "removed", "error", "killed"}
    /\ owner \in {"us", "others"}

Init ==
    /\ config = "absent" /\ db = "absent" /\ users = 0
    /\ pc = "idle" /\ attempts = 0 /\ password = "nothing" /\ repeated = "nothing" /\ pairs = 0
    /\ commands = 0 /\ result = "none" /\ owner = "others"

Goto(step) == pc' = step /\ UNCHANGED result
EndWith(r) == pc' = "idle" /\ result' = r

(* A step that fails leaves the disk as it is and ends the command. *)
Fails == EndWith("error") /\ UNCHANGED disk

Step(at) == pc = at /\ UNCHANGED commands

-----------------------------------------------------------------------------
Command ==
    /\ pc = "idle" /\ commands < MaxCommands
    /\ commands' = commands + 1 /\ owner' = "others" /\ pairs' = 0 /\ attempts' = 0
    /\ pc' \in {"createConfig", "remove"} /\ result' = "none"
    /\ UNCHANGED <<disk, password, repeated>>

(* OpenFile with O_EXCL; ErrConfigAlreadyExists is logged and setup goes on. *)
CreateConfig ==
    /\ Step("createConfig")
    /\ \/ /\ config = "absent" /\ config' = "empty"
          /\ Goto("writeConfig")
          /\ UNCHANGED <<db, users>>
       \/ config # "absent" /\ Goto("stat") /\ UNCHANGED disk
       \/ Fails
    /\ UNCHANGED <<prompts, owner>>

WriteConfig ==
    /\ Step("writeConfig")
    /\ \/ config' = "written" /\ Goto("stat") /\ UNCHANGED <<db, users>>
       \/ Fails
    /\ UNCHANGED <<prompts, owner>>

ExistingIsOpened == Goto("open")                                  \* mutant
AlreadyExists == EndWith("done")

(***************************************************************************)
(* createFile: a path that cannot be resolved ends the command.  A Stat    *)
(* that finds no file leads to Create; anything else, errors included, is  *)
(* ErrDBAlreadyExists, which Service.Setup logs before it reports success. *)
(***************************************************************************)
StatDB ==
    /\ Step("stat")
    /\ \/ db = "absent" /\ Goto("create")
       \/ AlreadyExists
       \/ EndWith("error")
    /\ UNCHANGED <<disk, prompts, owner>>

CreateDB ==
    /\ Step("create")
    /\ \/ /\ db' = "empty" /\ users' = 0 /\ owner' = "us"
          /\ Goto("open") /\ UNCHANGED config
       \/ Fails /\ UNCHANGED owner
    /\ UNCHANGED prompts

OpenDB ==
    /\ Step("open")
    /\ \/ Goto("migrate") /\ UNCHANGED disk
       \/ Fails
    /\ UNCHANGED <<prompts, owner>>

(***************************************************************************)
(* The wrapper hands gorm the slice of models as one argument (m where     *)
(* m... is meant).  Whether gorm migrates that is outside src/, so Migrate *)
(* may succeed or fail.                                                    *)
(***************************************************************************)
Migrate ==
    /\ Step("migrate")
    /\ \/ db' = "migrated" /\ Goto("username") /\ UNCHANGED <<config, users>>
       \/ Fails
    /\ UNCHANGED <<prompts, owner>>

AskForUsername ==
    /\ Step("username")
    /\ (Goto("password") \/ EndWith("error"))
    /\ UNCHANGED <<disk, prompts, owner>>

AskForPassword ==
    /\ Step("password")
    /\ \/ /\ password' \in Passwords
          /\ pairs' = IF pairs = 4 THEN 4 ELSE pairs + 1
          /\ Goto("repeat")
       \/ EndWith("error") /\ UNCHANGED <<password, pairs>>
    /\ UNCHANGED <<disk, attempts, repeated, owner>>

TriesForgotten == 0                                               \* mutant
Tries == attempts + 1
OnceMore == Tries > 3                                             \* mutant
TooManyTries == Tries >= 3

(* The second prompt and the comparison. *)
Repeat(p) ==
    /\ repeated' = p
    /\ \/ /\ p = password /\ Goto("insert") /\ UNCHANGED attempts
       \/ /\ p # password /\ TooManyTries
          /\ EndWith("error") /\ UNCHANGED attempts
       \/ /\ p # password /\ ~TooManyTries
          /\ attempts' = Tries /\ Goto("password")

AskAgain ==
    /\ Step("repeat")
    /\ \/ \E p \in Passwords : Repeat(p)
       \/ EndWith("error") /\ UNCHANGED <<attempts, repeated>>
    /\ UNCHANGED <<disk, password, pairs, owner>>

(***************************************************************************)
(* createRootUser: the wrapper's Create drops what gorm's Create returns,  *)
(* and Error() reads the session that was left untouched (gorm chains by   *)
(* returning new instances), so an insertion that fails is not noticed and *)
(* the setup goes on to report success.                                    *)
(***************************************************************************)
CreateRootUser ==
    /\ Step("insert")
    /\ EndWith("done")
    /\ \/ users' = users + 1 /\ UNCHANGED <<config, db>>
       \/ UNCHANGED disk
    /\ UNCHANGED <<prompts, owner>>

(* Destroy; the error of a Remove that fails is logged, not returned. *)
RemoveSetup ==
    /\ Step("remove")
    /\ EndWith("removed")
    /\ \/ db' = "absent" /\ users' = 0 /\ UNCHANGED config
       \/ UNCHANGED disk
    /\ UNCHANGED <<prompts, owner>>

Running ==
    \/ CreateConfig \/ WriteConfig \/ StatDB \/ CreateDB \/ OpenDB \/ Migrate
    \/ AskForUsername \/ AskForPassword \/ AskAgain \/ CreateRootUser \/ RemoveSetup

Kill ==
    /\ pc # "idle"
    /\ EndWith("killed")
    /\ UNCHANGED <<disk, prompts, commands, owner>>

Next == Command \/ Running \/ Kill
Spec == Init /\ [][Next]_vars

(* A command runs on, its prompts being answered or aborted. *)
FairSpec == Spec /\ WF_vars(Running)

-----------------------------------------------------------------------------
(***************************************************************************)
(* Whatever commands are run, fail or are killed, the database holds at    *)
(* most one root user, and only a database whose tables exist holds one.   *)
(***************************************************************************)
AtMostOneRoot == users <= 1 /\ (users # 0 => db = "migrated")

(***************************************************************************)
(* The root user is created with a password typed twice in a row, within   *)
(* three tries (db.go:212).                                                *)
(***************************************************************************)
PasswordConfirmed == pc = "insert" => password = repeated /\ pairs \in 1..3

(***************************************************************************)
(* A setup touches only what it has created: an existing configuration is  *)
(* never overwritten, and a database of an earlier setup is neither        *)
(* emptied nor given another root user.                                    *)
(***************************************************************************)
KeepsExisting ==
    /\ config = "written" => config' = "written"
    /\ (db # "absent" /\ owner = "others" /\ pc # "remove") => UNCHANGED <<db, users>>
ExistingDataKept == [][KeepsExisting]_vars

(* Every command ends, however often the passwords do not match. *)
CommandEnds == (pc # "idle") ~> (pc = "idle")

(***************************************************************************)
(* main.go:32 and 52: after a setup that reports success, a database that  *)
(* is there has its root admin.                                            *)
(***************************************************************************)
SetUpMeansRoot == result = "done" /\ db # "absent" => users # 0
=============================================================================
