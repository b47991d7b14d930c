------------------------------ MODULE ClipStore -----------------------------
(***************************************************************************)
(* The clips of one camera on disk: makeClip stamps a clip with the time   *)
(* it begins it, the persister writes it to the file named after that      *)
(* second in the directory of that day (videoclip, openCVClipWriter), and  *)
(* the delete process removes the directories of old days.  Clips are      *)
(* named in local time; the delete process takes the name of a directory   *)
(* for a day in UTC.  Frames still in flight at a switch of the camera are *)
(* the subject of CameraPipeline.                                          *)
(***************************************************************************)
EXTENDS Integers, Sequences, FiniteSets

CONSTANTS
    DayLen,         \* seconds in a day
    FramesPerClip,  \* frames of a full clip
    QueueLen,       \* capacity of the clips channel
    MaxAge,         \* max_clip_age_days
    Behind,         \* seconds local time is behind UTC: negative in the east
    Interval,       \* time between two runs of the delete process
    MaxRate,        \* frames that reach makeClip in a second, at most
    MaxTime,        \* model bound: seconds the clock runs
    MaxClips        \* model bound: clips begun

ASSUME PositiveAssumption == {DayLen, FramesPerClip, QueueLen, MaxAge, MaxClips} \subseteq Nat \ {0}
ASSUME ZoneAssumption == Behind \in Int
ASSUME BoundsAssumption == {Interval, MaxRate, MaxTime} \subseteq Nat

VARIABLES
    now,      \* local time, in seconds
    on,       \* the camera's schedule: frames come while it is on
    second,   \* the frames that have reached makeClip in this second
    clips,    \* the clips begun so far; the last one is being made
    maker,    \* generateClipProcess: "make", "send" or "new"
    queue,    \* the clips channel, by index into clips
    writer,   \* openCVClipWriter.Write: "idle", "mkdir", "open" or "frames"
    current,  \* the clip it writes, or 0
    left,     \* the frames of it yet to write
    opened,   \* its VideoWriter has an open file, which the code never asks
    dirs,     \* the day directories of the camera
    files,    \* the files in them: from seconds to [clip, frames]
    deleter,  \* the delete process: "wait" or "run"
    names,    \* the names it has read and not yet looked at
    lastRun,  \* lastDeleteInvokedAt
    saved,    \* history: clips whose Write returned nil
    failed    \* history: clips OpenCV or the disk failed without a word

makerVars == <<clips, maker, queue>>
writerVars == <<writer, current, left, opened, saved, failed>>
diskVars == <<dirs, files>>
deleterVars == <<deleter, names, lastRun>>
vars == <<now, on, second, makerVars, writerVars, diskVars, deleterVars>>

Times == 0..MaxTime
Day(t) == t \div DayLen
Days == 0..Day(MaxTime)

(* clip.FileName: one file for each second. *)
NamedByDay(c) == Day(clips[c].stamp) * DayLen                     \* mutant
FileName(c) == clips[c].stamp
RootPath(c) == Day(clips[c].stamp)

TypeOK ==
    /\ now \in Times /\ on \in BOOLEAN /\ second \in 0..MaxRate
    /\ clips \in Seq([stamp : Times, frames : 0..FramesPerClip])
    /\ maker \in {"make", "send", "new"} /\ queue \in Seq(DOMAIN clips)
    /\ Len(queue) <= QueueLen /\ Len(clips) <= MaxClips
    /\ writer \in {"idle", "mkdir", "open", "frames"}
    /\ current \in DOMAIN clips \cup {0} /\ left \in 0..FramesPerClip /\ opened \in BOOLEAN
    /\ dirs \subseteq Days
    /\ DOMAIN files \subseteq Times
    /\ \A t \in DOMAIN files : files[t] \in [clip : DOMAIN clips, frames : 0..FramesPerClip]
    /\ deleter \in {"wait", "run"} /\ names \subseteq Days /\ lastRun \in Times
    /\ saved \subseteq DOMAIN clips /\ failed \subseteq DOMAIN clips

NewClip == [stamp |-> now, frames |-> 0]

Init ==
    /\ now = 0 /\ on \in BOOLEAN /\ second = 0
    /\ clips = <<NewClip>> /\ maker = "make" /\ queue = <<>>
    /\ writer = "idle" /\ current = 0 /\ left = 0 /\ opened = FALSE
    /\ saved = {} /\ failed = {}
    /\ dirs = {} /\ files = <<>>
    /\ deleter = "wait" /\ names = {} /\ lastRun = 0

Tick ==
    /\ now < MaxTime /\ now' = now + 1 /\ second' = 0
    /\ UNCHANGED <<on, makerVars, writerVars, diskVars, deleterVars>>

-----------------------------------------------------------------------------
(* makeClip: a frame is appended, or ends a clip that is full. *)
Frame ==
    /\ maker = "make" /\ on /\ second < MaxRate
    /\ second' = second + 1
    /\ LET n == clips[Len(clips)].frames IN
       IF n >= FramesPerClip
       THEN maker' = "send" /\ UNCHANGED clips
       ELSE clips' = [clips EXCEPT ![Len(clips)].frames = n + 1] /\ UNCHANGED maker
    /\ UNCHANGED <<now, on, queue, writerVars, diskVars, deleterVars>>

SwitchOn ==
    /\ ~on /\ on' = TRUE
    /\ UNCHANGED <<now, second, makerVars, writerVars, diskVars, deleterVars>>

(* The OFF event ends the clip at once, full or not, empty or not. *)
SwitchOff ==
    /\ on /\ maker = "make"
    /\ on' = FALSE /\ maker' = "send"
    /\ UNCHANGED <<now, second, clips, queue, writerVars, diskVars, deleterVars>>

RoomForOneMore == Len(queue) <= QueueLen                          \* mutant
QueueRoom == Len(queue) < QueueLen

Send ==
    /\ maker = "send" /\ QueueRoom
    /\ queue' = Append(queue, Len(clips)) /\ maker' = "new"
    /\ UNCHANGED <<now, on, second, clips, writerVars, diskVars, deleterVars>>

MakeClip ==
    /\ maker = "new" /\ Len(clips) < MaxClips
    /\ clips' = Append(clips, NewClip) /\ maker' = "make"
    /\ UNCHANGED <<now, on, second, queue, writerVars, diskVars, deleterVars>>

-----------------------------------------------------------------------------
(* Write returns: reset closes the file and the persister goes on. *)
Returns == writer' = "idle" /\ current' = 0 /\ left' = 0 /\ opened' = FALSE

(* An empty clip is refused. *)
Take ==
    /\ writer = "idle" /\ queue # <<>>
    /\ queue' = Tail(queue)
    /\ IF clips[Head(queue)].frames = 0
       THEN Returns
       ELSE /\ writer' = "mkdir" /\ UNCHANGED opened
            /\ current' = Head(queue) /\ left' = clips[Head(queue)].frames
    /\ UNCHANGED <<now, on, second, clips, maker, saved, failed, diskVars, deleterVars>>

Mkdir ==
    /\ writer = "mkdir"
    /\ \/ /\ dirs' = dirs \cup {RootPath(current)}
          /\ writer' = "open" /\ UNCHANGED <<current, left, opened>>
       \/ Returns /\ UNCHANGED dirs
    /\ UNCHANGED <<now, on, second, makerVars, saved, failed, files, deleterVars>>

(* A file of that name is truncated; there is none without its directory. *)
Created ==
    /\ RootPath(current) \in dirs
    /\ files' = [t \in DOMAIN files \cup {FileName(current)} |->
                    IF t = FileName(current) THEN [clip |-> current, frames |-> 0] ELSE files[t]]

(***************************************************************************)
(* VideoWriterFile gives an error for a clip without dimensions only.  A   *)
(* writer that did not open looks like one that did; the failure is        *)
(* OpenCV's or the disk's, unless somebody has removed the directory.      *)
(***************************************************************************)
Open ==
    /\ writer = "open"
    /\ \/ /\ writer' = "frames" /\ UNCHANGED <<current, left>>
          /\ \/ Created /\ opened' \in BOOLEAN
             \/ UNCHANGED files /\ opened' = FALSE
          /\ failed' = IF ~opened' /\ RootPath(current) \in dirs
                       THEN failed \cup {current} ELSE failed
       \/ Returns /\ UNCHANGED <<files, failed>>
    /\ UNCHANGED <<now, on, second, makerVars, saved, dirs, deleterVars>>

SavedAlways == saved \cup {current}                               \* mutant
SavedWhenAll == IF left = 0 THEN saved \cup {current} ELSE saved

(***************************************************************************)
(* The frames in turn.  A frame goes to the file if the writer is open and *)
(* the disk takes it, and nowhere when the file was removed since; Write   *)
(* of gocv returns nil in every case.  The last alternative ends the clip: *)
(* after all frames, or early, at one that is not a frame of OpenCV.       *)
(***************************************************************************)
WriteFrames ==
    /\ writer = "frames"
    /\ \/ /\ left > 0 /\ left' = left - 1
          /\ \/ /\ opened
                /\ files' = [t \in DOMAIN files |-> IF t = FileName(current)
                                THEN [files[t] EXCEPT !.frames = @ + 1] ELSE files[t]]
                /\ UNCHANGED failed
             \/ /\ failed' = IF opened THEN failed \cup {current} ELSE failed
                /\ UNCHANGED files
          /\ UNCHANGED <<writer, current, opened, saved>>
       \/ Returns /\ saved' = SavedWhenAll /\ UNCHANGED <<files, failed>>
    /\ UNCHANGED <<now, on, second, makerVars, dirs, deleterVars>>

Persist == Take \/ Mkdir \/ Open \/ WriteFrames

-----------------------------------------------------------------------------
(* delete: when more than the interval has passed, list the camera's directory. *)
ReadNames ==
    /\ deleter = "wait" /\ now >= lastRun + Interval
    /\ \/ names' = dirs /\ deleter' = "run" /\ UNCHANGED lastRun
       \/ lastRun' = now /\ UNCHANGED <<names, deleter>>
    /\ UNCHANGED <<now, on, second, makerVars, writerVars, diskVars>>

(* The clocks that are compared are finer than seconds, so <= stands for Before. *)
OldByDayOnly(d) == d <= Day(now) - MaxAge + 1                     \* mutant
Old(d) == d * DayLen - Behind <= now - MaxAge * DayLen

FilesOf(d) == {t \in DOMAIN files : Day(t) = d}

(* RemoveAll removes the directory, or fails half-way. *)
Remove(d) ==
    \E gone \in SUBSET FilesOf(d) :
        /\ files' = [t \in DOMAIN files \ gone |-> files[t]]
        /\ dirs' = dirs \/ (gone = FilesOf(d) /\ dirs' = dirs \ {d})

LookAt(d) ==
    /\ deleter = "run" /\ d \in names
    /\ names' = names \ {d}
    /\ IF Old(d) THEN Remove(d) ELSE UNCHANGED diskVars
    /\ UNCHANGED <<now, on, second, makerVars, writerVars, deleter, lastRun>>

RunDone ==
    /\ deleter = "run" /\ names = {}
    /\ deleter' = "wait" /\ lastRun' = now
    /\ UNCHANGED <<now, on, second, makerVars, writerVars, diskVars, names>>

Delete == ReadNames \/ RunDone \/ \E d \in Days : LookAt(d)

Next ==
    \/ Tick \/ SwitchOn \/ SwitchOff \/ Frame \/ Send \/ MakeClip
    \/ Persist \/ Delete

Spec == Init /\ [][Next]_vars

-----------------------------------------------------------------------------
(***************************************************************************)
(* How long a clip is safe: the delete process goes by the first second of *)
(* the day a clip was begun in, and by that day in UTC.                    *)
(***************************************************************************)
SafeTime == (MaxAge - 1) * DayLen - Behind
Young(t) == now - t <= SafeTime

(* The file of a clip holds it whole, or a later clip of the same second. *)
OnDisk(c) ==
    /\ FileName(c) \in DOMAIN files
    /\ LET f == files[FileName(c)] IN
          f = [clip |-> c, frames |-> clips[c].frames] \/ f.clip > c

(***************************************************************************)
(* A clip for which Write returned nil is on disk as long as it is young,  *)
(* whatever the delete process does between the steps of the writer (it    *)
(* may remove the directory just made, or the file just written to) and    *)
(* whichever clips fail.  The exception is a clip that OpenCV or the disk  *)
(* itself has failed: Write does not notice.                               *)
(***************************************************************************)
SavedClipsKept == \A c \in saved \ failed : Young(clips[c].stamp) => OnDisk(c)

(***************************************************************************)
(* A clip that loses its file to a later one, begun within the same        *)
(* second, is short: it has no more frames than come in one second.        *)
(***************************************************************************)
SharedFilesAreShort ==
    \A c, d \in DOMAIN clips : c < d /\ FileName(c) = FileName(d) => clips[c].frames <= MaxRate

(***************************************************************************)
(* The delete process never removes a young file, not even one that is     *)
(* being written or whose Write failed.                                    *)
(***************************************************************************)
YoungFilesKept == [][ \A t \in DOMAIN files \ DOMAIN files' : ~Young(t) ]_vars
=============================================================================
