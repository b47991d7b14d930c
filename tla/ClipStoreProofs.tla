-------------------------- MODULE ClipStoreProofs --------------------------
(***************************************************************************)
(* What is on disk, for every value of the constants.                      *)
(***************************************************************************)
EXTENDS ClipStore, SequenceTheorems, TLAPS

(* A clip is being made, or has been; the writer has a clip unless it waits. *)
AliveInv == Len(clips) >= 1 /\ (writer = "idle" <=> current = 0)

(* Write is done with the directory, and the delete process has left it. *)
DirKept == Young(FileName(current)) => RootPath(current) \in dirs

(***************************************************************************)
(* What the file of an open writer holds, and what Write has yet to write: *)
(* the clip, or less of it when the disk has lost frames.                  *)
(***************************************************************************)
FileGrows ==
    FileName(current) \in DOMAIN files =>
        /\ files[FileName(current)].clip = current
        /\ files[FileName(current)].frames + left <= clips[current].frames
        /\ current \notin failed => files[FileName(current)].frames + left = clips[current].frames

(* A young file can be missing only where something has failed. *)
FileKept ==
    current \notin failed /\ Young(FileName(current)) =>
        opened /\ FileName(current) \in DOMAIN files

WriteInv ==
    /\ writer \in {"mkdir", "open"} => left = clips[current].frames
    /\ writer = "open" => DirKept
    /\ writer = "frames" => (opened => FileGrows) /\ FileKept

(* The clip x was begun, and is not the one being made. *)
Finished(x) == x \in 1..Len(clips) /\ (maker # "new" => x < Len(clips))

(* Clips are finished, queued, written and saved in the order of their making. *)
OrderInv ==
    /\ \A i, j \in 1..Len(queue) : i < j => queue[i] < queue[j]
    /\ \A i \in 1..Len(queue) :
          Finished(queue[i]) /\ current < queue[i] /\ \A c \in saved : c < queue[i]
    /\ current # 0 => Finished(current) /\ \A c \in saved : c < current
    /\ \A c \in saved : Finished(c)

(* The clips are begun in turn, and the last one has only frames of its time. *)
StampInv ==
    /\ \A c, d \in 1..Len(clips) : c < d => clips[c].stamp <= clips[d].stamp
    /\ \A c \in 1..Len(clips) : clips[c].stamp <= now
    /\ clips[Len(clips)].stamp = now => clips[Len(clips)].frames <= second

StoreInv ==
    /\ TypeOK /\ AliveInv /\ WriteInv /\ OrderInv /\ SavedClipsKept
    /\ StampInv /\ SharedFilesAreShort

-----------------------------------------------------------------------------
(* Days. *)
LEMMA Constants ==
  /\ DayLen \in Nat /\ DayLen > 0 /\ FramesPerClip \in Nat /\ FramesPerClip > 0
  /\ QueueLen \in Nat /\ QueueLen > 0 /\ MaxAge \in Nat /\ MaxAge > 0
  /\ Interval \in Nat /\ MaxRate \in Nat /\ MaxTime \in Nat /\ MaxClips \in Nat /\ MaxClips > 0
  /\ Behind \in Int
BY PositiveAssumption, BoundsAssumption, ZoneAssumption

(* A second belongs to the day it lies in. *)
LEMMA DayOf ==
  ASSUME NEW t \in Nat
  PROVE  Day(t) \in Nat /\ Day(t) * DayLen <= t /\ t < Day(t) * DayLen + DayLen
BY Constants DEF Day

LEMMA DayInDays ==
  ASSUME NEW t \in Times
  PROVE  Day(t) \in Days
<1> DEFINE d == Day(t)
           e == Day(MaxTime)
<1>1. t \in Nat /\ t <= MaxTime /\ MaxTime \in Nat
  BY Constants DEF Times
<1>2. /\ d \in Nat /\ d * DayLen <= t /\ t < d * DayLen + DayLen
      /\ e \in Nat /\ e * DayLen <= MaxTime /\ MaxTime < e * DayLen + DayLen
  BY <1>1, DayOf
<1> HIDE DEF d, e
<1>3. d <= e
  <2> SUFFICES ASSUME d > e PROVE FALSE
    BY <1>2
  <2>1. PICK k \in Nat : d = e + 1 + k
    <3>1. d - (e + 1) \in Nat /\ d = e + 1 + (d - (e + 1))
      BY <1>2
    <3> QED
      BY <3>1
  <2>2. d * DayLen = e * DayLen + DayLen + k * DayLen /\ k * DayLen >= 0
    BY <1>2, <2>1, Constants
  <2> QED
    BY <1>1, <1>2, <2>2, Constants
<1> QED
  BY <1>2, <1>3 DEF Days, d, e

(* A directory that counts as old has no young files. *)
LEMMA OldMeansOld ==
  ASSUME NEW t \in Nat, now \in Nat, Old(Day(t))
  PROVE  ~Young(t)
<1> DEFINE d == Day(t)
<1>1. d \in Nat /\ t < d * DayLen + DayLen
  BY DayOf
<1>2. d * DayLen - Behind <= now - MaxAge * DayLen
  BY DEF Old
<1> HIDE DEF d
<1>3. SafeTime = MaxAge * DayLen - DayLen - Behind /\ MaxAge * DayLen \in Nat
  BY Constants DEF SafeTime
<1>4. d * DayLen \in Nat
  BY <1>1, Constants
<1>5. SafeTime \in Int /\ now - t > SafeTime
  BY <1>1, <1>2, <1>3, <1>4, Constants
<1> QED
  BY <1>5 DEF Young

-----------------------------------------------------------------------------
ClipType == [stamp : Times, frames : 0..FramesPerClip]

(* Clips are begun; the second of a clip never changes, nor does a finished clip. *)
ClipsGrow ==
    /\ clips' \in Seq(ClipType) /\ Len(clips) <= Len(clips') /\ Len(clips') <= MaxClips
    /\ \A i \in 1..Len(clips) : clips'[i].stamp = clips[i].stamp
    /\ \A i \in 1..Len(clips) : Finished(i) => clips'[i] = clips[i] /\ Finished(i)'

LEMMA ClipsAre ==
  ASSUME TypeOK
  PROVE  /\ clips \in Seq(ClipType) /\ Len(clips) \in Nat /\ Len(clips) <= MaxClips
         /\ DOMAIN clips = 1..Len(clips)
         /\ \A i \in 1..Len(clips) : clips[i] \in ClipType
<1>1. /\ clips \in Seq(ClipType) /\ Len(clips) \in Nat /\ Len(clips) <= MaxClips
      /\ DOMAIN clips = 1..Len(clips)
  BY DEF TypeOK, ClipType
<1> QED
  BY <1>1, ElementOfSeq

LEMMA ClipsStep ==
  ASSUME TypeOK, AliveInv, [Next]_vars
  PROVE  ClipsGrow
<1> DEFINE N == Len(clips)
<1>1. /\ clips \in Seq(ClipType) /\ N \in Nat /\ N >= 1 /\ N <= MaxClips
      /\ \A i \in 1..N : clips[i] \in ClipType
  BY ClipsAre DEF AliveInv
<1>a. ASSUME clips' = clips, maker' # "new" => maker # "new"
      PROVE  ClipsGrow
  BY <1>1, <1>a DEF ClipsGrow, Finished
<1> USE DEF makerVars, writerVars, diskVars, deleterVars
<1>2. CASE Frame
  <2> DEFINE n == clips[N].frames
  <2>1. n \in 0..FramesPerClip /\ maker = "make" /\ FramesPerClip \in Nat
    <3>1. N \in 1..N
      BY <1>1
    <3>2. clips[N] \in ClipType
      BY <1>1, <3>1
    <3>3. n \in 0..FramesPerClip
      BY <3>2 DEF ClipType
    <3>4. maker = "make"
      BY <1>2 DEF Frame
    <3> QED
      BY <3>3, <3>4, Constants
  <2>2. CASE UNCHANGED clips
    BY <1>a, <2>1, <2>2
  <2>3. CASE n < FramesPerClip /\ clips' = [clips EXCEPT ![N].frames = n + 1] /\ maker' = maker
    <3> DEFINE c == [stamp |-> clips[N].stamp, frames |-> n + 1]
    <3>1. c \in ClipType
      BY <1>1, <2>1, <2>3 DEF ClipType
    <3>2. clips' = [clips EXCEPT ![N] = c]
      <4>1. [clips[N] EXCEPT !.frames = n + 1] = c
        BY <1>1 DEF ClipType
      <4> QED
        BY <2>3, <4>1
    <3> HIDE DEF c
    <3>3. /\ clips' \in Seq(ClipType) /\ Len(clips') = N
          /\ \A i \in 1..N : clips'[i] = IF i = N THEN c ELSE clips[i]
      <4> HIDE DEF N
      <4>1. N \in 1..N
        BY <1>1
      <4> QED
        BY <1>1, <3>1, <3>2, <4>1, ExceptSeq DEF N
    <3>4. c.stamp = clips[N].stamp
      BY DEF c
    <3> QED
      BY <1>1, <2>1, <2>3, <3>3, <3>4 DEF ClipsGrow, Finished
  <2> QED
    BY <1>1, <1>2, <2>1, <2>2, <2>3 DEF Frame
<1>3. CASE MakeClip
  <2>1. maker = "new" /\ maker' = "make" /\ N < MaxClips /\ clips' = Append(clips, NewClip)
    BY <1>3 DEF MakeClip
  <2>2. NewClip \in ClipType
    BY Constants DEF NewClip, ClipType, TypeOK
  <2>3. /\ clips' \in Seq(ClipType) /\ Len(clips') = N + 1
        /\ \A i \in 1..N : clips'[i] = clips[i]
    BY <1>1, <2>1, <2>2, AppendProperties
  <2> QED
    BY <1>1, <2>1, <2>3, Constants DEF ClipsGrow, Finished
<1>4. CASE Tick \/ SwitchOn \/ SwitchOff \/ Send
  BY <1>4, <1>a DEF Tick, SwitchOn, SwitchOff, Send
<1>5. CASE Persist
  BY <1>5, <1>a DEF Persist, Take, Mkdir, Open, WriteFrames
<1>6. CASE Delete
  BY <1>6, <1>a DEF Delete, ReadNames, RunDone, LookAt
<1>7. CASE UNCHANGED vars
  BY <1>7, <1>a DEF vars
<1> QED
  BY <1>2, <1>3, <1>4, <1>5, <1>6, <1>7 DEF Next

(* A sequence of clips begun is one when more clips have been begun. *)
LEMMA StillBegun ==
  ASSUME NEW q, NEW m \in Nat, NEW n \in Nat, m <= n, q \in Seq(1..m)
  PROVE  q \in Seq(1..n)
<1>1. Len(q) \in Nat /\ q = [i \in 1..Len(q) |-> q[i]] /\ \A i \in 1..Len(q) : q[i] \in 1..m
  BY ElementOfSeq, SeqDef
<1>2. \A i \in 1..Len(q) : q[i] \in 1..n
  BY <1>1
<1> QED
  BY <1>1, <1>2

-----------------------------------------------------------------------------
(* Types, in three parts. *)
ClockOK ==
    /\ now \in Times /\ on \in BOOLEAN /\ second \in 0..MaxRate
    /\ maker \in {"make", "send", "new"}
    /\ writer \in {"idle", "mkdir", "open", "frames"} /\ opened \in BOOLEAN
    /\ dirs \subseteq Days
    /\ deleter \in {"wait", "run"} /\ names \subseteq Days /\ lastRun \in Times

WorkOK ==
    /\ queue \in Seq(1..Len(clips)) /\ Len(queue) <= QueueLen
    /\ current \in 0..Len(clips) /\ left \in 0..FramesPerClip
    /\ saved \subseteq 1..Len(clips) /\ failed \subseteq 1..Len(clips)

FileType(n) == [clip : 1..n, frames : 0..FramesPerClip]

FilesOK ==
    /\ DOMAIN files \subseteq Times
    /\ \A t \in DOMAIN files : files[t] \in FileType(Len(clips))

LEMMA TypeParts ==
  TypeOK <=> /\ ClockOK /\ WorkOK /\ FilesOK
             /\ clips \in Seq(ClipType) /\ Len(clips) <= MaxClips
<1>1. ASSUME clips \in Seq(ClipType)
      PROVE  Len(clips) \in Nat /\ DOMAIN clips = 1..Len(clips)
                /\ DOMAIN clips \cup {0} = 0..Len(clips)
  BY <1>1
<1>2. TypeOK => clips \in Seq(ClipType)
  BY DEF TypeOK, ClipType
<1> QED
  BY <1>1, <1>2 DEF TypeOK, ClockOK, WorkOK, FilesOK, ClipType, FileType

(* The clip being written, and its file. *)
LEMMA CurrentIs ==
  ASSUME TypeOK, AliveInv, writer # "idle"
  PROVE  /\ current \in 1..Len(clips) /\ clips[current] \in ClipType
         /\ FileName(current) \in Times /\ FileName(current) \in Nat
         /\ RootPath(current) \in Days
<1>1. current \in 1..Len(clips)
  BY TypeParts DEF WorkOK, AliveInv
<1>2. clips[current] \in ClipType
  BY <1>1, ClipsAre
<1>3. FileName(current) \in Times
  BY <1>2 DEF FileName, ClipType
<1>4. RootPath(current) = Day(FileName(current))
  BY DEF RootPath, FileName
<1> QED
  BY <1>1, <1>2, <1>3, <1>4, DayInDays, Constants DEF Times

(* The clock runs. *)
LEMMA NowStep ==
  ASSUME TypeOK, [Next]_vars
  PROVE  now \in Nat /\ now' \in Nat /\ now <= now'
<1>1. now \in Nat
  BY TypeParts, Constants DEF ClockOK, Times
<1>2. now' = now \/ now' = now + 1
  BY DEF Next, Tick, SwitchOn, SwitchOff, Frame, Send, MakeClip, Persist, Take, Mkdir, Open,
         WriteFrames, Delete, ReadNames, RunDone, LookAt, vars
<1> QED
  BY <1>1, <1>2

LEMMA ClockStep ==
  ASSUME TypeOK, AliveInv, [Next]_vars
  PROVE  ClockOK'
<1>c. ClockOK
  BY TypeParts
<1> USE DEF ClockOK, makerVars, writerVars, diskVars, deleterVars
<1>1. CASE Tick
  BY <1>1, <1>c, Constants DEF Tick, Times
<1>2. CASE SwitchOn \/ SwitchOff
  BY <1>2, <1>c DEF SwitchOn, SwitchOff
<1>3. CASE Frame
  BY <1>3, <1>c, Constants DEF Frame
<1>4. CASE Send \/ MakeClip
  BY <1>4, <1>c DEF Send, MakeClip
<1>5. CASE Take
  BY <1>5, <1>c DEF Take, Returns
<1>6. CASE Mkdir
  <2>1. RootPath(current) \in Days
    BY <1>6, <1>c, CurrentIs DEF Mkdir
  <2> QED
    BY <1>6, <1>c, <2>1 DEF Mkdir, Returns
<1>7. CASE Open
  BY <1>7, <1>c DEF Open, Returns
<1>8. CASE WriteFrames
  BY <1>8, <1>c DEF WriteFrames, Returns
<1>9. CASE ReadNames \/ RunDone
  BY <1>9, <1>c DEF ReadNames, RunDone
<1>10. ASSUME NEW d \in Days, LookAt(d) PROVE ClockOK'
  BY <1>10, <1>c DEF LookAt, Remove
<1>11. CASE UNCHANGED vars
  BY <1>11, <1>c DEF vars
<1> QED
  BY <1>1, <1>2, <1>3, <1>4, <1>5, <1>6, <1>7, <1>8, <1>9, <1>10, <1>11
     DEF Next, Persist, Delete

LEMMA WorkStep ==
  ASSUME TypeOK, AliveInv, [Next]_vars
  PROVE  WorkOK'
<1>c. WorkOK /\ FilesOK /\ Len(clips) \in Nat /\ Len(clips') \in Nat /\ Len(clips) <= Len(clips')
  <2>1. clips \in Seq(ClipType) /\ clips' \in Seq(ClipType) /\ Len(clips) <= Len(clips')
    BY ClipsAre, ClipsStep DEF ClipsGrow
  <2> QED
    BY <2>1, TypeParts
<1>s. queue \in Seq(1..Len(clips'))
  BY <1>c, StillBegun DEF WorkOK
<1>a. ASSUME UNCHANGED <<queue, current, left, saved, failed>>
      PROVE  WorkOK'
  BY <1>a, <1>c, <1>s DEF WorkOK
<1> USE DEF makerVars, writerVars, diskVars, deleterVars
<1>1. CASE Tick \/ SwitchOn \/ SwitchOff \/ Frame \/ MakeClip
  BY <1>1, <1>a DEF Tick, SwitchOn, SwitchOff, Frame, MakeClip
<1>2. CASE Send
  <2>1. /\ Len(queue) < QueueLen /\ queue' = Append(queue, Len(clips))
        /\ UNCHANGED <<clips, current, left, saved, failed>>
    BY <1>2 DEF Send, QueueRoom
  <2>2. Len(clips) \in 1..Len(clips)
    BY <1>c DEF AliveInv
  <2>3. queue' \in Seq(1..Len(clips)) /\ Len(queue') = Len(queue) + 1 /\ Len(queue) \in Nat
    BY <1>c, <2>1, <2>2, AppendProperties DEF WorkOK
  <2> QED
    BY <1>c, <2>1, <2>3, Constants DEF WorkOK
<1>3. CASE Take
  <2>1. queue # <<>> /\ queue' = Tail(queue) /\ UNCHANGED <<clips, saved, failed>>
    BY <1>3 DEF Take
  <2>2. /\ Head(queue) \in 1..Len(clips) /\ queue' \in Seq(1..Len(clips))
        /\ Len(queue') = Len(queue) - 1 /\ Len(queue) \in Nat
    BY <1>c, <2>1, HeadTailProperties DEF WorkOK
  <2>3. clips[Head(queue)].frames \in 0..FramesPerClip
    BY <2>2, ClipsAre DEF ClipType
  <2>4. \/ current' = 0 /\ left' = 0
        \/ current' = Head(queue) /\ left' = clips[Head(queue)].frames
    BY <1>3 DEF Take, Returns
  <2>5. current' \in 0..Len(clips) /\ left' \in 0..FramesPerClip
    BY <1>c, <2>2, <2>3, <2>4, Constants
  <2> QED
    BY <1>c, <2>1, <2>2, <2>5, Constants DEF WorkOK
<1>4. CASE Mkdir \/ Open
  <2>1. /\ UNCHANGED <<queue, clips, saved>> /\ failed' \subseteq failed \cup {current}
        /\ \/ UNCHANGED <<current, left>>
           \/ current' = 0 /\ left' = 0
    <3>1. CASE Mkdir
      BY <3>1 DEF Mkdir, Returns
    <3>2. CASE Open
      BY <3>2 DEF Open, Returns
    <3> QED
      BY <1>4, <3>1, <3>2
  <2>2. current \in 1..Len(clips)
    BY <1>4, CurrentIs DEF Mkdir, Open
  <2> QED
    BY <1>c, <2>1, <2>2, Constants DEF WorkOK
<1>5. CASE WriteFrames
  <2>1. current \in 1..Len(clips)
    BY <1>5, CurrentIs DEF WriteFrames
  <2>2. /\ UNCHANGED <<queue, clips>> /\ failed' \subseteq failed \cup {current}
        /\ \/ left > 0 /\ left' = left - 1 /\ UNCHANGED <<current, saved>>
           \/ current' = 0 /\ left' = 0 /\ saved' = SavedWhenAll
    BY <1>5 DEF WriteFrames, Returns
  <2>3. saved' \subseteq 1..Len(clips) /\ failed' \subseteq 1..Len(clips)
    BY <1>c, <2>1, <2>2 DEF WorkOK, SavedWhenAll
  <2> QED
    BY <1>c, <2>2, <2>3, Constants DEF WorkOK
<1>6. CASE ReadNames \/ RunDone
  BY <1>6, <1>a DEF ReadNames, RunDone
<1>7. ASSUME NEW d \in Days, LookAt(d) PROVE WorkOK'
  BY <1>7, <1>a DEF LookAt
<1>8. CASE UNCHANGED vars
  BY <1>8, <1>a DEF vars
<1> QED
  BY <1>1, <1>2, <1>3, <1>4, <1>5, <1>6, <1>7, <1>8 DEF Next, Persist, Delete

LEMMA FilesStep ==
  ASSUME TypeOK, AliveInv, WriteInv, [Next]_vars
  PROVE  FilesOK'
<1>c. FilesOK /\ Len(clips) \in Nat /\ Len(clips') \in Nat /\ Len(clips) <= Len(clips')
  <2>1. clips \in Seq(ClipType) /\ clips' \in Seq(ClipType) /\ Len(clips) <= Len(clips')
    BY ClipsAre, ClipsStep DEF ClipsGrow
  <2> QED
    BY <2>1, TypeParts
<1>a. ASSUME UNCHANGED files
      PROVE  FilesOK'
  BY <1>a, <1>c DEF FilesOK, FileType
<1> USE DEF makerVars, writerVars, diskVars, deleterVars
<1>1. CASE Tick \/ SwitchOn \/ SwitchOff \/ Frame \/ Send \/ MakeClip \/ Take \/ Mkdir
  BY <1>1, <1>a DEF Tick, SwitchOn, SwitchOff, Frame, Send, MakeClip, Take, Mkdir
<1>2. CASE Open
  <2>1. FileName(current) \in Times /\ current \in 1..Len(clips)
    BY <1>2, CurrentIs DEF Open
  <2>2. CASE UNCHANGED files
    BY <1>a, <2>2
  <2>3. CASE files' = [t \in DOMAIN files \cup {FileName(current)} |->
                          IF t = FileName(current) THEN [clip |-> current, frames |-> 0]
                                                   ELSE files[t]]
    <3>1. [clip |-> current, frames |-> 0] \in FileType(Len(clips))
      BY <2>1, Constants DEF FileType
    <3>2. clips' = clips
      BY <1>2 DEF Open
    <3> QED
      BY <1>c, <2>1, <2>3, <3>1, <3>2 DEF FilesOK
  <2> QED
    BY <1>2, <2>2, <2>3 DEF Open, Created
<1>3. CASE WriteFrames
  <2>1. FileName(current) \in Times /\ current \in 1..Len(clips) /\ clips[current] \in ClipType
    BY <1>3, CurrentIs DEF WriteFrames
  <2>2. CASE UNCHANGED files
    BY <1>a, <2>2
  <2>3. CASE /\ left > 0 /\ opened
             /\ files' = [t \in DOMAIN files |-> IF t = FileName(current)
                            THEN [files[t] EXCEPT !.frames = @ + 1] ELSE files[t]]
    <3>1. writer = "frames" /\ clips' = clips /\ left \in Nat
      BY <1>3, Constants, TypeParts DEF WriteFrames, WorkOK
    <3>2. ASSUME NEW t \in DOMAIN files PROVE files'[t] \in FileType(Len(clips))
      <4>1. CASE t # FileName(current)
        BY <1>c, <2>3, <3>2, <4>1 DEF FilesOK
      <4>2. CASE t = FileName(current)
        <5>1. files[t].frames + left <= clips[current].frames
          BY <2>3, <3>1, <3>2, <4>2 DEF WriteInv, FileGrows
        <5>2. files[t] \in FileType(Len(clips)) /\ clips[current].frames \in 0..FramesPerClip
          BY <1>c, <2>1, <3>2 DEF FilesOK, ClipType
        <5>3. files[t].frames \in 0..FramesPerClip
          BY <5>2 DEF FileType
        <5>4. files[t].frames + 1 \in 0..FramesPerClip
          <6>1. PICK x \in 0..FramesPerClip : x = files[t].frames
            BY <5>3
          <6>2. PICK y \in 0..FramesPerClip : y = clips[current].frames
            BY <5>2
          <6>3. x + left <= y /\ left > 0 /\ left \in Nat
            BY <2>3, <3>1, <5>1, <6>1, <6>2
          <6>4. FramesPerClip \in Nat
            BY Constants
          <6>5. x + 1 \in 0..FramesPerClip
            BY <6>3, <6>4
          <6> QED
            BY <6>1, <6>5
        <5>5. files'[t] = [files[t] EXCEPT !.frames = files[t].frames + 1]
          BY <2>3, <3>2, <4>2
        <5> QED
          BY <5>2, <5>4, <5>5 DEF FileType
      <4> QED
        BY <4>1, <4>2
    <3>3. DOMAIN files' = DOMAIN files
      BY <2>3
    <3> QED
      BY <1>c, <3>1, <3>2, <3>3 DEF FilesOK
  <2> QED
    BY <1>3, <2>2, <2>3 DEF WriteFrames
<1>4. CASE ReadNames \/ RunDone
  BY <1>4, <1>a DEF ReadNames, RunDone
<1>5. ASSUME NEW d \in Days, LookAt(d) PROVE FilesOK'
  <2>1. CASE UNCHANGED files
    BY <1>a, <2>1
  <2>2. CASE Remove(d)
    <3>1. PICK gone \in SUBSET FilesOf(d) : files' = [t \in DOMAIN files \ gone |-> files[t]]
      BY <2>2 DEF Remove
    <3>2. clips' = clips
      BY <1>5 DEF LookAt
    <3> QED
      BY <1>c, <3>1, <3>2 DEF FilesOK
  <2> QED
    BY <1>5, <2>1, <2>2 DEF LookAt
<1>6. CASE UNCHANGED vars
  BY <1>6, <1>a DEF vars
<1> QED
  BY <1>1, <1>2, <1>3, <1>4, <1>5, <1>6 DEF Next, Persist, Delete

LEMMA TypeStep ==
  ASSUME TypeOK, AliveInv, WriteInv, [Next]_vars
  PROVE  TypeOK'
<1>1. clips' \in Seq(ClipType) /\ Len(clips') <= MaxClips
  BY ClipsStep DEF ClipsGrow
<1>2. ClockOK' /\ WorkOK' /\ FilesOK'
  BY ClockStep, WorkStep, FilesStep
<1>3. /\ DOMAIN clips' = 1..Len(clips')
      /\ DOMAIN clips' \cup {0} = 0..Len(clips')
  BY <1>1
<1> QED
  BY <1>1, <1>2, <1>3 DEF TypeOK, ClockOK, WorkOK, FilesOK, ClipType, FileType

LEMMA AliveStep ==
  ASSUME TypeOK, AliveInv, [Next]_vars
  PROVE  AliveInv'
<1>1. Len(clips') >= 1
  BY ClipsStep, ClipsAre DEF ClipsGrow, AliveInv
<1>2. writer' = "idle" <=> current' = 0
  <2> USE DEF AliveInv, makerVars, writerVars, diskVars, deleterVars
  <2>1. CASE Tick \/ SwitchOn \/ SwitchOff \/ Frame \/ Send \/ MakeClip
    BY <2>1 DEF Tick, SwitchOn, SwitchOff, Frame, Send, MakeClip
  <2>2. CASE Take
    <3>1. /\ queue # <<>>
          /\ Returns \/ (writer' = "mkdir" /\ current' = Head(queue))
      BY <2>2 DEF Take
    <3>2. Head(queue) \in 1..Len(clips)
      BY <3>1, TypeParts, HeadTailProperties DEF WorkOK
    <3> QED
      BY <3>1, <3>2 DEF Returns
  <2>3. CASE Mkdir
    BY <2>3 DEF Mkdir, Returns
  <2>4. CASE Open
    BY <2>4 DEF Open, Returns
  <2>5. CASE WriteFrames
    BY <2>5 DEF WriteFrames, Returns
  <2>6. CASE Delete
    BY <2>6 DEF Delete, ReadNames, RunDone, LookAt
  <2>7. CASE UNCHANGED vars
    BY <2>7 DEF vars
  <2> QED
    BY <2>1, <2>2, <2>3, <2>4, <2>5, <2>6, <2>7 DEF Next, Persist
<1> QED
  BY <1>1, <1>2 DEF AliveInv

(* The clip being written is finished, and its file as young or old as it was. *)
LEMMA WriterStep ==
  ASSUME TypeOK, AliveInv, OrderInv, [Next]_vars, writer # "idle"
  PROVE  /\ current \in 1..Len(clips) /\ clips[current] \in ClipType
         /\ clips'[current] = clips[current]
         /\ FileName(current) \in Nat /\ now \in Nat /\ now' \in Nat /\ now <= now'
<1>1. /\ current \in 1..Len(clips) /\ clips[current] \in ClipType /\ current # 0
      /\ FileName(current) \in Nat
  BY CurrentIs DEF AliveInv
<1>2. Finished(current)
  BY <1>1 DEF OrderInv
<1>3. clips'[current] = clips[current]
  BY <1>1, <1>2, ClipsStep DEF ClipsGrow
<1>4. now \in Nat /\ now' \in Nat /\ now <= now'
  BY NowStep
<1> QED
  BY <1>1, <1>3, <1>4

(* What the writer knows holds when the writer is not moved, nor its file touched. *)
LEMMA WriteHolds ==
  ASSUME TypeOK, AliveInv, WriteInv, OrderInv, [Next]_vars,
         UNCHANGED <<writer, current, left, opened, failed>>,
         writer = "open" /\ RootPath(current) \in dirs /\ Young(FileName(current))
            => RootPath(current) \in dirs',
         writer = "frames" /\ FileName(current) \in DOMAIN files' =>
            FileName(current) \in DOMAIN files
               /\ files'[FileName(current)] = files[FileName(current)],
         writer = "frames" /\ FileName(current) \in DOMAIN files /\ Young(FileName(current))
            => FileName(current) \in DOMAIN files'
  PROVE  WriteInv'
<1> SUFFICES ASSUME writer # "idle" PROVE WriteInv'
  BY DEF WriteInv
<1> DEFINE k == FileName(current)
           y == Young(k)
<1>1. /\ clips'[current] = clips[current] /\ k \in Nat
      /\ now \in Nat /\ now' \in Nat /\ now <= now'
  BY WriterStep
<1>2. FileName(current)' = k /\ RootPath(current)' = RootPath(current)
  BY <1>1 DEF FileName, RootPath
<1>3. Young(FileName(current))' => y
  <2>1. Young(FileName(current))' <=> now' - FileName(current)' <= SafeTime
    BY DEF Young, SafeTime
  <2>2. SafeTime \in Int
    BY Constants DEF SafeTime
  <2>3. now - k <= now' - k
    BY <1>1
  <2> QED
    BY <1>1, <1>2, <2>1, <2>2, <2>3 DEF Young
<1>4. writer = "open" => DirKept'
  BY <1>2, <1>3 DEF WriteInv, DirKept
<1>5. writer = "frames" /\ opened => FileGrows'
  <2> SUFFICES ASSUME writer = "frames", opened, k \in DOMAIN files'
               PROVE  /\ files'[k].clip = current
                      /\ files'[k].frames + left <= clips[current].frames
                      /\ current \notin failed => files'[k].frames + left = clips[current].frames
    BY <1>1, <1>2 DEF FileGrows
  <2> QED
    BY DEF WriteInv, FileGrows
<1>6. writer = "frames" => FileKept'
  BY <1>2, <1>3 DEF WriteInv, FileKept
<1>7. writer \in {"mkdir", "open"} => left' = clips'[current'].frames
  BY <1>1 DEF WriteInv
<1> HIDE DEF k, y
<1> QED
  BY <1>4, <1>5, <1>6, <1>7 DEF WriteInv

(* What is missing of the file is what Write has yet to write, or was lost. *)
LEMMA WriteStep ==
  ASSUME TypeOK, AliveInv, WriteInv, OrderInv, [Next]_vars
  PROVE  WriteInv'
<1>a. ASSUME UNCHANGED <<writer, current, left, opened, failed, dirs, files>>
      PROVE  WriteInv'
  BY <1>a, WriteHolds
<1>b. ASSUME writer' = "idle" PROVE WriteInv'
  BY <1>b DEF WriteInv
<1> USE DEF makerVars, writerVars, diskVars, deleterVars
<1>1. CASE Tick \/ SwitchOn \/ SwitchOff \/ Frame \/ Send \/ MakeClip
  BY <1>1, <1>a DEF Tick, SwitchOn, SwitchOff, Frame, Send, MakeClip
<1>2. CASE Take
  <2>1. CASE Returns
    BY <1>b, <2>1 DEF Returns
  <2>2. CASE /\ writer' = "mkdir" /\ current' = Head(queue) /\ left' = clips[Head(queue)].frames
    BY <1>2, <2>2 DEF Take, WriteInv
  <2> QED
    BY <1>2, <2>1, <2>2 DEF Take
<1>3. CASE Mkdir
  <2>1. CASE /\ dirs' = dirs \cup {RootPath(current)}
             /\ writer' = "open" /\ UNCHANGED <<current, left>>
    <3>1. writer = "mkdir" /\ clips' = clips /\ left = clips[current].frames
      BY <1>3 DEF Mkdir, WriteInv
    <3>2. RootPath(current)' \in dirs'
      BY <2>1, <3>1 DEF RootPath
    <3> QED
      BY <2>1, <3>1, <3>2 DEF WriteInv, DirKept
  <2> QED
    BY <1>3, <1>b, <2>1 DEF Mkdir, Returns
<1>4. CASE Open
  <2>0. writer = "open" /\ UNCHANGED <<clips, now, dirs>> /\ left = clips[current].frames
    BY <1>4 DEF Open, WriteInv
  <2>1. CASE /\ writer' = "frames" /\ UNCHANGED <<current, left>>
             /\ Created \/ ~opened'
             /\ ~opened' /\ RootPath(current) \in dirs => current \in failed'
    <3> DEFINE k == FileName(current)
    <3>1. FileName(current)' = k /\ (Young(FileName(current))' => Young(k))
      BY <2>0, <2>1 DEF FileName, Young, SafeTime
    <3>2. clips[current].frames \in Nat
      BY <2>0, CurrentIs, Constants DEF ClipType
    <3>3. Created => k \in DOMAIN files' /\ files'[k] = [clip |-> current, frames |-> 0]
      BY DEF Created
    <3>4. opened' => FileGrows'
      <4> SUFFICES ASSUME opened', FileName(current)' = k, k \in DOMAIN files'
                   PROVE  files'[k].clip = current /\ files'[k].frames + left = left
        BY <2>0, <2>1, <3>1, <3>2 DEF FileGrows
      <4>1. files'[k] = [clip |-> current, frames |-> 0]
        BY <2>1, <3>3
      <4> QED
        BY <2>0, <3>2, <4>1
    <3>5. FileKept'
      <4> SUFFICES ASSUME current \notin failed', Young(FileName(current))'
                   PROVE  opened' /\ k \in DOMAIN files'
        BY <2>1, <3>1 DEF FileKept
      <4>1. RootPath(current) \in dirs
        BY <2>0, <3>1 DEF WriteInv, DirKept
      <4>2. opened'
        BY <2>1, <4>1
      <4> QED
        BY <2>1, <3>3, <4>2
    <3> QED
      BY <2>1, <3>4, <3>5 DEF WriteInv
  <2> QED
    BY <1>4, <1>b, <2>1 DEF Open, Returns
<1>5. CASE WriteFrames
  <2>0. writer = "frames" /\ UNCHANGED <<clips, now>>
    BY <1>5 DEF WriteFrames
  <2> DEFINE k == FileName(current)
  <2>1. CASE /\ left > 0 /\ left' = left - 1 /\ UNCHANGED <<writer, current, opened>>
             /\ \/ /\ opened /\ UNCHANGED failed
                   /\ files' = [t \in DOMAIN files |-> IF t = k
                                  THEN [files[t] EXCEPT !.frames = @ + 1] ELSE files[t]]
                \/ /\ failed' = IF opened THEN failed \cup {current} ELSE failed
                   /\ UNCHANGED files
    <3>1. FileName(current)' = k /\ (Young(FileName(current))' => Young(k))
      BY <2>0, <2>1 DEF FileName, Young, SafeTime
    <3>2. DOMAIN files' = DOMAIN files /\ failed \subseteq failed' /\ left \in Nat
      BY <2>1, TypeParts, Constants DEF WorkOK
    <3>3. clips[current].frames \in Nat
      BY <2>0, CurrentIs, Constants DEF ClipType
    <3>4. ASSUME opened, k \in DOMAIN files
          PROVE  /\ files'[k].clip = current
                 /\ files'[k].frames + left' <= clips[current].frames
                 /\ current \notin failed' =>
                       files'[k].frames + left' = clips[current].frames
      <4>1. /\ files[k].clip = current /\ files[k].frames + left <= clips[current].frames
            /\ current \notin failed => files[k].frames + left = clips[current].frames
        BY <2>0, <3>4 DEF WriteInv, FileGrows
      <4>2. files[k] \in FileType(Len(clips)) /\ files[k].frames \in Nat
        BY <3>4, TypeParts, Constants DEF FilesOK, FileType
      <4>3. \/ files'[k] = files[k] /\ current \in failed'
            \/ files'[k] = [files[k] EXCEPT !.frames = files[k].frames + 1] /\ failed' = failed
        BY <2>1, <3>4
      <4>4. CASE files'[k] = files[k] /\ current \in failed'
        <5> HIDE DEF k
        <5> QED
          BY <2>1, <3>2, <3>3, <4>1, <4>2, <4>4
      <4>5. CASE files'[k] = [files[k] EXCEPT !.frames = files[k].frames + 1] /\ failed' = failed
        <5> HIDE DEF k
        <5>1. files'[k].clip = files[k].clip /\ files'[k].frames = files[k].frames + 1
          BY <4>2, <4>5 DEF FileType
        <5> QED
          BY <2>1, <3>2, <3>3, <4>1, <4>2, <4>5, <5>1
      <4> QED
        BY <4>3, <4>4, <4>5
    <3>5. opened' => FileGrows'
      BY <2>0, <2>1, <3>1, <3>2, <3>4 DEF FileGrows
    <3>6. FileKept'
      BY <2>0, <2>1, <3>1, <3>2 DEF WriteInv, FileKept
    <3> QED
      BY <2>0, <2>1, <3>5, <3>6 DEF WriteInv
  <2>2. CASE Returns
    BY <1>b, <2>2 DEF Returns
  <2> QED
    BY <1>5, <2>1, <2>2 DEF WriteFrames
<1>6. ASSUME NEW d \in Days, LookAt(d) PROVE WriteInv'
  <2>1. UNCHANGED <<writer, current, left, opened, failed, clips>>
    BY <1>6 DEF LookAt
  <2>2. CASE UNCHANGED <<files, dirs>>
    BY <1>a, <2>1, <2>2
  <2>3. CASE Old(d) /\ Remove(d)
    <3>1. PICK gone \in SUBSET FilesOf(d) :
             /\ files' = [t \in DOMAIN files \ gone |-> files[t]]
             /\ dirs' = dirs \/ dirs' = dirs \ {d}
      BY <2>3 DEF Remove
    <3>2. writer # "idle" /\ RootPath(current) = d => ~Young(FileName(current))
      <4> SUFFICES ASSUME writer # "idle", RootPath(current) = d
                   PROVE  ~Young(FileName(current))
        OBVIOUS
      <4>1. FileName(current) \in Nat /\ now \in Nat /\ Day(FileName(current)) = d
        BY WriterStep DEF RootPath, FileName
      <4> QED
        BY <2>3, <4>1, OldMeansOld
    <3>3. FileName(current) \in gone => RootPath(current) = d
      BY <3>1 DEF FilesOf, FileName, RootPath
    <3> QED
      BY <2>1, <3>1, <3>2, <3>3, WriteHolds
  <2> QED
    BY <1>6, <2>2, <2>3 DEF LookAt
<1>7. CASE ReadNames \/ RunDone \/ UNCHANGED vars
  BY <1>7, <1>a DEF ReadNames, RunDone, vars
<1> QED
  BY <1>1, <1>2, <1>3, <1>4, <1>5, <1>6, <1>7 DEF Next, Persist, Delete

(* Finished after the step. *)
FinishedNext(x) == x \in 1..Len(clips') /\ (maker' # "new" => x < Len(clips'))

(* Clips leave the queue in the order in which they are finished. *)
LEMMA OrderStep ==
  ASSUME TypeOK, AliveInv, OrderInv, [Next]_vars
  PROVE  OrderInv'
<1>f. \A i \in 1..Len(clips) : Finished(i) => FinishedNext(i)
  BY ClipsStep DEF ClipsGrow, Finished, FinishedNext
<1>q. /\ queue \in Seq(1..Len(clips)) /\ Len(queue) \in Nat /\ Len(clips) \in Nat
      /\ \A i \in 1..Len(queue) : queue[i] \in 1..Len(clips)
      /\ current \in 0..Len(clips) /\ saved \subseteq 1..Len(clips)
  <2>1. /\ queue \in Seq(1..Len(clips)) /\ current \in 0..Len(clips)
        /\ saved \subseteq 1..Len(clips)
    BY TypeParts DEF WorkOK
  <2> QED
    BY <2>1, ElementOfSeq, ClipsAre
<1>a. ASSUME UNCHANGED queue, UNCHANGED <<current, saved>> \/ (current' = 0 /\ saved' = saved)
      PROVE  OrderInv'
  <2>1. \A c \in saved : FinishedNext(c)
    BY <1>f, <1>q DEF OrderInv
  <2>2. \A i \in 1..Len(queue) : FinishedNext(queue[i])
    BY <1>f, <1>q DEF OrderInv
  <2>3. current # 0 => FinishedNext(current)
    BY <1>f, <1>q DEF OrderInv
  <2>4. current' \in {0, current} /\ saved' = saved /\ queue' = queue
    BY <1>a
  <2>5. \A i \in 1..Len(queue) : current' < queue[i]
    BY <1>q, <2>4 DEF OrderInv
  <2> QED
    BY <2>1, <2>2, <2>3, <2>4, <2>5 DEF OrderInv, Finished, FinishedNext
<1> USE DEF makerVars, writerVars, diskVars, deleterVars
<1>1. CASE Tick \/ SwitchOn \/ SwitchOff \/ Frame \/ MakeClip \/ Delete
  <2>1. CASE Tick \/ SwitchOn \/ SwitchOff \/ Frame \/ MakeClip
    BY <1>a, <2>1 DEF Tick, SwitchOn, SwitchOff, Frame, MakeClip
  <2>2. CASE Delete
    BY <1>a, <2>2 DEF Delete, ReadNames, RunDone, LookAt
  <2> QED
    BY <1>1, <2>1, <2>2
<1>2. CASE Mkdir \/ Open
  <2>1. CASE Mkdir
    BY <1>a, <2>1 DEF Mkdir, Returns
  <2>2. CASE Open
    BY <1>a, <2>2 DEF Open, Returns
  <2> QED
    BY <1>2, <2>1, <2>2
<1>3. CASE Send
  <2> DEFINE n == Len(queue)
             N == Len(clips)
  <2>1. /\ queue' = Append(queue, N) /\ maker = "send" /\ maker' = "new"
        /\ UNCHANGED <<clips, current, saved>>
    BY <1>3 DEF Send
  <2>2. N \in 1..N /\ N \in Nat /\ n \in Nat
    BY <1>q DEF AliveInv
  <2>3. Len(queue') = n + 1 /\ queue'[n + 1] = N /\ \A i \in 1..n : queue'[i] = queue[i]
    BY <1>q, <2>1, <2>2, AppendProperties
  <2>4. /\ \A i \in 1..n : queue[i] < N
        /\ \A c \in saved : c < N
        /\ current < N
    BY <1>q, <2>1, <2>2 DEF OrderInv, Finished, FinishedNext
  <2>5. \A i \in 1..(n + 1) : i \in 1..n \/ i = n + 1
    BY <2>2
  <2>6. /\ FinishedNext(N) /\ \A c \in saved : FinishedNext(c)
        /\ current # 0 => FinishedNext(current)
        /\ \A i \in 1..n : FinishedNext(queue[i])
    BY <1>f, <1>q, <2>1, <2>2 DEF OrderInv, Finished, FinishedNext
  <2> HIDE DEF n, N
  <2>7. ASSUME NEW i \in 1..(n + 1), NEW j \in 1..(n + 1), i < j PROVE queue'[i] < queue'[j]
    <3>1. i \in 1..n /\ queue'[i] = queue[i]
      BY <2>2, <2>3, <2>7
    <3>2. CASE j = n + 1
      BY <2>3, <2>4, <3>1, <3>2
    <3>3. CASE j \in 1..n
      <4>1. queue[i] < queue[j] /\ queue'[j] = queue[j]
        BY <2>3, <2>7, <3>1, <3>3 DEF OrderInv, n
      <4> QED
        BY <3>1, <4>1
    <3> QED
      BY <2>5, <3>2, <3>3
  <2>8. ASSUME NEW i \in 1..(n + 1)
        PROVE  FinishedNext(queue'[i]) /\ current < queue'[i] /\ \A c \in saved : c < queue'[i]
    BY <2>3, <2>4, <2>5, <2>6 DEF OrderInv, n
  <2> QED
    BY <2>1, <2>3, <2>6, <2>7, <2>8 DEF OrderInv, Finished, FinishedNext
<1>4. CASE Take
  <2> DEFINE n == Len(queue)
             h == Head(queue)
  <2>1. /\ queue # <<>> /\ queue' = Tail(queue) /\ UNCHANGED <<clips, saved, maker>>
        /\ current' \in {0, h}
    BY <1>4 DEF Take, Returns
  <2>2. /\ n \in Nat /\ n >= 1 /\ Len(queue') = n - 1 /\ h = queue[1]
        /\ \A i \in 1..(n - 1) : queue'[i] = queue[i + 1]
    BY <1>q, <2>1, HeadTailProperties, EmptySeq
  <2>3. 1 \in 1..n /\ \A i \in 1..(n - 1) : i + 1 \in 1..n /\ 1 < i + 1
    BY <2>2
  <2>4. Finished(h) /\ (\A c \in saved : c < h) /\ h > 0 /\ h \in Nat
    BY <1>q, <2>2, <2>3 DEF OrderInv, Finished, FinishedNext
  <2>5. \A i \in 1..(n - 1) : h < queue'[i] /\ queue'[i] = queue[i + 1] /\ queue'[i] \in Nat
    BY <1>q, <2>2, <2>3 DEF OrderInv
  <2> HIDE DEF n, h
  <2>6. ASSUME NEW i \in 1..(n - 1), NEW j \in 1..(n - 1), i < j PROVE queue'[i] < queue'[j]
    <3>1. i + 1 \in 1..n /\ j + 1 \in 1..n /\ i + 1 < j + 1
      BY <2>2, <2>6
    <3>2. queue[i + 1] < queue[j + 1]
      BY <3>1 DEF OrderInv, n
    <3> QED
      BY <2>5, <3>2
  <2>7. ASSUME NEW i \in 1..(n - 1)
        PROVE  FinishedNext(queue'[i]) /\ current' < queue'[i] /\ \A c \in saved : c < queue'[i]
    <3>1. i + 1 \in 1..n
      BY <2>3
    <3>2. Finished(queue[i + 1]) /\ \A c \in saved : c < queue[i + 1]
      BY <3>1 DEF OrderInv, n
    <3>3. current' < queue'[i]
      <4>1. h < queue'[i] /\ queue'[i] \in Nat /\ h > 0 /\ h \in Nat
        BY <2>4, <2>5
      <4>2. current' = 0 \/ current' = h
        BY <2>1
      <4> QED
        BY <4>1, <4>2
    <3> QED
      BY <2>1, <2>5, <3>2, <3>3 DEF Finished, FinishedNext
  <2>8. FinishedNext(h) /\ \A c \in saved : FinishedNext(c)
    BY <2>1, <2>4 DEF OrderInv, Finished, FinishedNext
  <2> QED
    BY <2>1, <2>2, <2>4, <2>6, <2>7, <2>8 DEF OrderInv, Finished, FinishedNext
<1>5. CASE WriteFrames
  <2>1. CASE UNCHANGED <<current, saved>>
    BY <1>5, <1>a, <2>1 DEF WriteFrames
  <2>2. CASE Returns /\ saved' = SavedWhenAll
    <3>1. UNCHANGED <<queue, clips, maker>> /\ current' = 0 /\ writer = "frames"
      BY <1>5, <2>2 DEF WriteFrames, Returns
    <3>2. current \in 1..Len(clips) /\ current # 0
      BY <3>1, CurrentIs DEF AliveInv
    <3>3. saved' \subseteq saved \cup {current}
      BY <2>2 DEF SavedWhenAll
    <3>4. \A c \in saved' : Finished(c) /\ \A i \in 1..Len(queue) : c < queue[i]
      BY <3>2, <3>3 DEF OrderInv
    <3>5. \A i \in 1..Len(queue) : 0 < queue[i]
      BY <1>q
    <3> QED
      BY <3>1, <3>4, <3>5 DEF OrderInv, Finished, FinishedNext
  <2> QED
    BY <1>5, <2>1, <2>2 DEF WriteFrames
<1>6. CASE UNCHANGED vars
  BY <1>6, <1>a DEF vars
<1> QED
  BY <1>1, <1>2, <1>3, <1>4, <1>5, <1>6 DEF Next, Persist

(* What a saved clip has on disk as long as it is young. *)
Kept(c) == Young(clips[c].stamp) => OnDisk(c)

(* A clip on disk stays there, or its file goes to a later clip, or is old. *)
LEMMA KeptStep ==
  ASSUME TypeOK, AliveInv, WriteInv, OrderInv, [Next]_vars, NEW c \in saved, Kept(c)
  PROVE  Kept(c)'
<1>c. /\ c \in 1..Len(clips) /\ clips'[c] = clips[c] /\ clips[c].stamp \in Nat
      /\ now \in Nat /\ now' \in Nat /\ now <= now'
  <2>1. c \in 1..Len(clips) /\ Finished(c)
    BY DEF OrderInv, Finished
  <2>2. clips'[c] = clips[c] /\ clips[c] \in ClipType
    BY <2>1, ClipsStep, ClipsAre DEF ClipsGrow
  <2>3. clips[c].stamp \in Nat
    BY <2>2, Constants DEF ClipType, Times
  <2> QED
    BY <2>1, <2>2, <2>3, NowStep
<1> DEFINE k == clips[c].stamp
<1>0. FileName(c) = k /\ FileName(c)' = k
  BY <1>c DEF FileName
<1> SUFFICES ASSUME Young(k)' PROVE OnDisk(c)'
  BY <1>c DEF Kept, Young, SafeTime
<1>y. Young(k)
  <2>1. SafeTime \in Int /\ SafeTime' = SafeTime
    BY Constants DEF SafeTime
  <2>2. now' - k <= SafeTime
    BY <1>c, <2>1 DEF Young
  <2> HIDE DEF k
  <2>3. k \in Nat
    BY <1>c DEF k
  <2> QED
    BY <1>c, <2>1, <2>2, <2>3 DEF Young
<1>1. k \in DOMAIN files /\ (files[k] = [clip |-> c, frames |-> clips[c].frames]
                             \/ files[k].clip > c)
  BY <1>0, <1>y DEF Kept, OnDisk
<1>a. ASSUME k \in DOMAIN files', files'[k] = files[k] PROVE OnDisk(c)'
  BY <1>0, <1>1, <1>a, <1>c DEF OnDisk
<1>b. ASSUME k \in DOMAIN files', files'[k].clip > c PROVE OnDisk(c)'
  BY <1>0, <1>b DEF OnDisk
<1>d. ASSUME UNCHANGED files PROVE OnDisk(c)'
  BY <1>1, <1>a, <1>d
<1>e. writer # "idle" => current > c
  <2> SUFFICES ASSUME writer # "idle" PROVE current > c
    OBVIOUS
  <2>1. current \in 1..Len(clips) /\ c < current
    BY CurrentIs DEF AliveInv, OrderInv
  <2> QED
    BY <1>c, <2>1
<1> HIDE DEF k
<1> USE DEF makerVars, writerVars, diskVars, deleterVars
<1>2. CASE Open
  <2>1. CASE Created
    <3>1. files' = [t \in DOMAIN files \cup {FileName(current)} |->
                       IF t = FileName(current) THEN [clip |-> current, frames |-> 0]
                                                ELSE files[t]]
      BY <2>1 DEF Created
    <3>2. CASE k = FileName(current)
      <4>1. k \in DOMAIN files' /\ files'[k].clip = current /\ writer # "idle"
        BY <1>2, <3>1, <3>2 DEF Open
      <4> QED
        BY <1>b, <1>e, <4>1
    <3>3. CASE k # FileName(current)
      BY <1>1, <1>a, <3>1, <3>3
    <3> QED
      BY <3>2, <3>3
  <2> QED
    BY <1>2, <1>d, <2>1 DEF Open
<1>3. CASE WriteFrames
  <2>1. CASE /\ opened
             /\ files' = [t \in DOMAIN files |-> IF t = FileName(current)
                            THEN [files[t] EXCEPT !.frames = @ + 1] ELSE files[t]]
    <3>1. CASE k = FileName(current)
      <4>1. writer = "frames" /\ writer # "idle"
        BY <1>3 DEF WriteFrames
      <4>2. files[k].clip = current
        BY <1>1, <2>1, <3>1, <4>1 DEF WriteInv, FileGrows
      <4>3. k \in DOMAIN files' /\ files'[k] = [files[k] EXCEPT !.frames = files[k].frames + 1]
        BY <1>1, <2>1, <3>1
      <4>4. files[k] \in FileType(Len(clips))
        BY <1>1, TypeParts DEF FilesOK
      <4>5. files'[k].clip = current
        BY <4>2, <4>3, <4>4 DEF FileType
      <4> QED
        BY <1>b, <1>e, <4>1, <4>3, <4>5
    <3>2. CASE k # FileName(current)
      BY <1>1, <1>a, <2>1, <3>2
    <3> QED
      BY <3>1, <3>2
  <2> QED
    BY <1>3, <1>d, <2>1 DEF WriteFrames
<1>4. ASSUME NEW d \in Days, LookAt(d) PROVE OnDisk(c)'
  <2>1. CASE Old(d) /\ Remove(d)
    <3>1. PICK gone \in SUBSET FilesOf(d) : files' = [t \in DOMAIN files \ gone |-> files[t]]
      BY <2>1 DEF Remove
    <3>2. k \notin gone
      <4> SUFFICES ASSUME k \in gone PROVE FALSE
        OBVIOUS
      <4>1. Day(k) = d /\ k \in Nat
        BY <1>c, <3>1 DEF FilesOf, k
      <4> QED
        BY <1>c, <1>y, <2>1, <4>1, OldMeansOld
    <3> QED
      BY <1>1, <1>a, <3>1, <3>2
  <2> QED
    BY <1>4, <1>d, <2>1 DEF LookAt
<1>5. CASE Tick \/ SwitchOn \/ SwitchOff \/ Frame \/ Send \/ MakeClip \/ Take \/ Mkdir
  BY <1>5, <1>d DEF Tick, SwitchOn, SwitchOff, Frame, Send, MakeClip, Take, Mkdir
<1>6. CASE ReadNames \/ RunDone \/ UNCHANGED vars
  BY <1>6, <1>d DEF ReadNames, RunDone, vars
<1> QED
  BY <1>2, <1>3, <1>4, <1>5, <1>6 DEF Next, Persist, Delete

(* What Write saves is on disk when it returns, and what has failed stays so. *)
LEMMA SaveStep ==
  ASSUME TypeOK, AliveInv, WriteInv, [Next]_vars
  PROVE  /\ failed \subseteq failed'
         /\ \A c \in saved' : c \in saved \/ c \in failed' \/ Kept(c)'
<1> USE DEF makerVars, writerVars, diskVars, deleterVars
<1>1. CASE Tick \/ SwitchOn \/ SwitchOff \/ Frame \/ Send \/ MakeClip
  BY <1>1 DEF Tick, SwitchOn, SwitchOff, Frame, Send, MakeClip
<1>2. CASE Take \/ Mkdir \/ Open
  BY <1>2 DEF Take, Mkdir, Open
<1>3. CASE WriteFrames
  <2>1. writer = "frames" /\ clips' = clips /\ now' = now /\ failed \subseteq failed'
    BY <1>3 DEF WriteFrames
  <2>2. CASE UNCHANGED saved
    BY <2>1, <2>2
  <2>3. CASE saved' = SavedWhenAll /\ UNCHANGED <<files, failed>>
    <3>1. CASE left # 0
      BY <2>1, <2>3, <3>1 DEF SavedWhenAll
    <3>2. CASE left = 0
      <4> DEFINE k == FileName(current)
      <4>1. saved' = saved \cup {current}
        BY <2>3, <3>2 DEF SavedWhenAll
      <4>2. ASSUME current \notin failed, Young(k)
            PROVE  k \in DOMAIN files
                   /\ files[k] = [clip |-> current, frames |-> clips[current].frames]
        <5>1. /\ k \in DOMAIN files
              /\ files[k].clip = current /\ files[k].frames + 0 = clips[current].frames
          BY <2>1, <3>2, <4>2 DEF WriteInv, FileKept, FileGrows
        <5>2. files[k] \in FileType(Len(clips))
          BY <5>1, TypeParts DEF FilesOK
        <5>3. files[k].frames \in Nat /\ files[k] = [clip   |-> files[k].clip,
                                                     frames |-> files[k].frames]
          BY <5>2, Constants DEF FileType
        <5> QED
          BY <5>1, <5>3
      <4>3. ASSUME NEW c, c = current PROVE c \in failed' \/ Kept(c)'
        BY <2>1, <2>3, <4>2, <4>3 DEF Kept, OnDisk, FileName, Young, SafeTime
      <4> QED
        BY <2>1, <4>1, <4>3
    <3> QED
      BY <3>1, <3>2
  <2> QED
    BY <1>3, <2>2, <2>3 DEF WriteFrames
<1>4. CASE Delete
  BY <1>4 DEF Delete, LookAt, ReadNames, RunDone
<1>5. CASE UNCHANGED vars
  BY <1>5 DEF vars
<1> QED
  BY <1>1, <1>2, <1>3, <1>4, <1>5 DEF Next, Persist

-----------------------------------------------------------------------------
(* Clips of one second. *)
SharedShort == \A c, d \in 1..Len(clips) :
                  c < d /\ clips[c].stamp = clips[d].stamp => clips[c].frames <= MaxRate

LEMMA SharedIs ==
  ASSUME clips \in Seq(ClipType)
  PROVE  SharedFilesAreShort <=> SharedShort
<1>1. DOMAIN clips = 1..Len(clips)
  OBVIOUS
<1> QED
  BY <1>1 DEF SharedFilesAreShort, SharedShort, FileName

LEMMA StampStep ==
  ASSUME TypeOK, AliveInv, StampInv, SharedShort, [Next]_vars
  PROVE  StampInv' /\ SharedShort'
<1> DEFINE N == Len(clips)
<1>1. /\ clips \in Seq(ClipType) /\ N \in Nat /\ N >= 1 /\ N \in 1..N
      /\ \A i \in 1..N : clips[i] \in ClipType
      /\ \A i \in 1..N : clips[i].stamp \in Nat /\ clips[i].frames \in Nat
      /\ now \in Nat /\ second \in Nat /\ second <= MaxRate /\ MaxRate \in Nat
  <2>1. clips \in Seq(ClipType) /\ N \in Nat /\ N >= 1 /\ \A i \in 1..N : clips[i] \in ClipType
    BY ClipsAre DEF AliveInv
  <2>2. now \in Nat /\ second \in Nat /\ second <= MaxRate /\ MaxRate \in Nat
    BY TypeParts, Constants DEF ClockOK, Times
  <2> QED
    BY <2>1, <2>2, Constants DEF ClipType, Times
<1> USE DEF makerVars, writerVars, diskVars, deleterVars
<1>a. ASSUME UNCHANGED <<clips, now, second>> PROVE StampInv' /\ SharedShort'
  BY <1>a DEF StampInv, SharedShort
<1>2. CASE Tick
  <2>1. clips' = clips /\ now' = now + 1
    BY <1>2 DEF Tick
  <2>2. clips[N].stamp # now + 1 /\ \A i \in 1..N : clips[i].stamp <= now + 1
    BY <1>1 DEF StampInv
  <2> QED
    BY <1>1, <2>1, <2>2 DEF StampInv, SharedShort
<1>3. CASE Frame
  <2>1. now' = now /\ second' = second + 1
    BY <1>3 DEF Frame
  <2>2. CASE UNCHANGED clips
    BY <1>1, <2>1, <2>2 DEF StampInv, SharedShort
  <2>3. CASE clips' = [clips EXCEPT ![N].frames = clips[N].frames + 1]
    <3> DEFINE c == [stamp |-> clips[N].stamp, frames |-> clips[N].frames + 1]
    <3>1. clips' = [clips EXCEPT ![N] = c]
      <4>1. [clips[N] EXCEPT !.frames = clips[N].frames + 1] = c
        BY <1>1 DEF ClipType
      <4> QED
        BY <2>3, <4>1
    <3>2. Len(clips') = N /\ \A i \in 1..N : clips'[i] = IF i = N THEN c ELSE clips[i]
      BY <1>1, <3>1
    <3>3. c.stamp = clips[N].stamp /\ c.frames = clips[N].frames + 1
      OBVIOUS
    <3> HIDE DEF c
    <3>4. \A i \in 1..N : clips'[i].stamp = clips[i].stamp
      BY <3>2, <3>3
    <3>5. \A i \in 1..N : i < N => clips'[i] = clips[i]
      BY <3>2
    <3>6. clips'[N].frames = clips[N].frames + 1
      BY <1>1, <3>2, <3>3
    <3> HIDE DEF N
    <3>7. StampInv'
      BY <1>1, <2>1, <3>2, <3>4, <3>6 DEF StampInv, N
    <3>8. SharedShort'
      BY <1>1, <3>2, <3>4, <3>5 DEF SharedShort, N
    <3> QED
      BY <3>7, <3>8
  <2> QED
    BY <1>3, <2>2, <2>3 DEF Frame
<1>4. CASE MakeClip
  <2>1. clips' = Append(clips, NewClip) /\ UNCHANGED <<now, second>>
    BY <1>4 DEF MakeClip
  <2>2. NewClip \in ClipType
    BY TypeParts, Constants DEF NewClip, ClipType, ClockOK
  <2>3. /\ Len(clips') = N + 1 /\ clips'[N + 1] = NewClip
        /\ \A i \in 1..N : clips'[i] = clips[i]
    BY <1>1, <2>1, <2>2, AppendProperties
  <2>4. clips'[N + 1].stamp = now /\ clips'[N + 1].frames = 0
    BY <2>3 DEF NewClip
  <2>5. \A i \in 1..(N + 1) : i \in 1..N \/ i = N + 1
    BY <1>1
  <2> HIDE DEF N
  <2>6. StampInv'
    <3>1. ASSUME NEW i \in 1..(N + 1), NEW j \in 1..(N + 1), i < j
          PROVE  clips'[i].stamp <= clips'[j].stamp
      <4>1. i \in 1..N
        BY <1>1, <3>1
      <4>2. CASE j = N + 1
        BY <2>3, <2>4, <4>1, <4>2 DEF StampInv, N
      <4>3. CASE j \in 1..N
        BY <2>3, <3>1, <4>1, <4>3 DEF StampInv, N
      <4> QED
        BY <2>5, <4>2, <4>3
    <3>2. \A i \in 1..(N + 1) : clips'[i].stamp <= now
      BY <1>1, <2>3, <2>4, <2>5 DEF StampInv, N
    <3>3. clips'[N + 1].frames <= second
      BY <1>1, <2>4
    <3> QED
      BY <2>1, <2>3, <3>1, <3>2, <3>3 DEF StampInv
  <2>7. SharedShort'
    <3> SUFFICES ASSUME NEW i \in 1..(N + 1), NEW j \in 1..(N + 1), i < j,
                        clips'[i].stamp = clips'[j].stamp
                 PROVE  clips'[i].frames <= MaxRate
      BY <2>3 DEF SharedShort
    <3>1. i \in 1..N /\ clips'[i] = clips[i]
      BY <1>1, <2>3
    <3>2. CASE j \in 1..N
      BY <2>3, <3>1, <3>2 DEF SharedShort, N
    <3>3. CASE j = N + 1
      <4>1. clips[i].stamp = now
        BY <2>4, <3>1, <3>3
      <4>2. CASE i = N
        <5>1. clips[N].frames <= second
          BY <4>1, <4>2 DEF StampInv, N
        <5>2. clips[N].frames \in Nat
          BY <1>1
        <5> QED
          BY <1>1, <3>1, <4>2, <5>1, <5>2
      <4>3. CASE i < N
        <5>1. clips[i].stamp <= clips[N].stamp /\ clips[N].stamp <= now
          BY <1>1, <3>1, <4>3 DEF StampInv, N
        <5>2. clips[N].stamp = clips[i].stamp
          <6>1. clips[N].stamp \in Nat
            BY <1>1
          <6> QED
            BY <1>1, <4>1, <5>1, <6>1
        <5> QED
          BY <1>1, <3>1, <4>3, <5>2 DEF SharedShort, N
      <4> QED
        BY <1>1, <3>1, <4>2, <4>3
    <3> QED
      BY <2>5, <3>2, <3>3
  <2> QED
    BY <2>6, <2>7
<1>5. CASE SwitchOn \/ SwitchOff \/ Send
  BY <1>5, <1>a DEF SwitchOn, SwitchOff, Send
<1>6. CASE Persist
  BY <1>6, <1>a DEF Persist, Take, Mkdir, Open, WriteFrames
<1>7. CASE Delete
  BY <1>7, <1>a DEF Delete, ReadNames, RunDone, LookAt
<1>8. CASE UNCHANGED vars
  BY <1>8, <1>a DEF vars
<1> QED
  BY <1>2, <1>3, <1>4, <1>5, <1>6, <1>7, <1>8 DEF Next

-----------------------------------------------------------------------------
LEMMA StoreInit == Init => StoreInv
<1> SUFFICES ASSUME Init PROVE StoreInv
  OBVIOUS
<1>1. clips \in Seq(ClipType) /\ Len(clips) = 1
  <2>1. NewClip \in ClipType
    BY Constants DEF Init, NewClip, ClipType, Times
  <2> QED
    BY <2>1 DEF Init
<1>2. ClockOK
  <2>1. opened \in BOOLEAN
    BY DEF Init
  <2> QED
    BY <2>1, Constants DEF Init, ClockOK, Times
<1>3. DOMAIN files = {}
  BY DEF Init
<1>4. WorkOK /\ FilesOK
  BY <1>1, <1>3, Constants DEF Init, WorkOK, FilesOK
<1>5. TypeOK
  <2>1. Len(clips) <= MaxClips
    BY <1>1, Constants
  <2> QED
    BY <1>1, <1>2, <1>4, <2>1, TypeParts
<1>6. AliveInv /\ WriteInv /\ OrderInv /\ SavedClipsKept
  BY <1>1, <1>3 DEF Init, AliveInv, WriteInv, OrderInv, SavedClipsKept
<1>7. StampInv /\ SharedFilesAreShort
  <2>1. clips[1].stamp = 0 /\ clips[1].frames = 0
    BY DEF Init, NewClip
  <2>2. StampInv
    BY <1>1, <2>1 DEF Init, StampInv
  <2>3. SharedShort
    BY <1>1 DEF SharedShort
  <2> QED
    BY <1>1, <2>2, <2>3, SharedIs
<1> QED
  BY <1>5, <1>6, <1>7 DEF StoreInv

LEMMA StoreStep == StoreInv /\ [Next]_vars => StoreInv'
<1> SUFFICES ASSUME StoreInv, [Next]_vars PROVE StoreInv'
  OBVIOUS
<1> USE DEF StoreInv
<1>0. clips \in Seq(ClipType) /\ clips' \in Seq(ClipType)
  BY ClipsStep, ClipsAre DEF ClipsGrow
<1>1. TypeOK' /\ AliveInv' /\ WriteInv' /\ OrderInv'
  BY TypeStep, AliveStep, WriteStep, OrderStep
<1>2. SavedClipsKept'
  <2>1. ASSUME NEW c \in saved', c \notin failed' PROVE Kept(c)'
    <3>1. failed \subseteq failed' /\ (c \in saved \/ Kept(c)')
      BY <2>1, SaveStep
    <3>2. CASE c \in saved
      <4>1. Kept(c)
        BY <2>1, <3>1, <3>2 DEF SavedClipsKept, Kept
      <4> QED
        BY <3>2, <4>1, KeptStep
    <3> QED
      BY <3>1, <3>2
  <2> QED
    BY <2>1 DEF SavedClipsKept, Kept
<1>3. StampInv' /\ SharedFilesAreShort'
  <2>1. SharedShort
    BY <1>0, SharedIs
  <2>2. StampInv' /\ SharedShort'
    BY <2>1, StampStep
  <2>3. DOMAIN clips' = 1..Len(clips')
    BY <1>0
  <2> QED
    BY <2>2, <2>3 DEF SharedFilesAreShort, SharedShort, FileName
<1> QED
  BY <1>1, <1>2, <1>3

LEMMA StoreAlways == Spec => []StoreInv
BY StoreInit, StoreStep, PTL DEF Spec

(***************************************************************************)
(* Type correctness, with the bound of the clips channel and of a file:    *)
(* never more frames than a clip has.                                      *)
(***************************************************************************)
THEOREM TypeCorrect == Spec => []TypeOK
BY StoreAlways, PTL DEF StoreInv

(***************************************************************************)
(* A clip for which Write has returned nil, and which neither OpenCV nor   *)
(* the disk has failed, is on disk as long as it is young, with all its    *)
(* frames unless a later clip of its second has taken the file.            *)
(***************************************************************************)
THEOREM SavedStay == Spec => []SavedClipsKept
BY StoreAlways, PTL DEF StoreInv

(***************************************************************************)
(* Of two clips that share a file the first has no more frames than a      *)
(* camera delivers in one second.                                          *)
(***************************************************************************)
THEOREM SharedStayShort == Spec => []SharedFilesAreShort
BY StoreAlways, PTL DEF StoreInv

(***************************************************************************)
(* However the directories were listed and however long ago, and whatever  *)
(* the time zone, a file that is removed is not young.                     *)
(***************************************************************************)
THEOREM YoungStay == Spec => YoungFilesKept
<1>1. StoreInv /\ [Next]_vars => [\A t \in DOMAIN files \ DOMAIN files' : ~Young(t)]_vars
  <2> SUFFICES ASSUME StoreInv, [Next]_vars, NEW t \in DOMAIN files \ DOMAIN files'
               PROVE  ~Young(t)
    OBVIOUS
  <2>1. PICK d \in Days : LookAt(d)
    <3> USE DEF makerVars, writerVars, diskVars, deleterVars
    <3>1. ~(Tick \/ SwitchOn \/ SwitchOff \/ Frame \/ Send \/ MakeClip)
      BY DEF Tick, SwitchOn, SwitchOff, Frame, Send, MakeClip
    <3>2. ~(Take \/ Mkdir)
      BY DEF Take, Mkdir
    <3>3. ~(Open \/ WriteFrames)
      BY DEF Open, Created, WriteFrames
    <3>4. ~(ReadNames \/ RunDone \/ UNCHANGED vars)
      BY DEF ReadNames, RunDone, vars
    <3> QED
      BY <3>1, <3>2, <3>3, <3>4 DEF Next, Persist, Delete
  <2>2. Old(d) /\ Remove(d)
    BY <2>1 DEF LookAt, diskVars
  <2>3. PICK gone \in SUBSET FilesOf(d) : files' = [u \in DOMAIN files \ gone |-> files[u]]
    BY <2>2 DEF Remove
  <2>4. Day(t) = d
    BY <2>3 DEF FilesOf
  <2>5. t \in Nat /\ now \in Nat
    BY TypeParts, Constants DEF StoreInv, FilesOK, ClockOK, Times
  <2> QED
    BY <2>2, <2>4, <2>5, OldMeansOld
<1> QED
  BY <1>1, StoreAlways, PTL DEF Spec, YoungFilesKept
=============================================================================
