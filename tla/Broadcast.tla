------------------------------ MODULE Broadcast -----------------------------
(***************************************************************************)
(* The multi-listener broadcast channel of pkg/broadcast, used by several  *)
(* senders and listeners.  Send holds the mutex while it waits for every   *)
(* listener's channel in turn; Listen and both Closes take the mutex too.  *)
(* Each listener has one goroutine that reads its channel and may quit.    *)
(***************************************************************************)
EXTENDS Integers, Sequences, FiniteSets

CONSTANTS
    Senders,    \* the goroutines that call Send
    Listeners,  \* the Listeners that Listen may return
    Capacities, \* the arguments New may be given
    MaxSends,   \* model bound: calls of Send by all senders together
    MaxCloses   \* model bound: calls of Close on each listener

ASSUME SetsAssumption == IsFiniteSet(Listeners) /\ "free" \notin Senders
ASSUME CapacityAssumption == Capacities \subseteq Nat
ASSUME BoundsAssumption == MaxSends \in Nat /\ MaxCloses \in Nat

Messages == Senders \X (1..MaxSends)

VARIABLES
    capacity,   \* Broadcaster.capacity, the argument of New
    mutex,      \* Broadcaster.m: "free", or the sender that holds it
    listeners,  \* Broadcaster.listeners: from ids to listeners
    nextId,     \* Broadcaster.nextId
    closed,     \* Broadcaster.closed
    id,         \* Listener.id, once Listen has returned it
    chan,       \* the contents of each listener's channel
    chanClosed, \* the channels that are closed
    todo,       \* the ids the Send in progress has yet to send to
    sends,      \* the calls of Send each sender has begun
    closes,     \* the calls of Close on each listener
    reader,     \* each listener's goroutine: "reading", "quit" or "ended"
    panicked,   \* a goroutine has panicked and the program is down
    log, from, until, got  \* history: see BroadcastLog

sendVars == <<mutex, todo, sends, log>>
listVars == <<listeners, nextId, id, closes, from, until>>
vars == <<capacity, sendVars, listVars, closed, chan, chanClosed, reader, panicked, got>>

Ids == 0..Cardinality(Listeners)
Joined == {l \in Listeners : id[l] >= 0}
Registered(l) == \E i \in DOMAIN listeners : listeners[i] = l

TypeOK ==
    /\ capacity \in Capacities
    /\ mutex \in Senders \cup {"free"}
    /\ DOMAIN listeners \subseteq Ids /\ \A i \in DOMAIN listeners : listeners[i] \in Listeners
    /\ nextId \in Ids
    /\ closed \in BOOLEAN /\ panicked \in BOOLEAN
    /\ id \in [Listeners -> Ids \cup {-1}]
    /\ \A l \in Listeners : chan[l] \in Seq(Messages) /\ Len(chan[l]) <= capacity
    /\ chanClosed \subseteq Listeners
    /\ todo \subseteq DOMAIN listeners
    /\ sends \in [Senders -> 0..MaxSends] /\ closes \in [Listeners -> 0..MaxCloses]
    /\ reader \in [Listeners -> {"reading", "quit", "ended"}]
    /\ log \in Seq(Messages)
    /\ from \in [Listeners -> 0..Len(log)] /\ until \in [Listeners -> 0..Len(log)]
    /\ got \in [Listeners -> Seq(Messages)]

Init ==
    /\ capacity \in Capacities
    /\ mutex = "free" /\ todo = {} /\ sends = [s \in Senders |-> 0]
    /\ listeners = <<>> /\ nextId = 0 /\ id = [l \in Listeners |-> -1]
    /\ closes = [l \in Listeners |-> 0]
    /\ closed = FALSE /\ chanClosed = {} /\ panicked = FALSE
    /\ chan = [l \in Listeners |-> <<>>]
    /\ reader = [l \in Listeners |-> "reading"]
    /\ log = <<>> /\ got = [l \in Listeners |-> <<>>]
    /\ from = [l \in Listeners |-> 0] /\ until = [l \in Listeners |-> 0]

MutexFree == mutex = "free"

-----------------------------------------------------------------------------
SharedBySenders == TRUE                                           \* mutant
ForSender == MutexFree

AllButTheLatest == DOMAIN listeners \ {nextId}                    \* mutant
Recipients == DOMAIN listeners

SendLock(s) ==
    /\ ForSender /\ ~closed /\ Len(log) < MaxSends
    /\ mutex' = s
    /\ todo' = Recipients
    /\ sends' = [sends EXCEPT ![s] = @ + 1]
    /\ log' = Append(log, <<s, sends[s] + 1>>)
    /\ UNCHANGED <<capacity, listVars, closed, chan, chanClosed, reader, panicked, got>>

(* Sending on a closed broadcaster panics. *)
SendPanics(s) ==
    /\ MutexFree /\ closed /\ Len(log) < MaxSends
    /\ panicked' = TRUE
    /\ UNCHANGED <<capacity, sendVars, listVars, closed, chan, chanClosed, reader, got>>

TooMuchRoom(l) == Len(chan[l]) <= capacity                        \* mutant
Room(l) == Len(chan[l]) < capacity

(* l <- v: into the buffer, or to a reader that waits when there is none. *)
SendNext(s) ==
    /\ mutex = s
    /\ \E i \in todo :
        LET l == listeners[i]
            msg == <<s, sends[s]>> IN
        /\ todo' = todo \ {i}
        /\ \/ /\ Room(l)
              /\ chan' = [chan EXCEPT ![l] = Append(@, msg)]
              /\ UNCHANGED got
           \/ /\ capacity = 0 /\ reader[l] = "reading"
              /\ got' = [got EXCEPT ![l] = Append(@, msg)]
              /\ UNCHANGED chan
    /\ UNCHANGED <<capacity, mutex, sends, log, listVars, closed, chanClosed, reader, panicked>>

StillLocked == mutex                                              \* mutant
Unlocked == "free"

SendReturn(s) ==
    /\ mutex = s /\ todo = {}
    /\ mutex' = Unlocked
    /\ UNCHANGED <<capacity, todo, sends, log, listVars, closed, chan, chanClosed, reader,
                   panicked, got>>

Sender(s) == ~panicked /\ (SendLock(s) \/ SendPanics(s))
Sending(s) == ~panicked /\ (SendNext(s) \/ SendReturn(s))

(* The loop of Listen: the first id from nextId on that is not in use. *)
SameId == nextId                                                  \* mutant
FreeId == CHOOSE i \in Ids : /\ i >= nextId /\ i \notin DOMAIN listeners
                             /\ \A j \in nextId..(i - 1) : j \in DOMAIN listeners

Listen(l) ==
    /\ ~panicked /\ MutexFree /\ id[l] = -1
    /\ nextId' = FreeId
    /\ listeners' = [i \in DOMAIN listeners \cup {nextId'} |->
                        IF i = nextId' THEN l ELSE listeners[i]]
    /\ id' = [id EXCEPT ![l] = nextId']
    /\ chanClosed' = IF closed THEN chanClosed \cup {l} ELSE chanClosed
    /\ from' = [from EXCEPT ![l] = Len(log)]
    /\ UNCHANGED <<capacity, sendVars, closes, until, closed, chan, reader, panicked, got>>

(***************************************************************************)
(* Listener.Close: delete by id; the channel itself stays open.  A second  *)
(* Close removes whichever listener has been given the id since.           *)
(***************************************************************************)
ListenerClose(l) ==
    /\ ~panicked /\ MutexFree /\ l \in Joined /\ closes[l] < MaxCloses
    /\ listeners' = [i \in DOMAIN listeners \ {id[l]} |-> listeners[i]]
    /\ closes' = [closes EXCEPT ![l] = @ + 1]
    /\ until' = IF id[l] \in DOMAIN listeners
                THEN [until EXCEPT ![listeners[id[l]]] = Len(log)] ELSE until
    /\ UNCHANGED <<capacity, sendVars, nextId, id, from, closed, chan, chanClosed, reader,
                   panicked, got>>

ToClose == DOMAIN listeners

(* Broadcaster.Close, called once. *)
Close ==
    /\ ~panicked /\ MutexFree /\ ~closed
    /\ closed' = TRUE
    /\ chanClosed' = chanClosed \cup {listeners[i] : i \in ToClose}
    /\ UNCHANGED <<capacity, sendVars, listVars, chan, reader, panicked, got>>

-----------------------------------------------------------------------------
(* The goroutine behind a listener. *)
Read(l) ==
    /\ reader[l] = "reading" /\ chan[l] # <<>>
    /\ got' = [got EXCEPT ![l] = Append(@, Head(chan[l]))]
    /\ chan' = [chan EXCEPT ![l] = Tail(@)]
    /\ UNCHANGED <<capacity, sendVars, listVars, closed, chanClosed, reader, panicked>>

ReadEnd(l) ==
    /\ reader[l] = "reading" /\ chan[l] = <<>> /\ l \in chanClosed
    /\ reader' = [reader EXCEPT ![l] = "ended"]
    /\ UNCHANGED <<capacity, sendVars, listVars, closed, chan, chanClosed, panicked, got>>

Reader(l) == ~panicked /\ (Read(l) \/ ReadEnd(l))

Quit(l) ==
    /\ ~panicked /\ reader[l] = "reading" /\ l \in Joined
    /\ reader' = [reader EXCEPT ![l] = "quit"]
    /\ UNCHANGED <<capacity, sendVars, listVars, closed, chan, chanClosed, panicked, got>>

Next ==
    \/ \E s \in Senders : Sender(s) \/ Sending(s)
    \/ \E l \in Listeners : Listen(l) \/ ListenerClose(l) \/ Reader(l) \/ Quit(l)
    \/ Close

Spec == Init /\ [][Next]_vars

(* A Send that has begun goes on, and a listener that reads reads on. *)
FairSpec ==
    /\ Spec
    /\ \A s \in Senders : WF_vars(Sending(s))
    /\ \A l \in Listeners : WF_vars(Reader(l))

-----------------------------------------------------------------------------
(***************************************************************************)
(* Between Sends, every listener that is registered has received or has in *)
(* its channel exactly the messages sent since it joined, in the order all *)
(* listeners see.                                                          *)
(***************************************************************************)
EveryListenerHearsAll ==
    mutex = "free" =>
        \A l \in Joined : Registered(l) =>
            got[l] \o chan[l] = SubSeq(log, from[l] + 1, Len(log))

(***************************************************************************)
(* Ids are reused as soon as they are free (broadcast.go:90-92, 105): as   *)
(* long as no listener is closed twice, none is removed before it has been *)
(* closed itself.                                                          *)
(***************************************************************************)
KeptUntilClosed ==
    (\A l \in Listeners : closes[l] <= 1) =>
        \A l \in Joined : Registered(l) <=> closes[l] = 0

member == [l \in Listeners |-> IF id[l] = -1 THEN "new"
                               ELSE IF Registered(l) THEN "on" ELSE "off"]

Log == INSTANCE BroadcastLog WITH ended <- closed

(***************************************************************************)
(* The broadcaster is a log: Send, Listen and Close take effect at once    *)
(* for everybody, although a Send hands the message over listener by       *)
(* listener and listeners read when they like.                             *)
(***************************************************************************)
IsALog == Log!LogSpec

(***************************************************************************)
(* Send returns, releasing the mutex, unless a listener it has yet to send *)
(* to has no reader any more.                                              *)
(***************************************************************************)
SendReturnsUnlessDeserted ==
    (mutex # "free") ~>
        (mutex = "free" \/ panicked \/ \E i \in todo : reader[listeners[i]] # "reading")

(***************************************************************************)
(* broadcast.go:28-29: once the broadcaster is closed, existing and future *)
(* listeners read from a closed channel, after what they were sent.        *)
(***************************************************************************)
EndReachesReaders ==
    \A l \in Listeners :
        (closed /\ Registered(l))
            ~> (reader[l] # "reading" \/ ~Registered(l) \/ panicked)
=============================================================================
