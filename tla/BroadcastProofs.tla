--------------------------- MODULE BroadcastProofs --------------------------
(***************************************************************************)
(* The broadcaster with any number of senders, listeners and messages, and *)
(* any capacity: it is the log that BroadcastLog specifies.                *)
(***************************************************************************)
EXTENDS Broadcast, SequenceTheorems, FiniteSetTheorems, TLAPS

(* Every listener has its own channel, and its own sequence of received messages. *)
TypeInv == TypeOK /\ chan \in [Listeners -> Seq(Messages)]

(***************************************************************************)
(* nextId is the highest id given so far, so an id in use is the id of the *)
(* listener that uses it, and there are as many ids as listeners need.     *)
(***************************************************************************)
IdsInv ==
    /\ DOMAIN listeners \subseteq 0..nextId
    /\ nextId <= Cardinality(Joined)
    /\ \A i \in DOMAIN listeners : id[listeners[i]] = i
    /\ \A l \in Listeners : closes[l] > 0 => l \in Joined

(* The message of the Send in progress is the last one of the log. *)
SendInv ==
    /\ mutex = "free" => todo = {}
    /\ \A s \in Senders : sends[s] <= Len(log)
    /\ Len(log) <= MaxSends
    /\ mutex # "free" => /\ Len(log) > 0 /\ sends[mutex] > 0
                         /\ log[Len(log)] = <<mutex, sends[mutex]>>

Inv == TypeInv /\ IdsInv /\ SendInv

(* Ids given out in turn fit into Ids: there is one to spare for each listener. *)
LEMMA JoinedIs ==
  /\ IsFiniteSet(Joined) /\ Cardinality(Joined) \in Nat /\ Cardinality(Listeners) \in Nat
  /\ Cardinality(Joined) <= Cardinality(Listeners)
  /\ Joined # Listeners => Cardinality(Joined) < Cardinality(Listeners)
<1>1. Joined \subseteq Listeners /\ IsFiniteSet(Listeners)
  BY SetsAssumption DEF Joined
<1>2. /\ IsFiniteSet(Joined)
      /\ Cardinality(Joined) <= Cardinality(Listeners)
      /\ Cardinality(Joined) = Cardinality(Listeners) => Joined = Listeners
  BY <1>1, FS_Subset
<1>3. Cardinality(Joined) \in Nat /\ Cardinality(Listeners) \in Nat
  BY <1>1, <1>2, FS_CardinalityType
<1> QED
  BY <1>2, <1>3

LEMMA InvInit == Init => Inv
<1> SUFFICES ASSUME Init PROVE Inv
  OBVIOUS
<1> USE DEF Init
<1>1. closed \in BOOLEAN /\ panicked \in BOOLEAN
  BY Zenon
<1>2. DOMAIN listeners = {}
  OBVIOUS
<1>3. 0 \in Ids /\ -1 \in Ids \cup {-1} /\ 0 <= Cardinality(Joined)
  BY JoinedIs DEF Ids
<1>4. /\ <<>> \in Seq(Messages) /\ Len(<<>>) = 0
      /\ chan \in [Listeners -> Seq(Messages)] /\ got \in [Listeners -> Seq(Messages)]
  OBVIOUS
<1>5. TypeInv
  BY <1>1, <1>2, <1>3, <1>4, CapacityAssumption, BoundsAssumption DEF TypeInv, TypeOK
<1>6. IdsInv
  BY <1>2, <1>3 DEF IdsInv, Joined
<1>7. SendInv
  BY <1>4, BoundsAssumption DEF SendInv
<1> QED
  BY <1>5, <1>6, <1>7 DEF Inv

(* The id that Listen finds is the highest one given so far if it is free, or the next. *)
LEMMA FreeIdIs ==
  ASSUME Inv, NEW l \in Listeners, id[l] = -1
  PROVE  /\ FreeId \in Ids /\ FreeId \notin DOMAIN listeners
         /\ FreeId = IF nextId \in DOMAIN listeners THEN nextId + 1 ELSE nextId
<1> DEFINE free == IF nextId \in DOMAIN listeners THEN nextId + 1 ELSE nextId
           Free(i) == /\ i >= nextId /\ i \notin DOMAIN listeners
                      /\ \A j \in nextId..(i - 1) : j \in DOMAIN listeners
<1>1. nextId \in Nat /\ nextId < Cardinality(Listeners)
  BY JoinedIs DEF Inv, TypeInv, TypeOK, IdsInv, Ids, Joined
<1>2. free \in Ids /\ free \notin DOMAIN listeners
  BY <1>1, JoinedIs DEF Inv, IdsInv, Ids
<1>3. Free(free)
  BY <1>1, <1>2
<1>4. ASSUME NEW i \in Ids, Free(i) PROVE i = free
  <2>1. i \in Nat
    BY DEF Ids
  <2>2. CASE nextId \notin DOMAIN listeners
    <3>1. ~(nextId \in nextId..(i - 1))
      BY <1>4, <2>2
    <3> QED
      BY <1>1, <1>4, <2>1, <2>2, <3>1
  <2>3. CASE nextId \in DOMAIN listeners
    <3>1. nextId + 1 \notin DOMAIN listeners
      BY <1>2, <2>3
    <3>2. ~(nextId + 1 \in nextId..(i - 1)) /\ i # nextId
      BY <1>4, <2>3, <3>1
    <3> QED
      BY <1>1, <1>4, <2>1, <2>3, <3>2
  <2> QED
    BY <2>2, <2>3
<1>5. FreeId = free
  BY <1>2, <1>3, <1>4 DEF FreeId
<1> QED
  BY <1>2, <1>5

LEMMA InvStep == Inv /\ [Next]_vars => Inv'
<1> SUFFICES ASSUME Inv, [Next]_vars PROVE Inv'
  OBVIOUS
<1> USE DEF Inv, sendVars, listVars
<1>1. ASSUME NEW s \in Senders, SendLock(s) PROVE Inv'
  <2> USE <1>1 DEF SendLock, ForSender, MutexFree, Recipients
  <2>1. sends[s] + 1 \in 1..MaxSends /\ Len(log) \in Nat
    <3>1. sends[s] \in 0..MaxSends /\ Len(log) \in Nat
      BY DEF TypeInv, TypeOK
    <3>2. sends[s] <= Len(log) /\ Len(log) < MaxSends
      BY DEF SendInv
    <3> QED
      BY <3>1, <3>2, BoundsAssumption
  <2>2. <<s, sends[s] + 1>> \in Messages
    BY <2>1 DEF Messages
  <2>3. log' \in Seq(Messages) /\ Len(log') = Len(log) + 1 /\ log'[Len(log')] = <<s, sends[s] + 1>>
    BY <2>2, AppendProperties DEF TypeInv, TypeOK
  <2>4. TypeInv'
    <3>1. sends' \in [Senders -> 0..MaxSends]
      BY <2>1 DEF TypeInv, TypeOK
    <3>2. from' \in [Listeners -> 0..Len(log')] /\ until' \in [Listeners -> 0..Len(log')]
      BY <2>1, <2>3 DEF TypeInv, TypeOK
    <3> QED
      BY <2>3, <3>1, <3>2 DEF TypeInv, TypeOK, Ids, Joined
  <2>5. IdsInv'
    BY DEF IdsInv, Joined
  <2>6. SendInv'
    <3>1. mutex' = s /\ s # "free" /\ sends'[s] = sends[s] + 1
      BY SetsAssumption DEF TypeInv, TypeOK
    <3>2. ASSUME NEW r \in Senders PROVE sends'[r] <= Len(log')
      BY <2>1, <2>3 DEF TypeInv, TypeOK, SendInv
    <3>3. Len(log') <= MaxSends /\ Len(log') > 0
      BY <2>1, <2>3, BoundsAssumption
    <3> QED
      BY <2>1, <2>3, <3>1, <3>2, <3>3 DEF SendInv
  <2> QED
    BY <2>4, <2>5, <2>6
<1>2. ASSUME NEW s \in Senders, SendPanics(s) PROVE Inv'
  <2>1. panicked' \in BOOLEAN
    BY <1>2, Zenon DEF SendPanics
  <2> QED
    BY <1>2, <2>1 DEF SendPanics, TypeInv, TypeOK, IdsInv, Joined, SendInv
<1>3. ASSUME NEW s \in Senders, SendNext(s) PROVE Inv'
  <2>1. PICK i \in todo : /\ todo' = todo \ {i}
                          /\ \/ /\ Room(listeners[i])
                                /\ chan' = [chan EXCEPT ![listeners[i]] =
                                               Append(@, <<s, sends[s]>>)]
                                /\ UNCHANGED got
                             \/ /\ capacity = 0 /\ reader[listeners[i]] = "reading"
                                /\ got' = [got EXCEPT ![listeners[i]] =
                                              Append(@, <<s, sends[s]>>)]
                                /\ UNCHANGED chan
    BY <1>3 DEF SendNext
  <2> DEFINE l == listeners[i]
             msg == <<s, sends[s]>>
  <2>2. mutex = s /\ mutex # "free"
    BY <1>3, SetsAssumption DEF SendNext
  <2>3. l \in Listeners
    BY <2>1 DEF TypeInv, TypeOK
  <2>4. msg \in Messages
    BY <2>2 DEF SendInv, TypeInv, TypeOK, Messages
  <2> HIDE DEF l, msg
  <2>5. /\ Append(chan[l], msg) \in Seq(Messages) /\ Append(got[l], msg) \in Seq(Messages)
        /\ Len(Append(chan[l], msg)) = Len(chan[l]) + 1
        /\ capacity \in Nat /\ Len(chan[l]) \in Nat
    BY <2>3, <2>4, AppendProperties, CapacityAssumption DEF TypeInv, TypeOK
  <2>6. chan' \in [Listeners -> Seq(Messages)] /\ got' \in [Listeners -> Seq(Messages)]
    <3>1. chan \in [Listeners -> Seq(Messages)] /\ got \in [Listeners -> Seq(Messages)]
      BY DEF TypeInv, TypeOK
    <3>2. \/ UNCHANGED <<chan, got>>
          \/ chan' = [chan EXCEPT ![l] = Append(@, msg)] /\ UNCHANGED got
          \/ got' = [got EXCEPT ![l] = Append(@, msg)] /\ UNCHANGED chan
      BY <2>1 DEF l, msg
    <3> QED
      BY <2>5, <3>1, <3>2
  <2>7. ASSUME NEW k \in Listeners PROVE Len(chan'[k]) <= capacity
    <3>1. CASE k = l /\ Room(l) /\ chan' = [chan EXCEPT ![l] = Append(@, msg)]
      <4>1. Len(chan'[l]) = Len(chan[l]) + 1 /\ Len(chan[l]) < capacity
        BY <2>3, <2>5, <3>1 DEF TypeInv, TypeOK, Room
      <4> QED
        BY <2>5, <3>1, <4>1
    <3>2. CASE chan'[k] = chan[k]
      BY <3>2 DEF TypeInv, TypeOK
    <3> QED
      BY <2>1, <3>1, <3>2 DEF TypeInv, l, msg
  <2>8. UNCHANGED <<capacity, mutex, sends, log, listVars, closed, chanClosed, reader, panicked>>
    BY <1>3 DEF SendNext
  <2>9. TypeInv'
    BY <2>1, <2>6, <2>7, <2>8 DEF TypeInv, TypeOK
  <2>10. IdsInv' /\ SendInv'
    BY <2>1, <2>2, <2>8 DEF IdsInv, Joined, SendInv
  <2> QED
    BY <2>9, <2>10
<1>4. ASSUME NEW s \in Senders, SendReturn(s) PROVE Inv'
  BY <1>4 DEF SendReturn, Unlocked, TypeInv, TypeOK, IdsInv, Joined, SendInv
<1>5. ASSUME NEW l \in Listeners, Listen(l) PROVE Inv'
  <2> USE <1>5 DEF Listen, MutexFree
  <2>1. /\ nextId' \in Ids /\ nextId' \notin DOMAIN listeners
        /\ nextId' = IF nextId \in DOMAIN listeners THEN nextId + 1 ELSE nextId
    BY FreeIdIs
  <2>2. /\ DOMAIN listeners' = DOMAIN listeners \cup {nextId'}
        /\ listeners'[nextId'] = l
        /\ \A i \in DOMAIN listeners : listeners'[i] = listeners[i]
    BY <2>1
  <2>3. nextId \in Nat /\ nextId' \in Nat /\ todo = {} /\ todo' = {} /\ Len(log) \in Nat
    BY <2>1 DEF TypeInv, TypeOK, Ids, SendInv
  <2>4. id' \in [Listeners -> Ids \cup {-1}] /\ id'[l] = nextId'
        /\ \A k \in Listeners \ {l} : id'[k] = id[k]
    BY <2>1 DEF TypeInv, TypeOK
  <2>5. chanClosed' \subseteq Listeners /\ from' \in [Listeners -> 0..Len(log)]
    BY <2>3 DEF TypeInv, TypeOK
  <2>6. TypeInv'
    BY <2>1, <2>2, <2>3, <2>4, <2>5 DEF TypeInv, TypeOK
  <2>7. Joined' = Joined \cup {l} /\ l \notin Joined
    BY <2>3, <2>4 DEF Joined
  <2>8. Cardinality(Joined') = Cardinality(Joined) + 1 /\ Cardinality(Joined) \in Nat
    BY <2>7, JoinedIs, FS_AddElement
  <2>9. IdsInv'
    <3>1. DOMAIN listeners' \subseteq 0..nextId' /\ nextId' <= Cardinality(Joined')
      BY <2>1, <2>2, <2>3, <2>8 DEF IdsInv
    <3>2. ASSUME NEW i \in DOMAIN listeners' PROVE id'[listeners'[i]] = i
      <4>1. CASE i = nextId'
        BY <2>2, <2>4, <4>1
      <4>2. CASE i \in DOMAIN listeners
        <5>1. listeners'[i] = listeners[i] /\ id[listeners[i]] = i /\ i \in Nat
          BY <2>2, <2>3, <4>2 DEF IdsInv
        <5>2. listeners[i] \in Listeners \ {l}
          BY <4>2, <5>1 DEF TypeInv, TypeOK
        <5> QED
          BY <2>4, <5>1, <5>2
      <4> QED
        BY <2>2, <4>1, <4>2
    <3>3. \A k \in Listeners : closes'[k] > 0 => k \in Joined'
      BY <2>7 DEF IdsInv
    <3> QED
      BY <3>1, <3>2, <3>3 DEF IdsInv
  <2>10. SendInv'
    BY <2>3 DEF SendInv
  <2> QED
    BY <2>6, <2>9, <2>10
<1>6. ASSUME NEW l \in Listeners, ListenerClose(l) PROVE Inv'
  <2> USE <1>6 DEF ListenerClose, MutexFree
  <2>1. /\ DOMAIN listeners' = DOMAIN listeners \ {id[l]}
        /\ \A i \in DOMAIN listeners' : listeners'[i] = listeners[i]
    OBVIOUS
  <2>2. todo = {} /\ todo' = {} /\ Len(log) \in Nat
    BY DEF TypeInv, TypeOK, SendInv
  <2>3. closes' \in [Listeners -> 0..MaxCloses]
    <3>1. closes \in [Listeners -> 0..MaxCloses] /\ MaxCloses \in Nat
      BY BoundsAssumption DEF TypeInv, TypeOK
    <3> QED
      BY <3>1
  <2>4. until' \in [Listeners -> 0..Len(log)]
    BY <2>2 DEF TypeInv, TypeOK
  <2>5. TypeInv'
    BY <2>1, <2>2, <2>3, <2>4 DEF TypeInv, TypeOK
  <2>6. IdsInv' /\ SendInv'
    BY <2>1, <2>2 DEF IdsInv, Joined, SendInv, TypeInv, TypeOK
  <2> QED
    BY <2>5, <2>6
<1>7. CASE Close
  <2>1. closed' \in BOOLEAN
    BY <1>7, Zenon DEF Close
  <2> QED
    BY <1>7, <2>1 DEF Close, ToClose, TypeInv, TypeOK, IdsInv, Joined, SendInv
<1>8. ASSUME NEW l \in Listeners, Read(l) PROVE Inv'
  <2>1. /\ Head(chan[l]) \in Messages /\ Tail(chan[l]) \in Seq(Messages)
        /\ Len(Tail(chan[l])) = Len(chan[l]) - 1 /\ Len(chan[l]) \in Nat
    BY <1>8, HeadTailProperties DEF Read, TypeInv, TypeOK
  <2>2. Append(got[l], Head(chan[l])) \in Seq(Messages)
    BY <2>1, AppendProperties DEF TypeInv, TypeOK
  <2>3. /\ chan' \in [Listeners -> Seq(Messages)] /\ got' \in [Listeners -> Seq(Messages)]
        /\ \A k \in Listeners : Len(chan'[k]) <= capacity
    BY <1>8, <2>1, <2>2, CapacityAssumption DEF Read, TypeInv, TypeOK
  <2>4. UNCHANGED <<capacity, sendVars, listVars, closed, chanClosed, reader, panicked>>
    BY <1>8 DEF Read
  <2>5. TypeInv'
    BY <2>3, <2>4 DEF TypeInv, TypeOK
  <2>6. IdsInv'
    BY <2>4 DEF IdsInv, Joined
  <2>7. SendInv'
    BY <2>4 DEF SendInv
  <2> QED
    BY <2>5, <2>6, <2>7
<1>9. ASSUME NEW l \in Listeners, ReadEnd(l) \/ Quit(l) PROVE Inv'
  <2>1. reader' \in [Listeners -> {"reading", "quit", "ended"}]
    BY <1>9 DEF ReadEnd, Quit, TypeInv, TypeOK
  <2>2. UNCHANGED <<capacity, sendVars, listVars, closed, chan, chanClosed, panicked, got>>
    BY <1>9 DEF ReadEnd, Quit
  <2>3. TypeInv'
    BY <2>1, <2>2 DEF TypeInv, TypeOK
  <2> QED
    BY <2>2, <2>3 DEF IdsInv, Joined, SendInv
<1>10. CASE UNCHANGED vars
  BY <1>10 DEF vars, TypeInv, TypeOK, IdsInv, Joined, SendInv
<1> QED
  BY <1>1, <1>2, <1>3, <1>4, <1>5, <1>6, <1>7, <1>8, <1>9, <1>10
     DEF Next, Sender, Sending, Reader

(***************************************************************************)
(* The types of all variables, the bound of every channel by the capacity, *)
(* and that Listen always finds an id.                                     *)
(***************************************************************************)
THEOREM TypeCorrect == Spec => [](Inv /\ TypeOK)
<1>1. Inv => TypeOK
  BY DEF Inv, TypeInv
<1> QED
  BY <1>1, InvInit, InvStep, PTL DEF Spec

-----------------------------------------------------------------------------
(* A listener is registered under its own id and no other. *)
LEMMA RegisteredIs ==
  ASSUME Inv, NEW l \in Listeners
  PROVE  /\ Registered(l) <=> id[l] \in DOMAIN listeners /\ listeners[id[l]] = l
         /\ Registered(l) => l \in Joined
<1>1. Registered(l) <=> id[l] \in DOMAIN listeners /\ listeners[id[l]] = l
  BY DEF Registered, Inv, IdsInv
<1>2. DOMAIN listeners \subseteq Nat
  BY DEF Inv, TypeInv, TypeOK, Ids
<1> QED
  BY <1>1, <1>2 DEF Joined

(* Listen registers its listener; the others stay as they are. *)
LEMMA RegisteredByListen ==
  ASSUME Inv, NEW l \in Listeners, Listen(l)
  PROVE  /\ ~Registered(l) /\ Registered(l)' /\ Joined' = Joined \cup {l}
         /\ \A k \in Listeners \ {l} : Registered(k)' <=> Registered(k)
<1> USE DEF Listen
<1>1. /\ nextId' \in Ids /\ nextId' \notin DOMAIN listeners
  BY FreeIdIs
<1>2. /\ DOMAIN listeners' = DOMAIN listeners \cup {nextId'}
      /\ listeners'[nextId'] = l
      /\ \A i \in DOMAIN listeners : listeners'[i] = listeners[i]
  BY <1>1
<1>3. ~Registered(l)
  BY RegisteredIs DEF Joined
<1>4. \A k \in Listeners \ {l} : Registered(k)' <=> Registered(k)
  BY <1>1, <1>2 DEF Registered
<1>5. Registered(l)'
  BY <1>2 DEF Registered
<1>6. Joined' = Joined \cup {l}
  BY <1>1 DEF Joined, Inv, TypeInv, TypeOK, Ids
<1> QED
  BY <1>3, <1>4, <1>5, <1>6

(* Listener.Close removes the listener that has its id, if there is one, and no other. *)
LEMMA RegisteredByClose ==
  ASSUME Inv, NEW l \in Listeners, ListenerClose(l)
  PROVE  /\ Joined' = Joined
         /\ \A k \in Listeners :
                Registered(k)' <=>
                    Registered(k) /\ ~(id[l] \in DOMAIN listeners /\ k = listeners[id[l]])
<1> USE DEF ListenerClose
<1>1. /\ DOMAIN listeners' = DOMAIN listeners \ {id[l]}
      /\ \A i \in DOMAIN listeners' : listeners'[i] = listeners[i]
  OBVIOUS
<1>2. \A i, j \in DOMAIN listeners : listeners[i] = listeners[j] => i = j
  BY DEF Inv, IdsInv
<1>3. ASSUME NEW k \in Listeners
      PROVE  Registered(k)' <=>
                 Registered(k) /\ ~(id[l] \in DOMAIN listeners /\ k = listeners[id[l]])
  BY <1>1, <1>2 DEF Registered
<1> QED
  BY <1>3 DEF Joined

LEMMA KeptStep == Inv /\ KeptUntilClosed /\ [Next]_vars => KeptUntilClosed'
<1> SUFFICES ASSUME Inv, KeptUntilClosed, [Next]_vars,
                    \A l \in Listeners : closes'[l] <= 1,
                    NEW k \in Listeners, k \in Joined'
             PROVE  Registered(k)' <=> closes'[k] = 0
  BY DEF KeptUntilClosed, Joined
<1> USE DEF Inv
<1>0. \A l \in Listeners : closes[l] \in Nat
  BY BoundsAssumption DEF TypeInv, TypeOK
<1>1. ASSUME NEW l \in Listeners, Listen(l) PROVE Registered(k)' <=> closes'[k] = 0
  <2>1. closes' = closes /\ \A m \in Listeners : closes[m] <= 1
    BY <1>1 DEF Listen
  <2>2. CASE k = l
    <3>1. l \notin Joined /\ Registered(l)'
      <4>1. Registered(l)'
        BY <1>1, RegisteredByListen
      <4> QED
        BY <1>1, <4>1 DEF Listen, Joined
    <3>2. closes[l] = 0
      BY <1>0, <3>1 DEF IdsInv
    <3> QED
      BY <2>1, <2>2, <3>1, <3>2
  <2>3. CASE k # l
    <3>1. k \in Joined /\ (Registered(k)' <=> Registered(k))
      BY <1>1, <2>3, RegisteredByListen
    <3> QED
      BY <2>1, <3>1 DEF KeptUntilClosed
  <2> QED
    BY <2>2, <2>3
<1>2. ASSUME NEW l \in Listeners, ListenerClose(l) PROVE Registered(k)' <=> closes'[k] = 0
  <2>1. /\ closes'[l] = closes[l] + 1
        /\ \A m \in Listeners \ {l} : closes'[m] = closes[m]
    BY <1>2 DEF ListenerClose, TypeInv, TypeOK
  <2>2. closes[l] = 0 /\ \A m \in Listeners : closes[m] <= 1
    BY <1>0, <2>1
  <2>3. l \in Joined /\ k \in Joined
    BY <1>2, RegisteredByClose DEF ListenerClose
  <2>4. \A m \in Joined : Registered(m) <=> closes[m] = 0
    BY <2>2 DEF KeptUntilClosed
  <2>5. id[l] \in DOMAIN listeners /\ listeners[id[l]] = l
    BY <2>2, <2>3, <2>4, RegisteredIs
  <2>6. Registered(k)' <=> Registered(k) /\ k # l
    BY <1>2, <2>5, RegisteredByClose
  <2> QED
    BY <1>0, <2>1, <2>2, <2>3, <2>4, <2>6
<1>3. CASE UNCHANGED <<listeners, id, closes>>
  BY <1>3 DEF KeptUntilClosed, Registered, Joined
<1>4. ASSUME NEW s \in Senders, Sender(s) \/ Sending(s) PROVE UNCHANGED <<listeners, id, closes>>
  BY <1>4 DEF Sender, Sending, SendLock, SendPanics, SendNext, SendReturn, listVars
<1>5. ASSUME NEW l \in Listeners, Reader(l) \/ Quit(l) PROVE UNCHANGED <<listeners, id, closes>>
  BY <1>5 DEF Reader, Read, ReadEnd, Quit, listVars
<1>6. CASE Close \/ UNCHANGED vars
  <2>1. UNCHANGED <<listeners, id, closes>>
    BY <1>6 DEF Close, listVars, vars
  <2> QED
    BY <2>1, <1>3
<1> QED
  BY <1>1, <1>2, <1>3, <1>4, <1>5, <1>6 DEF Next

(* Closing each listener once removes nobody else, however ids are used again. *)
THEOREM Kept == Spec => []KeptUntilClosed
<1>1. Init => KeptUntilClosed
  BY DEF Init, KeptUntilClosed, Joined
<1> QED
  BY <1>1, InvInit, InvStep, KeptStep, PTL DEF Spec

-----------------------------------------------------------------------------
(***************************************************************************)
(* Where a listener's stretch of the log ends: where it left, or at the    *)
(* last message, which the Send in progress may have yet to hand over.     *)
(***************************************************************************)
Sent(l) == IF ~Registered(l) THEN until[l]
           ELSE IF id[l] \in todo THEN Len(log) - 1 ELSE Len(log)

(* Received g, then waiting c, are the log lg from position f up to n. *)
Heard(lg, f, g, c, n) ==
    /\ f <= n /\ n <= Len(lg)
    /\ f + Len(g) + Len(c) = n
    /\ \A k \in 1..Len(g) : g[k] = lg[f + k]
    /\ \A k \in 1..Len(c) : c[k] = lg[f + Len(g) + k]

Hears(l, n) == Heard(log, from[l], got[l], chan[l], n)

HeardInv ==
    /\ \A l \in Listeners : Hears(l, Sent(l))
    /\ \A l \in Listeners \ Joined :
           got[l] = <<>> /\ chan[l] = <<>> /\ from[l] = 0 /\ until[l] = 0

(* The log may grow. *)
LEMMA HeardGrows ==
  ASSUME NEW M, NEW lg \in Seq(M), NEW f \in Nat, NEW g \in Seq(M), NEW c \in Seq(M),
         NEW n \in Int, Heard(lg, f, g, c, n), NEW m \in M
  PROVE  Heard(Append(lg, m), f, g, c, n)
<1>1. /\ Len(lg) \in Nat /\ Len(g) \in Nat /\ Len(c) \in Nat
      /\ Len(Append(lg, m)) = Len(lg) + 1
      /\ \A k \in 1..Len(lg) : Append(lg, m)[k] = lg[k]
  BY AppendProperties
<1>2. f <= n /\ n <= Len(lg) /\ f + Len(g) + Len(c) = n
  BY DEF Heard
<1>3. ASSUME NEW k \in 1..Len(g) PROVE g[k] = Append(lg, m)[f + k]
  <2>1. f + k \in 1..Len(lg)
    BY <1>1, <1>2
  <2>2. g[k] = lg[f + k]
    BY DEF Heard
  <2> QED
    BY <1>1, <2>1, <2>2
<1>4. ASSUME NEW k \in 1..Len(c) PROVE c[k] = Append(lg, m)[f + Len(g) + k]
  <2>1. f + Len(g) + k \in 1..Len(lg)
    BY <1>1, <1>2
  <2>2. c[k] = lg[f + Len(g) + k]
    BY DEF Heard
  <2> QED
    BY <1>1, <2>1, <2>2
<1>5. n <= Len(Append(lg, m))
  BY <1>1, <1>2
<1> QED
  BY <1>2, <1>3, <1>4, <1>5 DEF Heard

(* The next message of the log may join the waiting ones. *)
LEMMA HeardSent ==
  ASSUME NEW M, NEW lg \in Seq(M), NEW f \in Nat, NEW g \in Seq(M), NEW c \in Seq(M),
         NEW n \in Int, Heard(lg, f, g, c, n), n < Len(lg)
  PROVE  Heard(lg, f, g, Append(c, lg[n + 1]), n + 1)
<1> DEFINE d == Append(c, lg[n + 1])
<1>1. /\ Len(lg) \in Nat /\ Len(g) \in Nat /\ Len(c) \in Nat
      /\ f <= n /\ f + Len(g) + Len(c) = n
  BY DEF Heard
<1>2. lg[n + 1] \in M
  <2>1. n + 1 \in 1..Len(lg)
    BY <1>1
  <2> QED
    BY <2>1, ElementOfSeq
<1>3. Len(d) = Len(c) + 1 /\ d[Len(c) + 1] = lg[n + 1] /\ \A k \in 1..Len(c) : d[k] = c[k]
  BY <1>2, AppendProperties
<1> HIDE DEF d
<1>4. ASSUME NEW k \in 1..Len(d) PROVE d[k] = lg[f + Len(g) + k]
  <2>1. CASE k \in 1..Len(c)
    BY <1>3, <2>1 DEF Heard
  <2>2. CASE k = Len(c) + 1
    <3>1. f + Len(g) + k = n + 1
      BY <1>1, <2>2
    <3> QED
      BY <1>3, <2>2, <3>1
  <2> QED
    BY <1>1, <1>3, <2>1, <2>2
<1>5. f <= n + 1 /\ n + 1 <= Len(lg) /\ f + Len(g) + Len(d) = n + 1
  BY <1>1, <1>3
<1>6. \A k \in 1..Len(g) : g[k] = lg[f + k]
  BY DEF Heard
<1>7. Heard(lg, f, g, d, n + 1)
  BY <1>4, <1>5, <1>6 DEF Heard
<1> QED
  BY <1>7 DEF d

(* The first one that waits may be received. *)
LEMMA HeardRead ==
  ASSUME NEW M, NEW lg \in Seq(M), NEW f \in Nat, NEW g \in Seq(M), NEW c \in Seq(M),
         NEW n \in Int, Heard(lg, f, g, c, n), c # <<>>
  PROVE  /\ Heard(lg, f, Append(g, Head(c)), Tail(c), n)
         /\ Head(c) = lg[f + Len(g) + 1] /\ f + Len(g) < n
<1> DEFINE h == Append(g, Head(c))
           d == Tail(c)
<1>1. /\ Len(lg) \in Nat /\ Len(g) \in Nat /\ Len(c) \in Nat /\ Len(c) > 0
      /\ f <= n /\ n <= Len(lg) /\ f + Len(g) + Len(c) = n
  BY EmptySeq DEF Heard
<1>2. /\ Head(c) = c[1] /\ Head(c) \in M /\ Len(d) = Len(c) - 1
      /\ \A k \in 1..Len(d) : d[k] = c[k + 1]
  BY HeadTailProperties
<1>3. Len(h) = Len(g) + 1 /\ h[Len(g) + 1] = c[1] /\ \A k \in 1..Len(g) : h[k] = g[k]
  BY <1>2, AppendProperties
<1> HIDE DEF h, d
<1>4. \A k \in 1..Len(c) : c[k] = lg[f + Len(g) + k]
  BY DEF Heard
<1>5. c[1] = lg[f + Len(g) + 1]
  BY <1>1, <1>4
<1>6. ASSUME NEW k \in 1..Len(h) PROVE h[k] = lg[f + k]
  <2>1. CASE k \in 1..Len(g)
    BY <1>3, <2>1 DEF Heard
  <2>2. CASE k = Len(g) + 1
    <3>1. f + Len(g) + 1 = f + k
      BY <1>1, <2>2
    <3> QED
      BY <1>3, <1>5, <2>2, <3>1
  <2> QED
    BY <1>1, <1>3, <2>1, <2>2
<1>7. ASSUME NEW k \in 1..Len(d) PROVE d[k] = lg[f + Len(h) + k]
  <2>1. k + 1 \in 1..Len(c) /\ f + Len(g) + (k + 1) = f + Len(h) + k
    BY <1>1, <1>2, <1>3
  <2> QED
    BY <1>2, <1>4, <2>1
<1>8. f + Len(h) + Len(d) = n /\ f + Len(g) < n
  <2>1. Len(h) = Len(g) + 1 /\ Len(d) = Len(c) - 1
    BY <1>2, <1>3
  <2>2. f + (Len(g) + 1) + (Len(c) - 1) = f + Len(g) + Len(c)
    BY <1>1
  <2>3. f + Len(g) < f + Len(g) + Len(c)
    BY <1>1
  <2> QED
    BY <1>1, <2>1, <2>2, <2>3
<1>9. Heard(lg, f, h, d, n)
  BY <1>1, <1>6, <1>7, <1>8 DEF Heard
<1> QED
  BY <1>2, <1>5, <1>8, <1>9 DEF h, d

(* Without a buffer, the next message of the log may be received at once. *)
LEMMA HeardNow ==
  ASSUME NEW M, NEW lg \in Seq(M), NEW f \in Nat, NEW g \in Seq(M), NEW n \in Int,
         Heard(lg, f, g, <<>>, n), n < Len(lg)
  PROVE  Heard(lg, f, Append(g, lg[n + 1]), <<>>, n + 1) /\ f + Len(g) = n
<1> DEFINE c == Append(<<>>, lg[n + 1])
<1>1. <<>> \in Seq(M) /\ Len(<<>>) = 0
  OBVIOUS
<1>2. f <= n /\ n + 1 \in 1..Len(lg) /\ f + Len(g) = n
  BY DEF Heard
<1>3. lg[n + 1] \in M
  BY <1>2, ElementOfSeq
<1>4. Heard(lg, f, g, c, n + 1)
  BY <1>1, HeardSent
<1>5. c = <<lg[n + 1]>>
  OBVIOUS
<1>6. c \in Seq(M) /\ c # <<>> /\ Head(c) = lg[n + 1] /\ Tail(c) = <<>>
  BY <1>3, <1>5
<1> HIDE DEF c
<1>7. Heard(lg, f, Append(g, Head(c)), Tail(c), n + 1)
  BY <1>4, <1>6, HeardRead
<1> QED
  BY <1>2, <1>6, <1>7

(* Then both together are that stretch of the log. *)
LEMMA HeardIs ==
  ASSUME NEW M, NEW lg \in Seq(M), NEW f \in Nat, NEW g \in Seq(M), NEW c \in Seq(M),
         NEW n \in Int, Heard(lg, f, g, c, n)
  PROVE  g \o c = SubSeq(lg, f + 1, n)
<1> DEFINE all == g \o c
           part == SubSeq(lg, f + 1, n)
<1>1. /\ Len(lg) \in Nat /\ Len(g) \in Nat /\ Len(c) \in Nat
      /\ f <= n /\ n <= Len(lg) /\ f + Len(g) + Len(c) = n
  BY DEF Heard
<1>2. /\ all \in Seq(M) /\ Len(all) = Len(g) + Len(c)
      /\ \A k \in 1..Len(all) : all[k] = IF k <= Len(g) THEN g[k] ELSE c[k - Len(g)]
  BY ConcatProperties
<1>3. /\ part \in Seq(M) /\ Len(part) = n - f
      /\ \A k \in 1..Len(part) : part[k] = lg[f + k]
  <2>1. \A k \in (f + 1)..n : lg[k] \in M
    <3> SUFFICES ASSUME NEW k \in (f + 1)..n PROVE lg[k] \in M
      OBVIOUS
    <3>1. k \in 1..Len(lg)
      BY <1>1
    <3> QED
      BY <3>1, ElementOfSeq
  <2>2. f + 1 \in Int /\ (IF f + 1 <= n THEN n - (f + 1) + 1 ELSE 0) = n - f
    BY <1>1
  <2>3. /\ part \in Seq(M) /\ Len(part) = IF f + 1 <= n THEN n - (f + 1) + 1 ELSE 0
        /\ \A k \in 1..Len(part) : part[k] = lg[f + 1 + k - 1]
    BY <2>1, <2>2, SubSeqProperties
  <2>4. \A k \in 1..Len(part) : f + 1 + k - 1 = f + k
    BY <1>1
  <2> QED
    BY <2>2, <2>3, <2>4
<1> HIDE DEF all, part
<1>4. Len(all) = Len(part)
  BY <1>1, <1>2, <1>3
<1>5. ASSUME NEW k \in 1..Len(all) PROVE all[k] = part[k]
  <2>1. part[k] = lg[f + k]
    BY <1>3, <1>4
  <2>2. CASE k \in 1..Len(g)
    <3>1. g[k] = lg[f + k] /\ k <= Len(g)
      BY <1>1, <2>2 DEF Heard
    <3> QED
      BY <1>2, <2>1, <3>1
  <2>3. CASE k \notin 1..Len(g)
    <3>1. k - Len(g) \in 1..Len(c) /\ f + Len(g) + (k - Len(g)) = f + k /\ ~(k <= Len(g))
      BY <1>1, <1>2, <2>3
    <3> QED
      BY <1>2, <2>1, <3>1 DEF Heard
  <2> QED
    BY <2>2, <2>3
<1> QED
  BY <1>2, <1>3, <1>4, <1>5, SeqEqual DEF all, part

(* What these lemmas need of the state. *)
LEMMA Lengths ==
  ASSUME Inv, NEW l \in Listeners
  PROVE  /\ log \in Seq(Messages) /\ Len(log) \in Nat
         /\ from[l] \in Nat /\ until[l] \in Nat /\ Sent(l) \in Int
         /\ got[l] \in Seq(Messages) /\ chan[l] \in Seq(Messages)
BY DEF Inv, TypeInv, TypeOK, Sent

LEMMA HeardInit == Init => HeardInv
<1> SUFFICES ASSUME Init PROVE HeardInv
  OBVIOUS
<1>1. ASSUME NEW l \in Listeners PROVE ~Registered(l)
  BY DEF Init, Registered
<1> QED
  BY <1>1 DEF Init, HeardInv, Hears, Heard, Sent

LEMMA HeardStep == Inv /\ Inv' /\ HeardInv /\ [Next]_vars => HeardInv'
<1> SUFFICES ASSUME Inv, Inv', HeardInv, [Next]_vars PROVE HeardInv'
  OBVIOUS
<1> USE DEF sendVars, listVars
<1>1. ASSUME NEW s \in Senders, SendLock(s) PROVE HeardInv'
  <2> USE <1>1 DEF SendLock, ForSender, MutexFree, Recipients
  <2>1. todo = {} /\ Len(log) \in Nat
    BY DEF Inv, SendInv, TypeInv, TypeOK
  <2>2. <<s, sends[s] + 1>> \in Messages /\ log \in Seq(Messages)
    <3>1. sends[s] + 1 \in 1..MaxSends
      BY DEF Inv, SendInv, TypeInv, TypeOK
    <3> QED
      BY <3>1 DEF Inv, TypeInv, TypeOK, Messages
  <2>3. Len(log') = Len(log) + 1
    BY <2>2, AppendProperties
  <2>4. ASSUME NEW l \in Listeners PROVE Hears(l, Sent(l))'
    <3>1. Registered(l)' <=> Registered(l)
      BY DEF Registered
    <3>2. Sent(l)' = Sent(l)
      BY <2>1, <2>3, <3>1, RegisteredIs DEF Sent
    <3>3. Heard(Append(log, <<s, sends[s] + 1>>), from[l], got[l], chan[l], Sent(l))
      BY <2>2, Lengths, HeardGrows DEF HeardInv, Hears
    <3> QED
      BY <3>2, <3>3 DEF Hears
  <2> QED
    BY <2>4 DEF HeardInv, Joined
<1>2. ASSUME NEW s \in Senders, SendNext(s) PROVE HeardInv'
  <2>1. PICK i \in todo : /\ todo' = todo \ {i}
                          /\ \/ /\ Room(listeners[i])
                                /\ chan' = [chan EXCEPT ![listeners[i]] =
                                               Append(@, <<s, sends[s]>>)]
                                /\ UNCHANGED got
                             \/ /\ capacity = 0 /\ reader[listeners[i]] = "reading"
                                /\ got' = [got EXCEPT ![listeners[i]] =
                                              Append(@, <<s, sends[s]>>)]
                                /\ UNCHANGED chan
    BY <1>2 DEF SendNext
  <2> DEFINE msg == <<s, sends[s]>>
  <2>2. PICK r \in Listeners : r = listeners[i]
    BY DEF Inv, TypeInv, TypeOK
  <2>3. mutex = s /\ mutex # "free"
    BY <1>2, SetsAssumption DEF SendNext
  <2>4. UNCHANGED <<capacity, mutex, sends, log, listVars, closed, chanClosed, reader, panicked>>
    BY <1>2 DEF SendNext
  <2>5. r \in Listeners /\ id[r] = i /\ Registered(r) /\ Registered(r)'
    <3>1. id[r] = i
      BY <2>2 DEF Inv, IdsInv, TypeInv, TypeOK
    <3>2. i \in DOMAIN listeners /\ listeners' = listeners
      BY <2>4 DEF Inv, TypeInv, TypeOK
    <3> QED
      BY <2>2, <3>1, <3>2 DEF Registered
  <2>6. log[Len(log)] = msg /\ Len(log) \in Nat /\ Len(log) - 1 \in Int
    <3>1. log[Len(log)] = <<mutex, sends[mutex]>>
      BY <2>3 DEF Inv, SendInv
    <3>2. Len(log) \in Nat
      BY DEF Inv, TypeInv, TypeOK
    <3> QED
      BY <2>3, <3>1, <3>2
  <2> HIDE DEF msg
  <2>7. /\ Sent(r) = Len(log) - 1 /\ Sent(r)' = Len(log)
        /\ Sent(r) < Len(log) /\ Sent(r) + 1 = Len(log)
    BY <2>1, <2>4, <2>5, <2>6 DEF Sent
  <2>8. Hears(r, Sent(r))'
    <3>1. Heard(log, from[r], got[r], chan[r], Sent(r))
      BY <2>5 DEF HeardInv, Hears
    <3>2. CASE chan' = [chan EXCEPT ![r] = Append(@, msg)] /\ UNCHANGED got
      <4>1. chan'[r] = Append(chan[r], log[Sent(r) + 1])
        BY <2>5, <2>6, <2>7, <3>2 DEF Inv, TypeInv
      <4>2. Heard(log, from[r], got[r], chan'[r], Sent(r) + 1)
        BY <2>5, <2>7, <3>1, <4>1, Lengths, HeardSent
      <4> QED
        BY <2>4, <2>7, <3>2, <4>2 DEF Hears
    <3>3. CASE capacity = 0 /\ got' = [got EXCEPT ![r] = Append(@, msg)] /\ UNCHANGED chan
      <4>1. got'[r] = Append(got[r], log[Sent(r) + 1])
        BY <2>5, <2>6, <2>7, <3>3 DEF Inv, TypeInv, TypeOK
      <4>2. chan[r] = <<>>
        BY <2>5, <3>3 DEF Inv, TypeInv, TypeOK
      <4>3. Heard(log, from[r], got'[r], <<>>, Sent(r) + 1)
        <5>1. /\ log \in Seq(Messages) /\ from[r] \in Nat /\ got[r] \in Seq(Messages)
              /\ Sent(r) \in Int /\ Sent(r) < Len(log)
          BY <2>5, <2>7, Lengths
        <5>2. Heard(log, from[r], got[r], <<>>, Sent(r))
          BY <3>1, <4>2
        <5> QED
          BY <4>1, <5>1, <5>2, HeardNow
      <4> QED
        BY <2>4, <2>7, <3>3, <4>2, <4>3 DEF Hears
    <3> QED
      BY <2>1, <2>2, <3>2, <3>3 DEF msg
  <2>9. ASSUME NEW l \in Listeners, l # r PROVE Hears(l, Sent(l))'
    <3>1. Sent(l)' = Sent(l)
      <4>1. Registered(l)' <=> Registered(l)
        BY <2>4 DEF Registered
      <4>2. Registered(l) => id[l] # i
        BY <2>2, <2>9, RegisteredIs
      <4> QED
        BY <2>1, <2>4, <4>1, <4>2 DEF Sent
    <3>2. UNCHANGED <<from, log, got[l], chan[l]>>
      BY <2>1, <2>2, <2>4, <2>9 DEF Inv, TypeInv, TypeOK
    <3> QED
      BY <3>1, <3>2 DEF HeardInv, Hears
  <2>10. r \in Joined
    BY <2>5, RegisteredIs
  <2>11. \A l \in Listeners : Hears(l, Sent(l))'
    BY <2>8, <2>9
  <2>12. \A l \in Listeners \ Joined : got'[l] = got[l] /\ chan'[l] = chan[l]
    BY <2>1, <2>2, <2>10 DEF Inv, TypeInv, TypeOK
  <2> QED
    BY <2>4, <2>11, <2>12 DEF HeardInv, Joined
<1>3. ASSUME NEW l \in Listeners, Listen(l) PROVE HeardInv'
  <2>1. UNCHANGED <<capacity, sendVars, closes, until, closed, chan, reader, panicked, got>>
    BY <1>3 DEF Listen
  <2>2. todo = {} /\ todo' = {} /\ Len(log) \in Nat
    BY <1>3 DEF Listen, MutexFree, Inv, SendInv, TypeInv, TypeOK
  <2>3. /\ ~Registered(l) /\ Registered(l)' /\ Joined' = Joined \cup {l}
        /\ \A k \in Listeners \ {l} : Registered(k)' <=> Registered(k)
    BY <1>3, RegisteredByListen
  <2>4. l \notin Joined
    BY <1>3 DEF Listen, Joined
  <2>5. Hears(l, Sent(l))'
    <3>1. from'[l] = Len(log)
      BY <1>3 DEF Listen, Inv, TypeInv, TypeOK
    <3>2. Sent(l)' = Len(log)
      BY <2>1, <2>2, <2>3 DEF Sent
    <3>3. got'[l] = <<>> /\ chan'[l] = <<>>
      BY <2>1, <2>4 DEF HeardInv
    <3> QED
      BY <2>1, <2>2, <3>1, <3>2, <3>3 DEF Hears, Heard
  <2>6. ASSUME NEW k \in Listeners, k # l PROVE Hears(k, Sent(k))' /\ from'[k] = from[k]
    <3>1. Sent(k)' = Sent(k)
      BY <2>1, <2>2, <2>3, <2>6 DEF Sent
    <3>2. from'[k] = from[k]
      BY <1>3, <2>6 DEF Listen, Inv, TypeInv, TypeOK
    <3> QED
      BY <2>1, <3>1, <3>2 DEF HeardInv, Hears
  <2> QED
    BY <2>1, <2>3, <2>5, <2>6 DEF HeardInv
<1>4. ASSUME NEW l \in Listeners, ListenerClose(l) PROVE HeardInv'
  <2>1. UNCHANGED <<capacity, sendVars, nextId, id, from, closed, chan, chanClosed, reader,
                    panicked, got>>
    BY <1>4 DEF ListenerClose
  <2>2. todo = {} /\ Len(log) \in Nat
    BY <1>4 DEF ListenerClose, MutexFree, Inv, SendInv, TypeInv, TypeOK
  <2> DEFINE removed == id[l] \in DOMAIN listeners
             r == listeners[id[l]]
  <2>3. /\ Joined' = Joined
        /\ \A k \in Listeners : Registered(k)' <=> Registered(k) /\ ~(removed /\ k = r)
    BY <1>4, RegisteredByClose
  <2>4. removed => r \in Listeners /\ Registered(r)
    BY DEF Inv, TypeInv, TypeOK, Registered
  <2>5. until' = IF removed THEN [until EXCEPT ![r] = Len(log)] ELSE until
    BY <1>4 DEF ListenerClose
  <2> HIDE DEF removed, r
  <2>6. ASSUME NEW k \in Listeners PROVE Sent(k)' = Sent(k)
    <3>1. CASE removed /\ k = r
      BY <2>1, <2>2, <2>3, <2>4, <2>5, <3>1 DEF Sent, Inv, TypeInv, TypeOK
    <3>2. CASE ~(removed /\ k = r)
      <4>1. until'[k] = until[k]
        BY <2>4, <2>5, <3>2 DEF Inv, TypeInv, TypeOK
      <4> QED
        BY <2>1, <2>2, <2>3, <3>2, <4>1 DEF Sent
    <3> QED
      BY <3>1, <3>2
  <2>7. ASSUME NEW k \in Listeners PROVE Hears(k, Sent(k))'
    BY <2>1, <2>6 DEF HeardInv, Hears
  <2>8. \A k \in Listeners \ Joined : until'[k] = until[k]
    BY <2>4, <2>5, RegisteredIs DEF Inv, TypeInv, TypeOK
  <2> QED
    BY <2>1, <2>3, <2>7, <2>8 DEF HeardInv
<1>5. ASSUME NEW l \in Listeners, Read(l) PROVE HeardInv'
  <2>1. UNCHANGED <<capacity, sendVars, listVars, closed, chanClosed, reader, panicked>>
    BY <1>5 DEF Read
  <2>2. /\ chan[l] # <<>> /\ chan'[l] = Tail(chan[l]) /\ got'[l] = Append(got[l], Head(chan[l]))
        /\ \A k \in Listeners \ {l} : chan'[k] = chan[k] /\ got'[k] = got[k]
    BY <1>5 DEF Read, Inv, TypeInv, TypeOK
  <2>3. \A k \in Listeners : Sent(k)' = Sent(k)
    BY <2>1 DEF Sent, Registered
  <2>4. l \in Joined
    BY <2>2 DEF HeardInv
  <2>5. Hears(l, Sent(l))'
    <3>1. Heard(log, from[l], got'[l], chan'[l], Sent(l))
      BY <2>2, Lengths, HeardRead DEF HeardInv, Hears
    <3> QED
      BY <2>1, <2>3, <3>1 DEF Hears
  <2>6. ASSUME NEW k \in Listeners, k # l PROVE Hears(k, Sent(k))'
    BY <2>1, <2>2, <2>3, <2>6 DEF HeardInv, Hears
  <2> QED
    BY <2>1, <2>2, <2>4, <2>5, <2>6 DEF HeardInv, Joined
<1>6. ASSUME UNCHANGED <<listeners, id, todo, log, from, until, got, chan>> PROVE HeardInv'
  BY <1>6 DEF HeardInv, Hears, Sent, Registered, Joined
<1>7. ASSUME NEW s \in Senders, SendPanics(s) \/ SendReturn(s) PROVE HeardInv'
  BY <1>6, <1>7 DEF SendPanics, SendReturn
<1>8. ASSUME NEW l \in Listeners, ReadEnd(l) \/ Quit(l) PROVE HeardInv'
  BY <1>6, <1>8 DEF ReadEnd, Quit
<1>9. CASE Close \/ UNCHANGED vars
  BY <1>6, <1>9 DEF Close, vars
<1> QED
  BY <1>1, <1>2, <1>3, <1>4, <1>5, <1>7, <1>8, <1>9 DEF Next, Sender, Sending, Reader

LEMMA HeardAlways == Spec => [](Inv /\ HeardInv)
<1> QED
  BY InvInit, InvStep, HeardInit, HeardStep, PTL DEF Spec

(* Between Sends, a registered listener has been given the log from where it joined, in order. *)
THEOREM AllHeard == Spec => []EveryListenerHearsAll
<1>1. Inv /\ HeardInv => EveryListenerHearsAll
  <2> SUFFICES ASSUME Inv, HeardInv, mutex = "free", NEW l \in Joined, Registered(l)
               PROVE  got[l] \o chan[l] = SubSeq(log, from[l] + 1, Len(log))
    BY DEF EveryListenerHearsAll
  <2>1. l \in Listeners
    BY DEF Joined
  <2>2. Sent(l) = Len(log)
    BY DEF Sent, Inv, SendInv
  <2>3. Heard(log, from[l], got[l], chan[l], Len(log))
    BY <2>1, <2>2 DEF HeardInv, Hears
  <2>4. /\ log \in Seq(Messages) /\ Len(log) \in Int /\ from[l] \in Nat
        /\ got[l] \in Seq(Messages) /\ chan[l] \in Seq(Messages)
    BY <2>1, Lengths
  <2> HIDE DEF Heard
  <2> QED
    BY ONLY <2>3, <2>4, HeardIs, ZenonT(120)
<1> QED
  BY <1>1, HeardAlways, PTL

-----------------------------------------------------------------------------
(* Who a Send hands its message to next, and that it is the last one of the log. *)
LEMMA Handed ==
  ASSUME Inv, NEW s \in Senders, SendNext(s)
  PROVE  \E r \in Listeners :
             /\ Registered(r) /\ Sent(r) = Len(log) - 1
             /\ \/ UNCHANGED got
                \/ chan[r] = <<>> /\ got' = [got EXCEPT ![r] = Append(@, log[Len(log)])]
<1>1. PICK i \in todo : \/ UNCHANGED got
                        \/ /\ capacity = 0
                           /\ got' = [got EXCEPT ![listeners[i]] = Append(@, <<s, sends[s]>>)]
  BY DEF SendNext
<1>2. PICK r \in Listeners : r = listeners[i]
  BY DEF Inv, TypeInv, TypeOK
<1>3. mutex = s /\ mutex # "free"
  BY SetsAssumption DEF SendNext
<1>4. log[Len(log)] = <<s, sends[s]>>
  BY <1>3 DEF Inv, SendInv
<1>5. id[r] = i /\ Registered(r)
  BY <1>2 DEF Inv, IdsInv, TypeInv, TypeOK, Registered
<1>6. Sent(r) = Len(log) - 1
  BY <1>5 DEF Sent
<1>7. capacity = 0 => chan[r] = <<>>
  BY DEF Inv, TypeInv, TypeOK
<1> QED
  BY <1>1, <1>2, <1>4, <1>5, <1>6, <1>7

LEMMA LogStep == Inv /\ HeardInv /\ [Next]_vars => [Log!LogNext]_(Log!logVars)
<1> SUFFICES ASSUME Inv, HeardInv, [Next]_vars PROVE [Log!LogNext]_(Log!logVars)
  OBVIOUS
<1> USE DEF sendVars, listVars, Log!LogNext
<1>0. UNCHANGED <<listeners, id>> => UNCHANGED member
  BY DEF member, Registered
<1>1. ASSUME NEW s \in Senders, SendLock(s) PROVE Log!Publish(<<s, sends[s] + 1>>)
  BY <1>0, <1>1 DEF SendLock, Log!Publish
<1>2. ASSUME NEW s \in Senders, SendLock(s) PROVE <<s, sends[s] + 1>> \in Messages
  <2>1. sends[s] \in 0..MaxSends /\ Len(log) \in Nat
    BY DEF Inv, TypeInv, TypeOK
  <2>2. sends[s] <= Len(log) /\ Len(log) < MaxSends
    BY <1>2 DEF SendLock, Inv, SendInv
  <2>3. sends[s] + 1 \in 1..MaxSends
    BY <2>1, <2>2, BoundsAssumption
  <2> QED
    BY <2>3 DEF Messages
<1>3. ASSUME NEW s \in Senders, SendNext(s)
      PROVE  UNCHANGED Log!logVars \/ \E r \in Listeners : Log!Receive(r)
  <2>1. PICK r \in Listeners :
             /\ Registered(r) /\ Sent(r) = Len(log) - 1
             /\ \/ UNCHANGED got
                \/ chan[r] = <<>> /\ got' = [got EXCEPT ![r] = Append(@, log[Len(log)])]
    BY <1>3, Handed
  <2>2. UNCHANGED <<log, member, from, until, closed>>
    BY <1>0, <1>3 DEF SendNext
  <2>3. CASE UNCHANGED got
    BY <2>2, <2>3 DEF Log!logVars
  <2>4. CASE chan[r] = <<>> /\ got' = [got EXCEPT ![r] = Append(@, log[Len(log)])]
    <3>1. member[r] = "on"
      BY <2>1, RegisteredIs DEF member, Joined
    <3>2. Heard(log, from[r], got[r], <<>>, Sent(r)) /\ Len(log) \in Nat
      BY <2>4, Lengths DEF HeardInv, Hears
    <3>3. from[r] + Len(got[r]) = Len(log) - 1
      BY <2>1, <3>2, Lengths, HeardNow
    <3>4. from[r] + Len(got[r]) < Len(log) /\ from[r] + Len(got[r]) + 1 = Len(log)
      BY <3>2, <3>3
    <3> QED
      BY <2>2, <2>4, <3>1, <3>4 DEF Log!Receive, Log!Position
  <2> QED
    BY <2>1, <2>3, <2>4
<1>4. ASSUME NEW s \in Senders, SendPanics(s) \/ SendReturn(s) PROVE UNCHANGED Log!logVars
  BY <1>0, <1>4 DEF SendPanics, SendReturn, Log!logVars
<1>5. ASSUME NEW l \in Listeners, Listen(l) PROVE Log!Join(l)
  <2>1. /\ Registered(l)' /\ Joined' = Joined \cup {l}
        /\ \A k \in Listeners \ {l} : Registered(k)' <=> Registered(k)
    BY <1>5, RegisteredByListen
  <2>2. id'[l] # -1 /\ \A k \in Listeners \ {l} : id'[k] = id[k]
    BY <1>5, <2>1 DEF Listen, Joined, Inv, TypeInv, TypeOK
  <2>3. member'[l] = "on" /\ \A k \in Listeners \ {l} : member'[k] = member[k]
    BY <2>1, <2>2 DEF member
  <2>4. member' = [member EXCEPT ![l] = "on"] /\ member[l] = "new"
    BY <1>5, <2>3 DEF member, Listen
  <2> QED
    BY <1>5, <2>4 DEF Listen, Log!Join
<1>6. ASSUME NEW l \in Listeners, ListenerClose(l)
      PROVE  UNCHANGED Log!logVars \/ \E r \in Listeners : Log!Leave(r)
  <2>1. UNCHANGED <<id, from, closed, log, got>>
    BY <1>6 DEF ListenerClose
  <2>2. CASE id[l] \notin DOMAIN listeners
    <3>1. \A k \in Listeners : Registered(k)' <=> Registered(k)
      BY <1>6, <2>2, RegisteredByClose
    <3>2. UNCHANGED member
      BY <2>1, <3>1 DEF member
    <3> QED
      BY <1>6, <2>1, <2>2, <3>2 DEF ListenerClose, Log!logVars
  <2>3. CASE id[l] \in DOMAIN listeners
    <3>1. PICK r \in Listeners : r = listeners[id[l]] /\ Registered(r)
      BY <2>3 DEF Inv, TypeInv, TypeOK, Registered
    <3>2. \A k \in Listeners : Registered(k)' <=> Registered(k) /\ k # r
      BY <1>6, <2>3, <3>1, RegisteredByClose
    <3>3. id[r] # -1
      BY <3>1, RegisteredIs DEF Joined
    <3>4. /\ member[r] = "on" /\ member'[r] = "off"
          /\ \A k \in Listeners \ {r} : member'[k] = member[k]
      BY <2>1, <3>1, <3>2, <3>3 DEF member
    <3>5. member' = [member EXCEPT ![r] = "off"]
      BY <3>4 DEF member
    <3> QED
      BY <1>6, <2>1, <2>3, <3>1, <3>4, <3>5 DEF ListenerClose, Log!Leave
  <2> QED
    BY <2>2, <2>3
<1>7. ASSUME NEW l \in Listeners, Read(l) PROVE Log!Receive(l)
  <2>1. /\ UNCHANGED <<log, member, from, until, closed>> /\ chan[l] # <<>>
        /\ got' = [got EXCEPT ![l] = Append(@, Head(chan[l]))]
    BY <1>0, <1>7 DEF Read
  <2>2. Heard(log, from[l], got[l], chan[l], Sent(l))
    BY DEF HeardInv, Hears
  <2>3. /\ Head(chan[l]) = log[from[l] + Len(got[l]) + 1]
        /\ from[l] + Len(got[l]) < Sent(l)
    BY <2>1, <2>2, Lengths, HeardRead
  <2>4. id[l] # -1
    BY <2>1 DEF HeardInv, Joined
  <2>5. Sent(l) <= Len(log) /\ Len(got[l]) \in Nat
    BY <2>2, Lengths DEF Heard
  <2>6. \/ member[l] = "on" /\ from[l] + Len(got[l]) < Len(log)
        \/ member[l] = "off" /\ from[l] + Len(got[l]) < until[l]
    <3>1. CASE Registered(l)
      <4>1. from[l] + Len(got[l]) < Len(log)
        BY <2>3, <2>5, Lengths
      <4> QED
        BY <2>4, <3>1, <4>1 DEF member
    <3>2. CASE ~Registered(l)
      BY <2>3, <2>4, <3>2 DEF member, Sent
    <3> QED
      BY <3>1, <3>2
  <2> QED
    BY <2>1, <2>3, <2>6 DEF Log!Receive, Log!Position
<1>8. ASSUME NEW l \in Listeners, ReadEnd(l) \/ Quit(l) PROVE UNCHANGED Log!logVars
  BY <1>0, <1>8 DEF ReadEnd, Quit, Log!logVars
<1>9. CASE Close
  BY <1>0, <1>9 DEF Close, Log!End
<1>10. CASE UNCHANGED vars
  BY <1>0, <1>10 DEF vars, Log!logVars
<1> QED
  BY <1>1, <1>2, <1>3, <1>4, <1>5, <1>6, <1>7, <1>8, <1>9, <1>10
     DEF Next, Sender, Sending, Reader

(***************************************************************************)
(* The broadcaster implements BroadcastLog: a Send takes effect for all    *)
(* listeners when it locks the mutex, and each of them receives the log    *)
(* without a gap from where it joined to where it left.                    *)
(***************************************************************************)
THEOREM Implements == Spec => IsALog
<1>1. Init => Log!LogInit
  BY DEF Init, Log!LogInit, member
<1> QED
  BY <1>1, LogStep, HeardAlways, PTL DEF Spec, IsALog, Log!LogSpec
=============================================================================
