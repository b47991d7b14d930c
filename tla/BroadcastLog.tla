---------------------------- MODULE BroadcastLog ----------------------------
(***************************************************************************)
(* What a broadcaster promises: one log of messages.  A listener reads the *)
(* log in order from where it joined, without gaps, up to where it left.   *)
(***************************************************************************)
EXTENDS Integers, Sequences

CONSTANTS Listeners, Messages

VARIABLES
    log,     \* the messages sent so far, in one order for everybody
    member,  \* "new", "on" or "off" for each listener
    from,    \* the length of the log when the listener joined
    until,   \* and when it left
    got,     \* what each listener has received
    ended    \* the broadcaster is closed
logVars == <<log, member, from, until, got, ended>>

LogInit ==
    /\ log = <<>> /\ ended = FALSE
    /\ member = [l \in Listeners |-> "new"]
    /\ from = [l \in Listeners |-> 0] /\ until = [l \in Listeners |-> 0]
    /\ got = [l \in Listeners |-> <<>>]

Publish(m) ==
    /\ ~ended
    /\ log' = Append(log, m)
    /\ UNCHANGED <<member, from, until, got, ended>>

Join(l) ==
    /\ member[l] = "new"
    /\ member' = [member EXCEPT ![l] = "on"]
    /\ from' = [from EXCEPT ![l] = Len(log)]
    /\ UNCHANGED <<log, until, got, ended>>

Leave(l) ==
    /\ member[l] = "on"
    /\ member' = [member EXCEPT ![l] = "off"]
    /\ until' = [until EXCEPT ![l] = Len(log)]
    /\ UNCHANGED <<log, from, got, ended>>

Position(l) == from[l] + Len(got[l])

Receive(l) ==
    /\ \/ member[l] = "on" /\ Position(l) < Len(log)
       \/ member[l] = "off" /\ Position(l) < until[l]
    /\ got' = [got EXCEPT ![l] = Append(@, log[Position(l) + 1])]
    /\ UNCHANGED <<log, member, from, until, ended>>

End ==
    /\ ~ended
    /\ ended' = TRUE
    /\ UNCHANGED <<log, member, from, until, got>>

LogNext ==
    \/ \E m \in Messages : Publish(m)
    \/ \E l \in Listeners : Join(l) \/ Leave(l) \/ Receive(l)
    \/ End

LogSpec == LogInit /\ [][LogNext]_logVars
=============================================================================
