------------------------------- MODULE TurnLog -------------------------------
(***************************************************************************)
(* What the fire-and-forget turn pipeline promises its clients, free of    *)
(* connections, tasks, polling and SQL: every turn is an append-only log   *)
(* that is written while the turn is open and never once it is sealed; a   *)
(* subscriber receives the log from the position it asked for, in order,   *)
(* each entry once, and its stream is closed only when a sealed log has    *)
(* been delivered to the end.                                              *)
(***************************************************************************)
EXTENDS Integers, Sequences

CONSTANTS
    Turn,       \* turn identifiers
    Reader,     \* subscribers (one HTTP response each)
    StartAt     \* the positions a subscriber may ask to start after

VARIABLES
    phase,      \* phase[t]: "absent", "open" or "sealed"
    log,        \* log[t]: the positions written so far, a finite set of Nat
    sub,        \* sub[r]: [state, turn, start] of a subscriber
    got         \* got[r]: the positions delivered to r, in delivery order

vars == <<phase, log, sub, got>>

Delivered(r) == {got[r][n] : n \in 1 .. Len(got[r])}

Owed(r) == {s \in log[sub[r].turn] : s > sub[r].start} \ Delivered(r)

Init ==
    /\ phase = [t \in Turn |-> "absent"]
    /\ log = [t \in Turn |-> {}]
    /\ sub = [r \in Reader |-> [state |-> "off", turn |-> 0, start |-> 0]]
    /\ got = [r \in Reader |-> <<>>]

\* A subscriber joins a turn that exists, from position p on.
JoinAs(r, t, p) ==
    /\ sub[r].state = "off"
    /\ sub' = [sub EXCEPT ![r] = [state |-> "on", turn |-> t, start |-> p]]
    /\ UNCHANGED got

\* A turn is opened for the subscriber that asked for it.
OpenFor(r, t) ==
    /\ phase[t] = "absent"
    /\ phase' = [phase EXCEPT ![t] = "open"]
    /\ JoinAs(r, t, 0)
    /\ UNCHANGED log

\* A turn is opened and whoever asked for it is not told.
Open(t) ==
    /\ phase[t] = "absent"
    /\ phase' = [phase EXCEPT ![t] = "open"]
    /\ UNCHANGED <<log, sub, got>>

Join(r, t) ==
    /\ phase[t] = "open"
    /\ \E p \in StartAt : JoinAs(r, t, p)
    /\ UNCHANGED <<phase, log>>

\* Positions only grow, and only while the turn is open.
Write(t) ==
    /\ phase[t] = "open"
    /\ \E s \in log'[t] :
          /\ \A e \in log[t] : e < s
          /\ log' = [log EXCEPT ![t] = @ \cup {s}]
    /\ UNCHANGED <<phase, sub, got>>

Seal(T) ==
    /\ \A t \in T : phase[t] = "open"
    /\ phase' = [t \in Turn |-> IF t \in T THEN "sealed" ELSE phase[t]]
    /\ UNCHANGED <<log, sub, got>>

\* The least position still owed is delivered next.
Deliver(r) ==
    /\ sub[r].state = "on"
    /\ \E s \in Owed(r) :
          /\ \A e \in Owed(r) : s <= e
          /\ got' = [got EXCEPT ![r] = Append(@, s)]
    /\ UNCHANGED <<phase, log, sub>>

\* A stream ends normally only when nothing is, or ever will be, owed.
Close(r) ==
    /\ sub[r].state = "on"
    /\ phase[sub[r].turn] = "sealed"
    /\ Owed(r) = {}
    /\ sub' = [sub EXCEPT ![r].state = "closed"]
    /\ UNCHANGED <<phase, log, got>>

\* Connections are lost: the client leaves, or its server stops.
Drop(R) ==
    /\ \A r \in R : sub[r].state = "on"
    /\ sub' = [r \in Reader |->
                  IF r \in R THEN [sub[r] EXCEPT !.state = "dropped"] ELSE sub[r]]
    /\ UNCHANGED <<phase, log, got>>

Next ==
    \/ \E r \in Reader, t \in Turn : OpenFor(r, t) \/ Join(r, t)
    \/ \E t \in Turn : Open(t) \/ Write(t)
    \/ \E T \in SUBSET Turn : Seal(T)
    \/ \E r \in Reader : Deliver(r) \/ Close(r)
    \/ \E R \in SUBSET Reader : Drop(R)

Spec == Init /\ [][Next]_vars
=============================================================================
