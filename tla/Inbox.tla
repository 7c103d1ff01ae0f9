------------------------------- MODULE Inbox -------------------------------
(***************************************************************************)
(* What a mailbox promises: messages that have waited longer than Expiry   *)
(* take no room and are never given out, the rest come out in the order    *)
(* they came in, and a message is turned away only when as many unexpired  *)
(* ones are held as its channel's capacity allows.                         *)
(*                                                                         *)
(* Messages are numbered in order of arrival, so a queue is a set of them. *)
(***************************************************************************)
EXTENDS Integers, FiniteSets

CONSTANTS Expiry,        \* how long a message may wait
          Capacities     \* get_capacity() of the names a mailbox takes messages for

VARIABLES clock,      \* time.monotonic()
          arrived,    \* messages so far
          inbox,      \* the ones held
          turnedAway, \* messages turned away since one was last accepted
          given,      \* the last one receive() returned
          retired     \* flush() or close() has taken the mailbox away

Unexpired(ms, t) == {m \in ms : t - m.at <= Expiry}
IsOldest(m, ms) == m \in ms /\ \A o \in ms : m.n <= o.n

Init ==
    /\ clock = 0
    /\ arrived = 0
    /\ inbox = {}
    /\ turnedAway = 0
    /\ given = 0
    /\ retired = FALSE

Tick ==
    /\ clock' = clock + 1
    /\ inbox' = Unexpired(inbox, clock + 1)
    /\ UNCHANGED <<arrived, turnedAway, given, retired>>

Accept(cap, kind) ==
    /\ Cardinality(inbox) < cap
    /\ arrived' = arrived + 1
    /\ inbox' = inbox \cup {[n |-> arrived + 1, at |-> clock, kind |-> kind]}
    /\ turnedAway' = 0
    /\ UNCHANGED <<clock, given, retired>>

TurnAway(cap) ==
    /\ Cardinality(inbox) >= cap \/ retired
    /\ arrived' = arrived + 1
    /\ turnedAway' = turnedAway + 1
    /\ UNCHANGED <<clock, inbox, given, retired>>

\* A message nobody can read is dropped where it would have been returned.
Give ==
    /\ \E m \in inbox :
          /\ IsOldest(m, inbox)
          /\ inbox' = inbox \ {m}
          /\ given' = IF m.kind = "message" THEN m.n ELSE given
    /\ UNCHANGED <<clock, arrived, turnedAway, retired>>

Retire ==
    /\ retired' = TRUE
    /\ arrived' \in Nat /\ arrived' >= arrived      \* wake-ups are numbered too
    /\ UNCHANGED <<clock, inbox, turnedAway, given>>

Next ==
    \/ Tick
    \/ \E cap \in Capacities : TurnAway(cap) \/ \E kind \in {"message", "unreadable"} : Accept(cap, kind)
    \/ Give
    \/ Retire

vars == <<clock, arrived, inbox, turnedAway, given, retired>>
Spec == Init /\ [][Next]_vars
=============================================================================
