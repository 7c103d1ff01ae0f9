------------------------------ MODULE Mailbox ------------------------------
(***************************************************************************)
(* One `_Mailbox`: the queue deliver callbacks file messages in            *)
(* (`_enqueue`), the sweep that reclaims the room expired messages take    *)
(* (`_drop_expired`) with the mark that lets it be skipped, the loop of    *)
(* receive() that takes them out, and the wake-ups put in when flush() or  *)
(* close() takes the mailbox away.                                         *)
(*                                                                         *)
(* Entries are numbered in order of arrival, so the queue is a set.        *)
(***************************************************************************)
EXTENDS Integers, FiniteSets

CONSTANTS Expiry, Capacities,
          None,
          Kinds,        \* what arrives: "message", "unreadable"
          MaxReaders,   \* bound on the reads waiting at once
          MaxArrivals,  \* bound on the messages that arrive
          MaxClock      \* bound on the clock

ASSUME MailboxConstants ==
    /\ Expiry \in Nat
    /\ Capacities \subseteq Nat
    /\ None \notin Nat
    /\ Kinds \subseteq {"message", "unreadable"}

VARIABLES clock,
          arrived,    \* entries numbered so far
          queue,      \* box.queue
          oldest,     \* box.oldest_at
          dropped,    \* box.dropped
          receivers,  \* box.receivers: reads waiting on the queue
          retired,    \* box.superseded or box.closed
          given,      \* history: the last message receive() returned
          bad         \* state.bad_frames

vars == <<clock, arrived, queue, oldest, dropped, receivers, retired, given, bad>>

Entries == [n : Nat, at : Nat, kind : {"message", "unreadable", "wake"}]
Expired(m) == clock - m.at > Expiry
First(q) == CHOOSE m \in q : \A o \in q : m.n <= o.n

TypeOK ==
    /\ clock \in Nat /\ arrived \in Nat /\ dropped \in Nat /\ bad \in Nat /\ given \in Nat
    /\ receivers \in Nat
    /\ queue \subseteq Entries
    /\ oldest \in Nat \cup {None}
    /\ retired \in BOOLEAN

Init ==
    /\ clock = 0 /\ arrived = 0 /\ dropped = 0 /\ bad = 0 /\ given = 0
    /\ receivers = 0
    /\ queue = {}
    /\ oldest = None
    /\ retired = FALSE

-----------------------------------------------------------------------------
(* _enqueue() *)

\* The mark taken from the newest entry kept (variant with a bug).
MarkOfNewest(kept) == IF kept = {} THEN None ELSE (CHOOSE m \in kept : \A o \in kept : o.n <= m.n).at

\* The mark a sweep leaves: when the oldest entry it kept arrived.
Mark(kept) == IF kept = {} THEN None ELSE First(kept).at

\* The mark trusted for ever (variant with a bug).
MarkTrusted == oldest # None

\* While the oldest arrival is inside expiry nothing can be reclaimed.
NothingToReclaim == oldest # None /\ clock - oldest <= Expiry

\* What _drop_expired() leaves of the queue, when a message for cap finds it full.
Swept(cap) ==
    IF Cardinality(queue) < cap \/ NothingToReclaim THEN queue
    ELSE {m \in queue : ~Expired(m)}

Enqueue(kind, cap) ==
    /\ arrived < MaxArrivals
    /\ arrived' = arrived + 1
    /\ oldest' = IF Cardinality(queue) < cap \/ NothingToReclaim THEN oldest ELSE Mark(Swept(cap))
    /\ \/ /\ Cardinality(Swept(cap)) >= cap
          /\ queue' = Swept(cap)
          /\ dropped' = dropped + 1
       \/ /\ Cardinality(Swept(cap)) < cap
          /\ queue' = Swept(cap) \cup {[n |-> arrived + 1, at |-> clock, kind |-> kind]}
          /\ dropped' = 0
    /\ UNCHANGED <<clock, receivers, retired, given, bad>>

-----------------------------------------------------------------------------
(* receive() *)

\* A read starts to wait.
Receive ==
    /\ ~retired
    /\ receivers < MaxReaders
    /\ receivers' = receivers + 1
    /\ UNCHANGED <<clock, arrived, queue, oldest, dropped, retired, given, bad>>

Cancelled ==
    /\ receivers > 0
    /\ receivers' = receivers - 1
    /\ UNCHANGED <<clock, arrived, queue, oldest, dropped, retired, given, bad>>

\* A read counted down where it moves and again where it ends (variant with a bug).
CountedDownTwice == IF retired THEN receivers - 2 ELSE receivers

\* Back at the top of the loop: a mailbox that was taken away is left, for the one that
\* replaces it or with ChannelLayerClosed.
AfterContinue == IF retired THEN receivers - 1 ELSE receivers

\* One entry comes off the queue.  A wake-up is decoded like any frame, and cannot be.
Get ==
    /\ receivers > 0
    /\ queue # {}
    /\ LET m == First(queue) IN
       /\ queue' = queue \ {m}
       /\ \/ /\ Expired(m)
             /\ receivers' = AfterContinue
             /\ UNCHANGED <<given, bad>>
          \/ /\ ~Expired(m) /\ m.kind = "message"
             /\ receivers' = receivers - 1
             /\ given' = m.n
             /\ UNCHANGED bad
          \/ /\ ~Expired(m) /\ m.kind # "message"
             /\ receivers' = AfterContinue
             /\ bad' = bad + 1
             /\ UNCHANGED given
    /\ UNCHANGED <<clock, arrived, oldest, dropped, retired>>

-----------------------------------------------------------------------------

\* One reader forgotten (variant with a bug).
WakeAllButOne == {[n |-> arrived + i, at |-> clock, kind |-> "wake"] : i \in 1..(receivers - 1)}

\* One wake-up per reader.
WakeUps == {[n |-> arrived + i, at |-> clock, kind |-> "wake"] : i \in 1..receivers}

\* flush() or close() takes the mailbox away.
Retire ==
    /\ ~retired
    /\ retired' = TRUE
    /\ queue' = queue \cup WakeUps
    /\ arrived' = arrived + receivers
    /\ UNCHANGED <<clock, oldest, dropped, receivers, given, bad>>

\* A reader woken because its mailbox was taken away runs before any later timer.
Tick ==
    /\ clock < MaxClock
    /\ ~(retired /\ receivers > 0 /\ queue # {})
    /\ clock' = clock + 1
    /\ UNCHANGED <<arrived, queue, oldest, dropped, receivers, retired, given, bad>>

Next ==
    \/ \E kind \in Kinds, cap \in Capacities : Enqueue(kind, cap)
    \/ Receive \/ Cancelled \/ Get
    \/ Retire
    \/ Tick

Spec == Init /\ [][Next]_vars
FairSpec == Spec /\ WF_vars(Get)

-----------------------------------------------------------------------------
(* What must hold. *)

\* "The mark can only be older than the true oldest, never newer": so a sweep is never
\* skipped that had something to reclaim.
MarkIsNeverNewer == oldest # None => \A m \in queue : oldest <= m.at

\* The messages that count.
Held == {m \in queue : m.kind # "wake" /\ ~Expired(m)}
Promise == INSTANCE Inbox WITH inbox <- Held, turnedAway <- dropped

\* The queue with its sweeps and its mark is an Inbox: room is refused only for unexpired
\* messages, and what receive() returns is the oldest of those.
IsAnInbox == Promise!Spec

\* A read waiting on a mailbox that is taken away does not wait for ever.
RetiredIsLeft == retired ~> receivers = 0
=============================================================================
