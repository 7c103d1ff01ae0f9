--------------------------- MODULE MailboxProofs ---------------------------
(***************************************************************************)
(* For every expiry, every capacity and any number of readers: the mark    *)
(* that lets a sweep be skipped is never newer than what is queued, and a  *)
(* mailbox implements an Inbox.                                            *)
(***************************************************************************)
EXTENDS Mailbox, FiniteSetTheorems, WellFoundedInduction, TLAPS

\* Entries are numbered up to now, and one with a lower number is no younger.
Numbered ==
    /\ IsFiniteSet(queue)
    /\ \A m \in queue : m.n <= arrived /\ m.at <= clock
    /\ \A m, o \in queue : m.n <= o.n => m.at <= o.at

\* Only a mailbox that was taken away holds wake-ups.
WakesWhenRetired == \A m \in queue : m.kind = "wake" => retired

MarkIsPast == oldest # None => oldest <= clock

Inv == TypeOK /\ Numbered /\ WakesWhenRetired /\ MarkIsPast /\ MarkIsNeverNewer

Less == {p \in Nat \X Nat : p[1] < p[2]}

\* A set of numbers has a least one.
LEMMA NatMin == ASSUME NEW S \in SUBSET Nat, S # {} PROVE \E x \in S : \A y \in S : x <= y
<1>1. Less = OpToRel(<, Nat)
  BY Zenon DEF OpToRel, Less
<1>2. IsWellFoundedOn(Less, Nat)
  BY NatLessThanWellFounded, <1>1, Zenon
<1>3. PICK x \in S : \A y \in S : ~ (<<y, x>> \in Less)
  BY <1>2, WFMin, Zenon
<1>4. ASSUME NEW y \in S PROVE x <= y
  <2>1. x \in Nat /\ y \in Nat
    OBVIOUS
  <2>2. ~(<<y, x>> \in Less)
    BY <1>3
  <2>3. ~(y < x)
    BY <2>1, <2>2 DEF Less
  <2> QED BY <2>1, <2>3
<1> QED BY <1>4

\* The head of a queue is in it, before every other entry.
LEMMA FirstIsFirst ==
  ASSUME NEW q \in SUBSET Entries, q # {}
  PROVE  /\ First(q) \in q
         /\ \A o \in q : First(q).n <= o.n
<1> DEFINE ns == {m.n : m \in q}
<1>1. ns \in SUBSET Nat /\ ns # {}
  BY DEF Entries
<1>2. PICK k \in ns : \A y \in ns : k <= y
  BY <1>1, NatMin
<1>3. \E m \in q : \A o \in q : m.n <= o.n
  BY <1>2
<1> QED BY <1>3 DEF First

\* One wake-up for every reader, and no more.
LEMMA WakeUpsAreFinite ==
  ASSUME receivers \in Nat
  PROVE  IsFiniteSet(WakeUps)
<1> DEFINE f == [i \in 1..receivers |-> [n |-> arrived + i, at |-> clock, kind |-> "wake"]]
<1>1. f \in Surjection(1..receivers, WakeUps)
  BY DEF Surjection, WakeUps
<1>2. IsFiniteSet(1..receivers)
  BY FS_Interval
<1> QED BY <1>1, <1>2, FS_Surjection

\* A sweep drops expired entries only, and drops them all where it does not rely on the mark.
LEMMA SweptKeeps ==
  ASSUME Inv, NEW cap \in Capacities
  PROVE  /\ Swept(cap) \subseteq queue
         /\ \A m \in queue : ~Expired(m) => m \in Swept(cap)
         /\ IsFiniteSet(Swept(cap))
         /\ Cardinality(Swept(cap)) \in Nat
         /\ Cardinality(Swept(cap)) >= cap => \A m \in Swept(cap) : ~Expired(m)
<1> USE MailboxConstants DEF Inv
<1>1. Swept(cap) \subseteq queue /\ \A m \in queue : ~Expired(m) => m \in Swept(cap)
  BY DEF Swept
<1>2. IsFiniteSet(Swept(cap)) /\ Cardinality(Swept(cap)) \in Nat
  BY <1>1, FS_Subset, FS_CardinalityType DEF Numbered
<1>3. ASSUME Cardinality(Swept(cap)) >= cap, NEW m \in Swept(cap)
      PROVE  ~Expired(m)
  <2>1. CASE Cardinality(queue) < cap
    <3>1. Swept(cap) = queue
      BY <2>1 DEF Swept
    <3> QED BY <3>1, <2>1, <1>2, <1>3, cap \in Nat
  <2>2. CASE NothingToReclaim
    <3>1. oldest \in Nat /\ oldest <= m.at /\ clock - oldest <= Expiry /\ m.at \in Nat /\ clock \in Nat
      BY <1>1, <1>3, <2>2 DEF NothingToReclaim, MarkIsNeverNewer, TypeOK, Entries
    <3> QED BY <3>1 DEF Expired
  <2>3. CASE ~(Cardinality(queue) < cap \/ NothingToReclaim)
    BY <2>3, <1>3 DEF Swept
  <2> QED BY <2>1, <2>2, <2>3
<1> QED BY <1>1, <1>2, <1>3

-----------------------------------------------------------------------------
(* The inductive invariant. *)

\* Initially the queue is empty.
LEMMA InitInv == Init => Inv
<1>1. IsFiniteSet({})
  BY FS_EmptySet
<1>2. ASSUME Init PROVE TypeOK
  BY <1>2 DEF Init, TypeOK
<1>3. ASSUME Init PROVE Numbered
  BY <1>1, <1>3 DEF Init, Numbered
<1>4. ASSUME Init PROVE WakesWhenRetired /\ MarkIsPast /\ MarkIsNeverNewer
  BY <1>4 DEF Init, WakesWhenRetired, MarkIsPast, MarkIsNeverNewer
<1> QED BY <1>2, <1>3, <1>4 DEF Inv

\* A new entry is numbered last and no older than any; a sweep that ran sets the mark anew.
LEMMA EnqueueKeeps ==
  ASSUME Inv, NEW kind \in Kinds, NEW cap \in Capacities, Enqueue(kind, cap)
  PROVE  Inv'
<1> USE MailboxConstants DEF Inv
<1> DEFINE e == [n |-> arrived + 1, at |-> clock, kind |-> kind]
<1>1. /\ Swept(cap) \subseteq queue
      /\ IsFiniteSet(Swept(cap))
  BY SweptKeeps
<1>2. /\ e \in Entries /\ e.kind # "wake"
      /\ IsFiniteSet(Swept(cap) \cup {e})
  <2>1. kind \in {"message", "unreadable"}
    OBVIOUS
  <2>2. e \in Entries /\ e.kind # "wake"
    BY <2>1 DEF TypeOK, Entries
  <2>3. IsFiniteSet(Swept(cap) \cup {e})
    BY <1>1, FS_AddElement
  <2> QED BY <2>2, <2>3
<1>3. queue' \subseteq Swept(cap) \cup {e} /\ IsFiniteSet(queue')
  BY <1>1, <1>2 DEF Enqueue
<1>4. \A m \in queue : m.n \in Nat /\ m.at \in Nat
  BY DEF TypeOK, Entries
<1>5. \/ oldest' = oldest
      \/ oldest' = Mark(Swept(cap))
  BY DEF Enqueue
<1>6. \/ Mark(Swept(cap)) = None /\ Swept(cap) = {}
      \/ /\ Mark(Swept(cap)) \in Nat /\ Mark(Swept(cap)) <= clock
         /\ \A m \in Swept(cap) : Mark(Swept(cap)) <= m.at
  <2>1. CASE Swept(cap) = {}
    BY <2>1 DEF Mark
  <2>2. CASE Swept(cap) # {}
    <3>1. /\ First(Swept(cap)) \in Swept(cap)
          /\ \A o \in Swept(cap) : First(Swept(cap)).n <= o.n
      BY <2>2, <1>1, FirstIsFirst DEF TypeOK
    <3>2. Mark(Swept(cap)) = First(Swept(cap)).at
      BY <2>2 DEF Mark
    <3> QED BY <3>1, <3>2, <1>1, <1>4 DEF Numbered
  <2> QED BY <2>1, <2>2
<1>7. TypeOK'
  <2>1. oldest' \in Nat \cup {None}
    BY <1>5, <1>6 DEF TypeOK
  <2>2. queue' \subseteq Entries
    BY <1>1, <1>2, <1>3 DEF TypeOK
  <2> QED BY <2>1, <2>2 DEF Enqueue, TypeOK
<1>8. Numbered'
  BY <1>1, <1>3, <1>4 DEF Enqueue, TypeOK, Numbered
<1>9. WakesWhenRetired'
  BY <1>1, <1>2, <1>3 DEF Enqueue, WakesWhenRetired
<1>10. MarkIsPast'
  BY <1>5, <1>6 DEF Enqueue, MarkIsPast
<1>11. MarkIsNeverNewer'
  <2> SUFFICES ASSUME oldest' # None, NEW m \in queue' PROVE oldest' <= m.at
    BY DEF MarkIsNeverNewer
  <2>1. CASE m = e
    BY <2>1, <1>5, <1>6 DEF MarkIsPast
  <2>2. CASE m \in Swept(cap)
    BY <2>2, <1>1, <1>5, <1>6 DEF MarkIsNeverNewer
  <2> QED BY <2>1, <2>2, <1>3
<1> QED BY <1>7, <1>8, <1>9, <1>10, <1>11

\* Taking the first entry leaves the rest as it was.
LEMMA GetKeeps ==
  ASSUME Inv, Get
  PROVE  Inv'
<1> USE MailboxConstants DEF Inv
<1>1. First(queue) \in queue
  BY FirstIsFirst DEF Get, TypeOK
<1>2. queue' \subseteq queue /\ IsFiniteSet(queue')
  BY FS_RemoveElement DEF Get, Numbered
<1>3. TypeOK'
  BY <1>1, <1>2 DEF Get, AfterContinue, TypeOK, Entries
<1>4. Numbered' /\ WakesWhenRetired' /\ MarkIsPast' /\ MarkIsNeverNewer'
  BY <1>2 DEF Get, Numbered, WakesWhenRetired, MarkIsPast, MarkIsNeverNewer
<1> QED BY <1>3, <1>4

\* Wake-ups are numbered last, in a mailbox that is retired from then on.
LEMMA RetireKeeps ==
  ASSUME Inv, Retire
  PROVE  Inv'
<1> USE MailboxConstants DEF Inv
<1>1. /\ \A m \in WakeUps : m \in Entries /\ m.n > arrived /\ m.n <= arrived' /\ m.at = clock
      /\ IsFiniteSet(queue')
  <2>1. IsFiniteSet(WakeUps)
    BY WakeUpsAreFinite DEF TypeOK
  <2>2. IsFiniteSet(queue')
    BY <2>1, FS_Union DEF Retire, Numbered
  <2>3. \A m \in WakeUps : m \in Entries /\ m.n > arrived /\ m.n <= arrived' /\ m.at = clock
    BY DEF Retire, WakeUps, TypeOK, Entries
  <2> QED BY <2>2, <2>3
<1>2. \A m \in queue : m.n \in Nat /\ m.at \in Nat
  BY DEF TypeOK, Entries
<1>3. TypeOK'
  BY <1>1 DEF Retire, TypeOK
<1>4. Numbered'
  <2>1. \A m \in queue' : m \in queue \/ m \in WakeUps
    BY DEF Retire
  <2>2. \A m \in queue : m.n <= arrived /\ m.n <= arrived' /\ m.at <= clock
    BY <1>2 DEF Retire, TypeOK, Numbered
  <2>3. \A m \in WakeUps : m.n \in Nat /\ m.at = clock /\ clock \in Nat
    BY <1>1 DEF TypeOK, Entries
  <2>4. \A m, o \in queue' : m.n <= o.n => m.at <= o.at
    BY <1>1, <1>2, <2>1, <2>2, <2>3 DEF TypeOK, Numbered
  <2> QED BY <1>1, <2>1, <2>2, <2>3, <2>4 DEF Retire, Numbered
<1>5. WakesWhenRetired' /\ MarkIsPast' /\ MarkIsNeverNewer'
  BY <1>1 DEF Retire, WakesWhenRetired, MarkIsPast, MarkIsNeverNewer
<1> QED BY <1>3, <1>4, <1>5

\* Every step keeps the mark no newer than what is queued.
LEMMA NextKeeps == Inv /\ [Next]_vars => Inv'
<1> SUFFICES ASSUME Inv, [Next]_vars PROVE Inv'
  OBVIOUS
<1>1. CASE Receive \/ Cancelled
  BY <1>1 DEF Receive, Cancelled, Inv, TypeOK, Numbered, WakesWhenRetired, MarkIsPast, MarkIsNeverNewer
<1>2. CASE Tick
  <2>1. \A m \in queue : m.at \in Nat
    BY DEF Inv, TypeOK, Entries
  <2> QED BY <1>2, <2>1, MailboxConstants
          DEF Tick, Inv, TypeOK, Numbered, WakesWhenRetired, MarkIsPast, MarkIsNeverNewer
<1>3. CASE UNCHANGED vars
  BY <1>3 DEF vars, Inv, TypeOK, Numbered, WakesWhenRetired, MarkIsPast, MarkIsNeverNewer, Entries
<1> QED BY <1>1, <1>2, <1>3, EnqueueKeeps, GetKeeps, RetireKeeps DEF Next

\* The counts and the mark keep their types: no reader is counted down that was not counted.
THEOREM MailboxTyped == Spec => []TypeOK
<1>1. Inv => TypeOK
  BY DEF Inv
<1> QED BY <1>1, InitInv, NextKeeps, PTL DEF Spec

\* The mark kept to skip sweeps is never newer than a queued entry, so no sweep is skipped
\* that had something to reclaim.
THEOREM MarkHolds == Spec => []MarkIsNeverNewer
<1>1. Inv => MarkIsNeverNewer
  BY DEF Inv
<1> QED BY <1>1, InitInv, NextKeeps, PTL DEF Spec

-----------------------------------------------------------------------------
(* A mailbox implements an Inbox. *)

\* An empty mailbox is an empty inbox.
LEMMA InitRefines == Init => Promise!Init
  BY DEF Init, Held, Promise!Init

\* The inbox counts as the mailbox does.
LEMMA SameCount == \A S : Promise!Cardinality(S) = Cardinality(S)
  BY Zenon DEF Cardinality, Promise!Cardinality

\* A message is accepted where it finds room, and turned away only by unexpired ones.
LEMMA EnqueueRefines ==
  ASSUME Inv, NEW kind \in Kinds, NEW cap \in Capacities, Enqueue(kind, cap)
  PROVE  Promise!Next
<1> USE MailboxConstants DEF Inv
<1> DEFINE e == [n |-> arrived + 1, at |-> clock, kind |-> kind]
<1>1. /\ Swept(cap) \subseteq queue
      /\ \A m \in queue : ~Expired(m) => m \in Swept(cap)
      /\ IsFiniteSet(Swept(cap))
      /\ Cardinality(Swept(cap)) \in Nat
      /\ Cardinality(Swept(cap)) >= cap => \A m \in Swept(cap) : ~Expired(m)
  BY SweptKeeps
<1>2. clock' = clock /\ \A m : Expired(m)' = Expired(m)
  BY DEF Enqueue, Expired
<1>3. kind # "wake" /\ kind \in {"message", "unreadable"} /\ ~Expired(e)
  BY DEF Expired, TypeOK
<1>4. CASE Cardinality(Swept(cap)) >= cap /\ queue' = Swept(cap) /\ dropped' = dropped + 1
  <2>1. Held' = Held
    BY <1>1, <1>2, <1>4 DEF Held
  <2>2. ~retired => Held = Swept(cap)
    BY <1>1, <1>4 DEF Held, WakesWhenRetired
  <2>3. Cardinality(Held) >= cap \/ retired
    BY <2>2, <1>4
  <2>4. Promise!TurnAway(cap)
    BY <2>1, <2>3, <1>4, SameCount DEF Enqueue, Promise!TurnAway
  <2> QED BY <2>4 DEF Promise!Next
<1>5. CASE Cardinality(Swept(cap)) < cap /\ queue' = Swept(cap) \cup {e} /\ dropped' = 0
  <2>1. Held' = Held \cup {e}
    BY <1>1, <1>2, <1>3, <1>5 DEF Held
  <2>2. Held \subseteq Swept(cap)
    BY <1>1 DEF Held
  <2>3. Cardinality(Held) \in Nat /\ Cardinality(Held) <= Cardinality(Swept(cap))
    BY <2>2, <1>1, FS_Subset, FS_CardinalityType
  <2>4. cap \in Nat
    OBVIOUS
  <2>5. Cardinality(Held) < cap
    BY <2>3, <2>4, <1>1, <1>5
  <2>6. Promise!Accept(cap, kind)
    BY <2>1, <2>5, <1>5, SameCount DEF Enqueue, Promise!Accept
  <2> QED BY <2>6, <1>3 DEF Promise!Next
<1> QED BY <1>4, <1>5 DEF Enqueue

\* What receive() returns is the oldest message that is not expired.
LEMMA GetRefines ==
  ASSUME Inv, Get
  PROVE  Promise!Next \/ UNCHANGED Promise!vars
<1> USE DEF Inv
<1> DEFINE m == First(queue)
<1>1. m \in queue /\ \A o \in queue : m.n <= o.n
  BY FirstIsFirst DEF Get, TypeOK
<1>2. clock' = clock /\ \A o : Expired(o)' = Expired(o)
  BY DEF Get, Expired
<1>3. queue' = queue \ {m}
  BY DEF Get
<1>4. CASE Expired(m) \/ m.kind = "wake"
  <2>1. Held' = Held
    BY <1>2, <1>3, <1>4 DEF Held
  <2>2. UNCHANGED <<clock, arrived, dropped, given, retired>>
    BY <1>4 DEF Get
  <2> QED BY <2>1, <2>2 DEF Promise!vars
<1>5. CASE ~Expired(m) /\ m.kind # "wake"
  <2>1. m \in Held /\ Promise!IsOldest(m, Held)
    BY <1>1, <1>5 DEF Held, Promise!IsOldest
  <2>2. Held' = Held \ {m}
    BY <1>2, <1>3 DEF Held
  <2>3. given' = IF m.kind = "message" THEN m.n ELSE given
    BY <1>5 DEF Get
  <2>4. Promise!Give
    BY <2>1, <2>2, <2>3 DEF Get, Promise!Give
  <2> QED BY <2>4 DEF Promise!Next
<1> QED BY <1>4, <1>5

\* A step of the mailbox is a step of the inbox or none.
LEMMA StepRefines == Inv /\ [Next]_vars => [Promise!Next]_(Promise!vars)
<1> SUFFICES ASSUME Inv, [Next]_vars PROVE Promise!Next \/ UNCHANGED Promise!vars
  OBVIOUS
<1>1. CASE Receive \/ Cancelled \/ UNCHANGED vars
  BY <1>1 DEF Receive, Cancelled, vars, Promise!vars, Held, Expired
<1>2. CASE Retire
  <2>1. Held' = Held
    BY <1>2 DEF Retire, WakeUps, Held, Expired
  <2>2. arrived' \in Nat /\ arrived' >= arrived
    BY <1>2 DEF Retire, Inv, TypeOK
  <2>3. Promise!Retire
    BY <1>2, <2>1, <2>2 DEF Retire, Promise!Retire
  <2> QED BY <2>3 DEF Promise!Next
<1>3. CASE Tick
  <2>1. \A m \in queue : m.at \in Nat
    BY DEF Inv, TypeOK, Entries
  <2>2. Held' = Promise!Unexpired(Held, clock + 1)
    BY <1>3, <2>1, MailboxConstants DEF Tick, Held, Expired, Promise!Unexpired, Inv, TypeOK
  <2>3. Promise!Tick
    BY <1>3, <2>2 DEF Tick, Promise!Tick
  <2> QED BY <2>3 DEF Promise!Next
<1> QED BY <1>1, <1>2, <1>3, EnqueueRefines, GetRefines DEF Next

\* A mailbox with its sweeps, its mark and its wake-ups is an Inbox: it refuses room only
\* for unexpired messages and gives them out in order.
THEOREM MailboxIsAnInbox == Spec => IsAnInbox
  BY InitInv, NextKeeps, InitRefines, StepRefines, PTL DEF Spec, IsAnInbox, Promise!Spec
=============================================================================
