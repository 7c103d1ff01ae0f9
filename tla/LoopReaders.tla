---------------------------- MODULE LoopReaders ----------------------------
(***************************************************************************)
(* For any tasks, channels and groups: the mailboxes calls wait for, read  *)
(* and are handed.  Reads are counted and fed, what is handed out is fed,  *)
(* and members of groups keep their mailboxes.                             *)
(***************************************************************************)
EXTENDS LoopOwners, FiniteSetTheorems

\* Only receive() reads, its read ends with it, and it is counted.
ReadOnly(t) == task[t].rd # None => task[t].op = "receive" /\ task[t].pc \notin {"idle", "handed"}
Counts == ReceiversAreCounted /\ \A t \in Tasks : ReadOnly(t)

\* What is ready was made, and mailbox_grace passes only over what is ready.
BoxOK(x) == /\ x.aged => x.ready
            /\ x.subscribed => x.ready
            /\ x.wakes \in Nat
BoxesOK == \A b \in BoxIds : BoxOK(box[b]) /\ (b \notin BoxRefs => box[b] = NewBox)

\* flush() leaves nothing it superseded in a table.
TabledOK == \A c \in Channels : mailboxes[c] # None => ~box[mailboxes[c]].superseded

\* ... nor anything superseded before it has run.
TakenOK == \A b \in BoxIds : box[b].superseded => generation # 0

\* The mailbox a call waits for is its channel's, unless flush() took it away.
WaiterOK(t) ==
    task[t].pc = "ready" =>
        LET b == task[t].bx IN
        /\ ~box[b].ready => mailboxes[task[t].ch] = b \/ \A c \in Channels : mailboxes[c] # b
        /\ box[b].ready /\ box[b].subscribed =>
              \/ mailboxes[task[t].ch] = b /\ ~box[b].aged
              \/ box[b].superseded

\* The mailbox being made is its channel's until flush() comes.
KeptByMaker(t) ==
    task[t].pc \in {"sub", "conf"} /\ task[t].gen = generation => mailboxes[task[t].ch] = task[t].bx

\* A read is on its channel's mailbox, or flush() took its mailbox away.
ReadingOK(t) ==
    task[t].rd # None =>
        \/ box[task[t].rd].superseded
        \/ task[t].pc = "get" /\ mailboxes[task[t].ch] = task[t].rd

WaitOK(t) == WaiterOK(t) /\ KeptByMaker(t) /\ ReadingOK(t)
WaitsOK == \A t \in Tasks : WaitOK(t)

\* The reads that wait for an entry of b.
Reading(b) == {t \in Tasks : task[t].pc = "get" /\ task[t].rd = b}

\* Every such read of a mailbox flush() took away has an entry coming.
WokenOK == \A b \in BoxIds : box[b].superseded => Cardinality(Reading(b)) <= box[b].msgs + box[b].wakes

Reads == Counts /\ BoxesOK /\ TabledOK /\ TakenOK /\ WaitsOK /\ WokenOK

-----------------------------------------------------------------------------
(* What a step does to the boxes, nb being those it computes. *)

\* The reads of b.
ReadsOf(b) == {t \in Tasks : task[t].rd = b}

\* The counts computed are those of the next state.
LEMMA CountsNext ==
  ASSUME Typed, NEW nb, StoreBoxes(nb),
         \A b \in BoxIds : nb[b].receivers = Cardinality(ReadsOf(b)')
  PROVE  ReceiversAreCounted'
<1> SUFFICES ASSUME NEW b \in BoxIds PROVE box'[b].receivers = Cardinality(ReadsOf(b)')
  BY DEF ReceiversAreCounted, ReadsOf
<1>1. CASE b \in BoxRefs'
  BY <1>1 DEF StoreBoxes
<1>2. CASE b \notin BoxRefs'
  <2>1. box'[b] = NewBox /\ b # None
    BY <1>2, IdsAreNumbers, NoneIsFresh DEF StoreBoxes
  <2>2. ReadsOf(b)' = {}
    BY <1>2, <2>1 DEF ReadsOf, BoxRefs
  <2>3. Cardinality(ReadsOf(b)') = 0
    BY <2>2, FS_EmptySet
  <2> QED BY <2>1, <2>3 DEF NewBox
<1> QED BY <1>1, <1>2

\* Boxes computed well are stored well, and what nobody refers to is as new.
LEMMA BoxesNext ==
  ASSUME Typed, NEW nb, StoreBoxes(nb), \A b \in BoxIds : BoxOK(nb[b])
  PROVE  BoxesOK'
<1>1. BoxOK(NewBox)
  BY DEF BoxOK, NewBox
<1>2. ASSUME NEW b \in BoxIds
      PROVE  /\ box'[b] = IF b \in BoxRefs' THEN nb[b] ELSE NewBox
             /\ BoxOK(box'[b])
  BY <1>1 DEF StoreBoxes
<1>3. \A b \in BoxIds : BoxOK(box[b])' <=> BoxOK(box'[b])
  BY DEF BoxOK
<1> QED BY <1>2, <1>3 DEF BoxesOK

\* Enough entries are stored if enough are computed.
LEMMA WokenNext ==
  ASSUME Typed, NEW nb, StoreBoxes(nb),
         \A b \in BoxIds : nb[b].superseded => Cardinality(Reading(b)') <= nb[b].msgs + nb[b].wakes
  PROVE  WokenOK'
<1> SUFFICES ASSUME NEW b \in BoxIds, box'[b].superseded
             PROVE  Cardinality(Reading(b)') <= box'[b].msgs + box'[b].wakes
  BY DEF WokenOK
<1>1. b \in BoxRefs'
  BY DEF StoreBoxes, NewBox
<1> QED BY <1>1 DEF StoreBoxes

\* A set of tasks that gains or loses one.
One(p) == IF p THEN 1 ELSE 0

LEMMA OneMoves ==
  ASSUME NEW S \in SUBSET Tasks, NEW R \in SUBSET Tasks, NEW t \in Tasks,
         \A u \in Tasks : u # t => (u \in S <=> u \in R)
  PROVE  /\ Cardinality(S) \in Nat /\ Cardinality(R) \in Nat
         /\ Cardinality(R) = Cardinality(S) - One(t \in S) + One(t \in R)
<1>1. IsFiniteSet(S) /\ IsFiniteSet(R)
  BY Bounds, FS_Subset
<1>2. Cardinality(S) \in Nat /\ Cardinality(R) \in Nat
  BY <1>1, FS_CardinalityType
<1>3. CASE t \in S <=> t \in R
  <2>1. S = R
    BY <1>3
  <2> QED BY <1>2, <1>3, <2>1 DEF One
<1>4. CASE t \in S /\ t \notin R
  <2>1. R = S \ {t}
    BY <1>4
  <2>2. Cardinality(R) = Cardinality(S) - 1
    BY <1>1, <1>4, <2>1, FS_RemoveElement
  <2> QED BY <1>2, <1>4, <2>2 DEF One
<1>5. CASE t \notin S /\ t \in R
  <2>1. R = S \cup {t}
    BY <1>5
  <2>2. Cardinality(R) = Cardinality(S) + 1
    BY <1>1, <1>5, <2>1, FS_AddElement
  <2> QED BY <1>2, <1>5, <2>2 DEF One
<1> QED BY <1>3, <1>4, <1>5

\* A box but for the reads counted on it.
SameButReads(x, y) == /\ SameFlags(x, y) /\ x.superseded = y.superseded
                      /\ x.msgs = y.msgs /\ x.wakes = y.wakes
                      /\ x.aged => y.aged

\* Box x is box y after a read of it, or of another one, is over: its count, its age if nobody
\* is left, and that its last reader left it.
LeftOver(x, y, here, cancelled) ==
    /\ SameButReads(x, y)
    /\ x.receivers = y.receivers - (IF here THEN 1 ELSE 0)
    /\ x.left => y.left \/ (cancelled /\ here /\ y.receivers = 1)
AllLeft(ns, nb, r, cancelled) ==
    \A b \in BoxIds : LeftOver(ns[b], nb[b], r = b, cancelled)

\* What leaving does to a box.
LEMMA LeaveFields ==
  ASSUME NEW nb \in [BoxIds -> Boxes], NEW r \in BoxIds \cup {None}, NEW cancelled \in BOOLEAN
  PROVE  AllLeft(Leave(nb, r, cancelled), nb, r, cancelled)
<1> SUFFICES ASSUME NEW b \in BoxIds PROVE LeftOver(Leave(nb, r, cancelled)[b], nb[b], r = b, cancelled)
  BY DEF AllLeft
<1> DEFINE x == Leave(nb, r, cancelled)[b]
<1>0. nb[b] \in Boxes /\ b # None
  BY IdsAreNumbers, NoneIsFresh
<1>1. nb[b].receivers \in Int
  BY <1>0 DEF Boxes
<1>2. CASE r # b
  <2>1. x = nb[b]
    BY <1>2 DEF Leave
  <2> QED BY <1>1, <1>2, <2>1 DEF LeftOver, SameButReads, SameFlags
<1>3. CASE r = b
  <2> DEFINE n == nb[b].receivers - 1
             left == [nb[b] EXCEPT !.receivers = n, !.aged = @ /\ n # 0, !.left = cancelled /\ n = 0]
  <2>1. x = left
    BY <1>0, <1>3 DEF Leave
  <2>2. /\ left.receivers = n /\ left.aged = (nb[b].aged /\ n # 0) /\ (left.left <=> cancelled /\ n = 0)
        /\ left.ready = nb[b].ready /\ left.subscribed = nb[b].subscribed /\ left.sub = nb[b].sub
        /\ left.superseded = nb[b].superseded /\ left.msgs = nb[b].msgs /\ left.wakes = nb[b].wakes
    <3> HIDE DEF n
    <3> QED BY <1>0 DEF Boxes
  <2>3. n = 0 => nb[b].receivers = 1
    BY <1>1
  <2> HIDE DEF left, x
  <2>4. x.receivers = nb[b].receivers - (IF r = b THEN 1 ELSE 0)
    BY <1>1, <1>3, <2>1, <2>2
  <2>5. SameButReads(x, nb[b])
    BY <2>1, <2>2 DEF SameButReads, SameFlags
  <2>6. x.left => cancelled /\ r = b /\ nb[b].receivers = 1
    BY <1>3, <2>1, <2>2, <2>3
  <2> QED BY <1>3, <2>4, <2>5, <2>6 DEF x, LeftOver
<1> QED BY <1>2, <1>3

\* A read counted in, and one counted out.
CountedIn(nb, r) == [nb EXCEPT ![r].receivers = @ + 1, ![r].left = FALSE]
CountedOut(nb, r) == [nb EXCEPT ![r].receivers = @ - 1]

\* What counting a read does to a box.
LEMMA CountedFields ==
  ASSUME NEW nb \in [BoxIds -> Boxes], NEW r \in BoxIds, NEW b \in BoxIds
  PROVE  /\ SameButReads(CountedIn(nb, r)[b], nb[b])
         /\ CountedIn(nb, r)[b].receivers = nb[b].receivers + One(r = b)
         /\ CountedIn(nb, r)[b].left => nb[b].left /\ r # b
         /\ SameButReads(CountedOut(nb, r)[b], nb[b])
         /\ CountedOut(nb, r)[b].receivers = nb[b].receivers - One(r = b)
         /\ CountedOut(nb, r)[b].left => nb[b].left
<1>0. nb[b] \in Boxes
  OBVIOUS
<1>1. nb[b].receivers \in Int
  BY <1>0 DEF Boxes
<1> DEFINE x == CountedIn(nb, r)[b]
           y == CountedOut(nb, r)[b]
           up == [nb[b] EXCEPT !.receivers = @ + 1, !.left = FALSE]
           down == [nb[b] EXCEPT !.receivers = @ - 1]
<1>2. IF r = b THEN x = up /\ y = down ELSE x = nb[b] /\ y = nb[b]
  BY DEF CountedIn, CountedOut
<1>3. /\ up.receivers = nb[b].receivers + 1 /\ ~up.left
      /\ SameButReads(up, nb[b])
  BY <1>0 DEF Boxes, SameButReads, SameFlags
<1>4. /\ down.receivers = nb[b].receivers - 1 /\ down.left = nb[b].left
      /\ SameButReads(down, nb[b])
  BY <1>0 DEF Boxes, SameButReads, SameFlags
<1>5. SameButReads(nb[b], nb[b])
  BY DEF SameButReads, SameFlags
<1>6. One(r = b) = IF r = b THEN 1 ELSE 0
  BY DEF One
<1> HIDE DEF up, down, x, y
<1>7. /\ SameButReads(x, nb[b]) /\ x.receivers = nb[b].receivers + One(r = b)
      /\ x.left => nb[b].left /\ r # b
  BY <1>1, <1>2, <1>3, <1>5, <1>6
<1>8. /\ SameButReads(y, nb[b]) /\ y.receivers = nb[b].receivers - One(r = b)
      /\ y.left => nb[b].left
  BY <1>1, <1>2, <1>4, <1>5, <1>6
<1> QED BY <1>7, <1>8 DEF x, y

\* Counting keeps boxes boxes.
LEMMA CountingTyped ==
  ASSUME NEW nb \in [BoxIds -> Boxes], NEW r \in BoxIds
  PROVE  CountedIn(nb, r) \in [BoxIds -> Boxes] /\ CountedOut(nb, r) \in [BoxIds -> Boxes]
  BY CountedTyped DEF CountedIn, CountedOut

\* A read that moves from r to b.
Moved(nb, b, r) == IF r = None THEN CountedIn(nb, b) ELSE CountedOut(CountedIn(nb, b), r)

\* What it does to a box.
LEMMA MovedFields ==
  ASSUME NEW nb \in [BoxIds -> Boxes], NEW b \in BoxIds, NEW r \in BoxIds \cup {None}
  PROVE  /\ Moved(nb, b, r) \in [BoxIds -> Boxes]
         /\ \A x \in BoxIds : /\ SameButReads(Moved(nb, b, r)[x], nb[x])
                              /\ Moved(nb, b, r)[x].receivers = nb[x].receivers + One(b = x) - One(r = x)
                              /\ Moved(nb, b, r)[x].left => nb[x].left /\ b # x
<1> DEFINE counted == CountedIn(nb, b)
           ns == Moved(nb, b, r)
<1>1. counted \in [BoxIds -> Boxes]
  BY CountingTyped
<1>2. ASSUME NEW x \in BoxIds
      PROVE  /\ SameButReads(counted[x], nb[x])
             /\ counted[x].receivers = nb[x].receivers + One(b = x)
             /\ counted[x].left => nb[x].left /\ b # x
  BY CountedFields
<1>3. ns = IF r = None THEN counted ELSE CountedOut(counted, r)
  BY DEF Moved
<1> HIDE DEF counted, ns
<1>4. ASSUME NEW x \in BoxIds
      PROVE  nb[x].receivers \in Int /\ One(b = x) \in Int /\ One(r = x) \in Int
  <2>1. nb[x] \in Boxes
    OBVIOUS
  <2> QED BY <2>1 DEF Boxes, One
<1>5. CASE r = None
  <2>1. \A x \in BoxIds : One(r = x) = 0
    BY <1>5, IdsAreNumbers, NoneIsFresh DEF One
  <2> HIDE DEF One
  <2>2. ASSUME NEW x \in BoxIds
        PROVE  /\ SameButReads(ns[x], nb[x])
               /\ ns[x].receivers = nb[x].receivers + One(b = x) - One(r = x)
               /\ ns[x].left => nb[x].left /\ b # x
    BY <1>2, <1>3, <1>4, <1>5, <2>1
  <2> QED BY <1>1, <1>3, <1>5, <2>2 DEF ns
<1>6. CASE r # None
  <2>1. r \in BoxIds /\ ns = CountedOut(counted, r)
    BY <1>3, <1>6
  <2>2. ns \in [BoxIds -> Boxes]
    BY <1>1, <2>1, CountingTyped
  <2>3. ASSUME NEW x \in BoxIds
        PROVE  /\ SameButReads(ns[x], counted[x])
               /\ ns[x].receivers = counted[x].receivers - One(r = x)
               /\ ns[x].left => counted[x].left
    BY <1>1, <2>1, CountedFields
  <2> HIDE DEF One
  <2>4. ASSUME NEW x \in BoxIds
        PROVE  /\ SameButReads(ns[x], nb[x])
               /\ ns[x].receivers = nb[x].receivers + One(b = x) - One(r = x)
               /\ ns[x].left => nb[x].left /\ b # x
    <3>1. SameButReads(ns[x], nb[x])
      BY <1>2, <2>3 DEF SameButReads, SameFlags
    <3>2. ns[x].receivers = nb[x].receivers + One(b = x) - One(r = x)
      BY <1>2, <1>4, <2>3
    <3>3. ns[x].left => nb[x].left /\ b # x
      BY <1>2, <2>3
    <3> QED BY <3>1, <3>2, <3>3
  <2> QED BY <2>2, <2>4 DEF ns
<1> QED BY <1>5, <1>6

\* What flush() computes for a box: those in a table are superseded, with an entry for each read.
LEMMA SupersededFields ==
  ASSUME TypeOK, NEW bs, NEW b \in BoxIds
  PROVE  /\ Supersede(bs)[b].superseded <=> box[b].superseded \/ b \in bs
         /\ Supersede(bs)[b].wakes = box[b].wakes + (IF b \in bs THEN box[b].receivers ELSE 0)
         /\ Supersede(bs)[b].msgs = box[b].msgs /\ Supersede(bs)[b].receivers = box[b].receivers
         /\ Supersede(bs)[b].ready = box[b].ready /\ Supersede(bs)[b].subscribed = box[b].subscribed
         /\ Supersede(bs)[b].aged = box[b].aged
<1> DEFINE x == [box[b] EXCEPT !.superseded = TRUE, !.wakes = @ + box[b].receivers]
<1>1. box[b] \in Boxes /\ box[b].wakes \in Int
  BY DEF TypeOK, Boxes
<1>2. /\ x.superseded /\ x.wakes = box[b].wakes + box[b].receivers
      /\ x.msgs = box[b].msgs /\ x.receivers = box[b].receivers
      /\ x.ready = box[b].ready /\ x.subscribed = box[b].subscribed /\ x.aged = box[b].aged
  BY <1>1 DEF Boxes
<1>3. Supersede(bs)[b] = IF b \in bs THEN x ELSE box[b]
  BY DEF Supersede
<1> HIDE DEF x
<1>4. CASE b \in bs
  BY <1>2, <1>3, <1>4
<1>5. CASE b \notin bs
  BY <1>1, <1>3, <1>5
<1> QED BY <1>4, <1>5

-----------------------------------------------------------------------------
(* The reads are counted, whatever fails or is cancelled. *)

\* Reads come and go with t.
CountStep(t, nb) ==
    \A b \in BoxIds :
        nb[b].receivers = box[b].receivers - One(task[t].rd = b) + One(task'[t].rd = b)
SameReceivers(nb) == \A b \in BoxIds : nb[b].receivers = box[b].receivers

\* A step of t that counts its own reads.
LEMMA StepCounts ==
  ASSUME Typed, Counts, NEW t \in Tasks, NEW nb, StoreBoxes(nb),
         \A u \in Tasks : u # t => task'[u] = task[u], CountStep(t, nb), ReadOnly(t)'
  PROVE  Counts'
<1>1. ReceiversAreCounted'
  <2>1. ASSUME NEW b \in BoxIds PROVE nb[b].receivers = Cardinality(ReadsOf(b)')
    <3>1. \A u \in Tasks : u # t => (u \in ReadsOf(b) <=> u \in ReadsOf(b)')
      BY DEF ReadsOf
    <3>2. ReadsOf(b) \subseteq Tasks /\ ReadsOf(b)' \subseteq Tasks
      BY DEF ReadsOf
    <3>3. /\ Cardinality(ReadsOf(b)) \in Nat /\ Cardinality(ReadsOf(b)') \in Nat
          /\ Cardinality(ReadsOf(b)') = Cardinality(ReadsOf(b)) - One(t \in ReadsOf(b)) + One(t \in ReadsOf(b)')
      BY <3>1, <3>2, OneMoves
    <3>4. box[b].receivers = Cardinality(ReadsOf(b))
      BY DEF Counts, ReceiversAreCounted, ReadsOf
    <3>5. /\ nb[b].receivers = box[b].receivers - One(task[t].rd = b) + One(task'[t].rd = b)
          /\ t \in ReadsOf(b) <=> task[t].rd = b
          /\ t \in ReadsOf(b)' <=> task'[t].rd = b
      BY DEF CountStep, ReadsOf
    <3> QED BY <3>3, <3>4, <3>5 DEF One
  <2> QED BY <2>1, CountsNext
<1>2. ASSUME NEW u \in Tasks PROVE ReadOnly(u)'
  <2>1. CASE u = t
    BY <2>1
  <2>2. CASE u # t
    BY <2>2 DEF Counts, ReadOnly
  <2> QED BY <2>1, <2>2
<1> QED BY <1>1, <1>2 DEF Counts

\* A step in which no read comes or goes.
LEMMA QuietCounts ==
  ASSUME Typed, Counts, task' = task, NEW nb, StoreBoxes(nb), SameReceivers(nb)
  PROVE  Counts'
<1>1. \A b \in BoxIds : ReadsOf(b)' = ReadsOf(b)
  BY DEF ReadsOf
<1>2. \A b \in BoxIds : nb[b].receivers = Cardinality(ReadsOf(b)')
  BY <1>1 DEF Counts, ReceiversAreCounted, ReadsOf, SameReceivers
<1>3. ReceiversAreCounted'
  BY <1>2, CountsNext
<1> QED BY <1>3 DEF Counts, ReadOnly

\* The counts are numbers.
LEMMA CountsAreNumbers ==
  ASSUME TypeOK
  PROVE  /\ \A b \in BoxIds : box[b].receivers \in Int /\ b # None
         /\ box \in [BoxIds -> Boxes] /\ SameReceivers(box)
<1>1. \A b \in BoxIds : box[b] \in Boxes
  BY DEF TypeOK
<1> QED BY <1>1, IdsAreNumbers, NoneIsFresh DEF Boxes, SameReceivers, TypeOK

\* A call that goes on with the read it had, if any.
LEMMA GoesOnCounts ==
  ASSUME Typed, Counts, NEW t \in Tasks, NEW nb, NEW me, Become(t, me), StoreBoxes(nb), SameReceivers(nb),
         me.rd = task[t].rd, me.rd # None => me.op = "receive" /\ me.pc \notin {"idle", "handed"}
  PROVE  Counts'
<1>1. task'[t] = me /\ \A u \in Tasks : u # t => task'[u] = task[u]
  BY DEF Become, Typed, TypeOK
<1>2. \A b \in BoxIds : box[b].receivers \in Int
  BY CountsAreNumbers DEF Typed
<1>3. CountStep(t, nb)
  BY <1>1, <1>2 DEF CountStep, SameReceivers, One
<1>4. ReadOnly(t)'
  BY <1>1 DEF ReadOnly
<1> QED BY <1>1, <1>3, <1>4, StepCounts

\* A call whose read is over.
LEMMA LeavesCounts ==
  ASSUME Typed, Counts, NEW t \in Tasks, NEW nb \in [BoxIds -> Boxes], NEW cancelled \in BOOLEAN,
         NEW me, Become(t, me), me.rd = None,
         StoreBoxes(Leave(nb, task[t].rd, cancelled)), SameReceivers(nb)
  PROVE  Counts'
<1> DEFINE ns == Leave(nb, task[t].rd, cancelled)
<1>1. task'[t] = me /\ StoreBoxes(ns) /\ \A u \in Tasks : u # t => task'[u] = task[u]
  BY DEF Become, Typed, TypeOK
<1>2. task[t].rd \in BoxIds \cup {None}
  BY CallFields DEF Typed
<1>3. AllLeft(ns, nb, task[t].rd, cancelled)
  BY <1>2, LeaveFields
<1>4. \A b \in BoxIds : box[b].receivers \in Int /\ b # None
  BY CountsAreNumbers DEF Typed
<1> HIDE DEF ns
<1>5. CountStep(t, ns)
  BY <1>1, <1>3, <1>4 DEF CountStep, SameReceivers, One, AllLeft, LeftOver
<1>6. ReadOnly(t)'
  BY <1>1 DEF ReadOnly
<1> QED BY <1>1, <1>5, <1>6, StepCounts

\* A call that ends.
LEMMA EndsCounts ==
  ASSUME Typed, Counts, NEW t \in Tasks, NEW nb \in [BoxIds -> Boxes], NEW cancelled \in BOOLEAN,
         Ends(t, nb, cancelled), SameReceivers(nb)
  PROVE  Counts'
<1>1. Become(t, Idle) /\ StoreBoxes(Leave(nb, task[t].rd, cancelled)) /\ Idle.rd = None
  BY DEF Ends, Store, Idle
<1> QED BY <1>1, LeavesCounts

\* A call is handed mailbox b.
LEMMA HandOutCounts ==
  ASSUME Typed, Counts, NEW t \in Tasks, NEW call \in Calls, call.rd = task[t].rd,
         call.rd # None => call.op = "receive",
         NEW b \in BoxIds, NEW nb \in [BoxIds -> Boxes], SameReceivers(nb), HandOut(t, call, b, nb)
  PROVE  Counts'
<1> DEFINE me == [call EXCEPT !.bx = None, !.sub = None, !.gen = 0]
<1>1. me \in Calls /\ me.rd = call.rd /\ me.op = call.op /\ me.rd \in BoxIds \cup {None}
  <2>1. 0 \in 0..MaxFlushes
    BY Bounds
  <2> QED BY <2>1 DEF Calls
<1> HIDE DEF me
<1>2. CASE HandToRead(t, me, b, nb)
  <2> DEFINE pc == IF nb[b].superseded THEN "move" ELSE "get"
             r == [me EXCEPT !.pc = pc, !.rd = b]
             counted == [nb EXCEPT ![b].receivers = @ + 1, ![b].left = FALSE]
             ns == IF me.rd = None THEN counted ELSE [counted EXCEPT ![me.rd].receivers = @ - 1]
  <2>1. pc \notin {"idle", "handed"}
    OBVIOUS
  <2>2. Become(t, r) /\ StoreBoxes(ns) /\ me.op = "receive"
    BY <1>2 DEF HandToRead, Store
  <2>3. ns = Moved(nb, b, me.rd)
    BY DEF Moved, CountedIn, CountedOut
  <2> HIDE DEF ns, counted, pc
  <2>4. \A x \in BoxIds : ns[x].receivers = nb[x].receivers + One(b = x) - One(me.rd = x)
    BY <1>1, <2>3, MovedFields
  <2>5. r.pc = pc /\ r.rd = b /\ r.op = "receive"
    BY <1>1, <2>2 DEF Calls
  <2> HIDE DEF r
  <2>6. task'[t] = r /\ \A u \in Tasks : u # t => task'[u] = task[u]
    BY <2>2 DEF Become, Typed, TypeOK
  <2>7. CountStep(t, ns)
    <3>1. \A x \in BoxIds : box[x].receivers \in Int
      BY CountsAreNumbers DEF Typed
    <3> QED BY <1>1, <2>4, <2>5, <2>6, <3>1 DEF CountStep, SameReceivers, One
  <2>8. ReadOnly(t)'
    BY <2>1, <2>5, <2>6 DEF ReadOnly
  <2> QED BY <2>2, <2>6, <2>7, <2>8, StepCounts
<1>3. ASSUME NEW r, r.rd = task[t].rd, me.op # "receive", r.pc # "idle", Become(t, r), StoreBoxes(nb)
      PROVE  Counts'
  <2>1. r.rd = None
    BY <1>1, <1>3
  <2> QED BY <1>3, <2>1, GoesOnCounts
<1>4. CASE HandToCaller(t, me, nb)
  <2> DEFINE r == [Idle EXCEPT !.pc = "handed", !.ch = me.ch]
  <2>1. me.op = "new" /\ Become(t, r) /\ StoreBoxes(nb)
    BY <1>4 DEF HandToCaller, Store
  <2>2. r.rd = None /\ r.pc = "handed"
    BY DEF Idle
  <2> HIDE DEF r
  <2>3. me.rd = None
    BY <1>1, <2>1
  <2> QED BY <1>1, <1>3, <2>1, <2>2, <2>3
<1>5. CASE HandToAdd(t, me, nb)
  <2>1. PICK x : me.op = "add" /\ Become(t, [me EXCEPT !.pc = "glock", !.set = x]) /\ StoreBoxes(nb)
    BY <1>5 DEF HandToAdd
  <2> DEFINE r == [me EXCEPT !.pc = "glock", !.set = x]
  <2>2. r.rd = me.rd /\ r.pc = "glock"
    BY <1>1 DEF Calls
  <2>3. Become(t, r)
    BY <2>1
  <2> HIDE DEF r
  <2> QED BY <1>1, <1>3, <2>1, <2>2, <2>3
<1> QED BY <1>2, <1>4, <1>5 DEF HandOut, me

\* A call looks its mailbox up.
LEMMA LookUpCounts ==
  ASSUME Typed, Counts, NEW t \in Tasks, NEW call \in Calls, call.ch \in Channels, call.rd = task[t].rd,
         call.rd # None => call.op = "receive",
         NEW nb \in [BoxIds -> Boxes], SameReceivers(nb), LookUp(t, call, nb)
  PROVE  Counts'
<1> DEFINE b == mailboxes'[call.ch]
           pc == IF b = None THEN "lock" ELSE "ready"
           me == [call EXCEPT !.pc = pc, !.bx = b, !.gen = 0]
<1>1. CASE Become(t, me) /\ Store(nb)
  <2>1. pc \notin {"idle", "handed"}
    OBVIOUS
  <2> HIDE DEF pc, b
  <2>2. me.pc = pc /\ me.rd = call.rd /\ me.op = call.op
    BY DEF Calls
  <2> HIDE DEF me
  <2> QED BY <1>1, <2>1, <2>2, GoesOnCounts DEF Store
<1>2. CASE b # None /\ HandOut(t, call, b, nb)
  <2>1. b \in BoxIds
    BY <1>2 DEF Typed, TypeOK
  <2> HIDE DEF b
  <2> QED BY <1>2, <2>1, HandOutCounts
<1> QED BY <1>1, <1>2 DEF LookUp

\* The call a clean-up is part of, apart from the commands it has left to give.
LEMMA TidyBecomes ==
  ASSUME NEW t, NEW me \in Calls, NEW ss \in SUBSET SubIds, NEW pc \in PCs, Tidy(t, ss, pc, me)
  PROVE  \E r \in Calls : Become(t, r) /\ r.pc = pc /\ r.rd = me.rd /\ r.op = me.op
<1>1. PICK td \in SUBSET SubIds : \/ Become(t, [me EXCEPT !.pc = pc, !.todo = td])
                                  \/ Become(t, [me EXCEPT !.pc = pc])
  <2>1. ss \ {CHOOSE s \in ss : TRUE} \in SUBSET SubIds
    OBVIOUS
  <2> QED BY <2>1 DEF Tidy
<1> DEFINE r == [me EXCEPT !.pc = pc, !.todo = td]
           q == [me EXCEPT !.pc = pc]
<1>2. /\ r \in Calls /\ r.pc = pc /\ r.rd = me.rd /\ r.op = me.op
      /\ q \in Calls /\ q.pc = pc /\ q.rd = me.rd /\ q.op = me.op
  BY DEF Calls
<1>3. Become(t, r) \/ Become(t, q)
  BY <1>1
<1> HIDE DEF r, q
<1> QED BY <1>2, <1>3

\* The call a clean-up is part of, whatever it has to take down.
LEMMA TidyGoesOn ==
  ASSUME NEW t, NEW me \in Calls, NEW ss, NEW pc, Tidy(t, ss, pc, me)
  PROVE  \E r : Become(t, r) /\ r.pc = pc /\ r.rd = me.rd /\ r.op = me.op
<1>1. PICK td : \/ Become(t, [me EXCEPT !.pc = pc, !.todo = td])
                \/ Become(t, [me EXCEPT !.pc = pc])
  BY DEF Tidy
<1> DEFINE r == [me EXCEPT !.pc = pc, !.todo = td]
           q == [me EXCEPT !.pc = pc]
<1>2. /\ r.pc = pc /\ r.rd = me.rd /\ r.op = me.op
      /\ q.pc = pc /\ q.rd = me.rd /\ q.op = me.op
  BY DEF Calls
<1>3. Become(t, r) \/ Become(t, q)
  BY <1>1
<1> HIDE DEF r, q
<1> QED BY <1>2, <1>3

\* Idle is where an add ends.
LEMMA IdleIsNowhere == Idle \in Calls /\ Idle.rd = None /\ Idle.pc \notin Held \cup {"ready", "sub", "conf"}
  BY IdleFields DEF Idle, Held

\* What is in the arguments of a group_add().
LEMMA Adding ==
  ASSUME Typed, NEW t \in Tasks, task[t].pc \in {"glock", "gsub", "gconf", "tidyAdd", "tidyAddFail"}
  PROVE  task[t] \in Calls /\ task[t].op = "add"
  BY DEF Typed, TypeOK, Shaped

\* What a call under way has for arguments.
LEMMA UnderWay ==
  ASSUME Typed, Counts, NEW t \in Tasks, task[t].pc \notin {"idle", "tidyEnd"}
  PROVE  /\ task[t] \in Calls /\ task[t].ch \in Channels /\ task[t].ch # None
         /\ task[t].op = "add" => task[t].grp # None
         /\ task[t].rd # None => task[t].op = "receive"
<1>1. task[t] \in Calls /\ Shaped(task[t])
  BY CallFields DEF Typed, TypeOK
<1>2. task[t].ch \in Channels \cup {None}
  BY <1>1 DEF Calls
<1> QED BY <1>1, <1>2 DEF Shaped, Counts, ReadOnly

\* A coroutine with nothing going on has no read.
LEMMA NoRead ==
  ASSUME Counts, NEW t \in Tasks, task[t].pc \in {"idle", "handed"} \/ task[t].op # "receive"
  PROVE  task[t].rd = None
  BY DEF Counts, ReadOnly

\* Flags, a subscription, an entry taken off: none of it counts.
LEMMA SettingCountsNot ==
  ASSUME NEW nb \in [BoxIds -> Boxes], NEW b
  PROVE  \A x \in BoxIds :
            /\ [nb EXCEPT ![b].ready = TRUE][x].receivers = nb[x].receivers
            /\ [nb EXCEPT ![b].subscribed = TRUE][x].receivers = nb[x].receivers
            /\ [nb EXCEPT ![b].aged = TRUE][x].receivers = nb[x].receivers
            /\ [nb EXCEPT ![b].msgs = @ - 1][x].receivers = nb[x].receivers
            /\ [nb EXCEPT ![b].wakes = @ - 1][x].receivers = nb[x].receivers
            /\ \A s \in SubIds : [nb EXCEPT ![b].sub = s][x].receivers = nb[x].receivers
<1> TAKE x \in BoxIds
<1>1. nb[x] \in Boxes
  OBVIOUS
<1> QED BY <1>1 DEF Boxes

\* The boxes when the one t makes is given up.
LEMMA GivenUpCounts ==
  ASSUME TypeOK, NEW t
  PROVE  GivenUp(t) \in [BoxIds -> Boxes] /\ SameReceivers(GivenUp(t))
  BY GivenUpTyped, SettingCountsNot, CountsAreNumbers DEF GivenUp, SameReceivers

\* A call that goes into a clean-up, or on with one.
LEMMA TidyCounts ==
  ASSUME Typed, Counts, NEW t \in Tasks, NEW nb, StoreBoxes(nb), SameReceivers(nb),
         NEW me \in Calls, me.rd = task[t].rd, me.rd # None => me.op = "receive",
         NEW ss \in SUBSET SubIds, NEW pc \in Tidying, Tidy(t, ss, pc, me)
  PROVE  Counts'
<1>1. pc \in PCs /\ pc \notin {"idle", "handed"}
  BY DEF PCs, Tidying, LockedTidying
<1>2. PICK r \in Calls : Become(t, r) /\ r.pc = pc /\ r.rd = me.rd /\ r.op = me.op
  BY <1>1, TidyBecomes
<1> QED BY <1>1, <1>2, GoesOnCounts

\* One that gives up its subscription as it does.
LEMMA GivesUpCounts ==
  ASSUME Typed, Counts, NEW t \in Tasks, task[t].pc \in {"conf", "gconf"},
         NEW nb, StoreBoxes(nb), nb = box \/ nb = GivenUp(t),
         NEW pc \in Tidying, Tidy(t, {task[t].sub}, pc, [task[t] EXCEPT !.sub = None])
  PROVE  Counts'
<1> DEFINE me == [task[t] EXCEPT !.sub = None]
<1>1. task[t] \in Calls /\ (task[t].rd # None => task[t].op = "receive") /\ task[t].sub \in SubIds
  BY UnderWay, CallFields DEF Typed, TypeOK, Shaped
<1>2. me \in Calls /\ me.rd = task[t].rd /\ me.op = task[t].op
  BY <1>1 DEF Calls
<1>3. SameReceivers(nb)
  BY GivenUpCounts, CountsAreNumbers DEF Typed
<1>4. {task[t].sub} \in SUBSET SubIds /\ Tidy(t, {task[t].sub}, pc, me)
  BY <1>1
<1> HIDE DEF me
<1> QED BY <1>1, <1>2, <1>3, <1>4, TidyCounts

\* The except branch of _mailbox().
LEMMA MailboxFailsCounts ==
  ASSUME Typed, Counts, NEW t \in Tasks, MailboxFails(t)
  PROVE  Counts'
  BY GivenUpCounts, EndsCounts DEF MailboxFails, Typed

\* A group_add() goes on or ends with the boxes as they are.
LEMMA AddCounts ==
  ASSUME Typed, Counts, NEW t \in Tasks, task[t].op = "add", NEW me, Become(t, me),
         me.rd \in {None, task[t].rd}, StoreBoxes(box)
  PROVE  Counts'
<1>1. task[t].rd = None
  BY NoRead
<1> QED BY <1>1, CountsAreNumbers, GoesOnCounts DEF Typed

LEMMA AddFailsCounts ==
  ASSUME Typed, Counts, NEW t \in Tasks, task[t].op = "add", AddFails(t)
  PROVE  Counts'
<1>1. StoreBoxes(box) /\ Become(t, Idle) /\ Idle.rd = None
  BY DEF AddFails, Idle
<1> QED BY <1>1, AddCounts

\* receive(), new_channel() and group_add(), from their start and from where flush() sent a read.
LEMMA CallCounts == ASSUME Typed, Counts, NEW t \in Tasks, Call(t) PROVE Counts'
<1>1. PICK op \in {"receive", "new", "add"} \cap Env, c \in Channels, g \in Groups \cup {None} :
           Mailbox(t, [Idle EXCEPT !.op = op, !.ch = c, !.grp = g])
  BY DEF Call
<1> DEFINE call == [Idle EXCEPT !.op = op, !.ch = c, !.grp = g]
<1>2. op \in Ops
  BY DEF Ops
<1>3. call \in Calls /\ call.ch = c /\ call.rd = None
  BY <1>2, IdleFields DEF Idle, Calls
<1>4. LookUp(t, call, box)
  BY <1>1 DEF Mailbox
<1> HIDE DEF call
<1>5. task[t].rd = None
  BY NoRead DEF Call
<1> QED BY <1>3, <1>4, <1>5, CountsAreNumbers, LookUpCounts DEF Typed

LEMMA MoveCounts == ASSUME Typed, Counts, NEW t \in Tasks, Move(t) PROVE Counts'
<1>1. task[t].pc = "move" /\ LookUp(t, task[t], box)
  BY DEF Move, Mailbox
<1> QED BY <1>1, UnderWay, CountsAreNumbers, LookUpCounts DEF Typed

\* A waiter is woken, and subscribe_lock acquired.
LEMMA ReadyWakeCounts == ASSUME Typed, Counts, NEW t \in Tasks, ReadyWake(t) PROVE Counts'
<1>1. task[t].pc = "ready" /\ (HandOut(t, task[t], task[t].bx, box) \/ LookUp(t, task[t], box))
  BY DEF ReadyWake
<1>2. task[t].bx \in BoxIds
  BY <1>1, CallFields DEF Typed, TypeOK, Shaped
<1> QED BY <1>1, <1>2, UnderWay, CountsAreNumbers, HandOutCounts, LookUpCounts DEF Typed

LEMMA LockRunCounts == ASSUME Typed, Counts, NEW t \in Tasks, LockRun(t) PROVE Counts'
<1> DEFINE c == task[t].ch
           made == [NewBox EXCEPT !.ready = TRUE, !.subscribed = TRUE]
<1>1. /\ task[t].pc = "lock"
      /\ \/ mailboxes[c] # None /\ HandOut(t, task[t], mailboxes[c], box)
         \/ \E b \in Fresh(BoxIds, BoxRefs) :
               \/ HandOut(t, task[t], b, [box EXCEPT ![b] = made])
               \/ /\ Become(t, [task[t] EXCEPT !.pc = "sub", !.bx = b, !.gen = generation])
                  /\ StoreBoxes([box EXCEPT ![b] = NewBox])
  BY DEF LockRun, Store
<1>2. /\ task[t] \in Calls /\ c \in Channels /\ (task[t].rd # None => task[t].op = "receive")
  BY <1>1, UnderWay DEF Typed
<1>3. made \in Boxes /\ NewBox \in Boxes /\ made.receivers = 0 /\ NewBox.receivers = 0
  <2>1. NewBox \in Boxes /\ NewBox.receivers = 0
    BY Bounds DEF NewBox, Boxes
  <2> QED BY <2>1 DEF Boxes
<1> HIDE DEF made, c
<1>4. CASE mailboxes[c] # None /\ HandOut(t, task[t], mailboxes[c], box)
  <2>1. mailboxes[c] \in BoxIds
    BY <1>2, <1>4 DEF Typed, TypeOK
  <2> QED BY <1>2, <1>4, <2>1, CountsAreNumbers, HandOutCounts DEF Typed
<1>5. ASSUME NEW b \in Fresh(BoxIds, BoxRefs), NEW x \in Boxes, x.receivers = 0
      PROVE  /\ b \in BoxIds /\ [box EXCEPT ![b] = x] \in [BoxIds -> Boxes]
             /\ SameReceivers([box EXCEPT ![b] = x])
  <2>1. b \in BoxIds /\ b \notin BoxRefs /\ b # None
    BY IdsAreNumbers, NoneIsFresh DEF Fresh
  <2>2. ReadsOf(b) = {}
    BY <2>1 DEF ReadsOf, BoxRefs
  <2>3. box[b].receivers = 0
    BY <2>1, <2>2, FS_EmptySet DEF Counts, ReceiversAreCounted, ReadsOf
  <2> QED BY <1>5, <2>1, <2>3 DEF SameReceivers, Typed, TypeOK
<1>6. ASSUME NEW b \in Fresh(BoxIds, BoxRefs), HandOut(t, task[t], b, [box EXCEPT ![b] = made])
      PROVE  Counts'
  BY <1>2, <1>3, <1>5, <1>6, HandOutCounts
<1>7. ASSUME NEW b \in Fresh(BoxIds, BoxRefs), StoreBoxes([box EXCEPT ![b] = NewBox]),
             Become(t, [task[t] EXCEPT !.pc = "sub", !.bx = b, !.gen = generation])
      PROVE  Counts'
  <2> DEFINE me == [task[t] EXCEPT !.pc = "sub", !.bx = b, !.gen = generation]
  <2>1. me.rd = task[t].rd /\ me.op = task[t].op /\ me.pc = "sub"
    BY <1>2 DEF Calls
  <2>2. Become(t, me)
    BY <1>7
  <2> HIDE DEF me
  <2> QED BY <1>2, <1>3, <1>5, <1>7, <2>1, <2>2, GoesOnCounts
<1> QED BY <1>1, <1>4, <1>6, <1>7

\* The subscription of a mailbox.
LEMMA SubscribedCounts == ASSUME Typed, Counts, NEW t \in Tasks, Subscribed(t) PROVE Counts'
<1>1. PICK s \in Fresh(SubIds, SubRefs) :
         /\ Become(t, [task[t] EXCEPT !.pc = "conf", !.sub = s])
         /\ Store(IF task[t].ch \in PlainChannels THEN [box EXCEPT ![task[t].bx].sub = s] ELSE box)
  BY DEF Subscribed
<1> DEFINE me == [task[t] EXCEPT !.pc = "conf", !.sub = s]
           nb == IF task[t].ch \in PlainChannels THEN [box EXCEPT ![task[t].bx].sub = s] ELSE box
<1>2. task[t] \in Calls /\ (task[t].rd # None => task[t].op = "receive")
  BY UnderWay DEF Subscribed, Typed
<1>3. s \in SubIds
  BY FreshIsOne
<1>4. SameReceivers(nb)
  BY <1>3, SettingCountsNot, CountsAreNumbers DEF SameReceivers, Typed
<1>5. me.rd = task[t].rd /\ me.op = task[t].op /\ me.pc = "conf"
  BY <1>2 DEF Calls
<1>6. Become(t, me) /\ StoreBoxes(nb)
  BY <1>1 DEF Store
<1> HIDE DEF me, nb
<1> QED BY <1>2, <1>4, <1>5, <1>6, GoesOnCounts

LEMMA ConfirmedCounts == ASSUME Typed, Counts, NEW t \in Tasks, Confirmed(t) PROVE Counts'
<1> DEFINE b == task[t].bx
           pc == IF task[t].ch \in PlainChannels THEN "tidyRetry" ELSE "tidyRetryBox"
           ns == IF task[t].ch \in PlainChannels THEN GivenUp(t) ELSE box
<1>1. /\ task[t].pc = "conf"
      /\ \/ HandOut(t, task[t], b, [GivenUp(t) EXCEPT ![b].subscribed = TRUE])
         \/ StoreBoxes(ns) /\ Tidy(t, {task[t].sub}, pc, [task[t] EXCEPT !.sub = None])
  BY DEF Confirmed, Store
<1>2. pc \in Tidying /\ (ns = box \/ ns = GivenUp(t))
  BY DEF Tidying, LockedTidying
<1>3. task[t] \in Calls /\ b \in BoxIds /\ (task[t].rd # None => task[t].op = "receive")
  BY <1>1, UnderWay, CallFields DEF Typed, TypeOK, Shaped
<1> HIDE DEF pc, ns, b
<1>4. CASE HandOut(t, task[t], b, [GivenUp(t) EXCEPT ![b].subscribed = TRUE])
  <2> DEFINE given == GivenUp(t)
             nb == [given EXCEPT ![b].subscribed = TRUE]
  <2>1. given \in [BoxIds -> Boxes] /\ SameReceivers(given)
    BY GivenUpCounts DEF Typed
  <2>2. HandOut(t, task[t], b, nb)
    BY <1>4
  <2> HIDE DEF given
  <2>3. nb \in [BoxIds -> Boxes] /\ SameReceivers(nb)
    <3>1. nb \in [BoxIds -> Boxes]
      BY <2>1, BoxSetTyped
    <3>2. \A x \in BoxIds : nb[x].receivers = given[x].receivers
      BY <2>1, SettingCountsNot
    <3> QED BY <2>1, <3>1, <3>2 DEF SameReceivers
  <2> HIDE DEF nb
  <2> QED BY <1>3, <2>2, <2>3, HandOutCounts
<1> QED BY <1>1, <1>2, <1>4, GivesUpCounts

LEMMA SubAbortedCounts == ASSUME Typed, Counts, NEW t \in Tasks, SubAborted(t) PROVE Counts'
<1>1. ASSUME NEW s, Store(box), Become(t, [task[t] EXCEPT !.pc = "tidyAbort", !.todo = {s}])
      PROVE  Counts'
  <2> DEFINE me == [task[t] EXCEPT !.pc = "tidyAbort", !.todo = {s}]
  <2>1. task[t] \in Calls /\ (task[t].rd # None => task[t].op = "receive")
    BY UnderWay DEF SubAborted, Typed
  <2>2. me.rd = task[t].rd /\ me.op = task[t].op /\ me.pc = "tidyAbort"
    BY <2>1 DEF Calls
  <2>3. Become(t, me) /\ StoreBoxes(box)
    BY <1>1 DEF Store
  <2> HIDE DEF me
  <2> QED BY <2>1, <2>2, <2>3, CountsAreNumbers, GoesOnCounts DEF Typed
<1> QED BY <1>1, MailboxFailsCounts DEF SubAborted

LEMMA ConfAbortedCounts == ASSUME Typed, Counts, NEW t \in Tasks, ConfAborted(t) PROVE Counts'
<1> DEFINE pc == IF task[t].ch \in PlainChannels THEN "tidyFail" ELSE "tidyAbort"
           ns == IF task[t].ch \in PlainChannels THEN GivenUp(t) ELSE box
<1>1. /\ task[t].pc = "conf" /\ StoreBoxes(ns)
      /\ Tidy(t, {task[t].sub}, pc, [task[t] EXCEPT !.sub = None])
  BY DEF ConfAborted, Store
<1>2. pc \in Tidying /\ (ns = box \/ ns = GivenUp(t))
  BY DEF Tidying, LockedTidying
<1> HIDE DEF pc, ns
<1> QED BY <1>1, <1>2, GivesUpCounts

\* A call that is cancelled while it waits, or ends with its boxes as they are.
LEMMA EndsAsItIs ==
  ASSUME Typed, Counts, NEW t \in Tasks, NEW cancelled \in BOOLEAN, Ends(t, box, cancelled)
  PROVE  Counts'
  BY CountsAreNumbers, EndsCounts DEF Typed

LEMMA WaitCancelledCounts == ASSUME Typed, Counts, NEW t \in Tasks, WaitCancelled(t) PROVE Counts'
  BY EndsAsItIs DEF WaitCancelled

\* The read itself.
LEMMA GetCounts == ASSUME Typed, Counts, NEW t \in Tasks, Get(t) PROVE Counts'
<1> DEFINE b == task[t].rd
           pc == IF box[b].superseded THEN "move" ELSE "get"
           me == [task[t] EXCEPT !.pc = pc]
           read == [box EXCEPT ![b].msgs = @ - 1]
           woken == [box EXCEPT ![b].wakes = @ - 1]
<1>1. /\ task[t].pc = "get"
      /\ \/ box[b].msgs > 0 /\ Ends(t, read, FALSE)
         \/ Become(t, me) /\ (StoreBoxes(read) \/ StoreBoxes(woken))
  BY DEF Get, Store
<1>2. task[t] \in Calls /\ (task[t].rd # None => task[t].op = "receive") /\ b \in BoxIds
  BY <1>1, UnderWay, CallFields DEF Typed, TypeOK, Shaped
<1>3. SameReceivers(read) /\ SameReceivers(woken)
  BY SettingCountsNot, CountsAreNumbers DEF SameReceivers, Typed
<1>4. box[b].msgs > 0 => read \in [BoxIds -> Boxes]
  BY <1>2, TakenTyped DEF Typed
<1>5. pc \notin {"idle", "handed"}
  OBVIOUS
<1> HIDE DEF pc, read, woken, b
<1>6. me.rd = task[t].rd /\ me.op = task[t].op /\ me.pc = pc
  BY <1>2 DEF Calls
<1> HIDE DEF me
<1>7. CASE box[b].msgs > 0 /\ Ends(t, read, FALSE)
  BY <1>3, <1>4, <1>7, EndsCounts
<1>8. CASE Become(t, me) /\ (StoreBoxes(read) \/ StoreBoxes(woken))
  BY <1>2, <1>3, <1>5, <1>6, <1>8, GoesOnCounts
<1> QED BY <1>1, <1>7, <1>8

LEMMA ReadCancelledCounts == ASSUME Typed, Counts, NEW t \in Tasks, ReadCancelled(t) PROVE Counts'
<1>1. PICK ss : Tidy(t, ss, "tidyEnd", Idle) /\ StoreBoxes(Leave(box, task[t].rd, TRUE))
  BY DEF ReadCancelled, Store
<1>2. PICK r : Become(t, r) /\ r.rd = None
  BY <1>1, TidyGoesOn, IdleIsNowhere
<1> QED BY <1>1, <1>2, CountsAreNumbers, LeavesCounts DEF Typed

\* group_add() once it has its mailbox.
LEMMA GroupCounts ==
  ASSUME Typed, Counts, NEW t \in Tasks, GroupLockRun(t) \/ GroupSubscribed(t) \/ GroupConfirmed(t)
  PROVE  Counts'
<1>1. task[t].pc \in {"glock", "gsub", "gconf"} /\ StoreBoxes(box)
  BY DEF GroupLockRun, GroupSubscribed, GroupConfirmed, Store
<1>2. task[t] \in Calls /\ task[t].op = "add" /\ Idle.rd = None
  BY <1>1, Adding DEF Idle
<1>3. CASE Become(t, Idle)
  BY <1>1, <1>2, <1>3, AddCounts
<1>4. ASSUME NEW s, \/ Become(t, [task[t] EXCEPT !.pc = "gsub"])
                    \/ Become(t, [task[t] EXCEPT !.pc = "gconf", !.sub = s])
      PROVE  Counts'
  <2>1. PICK me : Become(t, me) /\ me.rd = task[t].rd
    <3>1. /\ [task[t] EXCEPT !.pc = "gsub"].rd = task[t].rd
          /\ [task[t] EXCEPT !.pc = "gconf", !.sub = s].rd = task[t].rd
      BY <1>2 DEF Calls
    <3> QED BY <1>4, <3>1
  <2> QED BY <1>1, <1>2, <2>1, AddCounts
<1>5. CASE task[t].pc = "gconf" /\ Tidy(t, {task[t].sub}, "tidyAdd", [task[t] EXCEPT !.sub = None])
  <2>1. "tidyAdd" \in Tidying
    BY DEF Tidying, LockedTidying
  <2> QED BY <1>1, <1>5, <2>1, GivesUpCounts
<1> QED BY <1>3, <1>4, <1>5 DEF GroupLockRun, GroupSubscribed, GroupConfirmed, AddReturns

LEMMA GroupAbortedCounts == ASSUME Typed, Counts, NEW t \in Tasks, GroupAborted(t) PROVE Counts'
<1>1. task[t] \in Calls /\ task[t].op = "add"
  BY Adding DEF GroupAborted
<1>2. ASSUME NEW s, Store(box), Become(t, [task[t] EXCEPT !.pc = "tidyAddFail", !.todo = {s}])
      PROVE  Counts'
  <2> DEFINE me == [task[t] EXCEPT !.pc = "tidyAddFail", !.todo = {s}]
  <2>1. me.rd = task[t].rd
    BY <1>1 DEF Calls
  <2>2. Become(t, me) /\ StoreBoxes(box)
    BY <1>2 DEF Store
  <2> HIDE DEF me
  <2> QED BY <1>1, <2>1, <2>2, AddCounts
<1>3. ASSUME task[t].pc = "gconf", Store(box),
             Tidy(t, {task[t].sub}, "tidyAddFail", [task[t] EXCEPT !.sub = None])
      PROVE  Counts'
  <2>1. "tidyAddFail" \in Tidying /\ StoreBoxes(box)
    BY <1>3 DEF Tidying, LockedTidying, Store
  <2> QED BY <1>3, <2>1, GivesUpCounts
<1> QED BY <1>1, <1>2, <1>3, AddFailsCounts DEF GroupAborted

\* group_discard() and flush().
LEMMA DiscardCounts == ASSUME Typed, Counts, NEW t \in Tasks, Discard(t) PROVE Counts'
<1>1. PICK ss : Tidy(t, ss, "tidyEnd", Idle)
  BY DEF Discard
<1>2. task[t].pc \in {"idle", "handed"} /\ StoreBoxes(box)
  BY DEF Discard
<1>3. PICK r : Become(t, r) /\ r.rd = None
  BY <1>1, TidyGoesOn, IdleIsNowhere
<1> QED BY <1>2, <1>3, NoRead, CountsAreNumbers, GoesOnCounts DEF Typed

LEMMA FlushCounts == ASSUME Typed, Counts, NEW t \in Tasks, Flush(t) PROVE Counts'
<1>1. PICK ss, bs : Tidy(t, ss, "tidyEnd", Idle) /\ StoreBoxes(Supersede(bs))
  BY DEF Flush, Store
<1>2. SameReceivers(Supersede(bs))
  BY SupersededFields DEF SameReceivers, Typed
<1>3. task[t].pc \in {"idle", "handed"}
  BY DEF Flush
<1>4. PICK r : Become(t, r) /\ r.rd = None
  BY <1>1, TidyGoesOn, IdleIsNowhere
<1> QED BY <1>1, <1>2, <1>3, <1>4, NoRead, GoesOnCounts

\* A clean-up goes on, or is cancelled.
LEMMA TidyDoneCounts == ASSUME Typed, Counts, NEW t \in Tasks, TidyDone(t) PROVE Counts'
<1>1. task[t].pc \in Tidying /\ task[t] \in Calls /\ task[t].todo \in SUBSET SubIds
  BY CallFields DEF TidyDone, Typed
<1>2. task[t].rd # None => task[t].op = "receive"
  BY DEF Counts, ReadOnly
<1>3. CASE Tidy(t, task[t].todo, task[t].pc, task[t]) /\ Store(box)
  BY <1>1, <1>2, <1>3, CountsAreNumbers, TidyCounts DEF Store, Typed
<1>4. CASE MailboxFails(t)
  BY <1>4, MailboxFailsCounts
<1>5. CASE task[t].pc = "tidyAddFail" /\ AddFails(t)
  BY <1>5, Adding, AddFailsCounts
<1>6. CASE task[t].pc = "tidyAdd" /\ AddReturns(t) /\ Store(box)
  BY <1>6, Adding, IdleIsNowhere, AddCounts DEF AddReturns, Store
<1>7. CASE Ends(t, box, FALSE)
  BY <1>7, EndsAsItIs
<1>8. CASE task[t].pc \in {"tidyRetryBox", "tidyRetry"} /\ LookUp(t, task[t], GivenUp(t))
  BY <1>1, <1>2, <1>8, UnderWay, GivenUpCounts, LookUpCounts DEF Typed
<1> QED BY <1>3, <1>4, <1>5, <1>6, <1>7, <1>8 DEF TidyDone

LEMMA TidyCancelledCounts == ASSUME Typed, Counts, NEW t \in Tasks, TidyCancelled(t) PROVE Counts'
  BY MailboxFailsCounts, Adding, AddFailsCounts, EndsAsItIs DEF TidyCancelled

\* What happens outside the calls.
LEMMA OutsideCounts ==
  ASSUME Typed, Counts, \/ \E s \in SubIds : Unsubscribed(s) \/ Deliver(s)
                        \/ \E c \in ProcessChannels : GraceElapses(c)
  PROVE  Counts'
<1>1. task' = task
  BY DEF Unsubscribed, Deliver, GraceElapses
<1>2. ASSUME NEW s \in SubIds, Unsubscribed(s) PROVE Counts'
  BY <1>1, <1>2, CountsAreNumbers, QuietCounts DEF Unsubscribed, Store, Typed
<1>3. ASSUME NEW s \in SubIds, Deliver(s) PROVE Counts'
  <2>1. PICK bs : StoreBoxes(Arrives(bs))
    BY <1>3 DEF Deliver, Store
  <2>2. ASSUME NEW b \in BoxIds PROVE Arrives(bs)[b].receivers = box[b].receivers
    <3> DEFINE x == [box[b] EXCEPT !.msgs = @ + 1, !.aged = FALSE]
    <3>1. Arrives(bs)[b] = x \/ Arrives(bs)[b] = box[b]
      BY DEF Arrives
    <3>2. box[b] \in Boxes
      BY DEF Typed, TypeOK
    <3>3. x.receivers = box[b].receivers
      BY <3>2 DEF Boxes
    <3> HIDE DEF x
    <3> QED BY <3>1, <3>3
  <2> QED BY <1>1, <2>1, <2>2, QuietCounts DEF SameReceivers
<1>4. ASSUME NEW c \in ProcessChannels, GraceElapses(c) PROVE Counts'
  <2>1. StoreBoxes([box EXCEPT ![mailboxes[c]].aged = TRUE])
    BY <1>4 DEF GraceElapses, Store
  <2>2. SameReceivers([box EXCEPT ![mailboxes[c]].aged = TRUE])
    BY SettingCountsNot, CountsAreNumbers DEF SameReceivers, Typed
  <2> QED BY <1>1, <2>1, <2>2, QuietCounts
<1> QED BY <1>2, <1>3, <1>4

\* Every step.
LEMMA NextCounts ==
  ASSUME Typed, Counts, [Next]_vars
  PROVE  Counts'
<1>1. ASSUME NEW t \in Tasks, Progress(t) PROVE Counts'
  BY <1>1, MoveCounts, ReadyWakeCounts, LockRunCounts, SubscribedCounts, ConfirmedCounts, GetCounts,
     GroupCounts, TidyDoneCounts DEF Progress
<1>2. ASSUME NEW t \in Tasks, Interrupt(t) PROVE Counts'
  BY <1>2, SubAbortedCounts, ConfAbortedCounts, WaitCancelledCounts, ReadCancelledCounts,
     GroupAbortedCounts, TidyCancelledCounts DEF Interrupt
<1>3. CASE UNCHANGED vars
  BY <1>3 DEF vars, Counts, ReceiversAreCounted, ReadOnly
<1> QED BY <1>1, <1>2, <1>3, CallCounts, DiscardCounts, FlushCounts, OutsideCounts DEF Next

\* There are no reads at first.
LEMMA InitCounts == Init => Counts
<1> SUFFICES ASSUME Init PROVE Counts
  OBVIOUS
<1>1. (\A t \in Tasks : task[t] = Idle) /\ \A b \in BoxIds : box[b] = NewBox
  BY DEF Init
<1>2. Idle.rd = None
  BY DEF Idle
<1>3. ASSUME NEW b \in BoxIds PROVE box[b].receivers = Cardinality(ReadsOf(b))
  <2>1. ReadsOf(b) = {}
    BY <1>1, <1>2, IdsAreNumbers, NoneIsFresh DEF ReadsOf
  <2> QED BY <1>1, <2>1, FS_EmptySet DEF NewBox
<1> QED BY <1>1, <1>2, <1>3 DEF Counts, ReceiversAreCounted, ReadsOf, ReadOnly

\* Every read is counted on the one mailbox it is on, through sweeps, replacements by flush(),
\* failures and cancellations wherever they land: the count that releases a plain channel and
\* that the sweep asks for is right.
THEOREM ReadsAreCounted == Spec => []ReceiversAreCounted
<1>1. TypeOK /\ Counts /\ [Next]_vars => (TypeOK /\ Counts)'
  <2> SUFFICES ASSUME TypeOK, Counts, [Next]_vars PROVE (TypeOK /\ Counts)'
    OBVIOUS
  <2>1. Typed
    BY NextTyped DEF Typed
  <2> QED BY <2>1, NextCounts DEF Typed
<1>2. Counts => ReceiversAreCounted
  BY DEF Counts
<1> QED BY <1>1, <1>2, InitTyped, InitCounts, PTL DEF Spec

-----------------------------------------------------------------------------
(* A step of one task. *)

\* What is in order is counted.
LEMMA ReadsCount == ASSUME Reads PROVE Counts
  BY DEF Reads

\* A box is under one channel, and a ready one there is subscribed.
LEMMA OneSlot ==
  ASSUME Owned, NEW c \in Channels, mailboxes[c] # None
  PROVE  /\ \A d \in Channels : mailboxes[d] = mailboxes[c] => d = c
         /\ box[mailboxes[c]].ready => box[mailboxes[c]].subscribed
<1>1. SlotOK(c)
  BY DEF Owned, TableOK
<1> QED BY <1>1 DEF SlotOK

\* Nobody but t reads b, makes it or has been woken to use it.
Free(t, b) ==
    \A u \in Tasks : u # t =>
        /\ ~(task[u].pc = "get" /\ task[u].rd = b)
        /\ ~(task[u].pc \in {"sub", "conf"} /\ task[u].bx = b)
        /\ ~(task[u].pc = "ready" /\ task[u].bx = b /\ box[b].ready /\ box[b].subscribed)

\* A mailbox no group needs: it is not ready, or its channel is in none.
Spare(c) == ~box[mailboxes[c]].ready \/ ~InAGroup(c)

\* The table loses mailboxes that others and the groups do not need, and gains fresh ones.
TablesStep(t) ==
    \A c \in Channels :
        \/ mailboxes'[c] = mailboxes[c]
        \/ mailboxes'[c] = None /\ Free(t, mailboxes[c]) /\ Spare(c)
        \/ mailboxes[c] = None /\ mailboxes'[c] \in Fresh(BoxIds, BoxRefs)

\* The plain channels b is under after the step are in a group.
LeftToGroups(b) == \A c \in PlainChannels : mailboxes'[c] = b => InAGroup(c)

\* A box that is referred to becomes ready only while it is being made, and usable only under
\* its channel.
Near(nb, b) ==
    /\ nb[b].superseded = box[b].superseded
    /\ nb[b].aged => box[b].aged
    /\ nb[b].left => box[b].left \/ LeftToGroups(b)
    /\ box[b].ready => nb[b].ready
    /\ nb[b].ready /\ nb[b].subscribed =>
          \/ box[b].ready /\ box[b].subscribed
          \/ \E c \in Channels : mailboxes[c] = b /\ mailboxes'[c] = b
BoxesStep(nb) ==
    \A b \in BoxIds : /\ BoxOK(nb[b])
                      /\ IF b \in BoxRefs THEN Near(nb, b) ELSE ~nb[b].superseded /\ ~nb[b].left

\* An entry of a superseded box goes only to t, which stops waiting there.
EntriesStep(t, nb) ==
    \A b \in BoxIds : nb[b].superseded =>
        /\ t \in Reading(b)' => t \in Reading(b)
        /\ nb[b].msgs + nb[b].wakes + One(t \in Reading(b))
             >= box[b].msgs + box[b].wakes + One(t \in Reading(b)')

\* The waits of the others are as they were.
LEMMA OthersWait ==
  ASSUME Typed, Owned, Reads, NEW t \in Tasks, NEW nb \in [BoxIds -> Boxes], StoreBoxes(nb),
         generation' = generation, TablesStep(t), BoxesStep(nb),
         NEW u \in Tasks, u # t, task'[u] = task[u]
  PROVE  WaitOK(u)'
<1>1. WaitOK(u) /\ task[u].bx \in BoxIds \cup {None} /\ task[u].rd \in BoxIds \cup {None}
  BY CallFields DEF Reads, WaitsOK, Typed
<1>2. /\ task[u].bx # None => task[u].bx \in BoxRefs /\ box'[task[u].bx] = nb[task[u].bx]
      /\ task[u].rd # None => task[u].rd \in BoxRefs /\ box'[task[u].rd] = nb[task[u].rd]
  BY Stored DEF BoxRefs
<1>3. /\ task[u].bx # None => Near(nb, task[u].bx)
      /\ task[u].rd # None => Near(nb, task[u].rd)
  BY <1>1, <1>2 DEF BoxesStep
<1>5. \A b \in BoxRefs : \A c \in Channels : mailboxes'[c] = b => mailboxes[c] = b
  BY DEF TablesStep, Fresh, BoxRefs
<1>6. KeptByMaker(u)'
  <2> SUFFICES ASSUME task[u].pc \in {"sub", "conf"}, task[u].gen = generation
               PROVE  mailboxes'[task[u].ch] = task[u].bx
    BY DEF KeptByMaker
  <2>1. task[u].ch \in Channels /\ task[u].bx # None
    BY CallFields DEF Typed, Shaped
  <2>2. mailboxes[task[u].ch] = task[u].bx
    BY <1>1 DEF WaitOK, KeptByMaker
  <2>3. ~Free(t, task[u].bx)
    BY DEF Free
  <2> QED BY <2>1, <2>2, <2>3 DEF TablesStep
<1>7. ReadingOK(u)'
  <2> SUFFICES ASSUME task[u].rd # None
               PROVE  \/ box'[task[u].rd].superseded
                      \/ task[u].pc = "get" /\ mailboxes'[task[u].ch] = task[u].rd
    BY DEF ReadingOK
  <2>1. CASE box[task[u].rd].superseded
    BY <1>2, <1>3, <2>1 DEF Near
  <2>2. CASE task[u].pc = "get" /\ mailboxes[task[u].ch] = task[u].rd
    <3>1. task[u].ch \in Channels /\ ~Free(t, task[u].rd)
      BY <2>2, CallFields DEF Free, Typed, Shaped
    <3> QED BY <2>2, <3>1 DEF TablesStep
  <2> QED BY <1>1, <2>1, <2>2 DEF WaitOK, ReadingOK
<1>8. WaiterOK(u)'
  <2> SUFFICES ASSUME task[u].pc = "ready"
               PROVE  /\ ~box'[task[u].bx].ready =>
                            mailboxes'[task[u].ch] = task[u].bx \/ \A c \in Channels : mailboxes'[c] # task[u].bx
                      /\ box'[task[u].bx].ready /\ box'[task[u].bx].subscribed =>
                            \/ mailboxes'[task[u].ch] = task[u].bx /\ ~box'[task[u].bx].aged
                            \/ box'[task[u].bx].superseded
    BY DEF WaiterOK
  <2> DEFINE b == task[u].bx
  <2>1. /\ b \in BoxIds /\ b \in BoxRefs /\ box'[b] = nb[b] /\ Near(nb, b) /\ task[u].ch \in Channels
        /\ BoxOK(box[b])
    BY <1>1, <1>2, <1>3, CallFields DEF Typed, Shaped, Reads, BoxesOK
  <2>2. /\ ~box[b].ready => mailboxes[task[u].ch] = b \/ \A c \in Channels : mailboxes[c] # b
        /\ box[b].ready /\ box[b].subscribed =>
              \/ mailboxes[task[u].ch] = b /\ ~box[b].aged
              \/ box[b].superseded
    BY <1>1 DEF WaitOK, WaiterOK
  <2>3. \A c, d \in Channels : mailboxes[c] = b /\ mailboxes[d] = b => c = d
    <3>1. b # None
      BY <2>1, IdsAreNumbers, NoneIsFresh
    <3> QED BY <3>1, OneSlot
  <2>4. ASSUME ~nb[b].ready
        PROVE  mailboxes'[task[u].ch] = b \/ \A c \in Channels : mailboxes'[c] # b
    <3>1. mailboxes[task[u].ch] = b \/ \A c \in Channels : mailboxes[c] # b
      BY <2>1, <2>2, <2>4 DEF Near
    <3>2. \A c \in Channels : mailboxes'[c] = b => mailboxes[c] = b
      BY <1>5, <2>1
    <3> QED BY <2>1, <2>3, <3>1, <3>2
  <2>5. ASSUME nb[b].ready, nb[b].subscribed
        PROVE  \/ mailboxes'[task[u].ch] = b /\ ~nb[b].aged
               \/ nb[b].superseded
    <3>1. CASE box[b].ready /\ box[b].subscribed
      <4>1. ~Free(t, b)
        BY <3>1 DEF Free
      <4>2. mailboxes[task[u].ch] = b => mailboxes'[task[u].ch] = b
        BY <2>1, <4>1, IdsAreNumbers, NoneIsFresh DEF TablesStep
      <4> QED BY <2>1, <2>2, <3>1, <4>2 DEF Near
    <3>2. CASE ~(box[b].ready /\ box[b].subscribed)
      <4>1. PICK c \in Channels : mailboxes[c] = b /\ mailboxes'[c] = b
        BY <2>1, <2>5, <3>2 DEF Near
      <4>2. CASE box[b].ready
        <5>1. box[b].subscribed
          <6>1. mailboxes[c] # None
            BY <4>1, <2>1, IdsAreNumbers, NoneIsFresh
          <6> QED BY <4>1, <4>2, <6>1, OneSlot
        <5> QED BY <3>2, <4>2, <5>1
      <4>3. CASE ~box[b].ready
        <5>1. task[u].ch = c
          BY <2>1, <2>2, <2>3, <4>1, <4>3
        <5> QED BY <2>1, <4>1, <4>3, <5>1 DEF Near, BoxOK
      <4> QED BY <4>2, <4>3
    <3> QED BY <3>1, <3>2
  <2> QED BY <2>1, <2>4, <2>5
<1> QED BY <1>6, <1>7, <1>8 DEF WaitOK

\* The ready mailbox of a channel in a group stays what it is.
GroupsKeepBoxes ==
    \A c \in Channels : mailboxes[c] # None /\ box[mailboxes[c]].ready /\ InAGroup(c)
                         => mailboxes'[c] = mailboxes[c] /\ box'[mailboxes[c]].ready

\* The mailbox of a plain channel that its last reader left was left before, or is in a group.
LeftByReaders ==
    \A c \in PlainChannels : mailboxes'[c] # None /\ box'[mailboxes'[c]].left
                              => (mailboxes'[c] = mailboxes[c] /\ box[mailboxes[c]].left) \/ InAGroup(c)

\* A step of t whose own wait is in order.
LEMMA StepReads ==
  ASSUME Typed, Owned, Reads, Counts', NEW t \in Tasks, NEW nb \in [BoxIds -> Boxes], StoreBoxes(nb),
         generation' = generation, \A u \in Tasks : u # t => task'[u] = task[u],
         TablesStep(t), BoxesStep(nb), EntriesStep(t, nb), WaitOK(t)'
  PROVE  Reads' /\ GroupsKeepBoxes /\ LeftByReaders
<1>2. BoxesOK'
  BY BoxesNext DEF BoxesStep
<1>3. TabledOK'
  <2> SUFFICES ASSUME NEW c \in Channels, mailboxes'[c] # None PROVE ~box'[mailboxes'[c]].superseded
    BY DEF TabledOK
  <2>1. mailboxes'[c] \in BoxIds /\ box'[mailboxes'[c]] = nb[mailboxes'[c]]
    BY Stored DEF Typed, TypeOK
  <2>2. CASE mailboxes'[c] = mailboxes[c]
    <3>1. mailboxes[c] \in BoxRefs
      BY <2>2 DEF BoxRefs
    <3> QED BY <2>1, <2>2, <3>1 DEF BoxesStep, Near, Reads, TabledOK
  <2>3. CASE mailboxes'[c] \in Fresh(BoxIds, BoxRefs)
    BY <2>1, <2>3 DEF BoxesStep, Fresh
  <2> QED BY <2>2, <2>3 DEF TablesStep
<1>8. TakenOK'
  <2> SUFFICES ASSUME NEW b \in BoxIds, box'[b].superseded PROVE generation' # 0
    BY DEF TakenOK
  <2>1. nb[b].superseded
    BY DEF StoreBoxes, NewBox
  <2> QED BY <2>1 DEF BoxesStep, Near, Reads, TakenOK
<1>4. WaitsOK'
  <2>1. ASSUME NEW u \in Tasks PROVE WaitOK(u)'
    <3>1. CASE u = t
      BY <3>1
    <3>2. CASE u # t
      BY <3>2, OthersWait
    <3> QED BY <3>1, <3>2
  <2> QED BY <2>1 DEF WaitsOK
<1>5. WokenOK'
  <2>1. ASSUME NEW b \in BoxIds, nb[b].superseded
        PROVE  Cardinality(Reading(b)') <= nb[b].msgs + nb[b].wakes
    <3>1. /\ Reading(b) \subseteq Tasks /\ Reading(b)' \subseteq Tasks
          /\ \A u \in Tasks : u # t => (u \in Reading(b) <=> u \in Reading(b)')
      BY DEF Reading
    <3>2. /\ Cardinality(Reading(b)) \in Nat /\ Cardinality(Reading(b)') \in Nat
          /\ Cardinality(Reading(b)') = Cardinality(Reading(b)) - One(t \in Reading(b)) + One(t \in Reading(b)')
      BY <3>1, OneMoves
    <3>3. box[b].superseded
      BY <2>1 DEF BoxesStep, Near
    <3>4. Cardinality(Reading(b)) <= box[b].msgs + box[b].wakes
      BY <3>3 DEF Reads, WokenOK
    <3>5. nb[b].msgs + nb[b].wakes + One(t \in Reading(b)) >= box[b].msgs + box[b].wakes + One(t \in Reading(b)')
      BY <2>1 DEF EntriesStep
    <3>6. box[b].msgs \in Int /\ box[b].wakes \in Int /\ nb[b].msgs \in Int /\ nb[b].wakes \in Int
      <4>1. nb[b] \in Boxes /\ box[b] \in Boxes
        BY DEF Typed, TypeOK
      <4> QED BY <4>1, Bounds DEF Boxes
    <3> HIDE DEF One
    <3>7. One(t \in Reading(b)) \in Int /\ One(t \in Reading(b)') \in Int
      BY DEF One
    <3> QED BY <3>2, <3>4, <3>5, <3>6, <3>7
  <2> QED BY <2>1, WokenNext
<1>6. GroupsKeepBoxes
  <2> SUFFICES ASSUME NEW c \in Channels, mailboxes[c] # None, box[mailboxes[c]].ready, InAGroup(c)
               PROVE  mailboxes'[c] = mailboxes[c] /\ box'[mailboxes[c]].ready
    BY DEF GroupsKeepBoxes
  <2>1. mailboxes'[c] = mailboxes[c]
    BY DEF TablesStep, Spare
  <2>2. mailboxes[c] \in BoxIds /\ mailboxes[c] \in BoxRefs /\ box'[mailboxes[c]] = nb[mailboxes[c]]
    BY <2>1, Stored DEF Typed, TypeOK, BoxRefs
  <2> QED BY <2>1, <2>2 DEF BoxesStep, Near
<1>7. LeftByReaders
  <2> SUFFICES ASSUME NEW c \in PlainChannels, mailboxes'[c] # None, box'[mailboxes'[c]].left
               PROVE  (mailboxes'[c] = mailboxes[c] /\ box[mailboxes[c]].left) \/ InAGroup(c)
    BY DEF LeftByReaders
  <2>1. c \in Channels
    BY DEF Channels
  <2>2. mailboxes'[c] \in BoxIds /\ box'[mailboxes'[c]] = nb[mailboxes'[c]]
    BY <2>1, Stored DEF Typed, TypeOK
  <2>3. CASE mailboxes'[c] = mailboxes[c]
    <3>1. mailboxes[c] \in BoxRefs
      BY <2>1, <2>3 DEF BoxRefs
    <3> QED BY <2>2, <2>3, <3>1 DEF BoxesStep, Near, LeftToGroups
  <2>4. CASE mailboxes'[c] \in Fresh(BoxIds, BoxRefs)
    BY <2>2, <2>4 DEF BoxesStep, Fresh
  <2> QED BY <2>1, <2>3, <2>4 DEF TablesStep
<1> QED BY <1>2, <1>3, <1>4, <1>5, <1>6, <1>7, <1>8 DEF Reads

-----------------------------------------------------------------------------
(* How a call goes on. *)

\* What t is handed is its channel's mailbox, and ready, unless flush() overtook it.
HandsOn(t) ==
    IsHanded(t) =>
        \/ mailboxes'[task'[t].ch] # None /\ box'[mailboxes'[task'[t].ch]].ready
        \/ Overtaken(t) /\ task'[t].pc # "get"

\* A flush() gives up every membership; another step keeps what the groups need.
Spares == (GroupsKeepBoxes \/ Lasting' = {}) /\ LeftByReaders
Goes(t) == Reads' /\ Spares /\ HandsOn(t) /\ \A u \in Tasks : u # t => task'[u] = task[u]

SameEntries(nb) == \A b \in BoxIds : nb[b].msgs = box[b].msgs /\ nb[b].wakes = box[b].wakes

\* The boxes as they are.
LEMMA SameBoxes ==
  ASSUME Typed, Owned, Reads
  PROVE  box \in [BoxIds -> Boxes] /\ BoxesStep(box) /\ SameReceivers(box) /\ SameEntries(box)
<1>1. \A b \in BoxIds : b \notin BoxRefs => ~box[b].superseded /\ ~box[b].left
  BY DEF Reads, BoxesOK, NewBox
<1> QED BY <1>1, CountsAreNumbers DEF Typed, TypeOK, BoxesStep, Near, SameReceivers, SameEntries, Reads, BoxesOK

\* A call that goes on with the read it had, if any.
LEMMA GoesOnReads ==
  ASSUME Typed, Owned, Reads, Counts', NEW t \in Tasks, NEW nb \in [BoxIds -> Boxes], NEW me \in Calls,
         Become(t, me), StoreBoxes(nb), generation' = generation,
         TablesStep(t), BoxesStep(nb), SameReceivers(nb), SameEntries(nb),
         me.rd = task[t].rd, me.pc \notin Held,
         me.pc = "ready" => me.bx # None /\ ~nb[me.bx].ready /\ mailboxes'[me.ch] = me.bx,
         me.pc \in {"sub", "conf"} /\ me.gen = generation => mailboxes'[me.ch] = me.bx,
         me.rd # None => me.op = "receive" /\ me.pc # "idle" /\ task[t].pc # "get"
  PROVE  Goes(t)
<1>1. task'[t] = me /\ \A u \in Tasks : u # t => task'[u] = task[u]
  BY DEF Become, Typed, TypeOK
<1>3. EntriesStep(t, nb)
  <2>1. \A b \in BoxIds : box[b].msgs \in Int /\ box[b].wakes \in Int
    BY Bounds DEF Typed, TypeOK, Boxes
  <2>2. \A b \in BoxIds : t \notin Reading(b)'
    BY <1>1 DEF Reading, Held
  <2> QED BY <2>1, <2>2 DEF EntriesStep, SameEntries, One
<1>4. WaitOK(t)'
  <2>1. KeptByMaker(t)'
    BY <1>1 DEF KeptByMaker, Held
  <2>4. WaiterOK(t)'
    <3>1. me.pc = "ready" => box'[me.bx] = nb[me.bx]
      BY <1>1, Stored
    <3> QED BY <1>1, <3>1 DEF WaiterOK
  <2>2. ASSUME me.rd # None PROVE box'[me.rd].superseded
    <3>1. box[me.rd].superseded
      BY <2>2 DEF Reads, WaitsOK, WaitOK, ReadingOK
    <3>2. me.rd \in BoxIds /\ me.rd \in BoxRefs /\ box'[me.rd] = nb[me.rd]
      BY <2>2, <1>1, Stored DEF BoxRefs, Calls
    <3> QED BY <3>1, <3>2 DEF BoxesStep, Near
  <2>3. ReadingOK(t)'
    BY <1>1, <2>2 DEF ReadingOK
  <2> QED BY <2>1, <2>3, <2>4 DEF WaitOK
<1>5. HandsOn(t)
  BY <1>1 DEF HandsOn, IsHanded
<1> QED BY <1>1, <1>3, <1>4, <1>5, StepReads DEF Goes, Spares

\* Boxes that are the same but for counts and less age are as good, if those left are groups'.
LEMMA AsGood ==
  ASSUME NEW nb \in [BoxIds -> Boxes], NEW ns \in [BoxIds -> Boxes], BoxesStep(nb),
         \A b \in BoxIds : /\ SameButReads(ns[b], nb[b])
                           /\ ns[b].left => nb[b].left \/ (b \in BoxRefs /\ LeftToGroups(b))
  PROVE  BoxesStep(ns)
  BY DEF BoxesStep, Near, BoxOK, SameButReads, SameFlags

\* A call whose read is over.
LEMMA LeavesReads ==
  ASSUME Typed, Owned, Reads, Counts', NEW t \in Tasks, NEW nb \in [BoxIds -> Boxes], NEW cancelled \in BOOLEAN,
         NEW me \in Calls, Become(t, me), StoreBoxes(Leave(nb, task[t].rd, cancelled)),
         me.rd = None, me.pc \notin Held \cup {"ready", "sub", "conf"}, generation' = generation,
         TablesStep(t), BoxesStep(nb), SameReceivers(nb),
         cancelled /\ task[t].pc = "get" /\ box[task[t].rd].receivers = 1 => LeftToGroups(task[t].rd),
         \A b \in BoxIds : nb[b].superseded =>
            nb[b].msgs + nb[b].wakes + One(t \in Reading(b)) >= box[b].msgs + box[b].wakes
  PROVE  Goes(t)
<1> DEFINE ns == Leave(nb, task[t].rd, cancelled)
<1>1. task'[t] = me /\ StoreBoxes(ns) /\ \A u \in Tasks : u # t => task'[u] = task[u]
  BY DEF Become, Typed, TypeOK
<1>2. task[t].rd \in BoxIds \cup {None}
  BY CallFields DEF Typed
<1>3. ns \in [BoxIds -> Boxes]
  BY <1>2, LeaveTyped
<1>4. AllLeft(ns, nb, task[t].rd, cancelled)
  BY <1>2, LeaveFields
<1> HIDE DEF ns
<1>5. BoxesStep(ns)
  <2>1. ASSUME NEW b \in BoxIds, cancelled, task[t].rd = b, nb[b].receivers = 1
        PROVE  b \in BoxRefs /\ LeftToGroups(b)
    <3>1. b \in BoxRefs
      BY <2>1, IdsAreNumbers, NoneIsFresh DEF BoxRefs
    <3>2. CASE task[t].pc = "get"
      BY <2>1, <3>1, <3>2 DEF SameReceivers
    <3>3. CASE task[t].pc # "get"
      <4>1. box[b].superseded
        BY <2>1, <3>3, IdsAreNumbers, NoneIsFresh DEF Reads, WaitsOK, WaitOK, ReadingOK
      <4>2. \A c \in Channels : mailboxes[c] # b /\ b # None
        BY <4>1, IdsAreNumbers, NoneIsFresh DEF Reads, TabledOK
      <4>3. \A c \in PlainChannels : mailboxes'[c] # b
        BY <3>1, <4>2 DEF TablesStep, Fresh, Channels
      <4> QED BY <3>1, <4>3 DEF LeftToGroups
    <3> QED BY <3>2, <3>3
  <2> QED BY <1>3, <1>4, <2>1, AsGood DEF AllLeft, LeftOver
<1>8. EntriesStep(t, ns)
  <2>1. \A b \in BoxIds : t \notin Reading(b)'
    BY <1>1 DEF Reading, Held
  <2>2. \A b \in BoxIds : box[b].msgs \in Int /\ box[b].wakes \in Int
    BY Bounds DEF Typed, TypeOK, Boxes
  <2> QED BY <1>4, <2>1, <2>2 DEF EntriesStep, SameButReads, One, AllLeft, LeftOver
<1>9. WaitOK(t)'
  BY <1>1 DEF WaitOK, WaiterOK, KeptByMaker, ReadingOK
<1>10. HandsOn(t)
  BY <1>1 DEF HandsOn, IsHanded
<1> QED BY <1>1, <1>3, <1>5, <1>8, <1>9, <1>10, StepReads DEF Goes, Spares

\* A call that ends.
LEMMA EndsReads ==
  ASSUME Typed, Owned, Reads, Counts', NEW t \in Tasks, NEW nb \in [BoxIds -> Boxes], NEW cancelled \in BOOLEAN,
         Ends(t, nb, cancelled), generation' = generation,
         TablesStep(t), BoxesStep(nb), SameReceivers(nb),
         cancelled /\ task[t].pc = "get" /\ box[task[t].rd].receivers = 1 => LeftToGroups(task[t].rd),
         \A b \in BoxIds : nb[b].superseded =>
            nb[b].msgs + nb[b].wakes + One(t \in Reading(b)) >= box[b].msgs + box[b].wakes
  PROVE  Goes(t)
<1>1. Become(t, Idle) /\ StoreBoxes(Leave(nb, task[t].rd, cancelled))
  BY DEF Ends, Store
<1>2. Idle \in Calls /\ Idle.rd = None /\ Idle.pc \notin Held \cup {"ready", "sub", "conf"}
  BY IdleFields DEF Idle, Held
<1> QED BY <1>1, <1>2, LeavesReads

\* A call is handed its channel's mailbox, or one that flush() has just taken away.
LEMMA HandOutReads ==
  ASSUME Typed, Owned, Reads, Counts', NEW t \in Tasks, NEW call \in Calls, call.ch # None,
         call.op = "add" => call.grp # None,
         call.rd = task[t].rd, call.rd # None => call.op = "receive", task[t].pc # "get",
         NEW b \in BoxIds, NEW nb \in [BoxIds -> Boxes], HandOut(t, call, b, nb),
         generation' = generation, TablesStep(t), BoxesStep(nb), SameReceivers(nb), SameEntries(nb),
         nb[b].ready, mailboxes'[call.ch] = b \/ (nb[b].superseded /\ Overtaken(t))
  PROVE  Goes(t)
<1> DEFINE me == [call EXCEPT !.bx = None, !.sub = None, !.gen = 0]
<1>0. b # None /\ call.ch \in Channels
  BY IdsAreNumbers, NoneIsFresh DEF Calls
<1>1. /\ me \in Calls
      /\ me.rd = call.rd /\ me.op = call.op /\ me.grp = call.grp /\ me.ch = call.ch
  <2>1. 0 \in 0..MaxFlushes
    BY Bounds
  <2> QED BY <2>1 DEF Calls
<1> HIDE DEF me
<1>2. ASSUME NEW ns, StoreBoxes(ns), \A x \in BoxIds : SameFlags(ns[x], nb[x]),
             task'[t].ch = call.ch, task'[t].pc = "get" => ~nb[b].superseded
      PROVE  HandsOn(t)
  <2>1. mailboxes'[call.ch] = b => box'[b] = ns[b]
    BY <1>0, <1>2, Stored
  <2>2. CASE mailboxes'[call.ch] = b
    BY <1>0, <1>2, <2>1, <2>2 DEF HandsOn, SameFlags
  <2>3. CASE nb[b].superseded /\ Overtaken(t)
    BY <1>2, <2>3 DEF HandsOn
  <2> QED BY <2>2, <2>3
<1>3. CASE HandToRead(t, me, b, nb)
  <2> DEFINE pc == IF nb[b].superseded THEN "move" ELSE "get"
             r == [me EXCEPT !.pc = pc, !.rd = b]
             counted == [nb EXCEPT ![b].receivers = @ + 1, ![b].left = FALSE]
             ns == IF me.rd = None THEN counted ELSE [counted EXCEPT ![me.rd].receivers = @ - 1]
  <2>1. pc \in PCs /\ pc = (IF nb[b].superseded THEN "move" ELSE "get")
    BY DEF PCs
  <2>2. /\ Become(t, r) /\ StoreBoxes(ns) /\ me.op = "receive"
    BY <1>3 DEF HandToRead, Store
  <2>3. me.rd \in BoxIds \cup {None}
    BY <1>1 DEF Calls
  <2>5. /\ ns \in [BoxIds -> Boxes]
        /\ \A x \in BoxIds : /\ SameButReads(ns[x], nb[x])
                             /\ ns[x].receivers = nb[x].receivers + One(b = x) - One(me.rd = x)
                             /\ ns[x].left => nb[x].left
    <3>1. ns = Moved(nb, b, me.rd)
      BY DEF Moved, CountedIn, CountedOut
    <3> HIDE DEF ns
    <3> QED BY <2>3, <3>1, MovedFields
  <2> HIDE DEF ns, counted, pc
  <2>6. r.pc = pc /\ r.rd = b /\ r.op = "receive" /\ r.ch = call.ch
    BY <1>1, <2>1, <2>2 DEF Calls
  <2> HIDE DEF r
  <2>7. task'[t] = r /\ \A u \in Tasks : u # t => task'[u] = task[u]
    BY <2>2 DEF Become, Typed, TypeOK
  <2>8. BoxesStep(ns)
    BY <2>5, AsGood
  <2>10. EntriesStep(t, ns)
    <3>1. \A x \in BoxIds : box[x].msgs \in Int /\ box[x].wakes \in Int
      BY Bounds DEF Typed, TypeOK, Boxes
    <3>2. \A x \in BoxIds : t \notin Reading(x)
      BY DEF Reading
    <3>3. \A x \in BoxIds : ns[x].superseded => t \notin Reading(x)'
      BY <2>1, <2>5, <2>6, <2>7 DEF Reading, SameButReads
    <3> QED BY <2>5, <3>1, <3>2, <3>3 DEF EntriesStep, SameEntries, SameButReads, One
  <2>11. WaitOK(t)'
    <3>1. box'[b] = ns[b]
      BY <1>0, <2>2, <2>6, <2>7, Stored
    <3>2. WaiterOK(t)' /\ KeptByMaker(t)'
      BY <2>1, <2>6, <2>7 DEF WaiterOK, KeptByMaker
    <3>3. ReadingOK(t)'
      BY <2>1, <2>5, <2>6, <2>7, <3>1 DEF ReadingOK, SameButReads
    <3> QED BY <3>2, <3>3 DEF WaitOK
  <2>12. HandsOn(t)
    <3>1. task'[t].ch = call.ch /\ (task'[t].pc = "get" => ~nb[b].superseded)
      BY <2>1, <2>6, <2>7
    <3>2. \A x \in BoxIds : SameFlags(ns[x], nb[x])
      BY <2>5 DEF SameButReads
    <3> QED BY <1>2, <2>2, <3>1, <3>2
  <2> QED BY <2>2, <2>5, <2>7, <2>8, <2>10, <2>11, <2>12, StepReads DEF Goes, Spares
<1>4. ASSUME NEW r \in Calls, r.rd = None, r.pc \in {"handed", "glock"}, r.ch = call.ch, me.rd = None,
             Become(t, r), StoreBoxes(nb)
      PROVE  Goes(t)
  <2>1. task'[t] = r /\ \A u \in Tasks : u # t => task'[u] = task[u]
    BY <1>4 DEF Become, Typed, TypeOK
  <2>2. HandsOn(t)
    <3>1. \A x \in BoxIds : SameFlags(nb[x], nb[x])
      BY DEF SameFlags
    <3> QED BY <1>2, <1>4, <2>1, <3>1
  <2>4. EntriesStep(t, nb)
    <3>1. \A x \in BoxIds : box[x].msgs \in Int /\ box[x].wakes \in Int
      BY Bounds DEF Typed, TypeOK, Boxes
    <3>2. \A x \in BoxIds : t \notin Reading(x)'
      BY <1>4, <2>1 DEF Reading
    <3> QED BY <3>1, <3>2 DEF EntriesStep, SameEntries, One
  <2>5. WaitOK(t)'
    BY <1>4, <2>1 DEF WaitOK, WaiterOK, KeptByMaker, ReadingOK
  <2> QED BY <1>4, <2>1, <2>2, <2>4, <2>5, StepReads DEF Goes, Spares
<1>5. CASE HandToCaller(t, me, nb)
  <2> DEFINE r == [Idle EXCEPT !.pc = "handed", !.ch = me.ch]
  <2>1. Idle \in Calls /\ Idle.rd = None /\ me.ch \in Channels
    BY <1>0, <1>1, IdleFields DEF Idle
  <2>2. r \in Calls /\ r.pc = "handed" /\ r.rd = None /\ r.ch = call.ch
    <3>1. "handed" \in PCs
      BY DEF PCs
    <3> QED BY ZenonT(40), <1>1, <2>1, <3>1 DEF Calls
  <2>3. Become(t, r) /\ StoreBoxes(nb) /\ me.op = "new"
    BY <1>5 DEF HandToCaller, Store
  <2> HIDE DEF r
  <2>4. me.rd = None
    BY <1>1, <2>3
  <2> QED BY <1>4, <2>2, <2>3, <2>4
<1>6. CASE HandToAdd(t, me, nb)
  <2>1. PICK x \in IF groups[me.grp] = None THEN Fresh(SetIds, SetRefs) ELSE {groups[me.grp]} :
             Become(t, [me EXCEPT !.pc = "glock", !.set = x]) /\ StoreBoxes(nb)
    BY <1>6 DEF HandToAdd
  <2>2. x \in SetIds /\ me.rd = None
    <3>1. me.grp \in Groups /\ me.op = "add"
      BY <1>1, <1>6 DEF HandToAdd, Calls
    <3> QED BY <1>1, <2>1, <3>1, FreshIsOne DEF Typed, TypeOK
  <2> DEFINE r == [me EXCEPT !.pc = "glock", !.set = x]
  <2>3. r \in Calls /\ r.pc = "glock" /\ r.rd = None /\ r.ch = call.ch
    <3>1. "glock" \in PCs
      BY DEF PCs
    <3> QED BY ZenonT(40), <1>1, <2>2, <3>1 DEF Calls
  <2> HIDE DEF r
  <2>4. Become(t, r)
    BY <2>1 DEF r
  <2> QED BY <1>4, <2>1, <2>2, <2>3, <2>4
<1> QED BY <1>3, <1>5, <1>6 DEF HandOut, me

\* A call that looks its mailbox up is handed it, or waits for it or for the lock.
LEMMA LookUpReads ==
  ASSUME Typed, Owned, Reads, Counts', NEW t \in Tasks, NEW call \in Calls, call.ch # None,
         call.op = "add" => call.grp # None,
         call.rd = task[t].rd, call.rd # None => call.op = "receive", task[t].pc # "get",
         NEW nb \in [BoxIds -> Boxes], LookUp(t, call, nb),
         generation' = generation, TablesStep(t), BoxesStep(nb), SameReceivers(nb), SameEntries(nb)
  PROVE  Goes(t)
<1> DEFINE b == mailboxes'[call.ch]
           pc == IF b = None THEN "lock" ELSE "ready"
           me == [call EXCEPT !.pc = pc, !.bx = b, !.gen = 0]
<1>1. b \in BoxIds \cup {None}
  BY DEF Calls, Typed, TypeOK
<1>2. CASE (b # None => ~nb[b].ready) /\ Become(t, me) /\ Store(nb)
  <2>1. pc \in PCs /\ 0 \in 0..MaxFlushes /\ (pc = IF b = None THEN "lock" ELSE "ready")
    BY Bounds DEF PCs
  <2>2. b = mailboxes'[call.ch]
    OBVIOUS
  <2> HIDE DEF pc, b
  <2>3. /\ me \in Calls /\ me.pc = pc /\ me.bx = b /\ me.ch = call.ch
        /\ me.rd = call.rd /\ me.op = call.op
    BY <1>1, <2>1 DEF Calls
  <2>4. Become(t, me) /\ StoreBoxes(nb)
    BY <1>2 DEF Store
  <2> HIDE DEF me
  <2>5. /\ me.pc = "ready" => me.bx # None /\ ~nb[me.bx].ready /\ mailboxes'[me.ch] = me.bx
        /\ me.pc \notin Held \cup {"sub", "conf", "idle"}
        /\ me.rd = task[t].rd
        /\ me.rd # None => me.op = "receive"
    BY <1>2, <2>1, <2>2, <2>3 DEF Held
  <2> QED BY <2>3, <2>4, <2>5, GoesOnReads
<1>3. CASE b # None /\ nb[b].ready /\ HandOut(t, call, b, nb)
  <2>1. b \in BoxIds /\ mailboxes'[call.ch] = b
    BY <1>1, <1>3
  <2> HIDE DEF b
  <2> QED BY <1>3, <2>1, HandOutReads
<1> QED BY <1>2, <1>3 DEF LookUp

-----------------------------------------------------------------------------
(* The actions. *)

\* Somebody else who reads b is counted there.
LEMMA OthersCounted ==
  ASSUME Typed, Reads, NEW t \in Tasks, NEW b \in BoxIds
  PROVE  /\ box[b].receivers \in Nat
         /\ box[b].receivers = 0 => \A u \in Tasks : task[u].rd # b
         /\ box[b].receivers = 1 /\ task[t].rd = b => \A u \in Tasks : u # t => task[u].rd # b
<1>1. IsFiniteSet(ReadsOf(b)) /\ box[b].receivers = Cardinality(ReadsOf(b))
  BY Bounds, FS_Subset DEF Reads, Counts, ReceiversAreCounted, ReadsOf
<1>2. box[b].receivers \in Nat
  BY <1>1, FS_CardinalityType
<1>3. box[b].receivers = 0 => ReadsOf(b) = {}
  BY <1>1, FS_EmptySet
<1>4. ASSUME box[b].receivers = 1, task[t].rd = b, NEW u \in Tasks, u # t PROVE task[u].rd # b
  <2>1. PICK x : ReadsOf(b) = {x}
    BY <1>1, <1>4, FS_Singleton
  <2> QED BY <1>4, <2>1 DEF ReadsOf
<1> QED BY <1>2, <1>3, <1>4 DEF ReadsOf

\* A mailbox swept is nobody's.
LEMMA SweptIsFree ==
  ASSUME Typed, Owned, Reads, NEW t \in Tasks, NEW c \in Channels, Sweepable(c)
  PROVE  Free(t, mailboxes[c])
<1> DEFINE b == mailboxes[c]
<1>1. b \in BoxIds /\ box[b].receivers = 0 /\ box[b].aged
  BY DEF Sweepable, Typed, TypeOK
<1>2. box[b].ready /\ ~box[b].superseded
  BY <1>1, IdsAreNumbers, NoneIsFresh DEF Reads, BoxesOK, BoxOK, TabledOK
<1> HIDE DEF b
<1> SUFFICES ASSUME NEW u \in Tasks
             PROVE  /\ task[u].rd # b
                    /\ ~(task[u].pc \in {"sub", "conf"} /\ task[u].bx = b)
                    /\ ~(task[u].pc = "ready" /\ task[u].bx = b /\ box[b].ready /\ box[b].subscribed)
  BY DEF Free, b
<1>3. task[u].rd # b
  BY <1>1, OthersCounted
<1>4. ~(task[u].pc \in {"sub", "conf"} /\ task[u].bx = b)
  BY <1>2 DEF Owned, CallsOwn, CallOK, MakerOK, Making
<1>5. ~(task[u].pc = "ready" /\ task[u].bx = b /\ box[b].ready /\ box[b].subscribed)
  BY <1>1, <1>2 DEF Reads, WaitsOK, WaitOK, WaiterOK
<1> QED BY <1>3, <1>4, <1>5

\* _mailbox() from its start.
LEMMA MailboxReads ==
  ASSUME Typed, Owned, Reads, Counts', NEW t \in Tasks, NEW call \in Calls, call.ch # None,
         call.op = "add" => call.grp # None,
         call.rd = task[t].rd, call.rd # None => call.op = "receive", task[t].pc # "get",
         Mailbox(t, call)
  PROVE  Goes(t)
<1>1. mailboxes' \in {mailboxes, Swept} /\ generation' = generation /\ LookUp(t, call, box)
  BY DEF Mailbox
<1>2. TablesStep(t)
  BY <1>1, SweptIsFree DEF TablesStep, Swept, Spare, Sweepable
<1> QED BY <1>1, <1>2, SameBoxes, LookUpReads

\* The start of receive(), new_channel() and group_add().
LEMMA CallReads ==
  ASSUME Typed, Owned, Reads, Counts', NEW t \in Tasks, Call(t)
  PROVE  Goes(t)
<1>1. PICK op \in {"receive", "new", "add"} \cap Env, c \in Channels, g \in Groups \cup {None} :
           /\ (op = "add") <=> (g # None)
           /\ Mailbox(t, [Idle EXCEPT !.op = op, !.ch = c, !.grp = g])
  BY DEF Call
<1> DEFINE call == [Idle EXCEPT !.op = op, !.ch = c, !.grp = g]
<1>2. c # None
  BY NoneIsFresh
<1>3. op \in Ops
  BY DEF Ops
<1>4. call \in Calls /\ call.ch = c /\ call.op = op /\ call.grp = g /\ call.rd = None
  BY <1>3, IdleFields DEF Idle, Calls
<1>5. Mailbox(t, call)
  BY <1>1
<1> HIDE DEF call
<1>6. task[t].pc \in {"idle", "handed"}
  BY DEF Call
<1>7. call.rd = task[t].rd
  BY <1>4, <1>6, ReadsCount, NoRead
<1> QED BY <1>1, <1>2, <1>4, <1>5, <1>6, <1>7, MailboxReads

\* The tables as they are.
LEMMA SameTables ==
  ASSUME NEW t \in Tasks, UNCHANGED mailboxes
  PROVE  TablesStep(t)
  BY DEF TablesStep

\* A read that flush() sent on.
LEMMA MoveReads ==
  ASSUME Typed, Owned, Reads, Counts', NEW t \in Tasks, Move(t)
  PROVE  Goes(t)
<1>1. task[t].pc = "move" /\ Mailbox(t, task[t])
  BY DEF Move
<1> QED BY <1>1, ReadsCount, UnderWay, MailboxReads

\* A waiter woken by box.ready.
LEMMA ReadyWakeReads ==
  ASSUME Typed, Owned, Reads, Counts', NEW t \in Tasks, ReadyWake(t)
  PROVE  Goes(t)
<1>1. /\ task[t].pc = "ready" /\ box[task[t].bx].ready
      /\ mailboxes' = mailboxes /\ generation' = generation
      /\ \/ box[task[t].bx].subscribed /\ HandOut(t, task[t], task[t].bx, box)
         \/ LookUp(t, task[t], box)
  BY DEF ReadyWake
<1>2. task[t].bx \in BoxIds
  BY <1>1, CallFields DEF Typed, TypeOK, Shaped
<1>3. TablesStep(t)
  BY <1>1, SameTables
<1>4. CASE box[task[t].bx].subscribed /\ HandOut(t, task[t], task[t].bx, box)
  <2>1. mailboxes'[task[t].ch] = task[t].bx \/ (box[task[t].bx].superseded /\ Overtaken(t))
    BY <1>1, <1>4 DEF Reads, WaitsOK, WaitOK, WaiterOK, Overtaken
  <2> QED BY <1>1, <1>2, <1>3, <1>4, <2>1, ReadsCount, UnderWay, SameBoxes, HandOutReads
<1>5. CASE LookUp(t, task[t], box)
  BY <1>1, <1>3, <1>5, ReadsCount, UnderWay, SameBoxes, LookUpReads
<1> QED BY <1>1, <1>4, <1>5

\* A fresh box is as new, and nothing under the channel it goes to.
LEMMA FreshTables ==
  ASSUME Typed, Reads, NEW t \in Tasks, NEW c \in Channels, mailboxes[c] = None,
         NEW b \in Fresh(BoxIds, BoxRefs), mailboxes' = [mailboxes EXCEPT ![c] = b]
  PROVE  TablesStep(t) /\ b \in BoxIds /\ b # None /\ box[b] = NewBox /\ b \notin BoxRefs /\ mailboxes'[c] = b
<1>1. b \in BoxIds /\ b \notin BoxRefs /\ b # None
  BY IdsAreNumbers, NoneIsFresh DEF Fresh
<1>2. \A d \in Channels : mailboxes'[d] = IF d = c THEN b ELSE mailboxes[d]
  BY DEF Typed, TypeOK
<1> QED BY <1>1, <1>2 DEF TablesStep, Reads, BoxesOK

\* subscribe_lock acquired.
LEMMA LockRunReads ==
  ASSUME Typed, Owned, Reads, Counts', NEW t \in Tasks, LockRun(t)
  PROVE  Goes(t)
<1> DEFINE c == task[t].ch
<1>1. task[t].pc = "lock" /\ LockFree /\ generation' = generation
  BY DEF LockRun
<1>2. /\ c \in Channels /\ c # None /\ task[t] \in Calls
      /\ task[t].op = "add" => task[t].grp # None
      /\ task[t].rd # None => task[t].op = "receive"
  BY <1>1, ReadsCount, UnderWay
<1>3. CASE mailboxes[c] # None /\ UNCHANGED mailboxes /\ HandOut(t, task[t], mailboxes[c], box)
  <2>1. mailboxes[c] \in BoxIds /\ mailboxes'[c] = mailboxes[c]
    BY <1>2, <1>3 DEF Typed, TypeOK
  <2>2. box[mailboxes[c]].ready
    <3>1. SlotOK(c)
      BY <1>2 DEF Owned, TableOK
    <3> QED BY <1>1, <1>3, <3>1 DEF SlotOK, LockFree, Making, Holding, LockedTidying
  <2> HIDE DEF c
  <2>3. TablesStep(t)
    BY <1>3, SameTables
  <2> QED BY <1>1, <1>2, <1>3, <2>1, <2>2, <2>3, SameBoxes, HandOutReads DEF c
<1>4. ASSUME mailboxes[c] = None, NEW b \in Fresh(BoxIds, BoxRefs), mailboxes' = [mailboxes EXCEPT ![c] = b],
             HandOut(t, task[t], b, [box EXCEPT ![b] = [NewBox EXCEPT !.ready = TRUE, !.subscribed = TRUE]])
      PROVE  Goes(t)
  <2> DEFINE nb == [box EXCEPT ![b] = [NewBox EXCEPT !.ready = TRUE, !.subscribed = TRUE]]
             made == [NewBox EXCEPT !.ready = TRUE, !.subscribed = TRUE]
  <2> HIDE DEF c
  <2>1. TablesStep(t) /\ b \in BoxIds /\ box[b] = NewBox /\ b \notin BoxRefs /\ mailboxes'[c] = b
    BY <1>2, <1>4, FreshTables
  <2>2. /\ made \in Boxes /\ made.ready /\ made.subscribed /\ ~made.aged /\ ~made.superseded /\ ~made.left
        /\ made.receivers = NewBox.receivers /\ made.msgs = NewBox.msgs /\ made.wakes = NewBox.wakes
        /\ made.wakes = 0
    <3>1. NewBox \in Boxes
      BY Bounds DEF NewBox, Boxes
    <3>2. ~NewBox.aged /\ ~NewBox.superseded /\ ~NewBox.left /\ NewBox.wakes = 0
      BY DEF NewBox
    <3> QED BY <3>1, <3>2 DEF Boxes
  <2> HIDE DEF made
  <2>3. nb \in [BoxIds -> Boxes] /\ \A x \in BoxIds : nb[x] = IF x = b THEN made ELSE box[x]
    BY <2>1, <2>2 DEF Typed, TypeOK, made
  <2> HIDE DEF nb
  <2>4. BoxesStep(nb)
    <3>1. BoxOK(made)
      BY <2>2 DEF BoxOK
    <3> QED BY <2>1, <2>2, <2>3, <3>1, SameBoxes DEF BoxesStep, Near
  <2>5. SameReceivers(nb) /\ SameEntries(nb)
    BY <2>1, <2>2, <2>3 DEF SameReceivers, SameEntries
  <2>6. nb[b].ready /\ HandOut(t, task[t], b, nb)
    BY <1>4, <2>1, <2>2, <2>3 DEF nb
  <2> QED BY <1>1, <1>2, <2>1, <2>3, <2>4, <2>5, <2>6, HandOutReads DEF c
<1>5. ASSUME mailboxes[c] = None, NEW b \in Fresh(BoxIds, BoxRefs), mailboxes' = [mailboxes EXCEPT ![c] = b],
             Become(t, [task[t] EXCEPT !.pc = "sub", !.bx = b, !.gen = generation]),
             Store([box EXCEPT ![b] = NewBox])
      PROVE  Goes(t)
  <2> DEFINE me == [task[t] EXCEPT !.pc = "sub", !.bx = b, !.gen = generation]
  <2>1. TablesStep(t) /\ b \in BoxIds /\ b # None /\ box[b] = NewBox /\ mailboxes'[c] = b
    <3> HIDE DEF c
    <3> QED BY <1>2, <1>5, FreshTables
  <2>2. [box EXCEPT ![b] = NewBox] = box
    BY <2>1 DEF Typed, TypeOK
  <2>3. StoreBoxes(box) /\ Become(t, me)
    BY <1>5, <2>2 DEF Store
  <2>4. /\ me \in Calls /\ me.pc = "sub" /\ me.bx = b /\ me.ch = c
        /\ me.rd = task[t].rd /\ me.op = task[t].op
    <3>1. "sub" \in PCs /\ generation \in 0..MaxFlushes
      BY DEF PCs, Holding, Typed, TypeOK
    <3> QED BY <1>2, <2>1, <3>1 DEF Calls
  <2> HIDE DEF me, c
  <2>5. me.pc \notin Held
    BY <2>4 DEF Held
  <2> QED BY <1>1, <1>2, <2>1, <2>3, <2>4, <2>5, SameBoxes, GoesOnReads
<1> QED BY <1>3, <1>4, <1>5 DEF LockRun

\* Client.subscribe() returned.
LEMMA SubscribedReads ==
  ASSUME Typed, Owned, Reads, Counts', NEW t \in Tasks, Subscribed(t)
  PROVE  Goes(t)
<1>1. PICK s \in Fresh(SubIds, SubRefs) :
         /\ Become(t, [task[t] EXCEPT !.pc = "conf", !.sub = s])
         /\ Store(IF task[t].ch \in PlainChannels THEN [box EXCEPT ![task[t].bx].sub = s] ELSE box)
  BY DEF Subscribed
<1>2. task[t].pc = "sub" /\ mailboxes' = mailboxes /\ generation' = generation
  BY DEF Subscribed, tables
<1>3. s \in SubIds
  BY FreshIsOne
<1>4. /\ task[t] \in Calls /\ task[t].ch \in Channels /\ (task[t].rd # None => task[t].op = "receive")
      /\ task[t].bx \in BoxIds /\ task[t].bx # None
  BY <1>2, ReadsCount, UnderWay, CallFields DEF Typed, TypeOK, Shaped
<1> DEFINE me == [task[t] EXCEPT !.pc = "conf", !.sub = s]
           nb == IF task[t].ch \in PlainChannels THEN [box EXCEPT ![task[t].bx].sub = s] ELSE box
<1>5. nb \in [BoxIds -> Boxes]
  BY <1>3, BoxSetTyped DEF Typed, TypeOK
<1>6. \A b \in BoxIds : /\ nb[b].ready = box[b].ready /\ nb[b].subscribed = box[b].subscribed
                        /\ nb[b].aged = box[b].aged /\ nb[b].superseded = box[b].superseded
                        /\ nb[b].receivers = box[b].receivers /\ (nb[b].left <=> box[b].left)
                        /\ nb[b].msgs = box[b].msgs /\ nb[b].wakes = box[b].wakes
  <2>1. \A b \in BoxIds : box[b] \in Boxes
    BY DEF Typed, TypeOK
  <2> QED BY <2>1 DEF Boxes, Typed, TypeOK
<1>7. Become(t, me) /\ StoreBoxes(nb)
  BY <1>1 DEF Store
<1>8. /\ me \in Calls /\ me.pc = "conf" /\ me.bx = task[t].bx /\ me.ch = task[t].ch
      /\ me.rd = task[t].rd /\ me.op = task[t].op /\ me.gen = task[t].gen
  <2>1. "conf" \in PCs
    BY DEF PCs, Holding
  <2> QED BY <1>3, <1>4, <2>1 DEF Calls
<1> HIDE DEF me, nb
<1>9. me.gen = generation => mailboxes'[me.ch] = me.bx
  BY <1>2, <1>8 DEF Reads, WaitsOK, WaitOK, KeptByMaker
<1>10. BoxesStep(nb) /\ SameReceivers(nb) /\ SameEntries(nb)
  BY <1>6, SameBoxes DEF BoxesStep, Near, BoxOK, SameReceivers, SameEntries
<1>11. TablesStep(t)
  BY <1>2, SameTables
<1>12. me.pc \notin Held
  BY <1>8 DEF Held
<1> QED BY <1>2, <1>4, <1>5, <1>7, <1>8, <1>9, <1>10, <1>11, <1>12, GoesOnReads

\* A call that goes into a clean-up, or on with one.
LEMMA TidyReads ==
  ASSUME Typed, Owned, Reads, Counts', NEW t \in Tasks, NEW nb \in [BoxIds -> Boxes], NEW me \in Calls,
         NEW ss \in SUBSET SubIds, NEW pc \in Tidying, Tidy(t, ss, pc, me),
         StoreBoxes(nb), generation' = generation,
         TablesStep(t), BoxesStep(nb), SameReceivers(nb), SameEntries(nb),
         me.rd = task[t].rd, me.rd # None => me.op = "receive" /\ task[t].pc # "get"
  PROVE  Goes(t)
<1>1. pc \in PCs /\ pc \notin Held \cup {"ready", "sub", "conf", "idle"}
  BY DEF PCs, Tidying, LockedTidying, Held
<1>2. PICK r \in Calls : Become(t, r) /\ r.pc = pc /\ r.rd = me.rd /\ r.op = me.op
  BY <1>1, TidyBecomes
<1> QED BY <1>1, <1>2, GoesOnReads

\* A mailbox given up lets its waiters go, but nobody to use it.
LEMMA GivenUpReads ==
  ASSUME Typed, Owned, Reads, NEW t \in Tasks, task[t].bx \in BoxIds,
         task[t].pc \in Making \/ box[task[t].bx].ready
  PROVE  /\ GivenUp(t) \in [BoxIds -> Boxes] /\ BoxesStep(GivenUp(t))
         /\ SameReceivers(GivenUp(t)) /\ SameEntries(GivenUp(t))
<1> DEFINE b == task[t].bx
           nb == GivenUp(t)
<1>1. \A x \in BoxIds : box[x] \in Boxes
  BY DEF Typed, TypeOK
<1>2. \A x \in BoxIds : /\ nb[x].ready = (box[x].ready \/ x = b) /\ nb[x].subscribed = box[x].subscribed
                        /\ nb[x].aged = box[x].aged /\ nb[x].superseded = box[x].superseded
                        /\ nb[x].receivers = box[x].receivers /\ (nb[x].left <=> box[x].left)
                        /\ nb[x].msgs = box[x].msgs /\ nb[x].wakes = box[x].wakes
  BY ZenonT(40), <1>1 DEF Boxes, Typed, TypeOK, GivenUp
<1>3. nb \in [BoxIds -> Boxes]
  BY GivenUpTyped DEF Typed
<1>4. box[b].subscribed => box[b].ready
  BY DEF Reads, BoxesOK, BoxOK
<1>5. BoxesStep(nb)
  <2> HIDE DEF nb, b
  <2>1. \A x \in BoxIds : nb[x].ready /\ nb[x].subscribed => box[x].ready /\ box[x].subscribed
    BY <1>2, <1>4
  <2>2. \A x \in BoxIds : BoxOK(nb[x])
    <3>1. \A x \in BoxIds : BoxOK(box[x])
      BY DEF Reads, BoxesOK
    <3> QED BY <1>2, <3>1 DEF BoxOK
  <2>3. \A x \in BoxIds : Near(nb, x)
    BY <1>2, <2>1 DEF Near
  <2>4. \A x \in BoxIds : x \notin BoxRefs => ~nb[x].superseded /\ ~nb[x].left
    BY <1>2, SameBoxes DEF BoxesStep
  <2> QED BY <2>2, <2>3, <2>4 DEF BoxesStep
<1> QED BY <1>2, <1>3, <1>5 DEF SameReceivers, SameEntries

\* A mailbox being made that is taken out is nobody else's.
LEMMA RemovedTables ==
  ASSUME Typed, Owned, Reads, NEW t \in Tasks, task[t].pc \in Making, mailboxes' = Removed(t)
  PROVE  TablesStep(t)
<1>1. ~box[task[t].bx].ready /\ task[t].bx # None
  BY DEF Owned, CallsOwn, CallOK, MakerOK
<1>2. Free(t, task[t].bx)
  <2> SUFFICES ASSUME NEW u \in Tasks, u # t
               PROVE  /\ ~(task[u].pc = "get" /\ task[u].rd = task[t].bx)
                      /\ ~(task[u].pc \in {"sub", "conf"})
    BY <1>1 DEF Free
  <2>1. task[u].rd # task[t].bx
    BY <1>1 DEF Owned, CallsOwn, CallOK, ReaderOK
  <2>2. task[u].pc \notin {"sub", "conf"}
    BY DEF Owned, Exclusive, Making, Holding, LockedTidying
  <2> QED BY <2>1, <2>2
<1> QED BY <1>1, <1>2 DEF TablesStep, Removed, Spare

\* Nothing gets lost where no entry is taken.
LEMMA EntriesKept ==
  ASSUME Typed, NEW nb, SameEntries(nb), NEW S
  PROVE  \A b \in BoxIds : nb[b].msgs + nb[b].wakes + One(S) >= box[b].msgs + box[b].wakes
<1>1. \A b \in BoxIds : box[b].msgs \in Int /\ box[b].wakes \in Int
  <2>1. \A b \in BoxIds : box[b] \in Boxes
    BY DEF Typed, TypeOK
  <2> QED BY <2>1, Bounds DEF Boxes
<1>2. One(S) \in Nat
  BY DEF One
<1> HIDE DEF One
<1> QED BY <1>1, <1>2 DEF SameEntries

\* The except branch of _mailbox().
LEMMA MailboxFailsReads ==
  ASSUME Typed, Owned, Reads, Counts', NEW t \in Tasks, task[t].pc \in Making, MailboxFails(t)
  PROVE  Goes(t)
<1>1. mailboxes' = Removed(t) /\ generation' = generation /\ Ends(t, GivenUp(t), FALSE)
  BY DEF MailboxFails
<1>2. task[t].bx \in BoxIds
  <2>1. task[t].bx # None
    BY DEF Owned, CallsOwn, CallOK, MakerOK
  <2> QED BY <2>1, CallFields DEF Typed
<1>3. /\ GivenUp(t) \in [BoxIds -> Boxes] /\ BoxesStep(GivenUp(t))
      /\ SameReceivers(GivenUp(t)) /\ SameEntries(GivenUp(t))
  BY <1>2, GivenUpReads
<1>4. TablesStep(t)
  BY <1>1, RemovedTables
<1>5. \A b \in BoxIds : GivenUp(t)[b].superseded =>
         GivenUp(t)[b].msgs + GivenUp(t)[b].wakes + One(t \in Reading(b)) >= box[b].msgs + box[b].wakes
  BY <1>3, EntriesKept
<1> QED BY <1>1, <1>3, <1>4, <1>5, EndsReads

\* A call that goes into a clean-up, having given up its mailbox or not.
LEMMA GivesUpReads ==
  ASSUME Typed, Owned, Reads, Counts', NEW t \in Tasks, task[t].pc \in {"sub", "conf", "gsub", "gconf"},
         NEW ss \in SUBSET SubIds, NEW pc \in Tidying,
         Tidy(t, ss, pc, [task[t] EXCEPT !.sub = None]), generation' = generation, TablesStep(t),
         NEW nb, StoreBoxes(nb), nb = box \/ (nb = GivenUp(t) /\ task[t].pc = "conf")
  PROVE  Goes(t)
<1> DEFINE me == [task[t] EXCEPT !.sub = None]
<1>1. task[t] \in Calls /\ (task[t].rd # None => task[t].op = "receive")
  BY ReadsCount, UnderWay
<1>2. me \in Calls /\ me.rd = task[t].rd /\ me.op = task[t].op
  BY <1>1 DEF Calls
<1>3. Tidy(t, ss, pc, me)
  OBVIOUS
<1> HIDE DEF me
<1>4. nb \in [BoxIds -> Boxes] /\ BoxesStep(nb) /\ SameReceivers(nb) /\ SameEntries(nb)
  <2>1. CASE nb = box
    BY <2>1, SameBoxes
  <2>2. CASE nb = GivenUp(t) /\ task[t].pc = "conf"
    <3>1. task[t].bx \in BoxIds
      BY <2>2, CallFields DEF Typed, TypeOK, Shaped
    <3> QED BY <2>2, <3>1, GivenUpReads DEF Making
  <2> QED BY <2>1, <2>2
<1> QED BY <1>1, <1>2, <1>3, <1>4, TidyReads

\* The subscription of a mailbox is confirmed.
LEMMA ConfirmedReads ==
  ASSUME Typed, Owned, Reads, Counts', NEW t \in Tasks, Confirmed(t)
  PROVE  Goes(t)
<1> DEFINE me == task[t]
           plain == me.ch \in PlainChannels
           nb == [GivenUp(t) EXCEPT ![me.bx].subscribed = TRUE]
<1>1. me.pc = "conf" /\ mailboxes' = mailboxes /\ generation' = generation
  BY DEF Confirmed
<1>2. me \in Calls /\ me.ch \in Channels /\ me.ch # None /\ me.bx \in BoxIds /\ me.sub \in SubIds
  BY <1>1, ReadsCount, UnderWay, CallFields DEF Typed, TypeOK, Shaped
<1>3. TablesStep(t)
  BY <1>1, SameTables
<1>4. CASE Unflushed(t) /\ HandOut(t, me, me.bx, nb)
  <2>1. mailboxes[me.ch] = me.bx
    BY <1>1, <1>4 DEF Unflushed, Reads, WaitsOK, WaitOK, KeptByMaker
  <2>2. /\ GivenUp(t) \in [BoxIds -> Boxes] /\ BoxesStep(GivenUp(t))
        /\ SameReceivers(GivenUp(t)) /\ SameEntries(GivenUp(t)) /\ GivenUp(t)[me.bx].ready
    BY <1>1, <1>2, GivenUpReads, GivenUpFlags DEF Making
  <2>3. nb \in [BoxIds -> Boxes]
    <3> DEFINE given == GivenUp(t)
    <3> HIDE DEF given
    <3>1. [given EXCEPT ![me.bx].subscribed = TRUE] \in [BoxIds -> Boxes]
      BY <2>2, BoxSetTyped DEF given
    <3> QED BY <3>1 DEF given
  <2>4. /\ nb[me.bx].ready
        /\ \A x \in BoxIds : /\ nb[x].ready = GivenUp(t)[x].ready
                             /\ nb[x].subscribed = (GivenUp(t)[x].subscribed \/ x = me.bx)
                             /\ nb[x].aged = GivenUp(t)[x].aged /\ nb[x].superseded = GivenUp(t)[x].superseded
                             /\ nb[x].receivers = GivenUp(t)[x].receivers /\ (nb[x].left <=> GivenUp(t)[x].left)
                             /\ nb[x].msgs = GivenUp(t)[x].msgs /\ nb[x].wakes = GivenUp(t)[x].wakes
    <3> DEFINE given == GivenUp(t)
    <3>1. given \in [BoxIds -> Boxes] /\ given[me.bx].ready
      BY <2>2
    <3>2. \A x \in BoxIds : given[x] \in Boxes
      BY <3>1
    <3> HIDE DEF given
    <3>3. /\ [given EXCEPT ![me.bx].subscribed = TRUE][me.bx].ready
          /\ \A x \in BoxIds : LET y == [given EXCEPT ![me.bx].subscribed = TRUE][x] IN
                /\ y.ready = given[x].ready
                /\ y.subscribed = (given[x].subscribed \/ x = me.bx)
                /\ y.aged = given[x].aged /\ y.superseded = given[x].superseded
                /\ y.receivers = given[x].receivers /\ (y.left <=> given[x].left)
                /\ y.msgs = given[x].msgs /\ y.wakes = given[x].wakes
      BY <1>2, <3>1, <3>2 DEF Boxes
    <3> QED BY <3>3 DEF given
  <2> HIDE DEF nb, me
  <2>5. BoxesStep(nb)
    <3>1. \A x \in BoxIds : BoxOK(GivenUp(t)[x])
      BY <2>2 DEF BoxesStep
    <3>2. \A x \in BoxIds : BoxOK(nb[x])
      BY <2>4, <3>1 DEF BoxOK
    <3>3. \A x \in BoxIds : x \in BoxRefs => Near(nb, x)
      <4>1. \A x \in BoxIds : x \in BoxRefs => Near(GivenUp(t), x)
        BY <2>2 DEF BoxesStep
      <4>2. mailboxes'[me.ch] = me.bx
        BY <1>1, <2>1
      <4>3. ASSUME NEW x \in BoxIds, x \in BoxRefs PROVE Near(nb, x)
        <5>1. Near(GivenUp(t), x)
          BY <4>1, <4>3
        <5>2. /\ nb[x].superseded = box[x].superseded
              /\ nb[x].aged => box[x].aged
              /\ nb[x].left => box[x].left \/ LeftToGroups(x)
              /\ box[x].ready => nb[x].ready
          BY <2>4, <5>1 DEF Near
        <5>3. CASE x = me.bx
          BY <1>2, <2>1, <4>2, <5>2, <5>3 DEF Near
        <5>4. CASE x # me.bx
          <6>1. nb[x].subscribed => GivenUp(t)[x].subscribed
            BY <2>4, <5>4
          <6>2. nb[x].ready => GivenUp(t)[x].ready
            BY <2>4
          <6> QED BY <5>1, <5>2, <6>1, <6>2 DEF Near
        <5> QED BY <5>3, <5>4
      <4> QED BY <4>3
    <3>4. \A x \in BoxIds : x \notin BoxRefs => ~nb[x].superseded /\ ~nb[x].left
      BY <2>2, <2>4 DEF BoxesStep
    <3> QED BY <3>2, <3>3, <3>4 DEF BoxesStep
  <2>6. SameReceivers(nb) /\ SameEntries(nb)
    BY <2>2, <2>4 DEF SameReceivers, SameEntries
  <2>7. /\ me.op = "add" => me.grp # None
        /\ me.rd = task[t].rd /\ (me.rd # None => me.op = "receive") /\ task[t].pc # "get"
    BY <1>1, ReadsCount, UnderWay DEF me
  <2>8. HandOut(t, me, me.bx, nb) /\ mailboxes'[me.ch] = me.bx
    BY <1>1, <1>4, <2>1
  <2> QED BY <1>1, <1>2, <1>3, <2>3, <2>4, <2>5, <2>6, <2>7, <2>8, HandOutReads
<1>5. CASE /\ Tidy(t, {me.sub}, IF plain THEN "tidyRetry" ELSE "tidyRetryBox", [me EXCEPT !.sub = None])
           /\ Store(IF plain THEN GivenUp(t) ELSE box)
  <2> DEFINE pc == IF plain THEN "tidyRetry" ELSE "tidyRetryBox"
             ns == IF plain THEN GivenUp(t) ELSE box
  <2>1. pc \in Tidying /\ {me.sub} \in SUBSET SubIds
    BY <1>2 DEF Tidying, LockedTidying
  <2>2. StoreBoxes(ns) /\ (ns = box \/ ns = GivenUp(t))
    BY <1>5 DEF Store
  <2>3. Tidy(t, {task[t].sub}, pc, [task[t] EXCEPT !.sub = None])
    BY <1>5
  <2> HIDE DEF pc, ns
  <2> QED BY <1>1, <1>3, <2>1, <2>2, <2>3, GivesUpReads
<1> QED BY <1>4, <1>5 DEF Confirmed

\* Cancelled or failed inside Client.subscribe().
LEMMA SubAbortedReads ==
  ASSUME Typed, Owned, Reads, Counts', NEW t \in Tasks, SubAborted(t)
  PROVE  Goes(t)
<1>1. task[t].pc = "sub"
  BY DEF SubAborted
<1>2. CASE MailboxFails(t)
  BY <1>1, <1>2, MailboxFailsReads DEF Making
<1>3. ASSUME UNCHANGED tables, Store(box), NEW s \in Fresh(SubIds, SubRefs),
             Become(t, [task[t] EXCEPT !.pc = "tidyAbort", !.todo = {s}])
      PROVE  Goes(t)
  <2> DEFINE me == [task[t] EXCEPT !.pc = "tidyAbort", !.todo = {s}]
  <2>1. task[t] \in Calls /\ (task[t].rd # None => task[t].op = "receive") /\ s \in SubIds
    BY <1>1, ReadsCount, UnderWay, FreshIsOne
  <2>2. me \in Calls /\ me.pc = "tidyAbort" /\ me.rd = task[t].rd /\ me.op = task[t].op
    <3>1. "tidyAbort" \in PCs
      BY DEF PCs, Tidying, LockedTidying
    <3> QED BY <2>1, <3>1 DEF Calls
  <2>3. Become(t, me) /\ StoreBoxes(box)
    BY <1>3 DEF Store
  <2> HIDE DEF me
  <2>4. mailboxes' = mailboxes /\ generation' = generation /\ TablesStep(t)
    BY <1>3, SameTables DEF tables
  <2>5. me.pc \notin Held
    BY <2>2 DEF Held
  <2> QED BY <1>1, <2>1, <2>2, <2>3, <2>4, <2>5, SameBoxes, GoesOnReads
<1> QED BY <1>2, <1>3 DEF SubAborted

\* Cancelled or failed in the flush after it.
LEMMA ConfAbortedReads ==
  ASSUME Typed, Owned, Reads, Counts', NEW t \in Tasks, ConfAborted(t)
  PROVE  Goes(t)
<1> DEFINE plain == task[t].ch \in PlainChannels
           pc == IF plain THEN "tidyFail" ELSE "tidyAbort"
           ns == IF plain THEN GivenUp(t) ELSE box
<1>1. /\ task[t].pc = "conf" /\ generation' = generation
      /\ mailboxes' = IF plain THEN Removed(t) ELSE mailboxes
      /\ Tidy(t, {task[t].sub}, pc, [task[t] EXCEPT !.sub = None])
      /\ StoreBoxes(ns)
  BY DEF ConfAborted, Store
<1>2. TablesStep(t)
  BY <1>1, SameTables, RemovedTables DEF Making
<1>3. task[t].sub \in SubIds
  BY <1>1, CallFields DEF Typed, TypeOK, Shaped
<1>4. pc \in Tidying /\ (ns = box \/ ns = GivenUp(t))
  BY DEF Tidying, LockedTidying
<1> HIDE DEF pc, ns
<1> QED BY <1>1, <1>2, <1>3, <1>4, GivesUpReads

\* Cancelled while it waits.
LEMMA WaitCancelledReads ==
  ASSUME Typed, Owned, Reads, Counts', NEW t \in Tasks, WaitCancelled(t)
  PROVE  Goes(t)
<1>1. mailboxes' = mailboxes /\ generation' = generation /\ Ends(t, box, TRUE) /\ task[t].pc # "get"
  BY DEF WaitCancelled, tables
<1>2. TablesStep(t)
  BY <1>1, SameTables
<1>3. \A b \in BoxIds : box[b].msgs + box[b].wakes + One(t \in Reading(b)) >= box[b].msgs + box[b].wakes
  BY SameBoxes, EntriesKept
<1> QED BY <1>1, <1>2, <1>3, SameBoxes, EndsReads

\* An entry taken off queue b.
LEMMA TakenReads ==
  ASSUME Typed, Owned, Reads, NEW b \in BoxIds, NEW nb,
         \/ box[b].msgs > 0 /\ nb = [box EXCEPT ![b].msgs = @ - 1]
         \/ box[b].wakes > 0 /\ nb = [box EXCEPT ![b].wakes = @ - 1]
  PROVE  /\ nb \in [BoxIds -> Boxes] /\ BoxesStep(nb) /\ SameReceivers(nb)
         /\ \A x \in BoxIds : nb[x].msgs + nb[x].wakes + (IF x = b THEN 1 ELSE 0) = box[x].msgs + box[x].wakes
<1>1. nb \in [BoxIds -> Boxes]
  BY TakenTyped DEF Typed
<1>2. \A x \in BoxIds : /\ box[x] \in Boxes /\ box[x].msgs \in Nat
                        /\ box[x].wakes \in Nat /\ BoxOK(box[x])
  <2>1. \A x \in BoxIds : box[x] \in Boxes /\ BoxOK(box[x])
    BY DEF Typed, TypeOK, Reads, BoxesOK
  <2> QED BY <2>1, Bounds DEF Boxes, BoxOK
<1>3. \A x \in BoxIds : /\ nb[x].ready = box[x].ready /\ nb[x].subscribed = box[x].subscribed
                        /\ nb[x].aged = box[x].aged /\ nb[x].superseded = box[x].superseded
                        /\ nb[x].receivers = box[x].receivers /\ (nb[x].left <=> box[x].left)
  <2> DEFINE read == [box[b] EXCEPT !.msgs = @ - 1]
             woken == [box[b] EXCEPT !.wakes = @ - 1]
  <2>1. \A x \in BoxIds : nb[x] \in IF x = b THEN {read, woken} ELSE {box[x]}
    BY DEF Typed, TypeOK
  <2>2. \A y \in {read, woken} : /\ y.ready = box[b].ready /\ y.subscribed = box[b].subscribed
                                 /\ y.aged = box[b].aged /\ y.superseded = box[b].superseded
                                 /\ y.receivers = box[b].receivers /\ (y.left <=> box[b].left)
    <3>1. box[b] \in Boxes
      BY <1>2
    <3> QED BY <3>1 DEF Boxes
  <2> HIDE DEF read, woken
  <2> QED BY <2>1, <2>2
<1>4. \A x \in BoxIds : /\ nb[x].msgs + nb[x].wakes + (IF x = b THEN 1 ELSE 0) = box[x].msgs + box[x].wakes
                        /\ nb[x].wakes \in Nat
  <2>1. CASE box[b].msgs > 0 /\ nb = [box EXCEPT ![b].msgs = @ - 1]
    <3>1. \A x \in BoxIds : /\ nb[x].msgs = box[x].msgs - (IF x = b THEN 1 ELSE 0)
                            /\ nb[x].wakes = box[x].wakes
      BY <1>2, <2>1 DEF Boxes, Typed, TypeOK
    <3> QED BY <1>2, <3>1
  <2>2. CASE box[b].wakes > 0 /\ nb = [box EXCEPT ![b].wakes = @ - 1]
    <3>1. \A x \in BoxIds : /\ nb[x].wakes = box[x].wakes - (IF x = b THEN 1 ELSE 0)
                            /\ nb[x].msgs = box[x].msgs
      BY <1>2, <2>2 DEF Boxes, Typed, TypeOK
    <3> QED BY <1>2, <2>2, <3>1
  <2> QED BY <2>1, <2>2
<1>5. BoxesStep(nb)
  <2>1. \A x \in BoxIds : BoxOK(nb[x])
    BY <1>2, <1>3, <1>4 DEF BoxOK
  <2> QED BY <1>3, <2>1, SameBoxes DEF BoxesStep, Near
<1> QED BY <1>1, <1>3, <1>4, <1>5 DEF SameReceivers

\* An entry comes off the queue of the mailbox read.
LEMMA GetReads ==
  ASSUME Typed, Owned, Reads, Counts', NEW t \in Tasks, Get(t)
  PROVE  Goes(t)
<1> DEFINE b == task[t].rd
           pc == IF box[b].superseded THEN "move" ELSE "get"
           me == [task[t] EXCEPT !.pc = pc]
           read == [box EXCEPT ![b].msgs = @ - 1]
           woken == [box EXCEPT ![b].wakes = @ - 1]
<1>1. task[t].pc = "get" /\ mailboxes' = mailboxes /\ generation' = generation
  BY DEF Get, tables
<1>2. task[t] \in Calls /\ b \in BoxIds /\ b # None
  BY <1>1, CallFields DEF Shaped, Typed, TypeOK
<1>3. TablesStep(t)
  BY <1>1, SameTables
<1>4. t \in Reading(b)
  BY <1>1 DEF Reading
<1>5. CASE box[b].msgs > 0 /\ Ends(t, read, FALSE)
  <2>1. /\ read \in [BoxIds -> Boxes] /\ BoxesStep(read) /\ SameReceivers(read)
        /\ \A x \in BoxIds : read[x].msgs + read[x].wakes + (IF x = b THEN 1 ELSE 0) = box[x].msgs + box[x].wakes
    BY <1>2, <1>5, TakenReads
  <2> HIDE DEF read
  <2>2. \A x \in BoxIds : read[x].msgs + read[x].wakes + One(t \in Reading(x)) >= box[x].msgs + box[x].wakes
    <3> TAKE x \in BoxIds
    <3>1. read[x].msgs \in Int /\ read[x].wakes \in Int
      <4>1. read[x] \in Boxes
        BY <2>1
      <4> QED BY <4>1, Bounds DEF Boxes
    <3>2. One(t \in Reading(x)) \in Int /\ (IF x = b THEN 1 ELSE 0) <= One(t \in Reading(x))
      BY <1>4 DEF One
    <3> HIDE DEF b
    <3>3. read[x].msgs + read[x].wakes + (IF x = b THEN 1 ELSE 0) = box[x].msgs + box[x].wakes
      BY <2>1
    <3> QED BY <3>1, <3>2, <3>3
  <2> QED BY <1>1, <1>3, <1>5, <2>1, <2>2, EndsReads
<1>6. ASSUME NEW nb, Become(t, me), StoreBoxes(nb),
             \/ box[b].msgs > 0 /\ nb = read
             \/ box[b].wakes > 0 /\ nb = woken
      PROVE  Goes(t)
  <2>1. /\ nb \in [BoxIds -> Boxes] /\ BoxesStep(nb) /\ SameReceivers(nb)
        /\ \A x \in BoxIds : nb[x].msgs + nb[x].wakes + (IF x = b THEN 1 ELSE 0) = box[x].msgs + box[x].wakes
    BY <1>2, <1>6, TakenReads
  <2>2. pc \in PCs /\ pc = (IF box[b].superseded THEN "move" ELSE "get")
    BY DEF PCs
  <2> HIDE DEF pc, read, woken
  <2>3. /\ me \in Calls /\ me.pc = pc /\ me.rd = b /\ me.ch = task[t].ch /\ me.op = task[t].op
    BY <1>2, <2>2 DEF Calls
  <2>4. task'[t] = me /\ \A u \in Tasks : u # t => task'[u] = task[u]
    BY <1>6 DEF Become, Typed, TypeOK
  <2> HIDE DEF me
  <2>5. b \in BoxRefs /\ box'[b] = nb[b] /\ nb[b].superseded = box[b].superseded
    <3>1. b \in BoxRefs
      BY <1>2 DEF BoxRefs
    <3>2. box'[b] = nb[b]
      BY <1>2, <1>6, <2>3, <2>4, Stored
    <3> QED BY <1>2, <2>1, <3>1, <3>2 DEF BoxesStep, Near
  <2>7. EntriesStep(t, nb)
    <3>1. ASSUME NEW x \in BoxIds, nb[x].superseded
          PROVE  /\ t \notin Reading(x)'
                 /\ nb[x].msgs + nb[x].wakes + One(t \in Reading(x)) >= box[x].msgs + box[x].wakes
      <4>1. t \notin Reading(x)'
        BY <2>2, <2>3, <2>4, <2>5, <3>1 DEF Reading
      <4>2. nb[x].msgs \in Int /\ nb[x].wakes \in Int
        <5>1. nb[x] \in Boxes
          BY <2>1
        <5> QED BY <5>1, Bounds DEF Boxes
      <4>3. One(t \in Reading(x)) \in Int /\ (IF x = b THEN 1 ELSE 0) <= One(t \in Reading(x))
        BY <1>4 DEF One
      <4> HIDE DEF b
      <4>4. nb[x].msgs + nb[x].wakes + (IF x = b THEN 1 ELSE 0) = box[x].msgs + box[x].wakes
        BY <2>1
      <4> QED BY <4>1, <4>2, <4>3, <4>4
    <3>2. \A x \in BoxIds : box[x].msgs \in Int /\ box[x].wakes \in Int
      <4>1. \A x \in BoxIds : box[x] \in Boxes
        BY DEF Typed, TypeOK
      <4> QED BY <4>1, Bounds DEF Boxes
    <3>3. \A x \in BoxIds : nb[x].superseded => One(t \in Reading(x)') = 0
      BY <3>1 DEF One
    <3> QED BY <3>1, <3>2, <3>3 DEF EntriesStep
  <2>8. WaitOK(t)'
    <3>1. box[b].superseded \/ mailboxes[task[t].ch] = b
      BY <1>2 DEF Reads, WaitsOK, WaitOK, ReadingOK
    <3>2. WaiterOK(t)' /\ KeptByMaker(t)'
      BY <2>2, <2>3, <2>4, <3>1 DEF WaiterOK, KeptByMaker
    <3>3. ReadingOK(t)'
      BY <1>1, <2>2, <2>3, <2>4, <2>5, <3>1 DEF ReadingOK
    <3> QED BY <3>2, <3>3 DEF WaitOK
  <2>9. HandsOn(t)
    BY <1>1 DEF HandsOn, IsHanded
  <2> QED BY <1>1, <1>3, <1>6, <2>1, <2>4, <2>7, <2>8, <2>9, StepReads DEF Goes, Spares
<1>7. \/ box[b].msgs > 0 /\ Ends(t, read, FALSE)
      \/ Become(t, me) /\ box[b].msgs > 0 /\ StoreBoxes(read)
      \/ Become(t, me) /\ box[b].wakes > 0 /\ StoreBoxes(woken)
  BY DEF Get, Store
<1> HIDE DEF me, read, woken, b
<1> QED BY <1>5, <1>6, <1>7

\* A cancelled read, the last one or not.
LEMMA ReadCancelledReads ==
  ASSUME Typed, Owned, Reads, Counts', NEW t \in Tasks, ReadCancelled(t)
  PROVE  Goes(t)
<1> DEFINE b == task[t].rd
           ss == {box[x].sub : x \in {x \in {b} : Releases(t)}} \ {None}
<1>1. /\ task[t].pc = "get" /\ generation' = generation /\ NoneWoken(b)
      /\ mailboxes' = IF Releases(t) THEN [mailboxes EXCEPT ![task[t].ch] = None] ELSE mailboxes
      /\ Tidy(t, ss, "tidyEnd", Idle) /\ StoreBoxes(Leave(box, b, TRUE))
  BY DEF ReadCancelled, Store
<1>2. task[t].ch \in Channels /\ b \in BoxIds /\ b # None /\ box[b].ready
  BY <1>1, CallFields DEF Typed, TypeOK, Shaped, Owned, CallsOwn, CallOK, ReaderOK
<1>3. ss \in SUBSET SubIds
  BY <1>2 DEF Typed, TypeOK, Boxes
<1>4. TablesStep(t)
  <2>1. CASE ~Releases(t)
    BY <1>1, <2>1, SameTables
  <2>2. CASE Releases(t)
    <3>1. box[b].receivers = 1 /\ mailboxes[task[t].ch] = b /\ Spare(task[t].ch)
      BY <2>2 DEF Releases, Spare
    <3>2. Free(t, b)
      <4> SUFFICES ASSUME NEW u \in Tasks, u # t
                   PROVE  /\ task[u].rd # b
                          /\ ~(task[u].pc \in {"sub", "conf"} /\ task[u].bx = b)
                          /\ ~(task[u].pc = "ready" /\ task[u].bx = b /\ box[b].ready)
        BY DEF Free
      <4>1. task[u].rd # b
        BY <1>2, <3>1, OthersCounted
      <4>2. ~(task[u].pc \in {"sub", "conf"} /\ task[u].bx = b)
        BY <1>2 DEF Owned, CallsOwn, CallOK, MakerOK, Making
      <4>3. ~(task[u].pc = "ready" /\ task[u].bx = b /\ box[b].ready)
        BY <1>1 DEF NoneWoken
      <4> QED BY <4>1, <4>2, <4>3
    <3>3. \A c \in Channels : mailboxes'[c] = IF c = task[t].ch THEN None ELSE mailboxes[c]
      BY <1>1, <1>2, <2>2 DEF Typed, TypeOK
    <3> HIDE DEF b
    <3> QED BY <3>1, <3>2, <3>3 DEF TablesStep
  <2> QED BY <2>1, <2>2
<1> HIDE DEF ss
<1>5. /\ Idle \in Calls /\ Idle.rd = None
      /\ "tidyEnd" \in PCs /\ "tidyEnd" \notin Held \cup {"ready", "sub", "conf"}
  BY IdleFields DEF Idle, PCs, Tidying, Held
<1>6. PICK r \in Calls : Become(t, r) /\ r.pc = "tidyEnd" /\ r.rd = None
  BY <1>1, <1>3, <1>5, TidyBecomes
<1>7. \A x \in BoxIds : box[x].msgs + box[x].wakes + One(t \in Reading(x)) >= box[x].msgs + box[x].wakes
  BY SameBoxes, EntriesKept
<1>8. ASSUME box[b].receivers = 1 PROVE LeftToGroups(b)
  <2> SUFFICES ASSUME NEW c \in PlainChannels, mailboxes'[c] = b PROVE InAGroup(c)
    BY DEF LeftToGroups
  <2>1. c \in Channels /\ mailboxes[c] = b /\ ~(Releases(t) /\ c = task[t].ch)
    BY <1>1, <1>2 DEF Channels, Typed, TypeOK
  <2>2. mailboxes[task[t].ch] = b
    BY <1>1, <1>2, <2>1 DEF Reads, TabledOK, WaitsOK, WaitOK, ReadingOK
  <2>3. c = task[t].ch
    BY <1>2, <2>1, <2>2, OneSlot
  <2> QED BY <1>8, <2>1, <2>2, <2>3 DEF Releases
<1> QED BY <1>1, <1>4, <1>5, <1>6, <1>7, <1>8, SameBoxes, LeavesReads

\* group_add() past its mailbox: it has no read, and the boxes are as they are.
LEMMA AddReads ==
  ASSUME Typed, Owned, Reads, Counts', NEW t \in Tasks, task[t].op = "add", NEW me \in Calls, Become(t, me),
         me.rd \in {None, task[t].rd}, me.pc \notin Held \cup {"ready", "sub", "conf"},
         StoreBoxes(box), mailboxes' = mailboxes, generation' = generation
  PROVE  Goes(t)
<1>1. task[t].rd = None
  BY ReadsCount, NoRead
<1>2. TablesStep(t)
  BY SameTables
<1> QED BY <1>1, <1>2, SameBoxes, GoesOnReads

\* group_add() once it has its mailbox.
LEMMA GroupLockRunReads ==
  ASSUME Typed, Owned, Reads, Counts', NEW t \in Tasks, GroupLockRun(t)
  PROVE  Goes(t)
<1> DEFINE me == [task[t] EXCEPT !.pc = "gsub"]
<1>1. /\ task[t].pc = "glock" /\ StoreBoxes(box) /\ mailboxes' = mailboxes /\ generation' = generation
      /\ Become(t, Idle) \/ Become(t, me)
  BY DEF GroupLockRun, tables, AddReturns, Store
<1>2. task[t] \in Calls /\ task[t].op = "add"
  BY <1>1, Adding
<1>3. me \in Calls /\ me.rd = task[t].rd /\ me.pc = "gsub"
  <2>1. "gsub" \in PCs
    BY DEF PCs, Holding
  <2> QED BY <1>2, <2>1 DEF Calls
<1> HIDE DEF me
<1>4. me.pc \notin Held \cup {"ready", "sub", "conf"}
  BY <1>3 DEF Held
<1> QED BY <1>1, <1>2, <1>3, <1>4, IdleIsNowhere, AddReads

\* Its subscribe returned.
LEMMA GroupSubscribedReads ==
  ASSUME Typed, Owned, Reads, Counts', NEW t \in Tasks, GroupSubscribed(t)
  PROVE  Goes(t)
<1>1. PICK s \in Fresh(SubIds, SubRefs) : Become(t, [task[t] EXCEPT !.pc = "gconf", !.sub = s])
  BY DEF GroupSubscribed
<1>2. task[t].pc = "gsub" /\ StoreBoxes(box) /\ mailboxes' = mailboxes /\ generation' = generation
  BY DEF GroupSubscribed, tables, Store
<1>3. task[t] \in Calls /\ task[t].op = "add" /\ s \in SubIds
  BY <1>2, Adding, FreshIsOne
<1> DEFINE me == [task[t] EXCEPT !.pc = "gconf", !.sub = s]
<1>4. me \in Calls /\ me.rd = task[t].rd /\ me.pc = "gconf"
  <2>1. "gconf" \in PCs
    BY DEF PCs, Holding
  <2> QED BY <1>3, <2>1 DEF Calls
<1>5. Become(t, me)
  BY <1>1
<1> HIDE DEF me
<1>6. me.pc \notin Held \cup {"ready", "sub", "conf"}
  BY <1>4 DEF Held
<1> QED BY <1>2, <1>3, <1>4, <1>5, <1>6, AddReads

\* It goes into a clean-up.
LEMMA AddTidyReads ==
  ASSUME Typed, Owned, Reads, Counts', NEW t \in Tasks, task[t].pc = "gconf", NEW pc \in Tidying,
         Tidy(t, {task[t].sub}, pc, [task[t] EXCEPT !.sub = None]),
         StoreBoxes(box), mailboxes' = mailboxes, generation' = generation
  PROVE  Goes(t)
<1>1. task[t].sub \in SubIds
  BY CallFields DEF Typed, TypeOK, Shaped
<1> QED BY <1>1, SameTables, GivesUpReads

\* The subscription is confirmed.
LEMMA GroupConfirmedReads ==
  ASSUME Typed, Owned, Reads, Counts', NEW t \in Tasks, GroupConfirmed(t)
  PROVE  Goes(t)
<1>1. /\ task[t].pc = "gconf" /\ StoreBoxes(box) /\ mailboxes' = mailboxes /\ generation' = generation
      /\ Become(t, Idle) \/ Tidy(t, {task[t].sub}, "tidyAdd", [task[t] EXCEPT !.sub = None])
  BY DEF GroupConfirmed, AddReturns, Store
<1>2. task[t].op = "add" /\ "tidyAdd" \in Tidying
  BY <1>1, Adding DEF Tidying, LockedTidying
<1> QED BY <1>1, <1>2, IdleIsNowhere, AddReads, AddTidyReads

\* group_add() fails.
LEMMA AddFailsReads ==
  ASSUME Typed, Owned, Reads, Counts', NEW t \in Tasks, task[t].op = "add", AddFails(t)
  PROVE  Goes(t)
<1>1. StoreBoxes(box) /\ mailboxes' = mailboxes /\ generation' = generation /\ Become(t, Idle)
  BY DEF AddFails
<1> QED BY <1>1, IdleIsNowhere, AddReads

\* Cancelled or failed on the way.
LEMMA GroupAbortedReads ==
  ASSUME Typed, Owned, Reads, Counts', NEW t \in Tasks, GroupAborted(t)
  PROVE  Goes(t)
<1>1. task[t].pc \in {"glock", "gsub", "gconf"}
  BY DEF GroupAborted
<1>2. task[t] \in Calls /\ task[t].op = "add"
  BY <1>1, Adding
<1>3. CASE AddFails(t)
  BY <1>2, <1>3, AddFailsReads
<1>4. ASSUME UNCHANGED tables, Store(box), NEW s \in Fresh(SubIds, SubRefs),
             Become(t, [task[t] EXCEPT !.pc = "tidyAddFail", !.todo = {s}])
      PROVE  Goes(t)
  <2> DEFINE me == [task[t] EXCEPT !.pc = "tidyAddFail", !.todo = {s}]
  <2>1. s \in SubIds
    BY FreshIsOne
  <2>2. me \in Calls /\ me.rd = task[t].rd /\ me.pc = "tidyAddFail"
    <3>1. "tidyAddFail" \in PCs
      BY DEF PCs, Tidying, LockedTidying
    <3> QED BY <1>2, <2>1, <3>1 DEF Calls
  <2>3. Become(t, me) /\ StoreBoxes(box) /\ mailboxes' = mailboxes /\ generation' = generation
    BY <1>4 DEF Store, tables
  <2> HIDE DEF me
  <2>4. me.pc \notin Held \cup {"ready", "sub", "conf"}
    BY <2>2 DEF Held
  <2> QED BY <1>2, <2>2, <2>3, <2>4, AddReads
<1>5. CASE /\ task[t].pc = "gconf" /\ UNCHANGED tables /\ Store(box)
           /\ Tidy(t, {task[t].sub}, "tidyAddFail", [task[t] EXCEPT !.sub = None])
  <2>1. "tidyAddFail" \in Tidying
    BY DEF Tidying, LockedTidying
  <2> QED BY <1>5, <2>1, AddTidyReads DEF Store, tables
<1> QED BY <1>3, <1>4, <1>5 DEF GroupAborted

\* group_discard().
LEMMA DiscardReads ==
  ASSUME Typed, Owned, Reads, Counts', NEW t \in Tasks, Discard(t)
  PROVE  Goes(t)
<1>1. PICK g \in Groups, c \in Channels :
           LET rest == members[groups[g]] \ {c} IN
           Tidy(t, {recorded[k] : k \in Dropped(g, c, rest)} \ {None}, "tidyEnd", Idle)
  BY DEF Discard
<1>2. /\ task[t].pc \in {"idle", "handed"} /\ StoreBoxes(box)
      /\ mailboxes' = mailboxes /\ generation' = generation
  BY DEF Discard
<1> DEFINE ss == {recorded[k] : k \in Dropped(g, c, members[groups[g]] \ {c})} \ {None}
<1>3. ss \in SUBSET SubIds
  <2>1. Dropped(g, c, members[groups[g]] \ {c}) \subseteq Keys
    BY DEF Dropped, Keys
  <2>2. \A k \in Keys : recorded[k] \in SubIds \cup {None}
    BY DEF Typed, TypeOK
  <2> QED BY <2>1, <2>2
<1>4. Tidy(t, ss, "tidyEnd", Idle)
  BY <1>1
<1> HIDE DEF ss
<1>5. "tidyEnd" \in Tidying
  BY DEF Tidying
<1>6. task[t].rd = None
  BY <1>2, ReadsCount, NoRead
<1> QED BY <1>2, <1>3, <1>4, <1>5, <1>6, SameTables, SameBoxes, IdleIsNowhere, TidyReads

\* A call that ends with its boxes as they are.
LEMMA EndsAsIs ==
  ASSUME Typed, Owned, Reads, Counts', NEW t \in Tasks, NEW cancelled \in BOOLEAN, Ends(t, box, cancelled),
         task[t].pc # "get",
         mailboxes' = mailboxes, generation' = generation
  PROVE  Goes(t)
<1>1. TablesStep(t)
  BY SameTables
<1>2. \A b \in BoxIds : box[b].msgs + box[b].wakes + One(t \in Reading(b)) >= box[b].msgs + box[b].wakes
  BY SameBoxes, EntriesKept
<1> QED BY <1>1, <1>2, SameBoxes, EndsReads

\* A command of a clean-up is done.
LEMMA TidyDoneReads ==
  ASSUME Typed, Owned, Reads, Counts', NEW t \in Tasks, TidyDone(t)
  PROVE  Goes(t)
<1>1. task[t].pc \in Tidying
  BY DEF TidyDone
<1>2. task[t] \in Calls /\ task[t].todo \in SUBSET SubIds /\ task[t].pc # "get"
  <2>1. task[t] \in Calls
    BY DEF Typed, TypeOK
  <2> QED BY <1>1, <2>1 DEF Calls, Tidying, LockedTidying
<1>3. task[t].rd # None => task[t].op = "receive"
  BY DEF Reads, Counts, ReadOnly
<1>4. CASE UNCHANGED tables /\ Tidy(t, task[t].todo, task[t].pc, task[t]) /\ Store(box)
  <2>1. mailboxes' = mailboxes /\ generation' = generation /\ StoreBoxes(box)
    BY <1>4 DEF tables, Store
  <2>2. TablesStep(t)
    BY <2>1, SameTables
  <2> QED BY <1>1, <1>2, <1>3, <1>4, <2>1, <2>2, SameBoxes, TidyReads
<1>5. CASE task[t].pc = "tidyAbort" /\ MailboxFails(t)
  BY <1>5, MailboxFailsReads DEF Making
<1>6. CASE task[t].pc = "tidyAddFail" /\ AddFails(t)
  BY <1>6, Adding, AddFailsReads
<1>7. CASE task[t].pc = "tidyAdd" /\ UNCHANGED tables /\ AddReturns(t) /\ Store(box)
  BY <1>7, Adding, IdleIsNowhere, AddReads DEF tables, AddReturns, Store
<1>8. CASE UNCHANGED tables /\ Ends(t, box, FALSE)
  BY <1>2, <1>8, EndsAsIs DEF tables
<1>9. CASE /\ task[t].pc \in {"tidyRetryBox", "tidyRetry"}
           /\ mailboxes' = mailboxes /\ generation' = generation
           /\ LookUp(t, task[t], GivenUp(t))
  <2>1. task[t].bx \in BoxIds /\ (task[t].pc \in Making \/ box[task[t].bx].ready)
    <3>1. /\ task[t].pc \in Making \/ box[task[t].bx].ready
          /\ task[t].bx # None
      BY <1>9 DEF Making, Owned, CallsOwn, CallOK, MakerOK, AdderOK
    <3> QED BY <3>1, CallFields DEF Typed
  <2>2. TablesStep(t)
    BY <1>9, SameTables
  <2>3. /\ task[t].ch # None
        /\ task[t].op = "add" => task[t].grp # None
    BY <1>9, ReadsCount, UnderWay
  <2> QED BY <1>2, <1>3, <1>9, <2>1, <2>2, <2>3, GivenUpReads, LookUpReads
<1> QED BY <1>4, <1>5, <1>6, <1>7, <1>8, <1>9 DEF TidyDone

\* A cancellation that lands in a clean-up.
LEMMA TidyCancelledReads ==
  ASSUME Typed, Owned, Reads, Counts', NEW t \in Tasks, TidyCancelled(t)
  PROVE  Goes(t)
<1>1. CASE task[t].pc \in {"tidyAbort", "tidyRetryBox"} /\ MailboxFails(t)
  BY <1>1, MailboxFailsReads DEF Making
<1>2. CASE task[t].pc \in {"tidyAdd", "tidyAddFail"} /\ AddFails(t)
  BY <1>2, Adding, AddFailsReads
<1>3. CASE task[t].pc # "get" /\ UNCHANGED tables /\ Ends(t, box, TRUE)
  BY <1>3, EndsAsIs DEF tables
<1> QED BY <1>1, <1>2, <1>3 DEF TidyCancelled

\* flush().
LEMMA FlushReads ==
  ASSUME Typed, Owned, Reads, Counts', NEW t \in Tasks, Flush(t)
  PROVE  Goes(t)
<1> DEFINE mine == {mailboxes[c] : c \in Channels} \ {None}
           ss == ({recorded[k] : k \in Keys} \cup {box[b].sub : b \in mine}) \ {None}
           nb == Supersede(mine)
<1>1. /\ Tidy(t, ss, "tidyEnd", Idle) /\ StoreBoxes(nb)
      /\ \A c \in Channels : mailboxes'[c] = None
      /\ generation' = generation + 1
      /\ task[t].pc \in {"idle", "handed"}
  BY DEF Flush, Store
<1>2. ss \in SUBSET SubIds /\ mine \subseteq BoxIds
  <2>1. \A b \in BoxIds : box[b].sub \in SubIds \cup {None}
    BY DEF Typed, TypeOK, Boxes
  <2>2. mine \subseteq BoxIds
    BY DEF Typed, TypeOK
  <2>3. \A k \in Keys : recorded[k] \in SubIds \cup {None}
    BY DEF Typed, TypeOK
  <2> HIDE DEF mine
  <2> QED BY <2>1, <2>2, <2>3
<1>3. nb \in [BoxIds -> Boxes]
  BY SupersedeTyped DEF Typed
<1>4. \A b \in BoxIds : /\ nb[b].superseded <=> box[b].superseded \/ b \in mine
                        /\ nb[b].wakes = box[b].wakes + (IF b \in mine THEN box[b].receivers ELSE 0)
                        /\ nb[b].msgs = box[b].msgs /\ nb[b].receivers = box[b].receivers
                        /\ nb[b].ready = box[b].ready /\ nb[b].subscribed = box[b].subscribed
                        /\ nb[b].aged = box[b].aged
  BY SupersededFields DEF Typed
<1>5. \A c \in Channels : mailboxes[c] # None => mailboxes[c] \in mine
  OBVIOUS
<1> HIDE DEF ss, nb, mine
<1>6. "tidyEnd" \in PCs /\ Idle \in Calls /\ Idle.rd = None
  BY IdleIsNowhere DEF PCs, Tidying
<1>7. PICK me \in Calls : Become(t, me) /\ me.pc = "tidyEnd" /\ me.rd = None
  BY <1>1, <1>2, <1>6, TidyBecomes
<1>8. task[t].rd = None
  BY <1>1, ReadsCount, NoRead
<1>9. task'[t] = me /\ \A u \in Tasks : u # t => task'[u] = task[u]
  BY <1>7 DEF Become, Typed, TypeOK
<1>10. \A u \in Tasks : task'[u].rd = task[u].rd
  BY <1>7, <1>8, <1>9
<1>11. \A b \in BoxIds : ReadsOf(b)' = ReadsOf(b) /\ Reading(b)' = Reading(b)
  BY <1>1, <1>7, <1>9, <1>10 DEF ReadsOf, Reading
<1>13. BoxesOK'
  <2>1. ASSUME NEW b \in BoxIds PROVE BoxOK(nb[b])
    <3>1. BoxOK(box[b]) /\ box[b].receivers \in Nat
      BY OthersCounted DEF Reads, BoxesOK
    <3> QED BY <1>4, <3>1 DEF BoxOK
  <2> QED BY <1>1, <2>1, BoxesNext
<1>14. TabledOK' /\ TakenOK'
  BY <1>1 DEF TabledOK, TakenOK, Typed, TypeOK
<1>15. WokenOK'
  <2>1. ASSUME NEW b \in BoxIds, nb[b].superseded
        PROVE  Cardinality(Reading(b)') <= nb[b].msgs + nb[b].wakes
    <3>1. /\ Reading(b)' = Reading(b)
          /\ box[b].receivers \in Nat /\ box[b].msgs \in Nat /\ box[b].wakes \in Nat
      <4>1. box[b] \in Boxes /\ BoxOK(box[b])
        BY DEF Typed, TypeOK, Reads, BoxesOK
      <4> QED BY <1>11, <4>1, Bounds, OthersCounted DEF Boxes, BoxOK
    <3>2. CASE box[b].superseded
      <4>1. Cardinality(Reading(b)) <= box[b].msgs + box[b].wakes
        BY <3>2 DEF Reads, WokenOK
      <4>2. Cardinality(Reading(b)) \in Nat
        <5>1. IsFiniteSet(Reading(b))
          BY Bounds, FS_Subset DEF Reading
        <5> QED BY <5>1, FS_CardinalityType
      <4> QED BY <1>4, <3>1, <4>1, <4>2
    <3>3. CASE b \in mine
      <4>1. Cardinality(Reading(b)) <= box[b].receivers /\ Cardinality(Reading(b)) \in Nat
        <5>1. Reading(b) \subseteq ReadsOf(b) /\ IsFiniteSet(ReadsOf(b))
          BY Bounds, FS_Subset DEF Reading, ReadsOf
        <5>2. Cardinality(Reading(b)) <= Cardinality(ReadsOf(b)) /\ IsFiniteSet(Reading(b))
          BY <5>1, FS_Subset
        <5>3. box[b].receivers = Cardinality(ReadsOf(b))
          BY DEF Reads, Counts, ReceiversAreCounted, ReadsOf
        <5> QED BY <5>2, <5>3, FS_CardinalityType
      <4>2. nb[b].msgs + nb[b].wakes = box[b].msgs + (box[b].wakes + box[b].receivers)
        BY <1>4, <3>3
      <4> QED BY <3>1, <4>1, <4>2
    <3> QED BY <1>4, <2>1, <3>2, <3>3
  <2> QED BY <1>1, <2>1, WokenNext
<1>16. WaitsOK'
  <2>1. WaitOK(t)'
    BY <1>7, <1>9 DEF WaitOK, WaiterOK, KeptByMaker, ReadingOK
  <2>2. ASSUME NEW u \in Tasks, u # t PROVE WaitOK(u)'
    <3>1. WaitOK(u) /\ task'[u] = task[u] /\ HandleOK(u)
      BY <1>9, <2>2 DEF Reads, WaitsOK, Owned, CallsOwn, CallOK
    <3>2. task[u].bx \in BoxIds \cup {None} /\ task[u].rd \in BoxIds \cup {None}
      BY CallFields DEF Typed
    <3>3. /\ task[u].bx # None => box'[task[u].bx] = nb[task[u].bx]
          /\ task[u].rd # None => box'[task[u].rd] = nb[task[u].rd]
      BY <1>1, <3>1, Stored
    <3>5. KeptByMaker(u)'
      <4>1. task[u].gen \in Int /\ generation \in Int /\ task[u].gen <= generation
        <5>1. task[u] \in Calls /\ generation \in 0..MaxFlushes
          BY DEF Typed, TypeOK
        <5> QED BY <3>1, <5>1, Bounds DEF HandleOK, Calls
      <4> QED BY <1>1, <3>1, <4>1 DEF KeptByMaker
    <3>6. ReadingOK(u)'
      <4> SUFFICES ASSUME task[u].rd # None PROVE box'[task[u].rd].superseded
        BY <3>1 DEF ReadingOK
      <4>1. \/ box[task[u].rd].superseded
            \/ task[u].pc = "get" /\ mailboxes[task[u].ch] = task[u].rd
        BY <3>1 DEF WaitOK, ReadingOK
      <4>2. task[u].pc = "get" => task[u].ch \in Channels
        BY CallFields DEF Typed, TypeOK, Shaped
      <4> QED BY <1>4, <1>5, <3>2, <3>3, <4>1, <4>2
    <3>7. WaiterOK(u)'
      <4>0. task[u].pc = "ready" => task[u].bx \in BoxIds /\ task[u].ch \in Channels /\ task[u].bx # None
        BY CallFields DEF Typed, TypeOK, Shaped
      <4> SUFFICES ASSUME task[u].pc = "ready", box'[task[u].bx].ready, box'[task[u].bx].subscribed
                   PROVE  box'[task[u].bx].superseded
        BY <1>1, <3>1, <4>0 DEF WaiterOK
      <4>1. task[u].bx \in BoxIds /\ task[u].ch \in Channels /\ task[u].bx # None
        BY <4>0
      <4>2. box[task[u].bx].ready /\ box[task[u].bx].subscribed
        BY <1>4, <3>3, <4>1
      <4>4. mailboxes[task[u].ch] = task[u].bx \/ box[task[u].bx].superseded
        BY <3>1, <4>2 DEF WaitOK, WaiterOK
      <4> QED BY <1>4, <1>5, <3>3, <4>1, <4>4
    <3> QED BY <3>5, <3>6, <3>7 DEF WaitOK
  <2> QED BY <2>1, <2>2 DEF WaitsOK
<1>17. HandsOn(t)
  BY <1>7, <1>9 DEF HandsOn, IsHanded, Held
<1>18. Lasting' = {}
  BY DEF Flush, Lasting
<1> QED BY <1>1, <1>9, <1>13, <1>14, <1>15, <1>16, <1>17, <1>18 DEF Goes, Spares, LeftByReaders, Reads, Channels

\* A step of nobody's: entries come in, and age passes over boxes nobody has been woken for.
LEMMA QuietReads ==
  ASSUME Typed, Owned, Reads, Counts', UNCHANGED <<mailboxes, generation, task>>,
         NEW nb \in [BoxIds -> Boxes], StoreBoxes(nb), SameReceivers(nb),
         \A b \in BoxIds :
            /\ BoxOK(nb[b])
            /\ nb[b].superseded = box[b].superseded
            /\ nb[b].ready = box[b].ready /\ nb[b].subscribed = box[b].subscribed
            /\ nb[b].aged => box[b].aged \/ NoneWoken(b)
            /\ nb[b].left <=> box[b].left
            /\ nb[b].msgs >= box[b].msgs /\ nb[b].wakes = box[b].wakes
  PROVE  Reads' /\ Spares
<1>1. \A b \in BoxIds : ReadsOf(b)' = ReadsOf(b) /\ Reading(b)' = Reading(b)
  BY DEF ReadsOf, Reading
<1>3. BoxesOK'
  BY BoxesNext
<1>4. TabledOK'
  <2> SUFFICES ASSUME NEW c \in Channels, mailboxes[c] # None PROVE ~box'[mailboxes[c]].superseded
    BY DEF TabledOK
  <2>1. mailboxes[c] \in BoxIds /\ box'[mailboxes[c]] = nb[mailboxes[c]]
    BY Stored DEF Typed, TypeOK
  <2> QED BY <2>1 DEF Reads, TabledOK
<1>9. TakenOK'
  <2> SUFFICES ASSUME NEW b \in BoxIds, box'[b].superseded PROVE generation' # 0
    BY DEF TakenOK
  <2>1. nb[b].superseded
    BY DEF StoreBoxes, NewBox
  <2> QED BY <2>1 DEF Reads, TakenOK
<1>5. WokenOK'
  <2>1. ASSUME NEW b \in BoxIds, nb[b].superseded
        PROVE  Cardinality(Reading(b)') <= nb[b].msgs + nb[b].wakes
    <3>1. Cardinality(Reading(b)) <= box[b].msgs + box[b].wakes
      BY <2>1 DEF Reads, WokenOK
    <3>2. /\ box[b].msgs \in Int /\ box[b].wakes \in Int /\ nb[b].msgs \in Int
          /\ Cardinality(Reading(b)) \in Int
      <4>1. box[b] \in Boxes /\ nb[b] \in Boxes
        BY DEF Typed, TypeOK
      <4>2. IsFiniteSet(Reading(b))
        BY Bounds, FS_Subset DEF Reading
      <4>3. Cardinality(Reading(b)) \in Nat
        BY <4>2, FS_CardinalityType
      <4> QED BY <4>1, <4>3, Bounds DEF Boxes
    <3> QED BY <1>1, <3>1, <3>2
  <2> QED BY <2>1, WokenNext
<1>6. WaitsOK'
  <2>1. ASSUME NEW u \in Tasks PROVE WaitOK(u)'
    <3>1. WaitOK(u) /\ task'[u] = task[u]
      BY DEF Reads, WaitsOK
    <3>2. task[u].bx \in BoxIds \cup {None} /\ task[u].rd \in BoxIds \cup {None}
      BY CallFields DEF Typed
    <3>3. /\ task[u].bx # None => box'[task[u].bx] = nb[task[u].bx]
          /\ task[u].rd # None => box'[task[u].rd] = nb[task[u].rd]
      BY <3>1, Stored
    <3>4. KeptByMaker(u)'
      BY <3>1 DEF WaitOK, KeptByMaker
    <3>5. ReadingOK(u)'
      BY <3>1, <3>2, <3>3 DEF WaitOK, ReadingOK
    <3>6. WaiterOK(u)'
      <4> SUFFICES ASSUME task[u].pc = "ready"
                   PROVE  LET b == task[u].bx IN
                          /\ ~box'[b].ready => mailboxes'[task[u].ch] = b \/ \A c \in Channels : mailboxes'[c] # b
                          /\ box'[b].ready /\ box'[b].subscribed =>
                                \/ mailboxes'[task[u].ch] = b /\ ~box'[b].aged
                                \/ box'[b].superseded
        BY <3>1 DEF WaiterOK
      <4>1. task[u].bx \in BoxIds /\ task[u].bx # None
        BY CallFields DEF Typed, TypeOK, Shaped
      <4>2. NoneWoken(task[u].bx) => ~box[task[u].bx].ready
        BY DEF NoneWoken
      <4> QED BY <3>1, <3>3, <4>1, <4>2 DEF WaitOK, WaiterOK
    <3> QED BY <3>4, <3>5, <3>6 DEF WaitOK
  <2> QED BY <2>1 DEF WaitsOK
<1>7. GroupsKeepBoxes
  <2> SUFFICES ASSUME NEW c \in Channels, mailboxes[c] # None, box[mailboxes[c]].ready
               PROVE  box'[mailboxes[c]].ready
    BY DEF GroupsKeepBoxes
  <2>1. mailboxes[c] \in BoxIds /\ box'[mailboxes[c]] = nb[mailboxes[c]]
    BY Stored DEF Typed, TypeOK
  <2> QED BY <2>1
<1>8. LeftByReaders
  <2> SUFFICES ASSUME NEW c \in PlainChannels, mailboxes[c] # None, box'[mailboxes[c]].left
               PROVE  box[mailboxes[c]].left
    BY DEF LeftByReaders
  <2>1. mailboxes[c] \in BoxIds /\ box'[mailboxes[c]] = nb[mailboxes[c]]
    BY Stored DEF Typed, TypeOK, Channels
  <2> QED BY <2>1
<1> QED BY <1>3, <1>4, <1>5, <1>6, <1>7, <1>8, <1>9 DEF Reads, Spares

\* A task that stays where it is has been handed nothing.
LEMMA StaysOn ==
  ASSUME NEW t \in Tasks, task'[t] = task[t]
  PROVE  HandsOn(t)
  BY DEF HandsOn, IsHanded

\* An unsubscribe goes through, messages come in, and mailbox_grace passes.
LEMMA OutsideReads ==
  ASSUME Typed, Owned, Reads, Counts', "slowSubscribe" \notin Env,
         \/ \E s \in SubIds : Unsubscribed(s) \/ Deliver(s)
         \/ \E c \in ProcessChannels : GraceElapses(c)
  PROVE  Reads' /\ Spares
<1>1. \A b \in BoxIds : /\ box[b] \in Boxes /\ box[b].msgs \in Int /\ BoxOK(box[b])
  <2>1. \A b \in BoxIds : box[b] \in Boxes /\ BoxOK(box[b])
    BY DEF Typed, TypeOK, Reads, BoxesOK
  <2> QED BY <2>1, Bounds DEF Boxes
<1>2. ASSUME NEW s \in SubIds, Unsubscribed(s) PROVE Reads' /\ Spares
  <2>1. UNCHANGED <<mailboxes, generation, task>> /\ StoreBoxes(box)
    BY <1>2 DEF Unsubscribed, tables, Store
  <2>2. \A b \in BoxIds : box[b].msgs >= box[b].msgs
    BY <1>1
  <2> QED BY <1>1, <2>1, <2>2, SameBoxes, QuietReads
<1>3. ASSUME NEW s \in SubIds, Deliver(s) PROVE Reads' /\ Spares
  <2>1. UNCHANGED <<mailboxes, generation, task>>
    BY <1>3 DEF Deliver, tables
  <2>2. PICK bs : StoreBoxes(Arrives(bs))
    BY <1>3 DEF Deliver, Store
  <2> DEFINE nb == Arrives(bs)
  <2>3. nb \in [BoxIds -> Boxes]
    BY ArrivesTyped DEF Typed
  <2>4. ASSUME NEW b \in BoxIds
        PROVE  /\ nb[b].superseded = box[b].superseded
               /\ nb[b].ready = box[b].ready /\ nb[b].subscribed = box[b].subscribed
               /\ nb[b].aged => box[b].aged
               /\ nb[b].msgs >= box[b].msgs /\ nb[b].wakes = box[b].wakes
               /\ nb[b].receivers = box[b].receivers /\ (nb[b].left <=> box[b].left)
    <3> DEFINE x == [box[b] EXCEPT !.msgs = @ + 1, !.aged = FALSE]
    <3>1. nb[b] = x \/ nb[b] = box[b]
      BY DEF Arrives
    <3>2. /\ x.superseded = box[b].superseded
          /\ x.ready = box[b].ready /\ x.subscribed = box[b].subscribed
          /\ ~x.aged
          /\ x.msgs = box[b].msgs + 1 /\ x.wakes = box[b].wakes
          /\ x.receivers = box[b].receivers /\ (x.left <=> box[b].left)
      BY <1>1 DEF Boxes
    <3> HIDE DEF x, nb
    <3>3. CASE nb[b] = x
      BY <1>1, <3>2, <3>3
    <3>4. CASE nb[b] = box[b]
      BY <1>1, <3>4
    <3> QED BY <3>1, <3>3, <3>4
  <2> HIDE DEF nb
  <2>5. \A b \in BoxIds : BoxOK(nb[b])
    BY <1>1, <2>4 DEF BoxOK
  <2> QED BY <2>1, <2>2, <2>3, <2>4, <2>5, QuietReads DEF SameReceivers, nb
<1>4. ASSUME NEW c \in ProcessChannels, GraceElapses(c) PROVE Reads' /\ Spares
  <2> DEFINE a == mailboxes[c]
             nb == [box EXCEPT ![a].aged = TRUE]
  <2>1. /\ UNCHANGED <<mailboxes, generation, task>> /\ StoreBoxes(nb)
        /\ a # None /\ box[a].ready /\ NoneWoken(a)
    BY <1>4 DEF GraceElapses, tables, Store
  <2>2. nb \in [BoxIds -> Boxes]
    BY BoxSetTyped DEF Typed, TypeOK
  <2>3. \A b \in BoxIds : nb[b] = IF b = a THEN [box[b] EXCEPT !.aged = TRUE] ELSE box[b]
    BY DEF Typed, TypeOK
  <2>4. ASSUME NEW b \in BoxIds
        PROVE  /\ nb[b].superseded = box[b].superseded
               /\ nb[b].ready = box[b].ready /\ nb[b].subscribed = box[b].subscribed
               /\ nb[b].aged => box[b].aged \/ b = a
               /\ nb[b].msgs = box[b].msgs /\ nb[b].wakes = box[b].wakes
               /\ nb[b].receivers = box[b].receivers /\ (nb[b].left <=> box[b].left)
    <3> DEFINE x == [box[b] EXCEPT !.aged = TRUE]
    <3>1. IF b = a THEN nb[b] = x ELSE nb[b] = box[b]
      BY <2>3
    <3>2. /\ x.superseded = box[b].superseded
          /\ x.ready = box[b].ready /\ x.subscribed = box[b].subscribed
          /\ x.msgs = box[b].msgs /\ x.wakes = box[b].wakes
          /\ x.receivers = box[b].receivers /\ (x.left <=> box[b].left)
      BY <1>1 DEF Boxes
    <3> HIDE DEF x, nb
    <3> QED BY <3>1, <3>2
  <2> HIDE DEF nb, a
  <2>5. \A b \in BoxIds : BoxOK(nb[b])
    BY <1>1, <2>1, <2>4 DEF BoxOK
  <2>6. \A b \in BoxIds : nb[b].msgs >= box[b].msgs /\ (nb[b].aged => box[b].aged \/ NoneWoken(b))
    BY <1>1, <2>1, <2>4
  <2> QED BY <2>1, <2>2, <2>4, <2>5, <2>6, QuietReads DEF SameReceivers
<1> QED BY <1>2, <1>3, <1>4

-----------------------------------------------------------------------------
(* Every step. *)

\* Nothing is read, waited for or handed out yet.
LEMMA InitReads == Init => Reads
<1> SUFFICES ASSUME Init PROVE Reads
  OBVIOUS
<1>1. /\ \A t \in Tasks : task[t] = Idle
      /\ \A b \in BoxIds : box[b] = NewBox
      /\ \A c \in Channels : mailboxes[c] = None
  BY DEF Init
<1>2. Idle.rd = None /\ Idle.pc = "idle"
  BY DEF Idle
<1>3. Counts
  BY InitCounts
<1>4. BoxesOK
  <2>1. BoxOK(NewBox)
    BY DEF BoxOK, NewBox
  <2> QED BY <1>1, <2>1 DEF BoxesOK
<1>5. TabledOK /\ TakenOK /\ WaitsOK
  BY <1>1, <1>2 DEF TabledOK, TakenOK, NewBox, WaitsOK, WaitOK, WaiterOK, KeptByMaker, ReadingOK
<1>6. WokenOK
  BY <1>1 DEF WokenOK, NewBox
<1> QED BY <1>3, <1>4, <1>5, <1>6 DEF Reads

\* Every step keeps what is waited for and read in order, and hands out only what is ready.
LEMMA NextReads ==
  ASSUME "slowSubscribe" \notin Env, Typed, Owned, Reads, Counts', [Next]_vars
  PROVE  Reads' /\ Spares /\ \A t \in Tasks : HandsOn(t)
<1>1. ASSUME NEW t \in Tasks, Progress(t) PROVE Goes(t)
  BY <1>1, MoveReads, ReadyWakeReads, LockRunReads, SubscribedReads, ConfirmedReads, GetReads,
     GroupLockRunReads, GroupSubscribedReads, GroupConfirmedReads, TidyDoneReads DEF Progress
<1>2. ASSUME NEW t \in Tasks, Interrupt(t) PROVE Goes(t)
  BY <1>2, SubAbortedReads, ConfAbortedReads, WaitCancelledReads, ReadCancelledReads,
     GroupAbortedReads, TidyCancelledReads DEF Interrupt
<1>3. ASSUME NEW t \in Tasks, Call(t) \/ Progress(t) \/ Interrupt(t) \/ Discard(t) \/ Flush(t)
      PROVE  Reads' /\ Spares /\ \A u \in Tasks : HandsOn(u)
  <2>1. Goes(t)
    BY <1>1, <1>2, <1>3, CallReads, DiscardReads, FlushReads
  <2>2. ASSUME NEW u \in Tasks, u # t PROVE HandsOn(u)
    <3>1. task'[u] = task[u]
      BY <2>1, <2>2 DEF Goes
    <3> QED BY <3>1, StaysOn
  <2> QED BY <2>1, <2>2 DEF Goes
<1>4. ASSUME \/ \E s \in SubIds : Unsubscribed(s) \/ Deliver(s)
             \/ \E c \in ProcessChannels : GraceElapses(c)
      PROVE  Reads' /\ Spares /\ \A u \in Tasks : HandsOn(u)
  <2>1. task' = task
    BY <1>4 DEF Unsubscribed, Deliver, GraceElapses
  <2> QED BY <1>4, <2>1, OutsideReads, StaysOn
<1>5. ASSUME UNCHANGED vars PROVE Reads' /\ Spares /\ \A u \in Tasks : HandsOn(u)
  <2>1. UNCHANGED <<mailboxes, generation, box, task, subs>>
    BY <1>5 DEF vars
  <2>2. BoxRefs' = BoxRefs /\ \A b \in BoxIds : Reading(b)' = Reading(b)
    BY <2>1 DEF BoxRefs, Reading
  <2>3. BoxesOK' /\ TabledOK' /\ TakenOK' /\ WokenOK'
    BY <2>1, <2>2 DEF Reads, BoxesOK, BoxOK, TabledOK, TakenOK, WokenOK
  <2>4. WaitsOK'
    BY <2>1 DEF Reads, WaitsOK, WaitOK, WaiterOK, KeptByMaker, ReadingOK
  <2>5. Spares
    BY <2>1 DEF Spares, GroupsKeepBoxes, LeftByReaders
  <2> QED BY <2>1, <2>3, <2>4, <2>5, StaysOn DEF Reads
<1> QED BY <1>3, <1>4, <1>5 DEF Next

\* All of the invariant is inductive.
LEMMA NextAll ==
  ASSUME "cancelTidy" \notin Env, "slowSubscribe" \notin Env
  PROVE  TypeOK /\ Owned /\ Reads /\ [Next]_vars =>
            (TypeOK /\ Owned /\ Reads)' /\ Spares /\ \A t \in Tasks : HandsOn(t)
<1> SUFFICES ASSUME TypeOK, Owned, Reads, [Next]_vars
             PROVE  (TypeOK /\ Owned /\ Reads)' /\ Spares /\ \A t \in Tasks : HandsOn(t)
  OBVIOUS
<1>1. Typed
  BY NextTyped DEF Typed
<1>2. Owned' /\ Counts'
  BY <1>1, NextOwned, NextCounts, ReadsCount
<1> QED BY <1>1, <1>2, NextReads DEF Typed

\* A read waits where it is fed, or has an entry coming.
LEMMA ReadsAreFed == TypeOK /\ Owned /\ Reads => ReaderIsFedOrWoken
<1> SUFFICES ASSUME TypeOK, Owned, Reads, NEW t \in Tasks, task[t].pc = "get"
             PROVE  LET b == task[t].rd IN
                    IF box[b].superseded
                    THEN Cardinality({u \in Tasks : task[u].pc = "get" /\ task[u].rd = b}) <= box[b].msgs + box[b].wakes
                    ELSE Fed(b, task[t].ch)
  BY DEF ReaderIsFedOrWoken
<1> DEFINE b == task[t].rd
<1>1. b \in BoxIds /\ b # None /\ task[t].ch \in Channels
  BY CallFields DEF TypeOK, Shaped
<1>2. box[b].superseded => Cardinality(Reading(b)) <= box[b].msgs + box[b].wakes
  BY <1>1 DEF Reads, WokenOK
<1>3. ASSUME ~box[b].superseded PROVE Fed(b, task[t].ch)
  <2>1. mailboxes[task[t].ch] = b
    BY <1>1, <1>3 DEF Reads, WaitsOK, WaitOK, ReadingOK
  <2>2. box[b].ready
    BY <1>1 DEF Owned, CallsOwn, CallOK, ReaderOK
  <2>3. ReadyMailboxIsFed
    BY OwnedIsFed
  <2> QED BY <1>1, <2>1, <2>2, <2>3 DEF ReadyMailboxIsFed
<1> QED BY <1>2, <1>3 DEF Reading

\* No receive() waits on a mailbox nothing feeds: flush(), the sweep, and the cancelled last
\* reader of a plain channel leave every waiting read fed or woken.
THEOREM NoReadIsStranded ==
  ASSUME "cancelTidy" \notin Env, "slowSubscribe" \notin Env
  PROVE  Spec => []ReaderIsFedOrWoken
  BY ReadsAreFed, InitTyped, InitOwned, InitReads, NextAll, PTL DEF Spec

\* A read settles only on its channel's mailbox, and fed, whatever flush() does; so does what
\* new_channel() and group_add() are handed, but for a waiter flush() overtook on its way.
THEOREM HandsOutWhatIsFed ==
  ASSUME "cancelTidy" \notin Env, "slowSubscribe" \notin Env
  PROVE  Spec => HandoverIsFed
<1>1. ASSUME TypeOK', ReadyMailboxIsFed', \A t \in Tasks : HandsOn(t)
      PROVE  \A t \in Tasks : IsHanded(t) => HandedFed(t) \/ (Overtaken(t) /\ task'[t].pc # "get")
  <2> TAKE t \in Tasks
  <2> SUFFICES ASSUME IsHanded(t), ~(Overtaken(t) /\ task'[t].pc # "get") PROVE HandedFed(t)
    OBVIOUS
  <2>1. task'[t].ch \in Channels
    BY <1>1 DEF TypeOK, Shaped, Calls, IsHanded, Held
  <2>2. mailboxes'[task'[t].ch] # None /\ box'[mailboxes'[task'[t].ch]].ready
    BY <1>1 DEF HandsOn
  <2> QED BY <1>1, <2>1, <2>2 DEF ReadyMailboxIsFed, HasFedMailbox, HandedFed
<1>2. TypeOK /\ Owned /\ Reads /\ [Next]_vars /\ ReadyMailboxIsFed' =>
         [\A t \in Tasks : IsHanded(t) => HandedFed(t) \/ (Overtaken(t) /\ task'[t].pc # "get")]_vars
  BY <1>1, NextAll
<1> QED BY <1>2, OwnedIsFed, InitTyped, InitOwned, InitReads, NextAll, PTL DEF Spec, HandoverIsFed

-----------------------------------------------------------------------------
(* What lasts has a mailbox. *)

\* The channel of a membership that lasts has a ready mailbox.
LastingHasMailbox ==
    \A p \in Lasting : mailboxes[p[2]] # None /\ box[mailboxes[p[2]]].ready

\* What lasts is in its group.
LEMMA LastingIsIn ==
  ASSUME TypeOK, Memberships, NEW p \in Lasting
  PROVE  p[2] \in Channels /\ InAGroup(p[2])
<1>1. CASE p \in joined
  BY <1>1 DEF TypeOK, Memberships, JoinedOK, InAGroup
<1>2. ASSUME NEW t \in due, p = <<task[t].grp, task[t].ch>>
      PROVE  p[2] \in Channels /\ InAGroup(p[2])
  <2>1. t \in Tasks /\ task[t].pc \in Waiting /\ task[t].ch \in Members(task[t].grp)
    BY DEF TypeOK, Memberships, DueOK, Member
  <2>2. task[t].grp \in Groups /\ task[t].ch \in Channels
    BY <2>1, CallFields DEF Waiting, TypeOK, Shaped, Calls
  <2> QED BY <1>2, <2>1, <2>2 DEF InAGroup
<1> QED BY <1>1, <1>2 DEF Lasting

\* A step keeps the mailboxes of what lasts, and what comes to last has just been handed one.
LEMMA NextLasting ==
  ASSUME TypeOK, Memberships, MembersStay, LastingHasMailbox,
         Spares, \A t \in Tasks : HandsOn(t) /\ ~Overtaken(t)
  PROVE  LastingHasMailbox'
<1> SUFFICES ASSUME NEW p \in Lasting'
             PROVE  mailboxes'[p[2]] # None /\ box'[mailboxes'[p[2]]].ready
  BY DEF LastingHasMailbox
<1>1. CASE p \in Lasting
  BY <1>1, LastingIsIn DEF LastingHasMailbox, Spares, GroupsKeepBoxes
<1>2. CASE \E t \in Tasks : IsHanded(t) /\ p[2] = task'[t].ch
  BY <1>2 DEF HandsOn
<1> QED BY <1>1, <1>2 DEF MembersStay, ComesFrom

\* Nobody but group_discard() and flush() takes a member's mailbox away, or replaces it: no
\* sweep, no cancelled read, no failing subscribe.
THEOREM MembersAreKept ==
  ASSUME "cancelTidy" \notin Env, "slowSubscribe" \notin Env, "abortAdd" \notin Env
  PROVE  Spec => MembersKeepMailbox
<1> DEFINE All == Inv /\ Owned /\ Memberships /\ Reads
<1>1. Init => All
  BY InitInv, InitOwned, InitMemberships, InitReads
<1>2. All /\ [Next]_vars => All' /\ Spares
  <2> SUFFICES ASSUME All, [Next]_vars PROVE All' /\ Spares
    OBVIOUS
  <2>1. Inv' /\ Owned' /\ Memberships'
    BY NextKeeps, NextOwned, NextTyped, NextStays DEF Typed, Inv, MembersStay
  <2> QED BY <2>1, NextAll DEF Inv
<1>3. All /\ Spares => [\A p \in joined \cap joined' :
                           mailboxes[p[2]] # None /\ box[mailboxes[p[2]]].ready
                           => mailboxes'[p[2]] = mailboxes[p[2]]]_vars
  <2> SUFFICES ASSUME All, Spares, NEW p \in joined, p \in joined',
                      mailboxes[p[2]] # None, box[mailboxes[p[2]]].ready
               PROVE  mailboxes'[p[2]] = mailboxes[p[2]]
    OBVIOUS
  <2>1. p \in Lasting /\ p \in Lasting'
    BY DEF Lasting
  <2>2. p[2] \in Channels /\ InAGroup(p[2])
    BY <2>1, LastingIsIn DEF Inv
  <2> QED BY <2>1, <2>2 DEF Spares, GroupsKeepBoxes
<1> QED BY <1>1, <1>2, <1>3, PTL DEF Spec, MembersKeepMailbox

\* Whatever sweeps, cancelled reads and other calls come in between: as long as flush() is not
\* called, what group_add() returned for has a mailbox of its channel that is fed, until it is
\* given up.
THEOREM JoinedKeepsMailbox ==
  ASSUME "cancelTidy" \notin Env, "slowSubscribe" \notin Env, "abortAdd" \notin Env, MaxFlushes = 0
  PROVE  Spec => []JoinedHasMailbox
<1> DEFINE All == Inv /\ Owned /\ Memberships /\ Reads /\ LastingHasMailbox
<1>1. Init => All
  BY InitInv, InitOwned, InitMemberships, InitReads DEF Init, LastingHasMailbox, Lasting
<1>2. All /\ [Next]_vars => All'
  <2> SUFFICES ASSUME All, [Next]_vars PROVE All'
    OBVIOUS
  <2>1. Inv' /\ TypeOK' /\ Owned'
    BY NextKeeps, NextOwned, NextTyped DEF Typed, Inv
  <2>2. MembersStay /\ Memberships'
    BY NextStays DEF MembersStay
  <2>3. Reads' /\ Spares /\ \A t \in Tasks : HandsOn(t)
    BY NextAll DEF Inv
  <2>5. \A t \in Tasks : ~Overtaken(t)
    <3>1. \A b \in BoxIds : ~box[b].superseded
      BY DEF Inv, TypeOK, Reads, TakenOK
    <3>2. \A t \in Tasks : task[t].pc = "ready" => task[t].bx \in BoxIds
      BY CallFields DEF Inv, TypeOK, Shaped
    <3> QED BY <3>1, <3>2 DEF Overtaken
  <2>4. LastingHasMailbox'
    BY <2>2, <2>3, <2>5, NextLasting DEF Inv
  <2> QED BY <2>1, <2>2, <2>3, <2>4
<1>3. All => JoinedHasMailbox
  <2> SUFFICES ASSUME All, NEW p \in joined PROVE HasFedMailbox(p[2])
    BY DEF JoinedHasMailbox
  <2>1. p[2] \in Channels /\ mailboxes[p[2]] # None /\ box[mailboxes[p[2]]].ready
    BY DEF LastingHasMailbox, Lasting, Inv, TypeOK
  <2>2. ReadyMailboxIsFed
    BY OwnedIsFed DEF Inv
  <2> QED BY <2>1, <2>2 DEF ReadyMailboxIsFed, HasFedMailbox
<1> QED BY <1>1, <1>2, <1>3, PTL DEF Spec

\* While no channel is discarded from a group, whatever reads are cancelled and whatever flushes,
\* subscribes and adds come in between: a plain channel whose last reader was cancelled has given
\* its share of the queue group up, unless it is in a group.
THEOREM LastReaderGivesUp ==
  ASSUME "cancelTidy" \notin Env, "slowSubscribe" \notin Env, "discard" \notin Env, "abortAdd" \notin Env
  PROVE  Spec => []PlainIsReleased
<1> DEFINE All == Inv /\ Owned /\ Memberships /\ Reads /\ PlainIsReleased
<1>1. Init => All
  BY InitInv, InitOwned, InitMemberships, InitReads DEF Init, PlainIsReleased, Channels
<1>2. All /\ [Next]_vars => All'
  <2> SUFFICES ASSUME All, [Next]_vars PROVE All'
    OBVIOUS
  <2>1. Inv' /\ TypeOK' /\ Owned'
    BY NextKeeps, NextOwned, NextTyped DEF Typed, Inv
  <2>2. Memberships' /\ SetsStay
    BY NextStays DEF MembersStay
  <2>3. Reads' /\ LeftByReaders
    BY NextAll DEF Inv, Spares
  <2>4. ASSUME NEW c \in PlainChannels, mailboxes'[c] # None, box'[mailboxes'[c]].left
        PROVE  InAGroup(c)'
    <3>1. InAGroup(c)
      BY <2>3, <2>4 DEF LeftByReaders, PlainIsReleased
    <3>2. GroupsGrow
      BY <2>2, <2>4 DEF SetsStay, Channels
    <3> QED BY <3>1, <3>2 DEF InAGroup, GroupsGrow
  <2> QED BY <2>1, <2>2, <2>3, <2>4 DEF PlainIsReleased
<1>3. All => PlainIsReleased
  OBVIOUS
<1> QED BY <1>1, <1>2, <1>3, PTL DEF Spec

=============================================================================
