----------------------------- MODULE LoopOwners -----------------------------
(***************************************************************************)
(* For any tasks, channels and groups: who owns a subscription.  One that  *)
(* is live and not on its way down is in a table, or in the hands of the   *)
(* call that makes it, and no subject has two; the one that feeds a member *)
(* of a group is there as long as the membership.                          *)
(***************************************************************************)
EXTENDS LoopProofs

\* A call that has a mailbox nobody is to use yet.
Making == {"sub", "conf", "tidyAbort", "tidyRetryBox"}

\* subscribe_lock excludes.
Exclusive == \A t, u \in Tasks : task[t].pc \in Holding /\ task[u].pc \in Holding => t = u

\* A handle and commands left to give are there only where the code uses them.
HandleOK(t) ==
    LET me == task[t] IN
        /\ me.sub # None => me.pc \in {"conf", "gconf"}
        /\ me.todo # {} => me.pc \in Tidying
        /\ me.gen <= generation

\* The mailbox being made: under its channel or, once flush() went through, in no table.
MakerOK(t) ==
    LET me == task[t] IN
        me.pc \in Making =>
            /\ me.bx # None /\ ~box[me.bx].ready
            /\ mailboxes[me.ch] \in {None, me.bx}
            /\ \A c \in Channels : mailboxes[c] = me.bx => c = me.ch
            /\ me.pc \in {"sub", "conf"} /\ me.ch \in PlainChannels /\ me.gen = generation
                  => mailboxes[me.ch] = me.bx
            /\ me.pc \in {"sub", "conf"} /\ me.gen # generation => mailboxes[me.ch] = None
            /\ me.pc = "tidyRetryBox" => mailboxes[me.ch] = None
            /\ me.ch \in ProcessChannels => recorded[Proc] = None
            /\ box[me.bx].sub = IF me.pc = "conf" /\ me.ch \in PlainChannels THEN me.sub ELSE None

\* A call that subscribes for a group, and one that gives its mailbox up.
AdderOK(t) ==
    LET me == task[t] IN
        /\ me.pc \in {"gsub", "gconf"} => recorded[Feeds(me.grp, me.ch)] = None
        /\ me.pc = "tidyRetry" => me.bx # None /\ box[me.bx].ready

\* What a call has made is what it asked for, and is its own unless flush() took it.
MadeOK(t) ==
    LET me == task[t] IN
        /\ me.pc = "conf" =>
              /\ subs[me.sub] \in {BoxSub(t), NoSub}
              /\ me.gen = generation \/ me.ch \in ProcessChannels => me.sub \in Live \ Leaving
        /\ me.pc = "gconf" => subs[me.sub] = GroupSub(t) /\ me.sub \notin Leaving

\* Nobody reads a mailbox that is not ready.
ReaderOK(t) == task[t].rd # None => box[task[t].rd].ready

CallOK(t) == HandleOK(t) /\ MakerOK(t) /\ AdderOK(t) /\ MadeOK(t) /\ ReaderOK(t)
CallsOwn == \A t \in Tasks : CallOK(t)

\* What the tables hold is up, and feeds what it is recorded for.
RecordedOK ==
    \A k \in Keys : recorded[k] # None => subs[recorded[k]].subject = k /\ recorded[k] \notin Leaving

\* A mailbox in the table is ready and subscribed, or being made; it has its own subscription
\* if its channel is a plain one.
SlotOK(c) ==
    LET b == mailboxes[c] IN
        b # None =>
            /\ c \in ProcessChannels => box[b].sub = None
            /\ box[b].sub # None => subs[box[b].sub].subject = Chan(c) /\ box[b].sub \notin Leaving
            /\ ~box[b].ready => \E t \in Tasks : task[t].pc \in Making /\ task[t].bx = b /\ task[t].ch = c
            /\ box[b].ready => /\ box[b].subscribed
                               /\ IF c \in ProcessChannels THEN recorded[Proc] # None ELSE box[b].sub # None
            /\ \A d \in Channels : mailboxes[d] = b => d = c
TableOK == \A c \in Channels : SlotOK(c)

Owned == Exclusive /\ CallsOwn /\ RecordedOK /\ TableOK /\ NoLeakedSubscription

-----------------------------------------------------------------------------
(* What is stored, and what is fresh. *)

\* The state the invariant speaks of, well typed before and after a step.
Typed == TypeOK /\ TypeOK'

\* Mailbox b keeps what the invariant says of it, nb being the boxes computed.
SameFlags(x, y) == x.ready = y.ready /\ x.subscribed = y.subscribed /\ x.sub = y.sub

\* What is referred to after a step has the value computed for it.
LEMMA Stored ==
  ASSUME Typed, NEW nb, StoreBoxes(nb)
  PROVE  /\ \A c \in Channels : mailboxes'[c] # None => box'[mailboxes'[c]] = nb[mailboxes'[c]]
         /\ \A t \in Tasks : /\ task'[t].bx # None => box'[task'[t].bx] = nb[task'[t].bx]
                             /\ task'[t].rd # None => box'[task'[t].rd] = nb[task'[t].rd]
<1>1. \A b \in BoxIds : b \in BoxRefs' => box'[b] = nb[b]
  BY DEF StoreBoxes
<1>2. /\ \A c \in Channels : mailboxes'[c] \in BoxIds \cup {None}
      /\ \A t \in Tasks : task'[t].bx \in BoxIds \cup {None} /\ task'[t].rd \in BoxIds \cup {None}
  BY DEF Typed, TypeOK, Calls
<1>3. /\ \A c \in Channels : mailboxes'[c] # None => mailboxes'[c] \in BoxRefs'
      /\ \A t \in Tasks : /\ task'[t].bx # None => task'[t].bx \in BoxRefs'
                          /\ task'[t].rd # None => task'[t].rd \in BoxRefs'
  BY DEF BoxRefs
<1> QED BY <1>1, <1>2, <1>3

\* Subjects are told apart, and none of them is None.
LEMMA SubjectsDiffer ==
  /\ \A k \in Keys : k # None /\ \A c : k # Chan(c)
  /\ \A c \in PlainChannels : Chan(c) # None
  /\ \A c, d : Chan(c) = Chan(d) => c = d
  /\ Proc \in Keys
<1>1. \A c : Chan(c).kind = "ch" /\ Chan(c).ch = c
  BY DEF Chan
<1>2. \A k \in Keys : k.kind # "ch"
  BY DEF Keys, Proc, Grp, GrpChan
<1>3. \A k \in Keys : k # None
  BY NoneIsNoSubject DEF Subjects
<1>4. \A c \in PlainChannels : Chan(c) # None
  BY NoneIsNoSubject DEF Subjects
<1> QED BY <1>1, <1>2, <1>3, <1>4 DEF Keys

\* A fresh subscription is in nobody's hands.
LEMMA FreshIsFree ==
  ASSUME TypeOK, NEW s \in Fresh(SubIds, SubRefs)
  PROVE  /\ s \in SubIds /\ s # None /\ s \notin Live /\ s \notin Leaving
         /\ \A k \in Keys : recorded[k] # s
         /\ \A b \in BoxIds : box[b].sub # s
         /\ \A t \in Tasks : task[t].sub # s
<1>1. s \in SubIds /\ s \notin SubRefs
  BY DEF Fresh
<1> QED BY <1>1, SubIdsAreSome DEF SubRefs, Leaving

\* A fresh mailbox is not referred to.
LEMMA FreshBoxIsFree ==
  ASSUME TypeOK, NEW b \in Fresh(BoxIds, BoxRefs)
  PROVE  /\ b \in BoxIds /\ b # None
         /\ \A c \in Channels : mailboxes[c] # b
         /\ \A t \in Tasks : task[t].bx # b /\ task[t].rd # b
<1>1. b \in BoxIds /\ b \notin BoxRefs /\ b # None
  BY IdsAreNumbers, NoneIsFresh DEF Fresh
<1> QED BY <1>1 DEF BoxRefs

-----------------------------------------------------------------------------
(* How a call comes to rest: outside the lock, with no subscription in its hands. *)

Rests(t, nb) ==
    \E me \in Calls, ns \in [BoxIds -> Boxes] :
        /\ Become(t, me) /\ StoreBoxes(ns)
        /\ \A b \in BoxIds : SameFlags(ns[b], nb[b])
        /\ me.pc \notin Holding \cup Tidying
        /\ me.sub = None /\ me.todo = {} /\ me.gen \in {0, task[t].gen}
        /\ me.rd # None => me.rd = task[t].rd \/ nb[me.rd].ready

\* A reader that leaves changes no flag.
LEMMA LeaveFlags ==
  ASSUME NEW nb \in [BoxIds -> Boxes], NEW r, NEW cancelled, NEW b \in BoxIds
  PROVE  SameFlags(Leave(nb, r, cancelled)[b], nb[b])
<1>1. nb[b] \in Boxes
  OBVIOUS
<1> QED BY <1>1 DEF Leave, SameFlags, Boxes

\* A call that ends is at rest.
LEMMA EndsRests ==
  ASSUME TypeOK, NEW t \in Tasks, NEW nb \in [BoxIds -> Boxes], NEW cancelled \in BOOLEAN,
         Ends(t, nb, cancelled)
  PROVE  Rests(t, nb)
<1> DEFINE ns == Leave(nb, task[t].rd, cancelled)
<1>1. ns \in [BoxIds -> Boxes]
  BY CallFields, LeaveTyped
<1>2. \A b \in BoxIds : SameFlags(ns[b], nb[b])
  BY LeaveFlags
<1>3. Become(t, Idle) /\ StoreBoxes(ns)
  BY DEF Ends, Store
<1>4. Idle \in Calls
  BY IdleFields
<1>5. /\ Idle.pc \notin Holding \cup Tidying
      /\ Idle.sub = None /\ Idle.todo = {} /\ Idle.gen = 0 /\ Idle.rd = None
  BY DEF Idle, Holding, Tidying, LockedTidying
<1> HIDE DEF ns
<1> QED BY <1>1, <1>2, <1>3, <1>4, <1>5 DEF Rests

\* Counting readers changes no flag.
LEMMA CountedFlags ==
  ASSUME NEW nb \in [BoxIds -> Boxes], NEW r, NEW b \in BoxIds
  PROVE  /\ SameFlags([nb EXCEPT ![r].receivers = @ + 1, ![r].left = FALSE][b], nb[b])
         /\ SameFlags([nb EXCEPT ![r].receivers = @ - 1][b], nb[b])
<1>1. nb[b] \in Boxes
  OBVIOUS
<1> QED BY <1>1 DEF SameFlags, Boxes

\* A call that is handed a ready mailbox is at rest.
LEMMA HandOutRests ==
  ASSUME TypeOK, NEW t \in Tasks, NEW call \in Calls, call.todo = {},
         call.rd \in {None, task[t].rd}, call.op = "add" => call.grp # None, call.ch # None,
         NEW b \in BoxIds, NEW nb \in [BoxIds -> Boxes], nb[b].ready, HandOut(t, call, b, nb)
  PROVE  Rests(t, nb)
<1> DEFINE me == [call EXCEPT !.bx = None, !.sub = None, !.gen = 0]
<1>1. me \in Calls
  <2>1. 0 \in 0..MaxFlushes
    BY Bounds
  <2> QED BY <2>1 DEF Calls
<1>2. /\ me.sub = None /\ me.todo = {} /\ me.gen = 0 /\ me.rd = call.rd
      /\ me.op = call.op /\ me.grp = call.grp /\ me.ch = call.ch
  BY DEF Calls
<1>3. {"move", "get", "handed", "glock"} \subseteq PCs \ (Holding \cup Tidying)
  BY DEF PCs, Holding, Tidying, LockedTidying
<1>4. \A x \in BoxIds : SameFlags(nb[x], nb[x])
  BY DEF SameFlags
<1> HIDE DEF me
<1>5. CASE HandToRead(t, me, b, nb)
  <2> DEFINE pc == IF nb[b].superseded THEN "move" ELSE "get"
             r == [me EXCEPT !.pc = pc, !.rd = b]
             counted == [nb EXCEPT ![b].receivers = @ + 1, ![b].left = FALSE]
             ns == IF me.rd = None THEN counted ELSE [counted EXCEPT ![me.rd].receivers = @ - 1]
  <2>1. counted \in [BoxIds -> Boxes] /\ \A x \in BoxIds : SameFlags(counted[x], nb[x])
    BY CountedTyped, CountedFlags
  <2> HIDE DEF counted
  <2>2. /\ [counted EXCEPT ![me.rd].receivers = @ - 1] \in [BoxIds -> Boxes]
        /\ \A x \in BoxIds : SameFlags([counted EXCEPT ![me.rd].receivers = @ - 1][x], counted[x])
    BY <2>1, CountedTyped, CountedFlags
  <2>3. ns \in [BoxIds -> Boxes] /\ \A x \in BoxIds : SameFlags(ns[x], nb[x])
    BY <2>1, <2>2 DEF SameFlags
  <2>4. Become(t, r) /\ StoreBoxes(ns)
    BY <1>5 DEF HandToRead, Store, counted
  <2>5. pc \in PCs \ (Holding \cup Tidying)
    BY <1>3
  <2> HIDE DEF pc
  <2>6. /\ r \in Calls /\ r.pc = pc /\ r.rd = b
        /\ r.sub = None /\ r.todo = {} /\ r.gen = 0
    BY ZenonT(40), <1>1, <1>2, <2>5 DEF Calls
  <2> HIDE DEF ns, r
  <2> QED BY <2>3, <2>4, <2>5, <2>6 DEF Rests
<1>6. CASE HandToCaller(t, me, nb)
  <2> DEFINE r == [Idle EXCEPT !.pc = "handed", !.ch = me.ch]
  <2>1. Idle \in Calls /\ Idle.sub = None /\ Idle.todo = {} /\ Idle.gen = 0 /\ Idle.rd = None
    BY IdleFields DEF Idle
  <2>2. me.ch \in Channels \cup {None}
    BY <1>1 DEF Calls
  <2>3. /\ r \in Calls /\ r.pc = "handed" /\ r.rd = None
        /\ r.sub = None /\ r.todo = {} /\ r.gen = 0
    BY <1>3, <2>1, <2>2 DEF Calls
  <2>4. Become(t, r) /\ StoreBoxes(nb)
    BY <1>6 DEF HandToCaller, Store
  <2> HIDE DEF r
  <2> QED BY <1>3, <1>4, <2>3, <2>4 DEF Rests
<1>7. CASE HandToAdd(t, me, nb)
  <2>1. PICK x \in IF groups[me.grp] = None THEN Fresh(SetIds, SetRefs) ELSE {groups[me.grp]} :
             Become(t, [me EXCEPT !.pc = "glock", !.set = x]) /\ StoreBoxes(nb)
    BY <1>7 DEF HandToAdd
  <2>2. x \in SetIds
    <3>1. me.grp \in Groups
      BY <1>1, <1>2, <1>7 DEF HandToAdd, Calls
    <3> QED BY <2>1, <3>1, FreshIsOne DEF TypeOK
  <2> DEFINE r == [me EXCEPT !.pc = "glock", !.set = x]
  <2>3. /\ r \in Calls /\ r.pc = "glock" /\ r.rd = me.rd
        /\ r.sub = None /\ r.todo = {} /\ r.gen = 0
    BY ZenonT(40), <1>1, <1>2, <1>3, <2>2 DEF Calls
  <2>4. Become(t, r) /\ StoreBoxes(nb)
    BY <2>1
  <2> HIDE DEF r
  <2>5. r.rd # None => r.rd = task[t].rd
    BY <1>2, <2>3
  <2> QED BY <1>3, <1>4, <2>3, <2>4, <2>5 DEF Rests
<1> QED BY <1>5, <1>6, <1>7 DEF HandOut, me

\* So is one that looks its mailbox up, with no subscription in its hands.
LEMMA LookUpRests ==
  ASSUME Typed, NEW t \in Tasks, NEW call \in Calls, call.todo = {}, call.sub = None,
         call.rd \in {None, task[t].rd}, call.op = "add" => call.grp # None, call.ch # None,
         NEW nb \in [BoxIds -> Boxes], LookUp(t, call, nb)
  PROVE  Rests(t, nb)
<1> DEFINE b == mailboxes'[call.ch]
           pc == IF b = None THEN "lock" ELSE "ready"
           waiting == [call EXCEPT !.pc = pc, !.bx = b, !.gen = 0]
<1>1. b \in BoxIds \cup {None}
  BY DEF Calls, Typed, TypeOK
<1>2. CASE Become(t, waiting) /\ Store(nb)
  <2>1. pc \in PCs \ (Holding \cup Tidying) /\ 0 \in 0..MaxFlushes
    BY Bounds DEF PCs, Holding, Tidying, LockedTidying
  <2> HIDE DEF pc, b
  <2>2. /\ waiting \in Calls /\ waiting.pc = pc /\ waiting.rd = call.rd
        /\ waiting.sub = None /\ waiting.todo = {} /\ waiting.gen = 0
    BY <1>1, <2>1 DEF Calls
  <2> HIDE DEF waiting
  <2>3. \A x \in BoxIds : SameFlags(nb[x], nb[x])
    BY DEF SameFlags
  <2> QED BY <1>2, <2>1, <2>2, <2>3 DEF Rests, Store
<1>3. CASE b # None /\ nb[b].ready /\ HandOut(t, call, b, nb)
  <2> HIDE DEF b
  <2> QED BY <1>1, <1>3, HandOutRests DEF Typed
<1> QED BY <1>2, <1>3 DEF LookUp

-----------------------------------------------------------------------------
(* Steps after which the subscriptions in ss are on their way down, and nothing new is up. *)

\* The tables lose what is in ss, or has no subscription at all; all else they say stands.
TablesLetGo(ss) ==
    /\ UNCHANGED subs
    /\ Leaving' = Leaving \cup ss
    /\ generation <= generation'
    /\ generation' # generation => \A c \in Channels : mailboxes'[c] = None
    /\ \A k \in Keys : \/ recorded'[k] = recorded[k] /\ recorded[k] \notin ss
                       \/ recorded'[k] = None /\ recorded[k] \in ss \cup {None}
    /\ recorded'[Proc] = recorded[Proc] \/ \A c \in ProcessChannels : mailboxes'[c] = None
    /\ \A c \in Channels :
          \/ mailboxes'[c] = mailboxes[c] /\ (mailboxes[c] # None => box[mailboxes[c]].sub \notin ss)
          \/ mailboxes'[c] = None /\ box[mailboxes[c]].sub \in ss \cup {None}
    /\ \A c \in Channels : mailboxes'[c] # None => SameFlags(box'[mailboxes'[c]], box[mailboxes'[c]])

\* A task that stays where it is, as far as ownership goes, or one that gives back the process
\* subscription it made and keeps its mailbox.
GivesBack(t, ss) ==
    /\ task[t].pc = "conf" /\ task[t].ch \in ProcessChannels
    /\ task[t].sub \in ss /\ task'[t].sub = None
    /\ \/ task'[t].pc = "tidyAbort"
       \/ task'[t].pc = "tidyRetryBox" /\ task[t].gen # generation
Stays(t, ss) ==
    /\ \/ GivesBack(t, ss)
       \/ /\ task'[t].pc = task[t].pc /\ task'[t].sub = task[t].sub
          /\ task[t].sub # None /\ task[t].sub \in ss =>
                task[t].pc = "conf" /\ task[t].ch \in PlainChannels /\ generation' # generation
          /\ task[t].todo = {} => task'[t].todo = {}
    /\ task'[t].ch = task[t].ch /\ task'[t].grp = task[t].grp /\ task'[t].bx = task[t].bx
    /\ task'[t].gen = task[t].gen /\ task'[t].rd = task[t].rd
    /\ task[t].pc \in Making /\ task[t].ch \in PlainChannels =>
          mailboxes'[task[t].ch] = mailboxes[task[t].ch] \/ generation' # generation
    /\ task[t].pc \in Making /\ task[t].bx # None => SameFlags(box'[task[t].bx], box[task[t].bx])
    /\ task[t].pc = "tidyRetry" /\ task[t].bx # None => (box[task[t].bx].ready => box'[task[t].bx].ready)
    /\ task[t].rd # None => (box[task[t].rd].ready => box'[task[t].rd].ready)

\* One that moves on with nothing in its hands, the mailbox it was making in no table.
MovesOn(t, ss) ==
    /\ task[t].sub \in ss \cup {None} /\ task'[t].sub = None
    /\ task'[t].todo = {} \/ task'[t].pc \in Tidying
    /\ task'[t].gen <= generation'
    /\ task[t].pc \in Making => \A c \in Channels : mailboxes'[c] # task[t].bx
    /\ task'[t].pc \notin Making /\ task'[t].pc \notin {"conf", "gconf"}
    /\ task'[t].pc \in Holding => task[t].pc \in Holding \/ LockFree
    /\ task'[t].pc = "gsub" => recorded'[Feeds(task'[t].grp, task'[t].ch)] = None
    /\ task'[t].pc = "tidyRetry" => task'[t].bx # None /\ box'[task'[t].bx].ready
    /\ task'[t].rd # None => box'[task'[t].rd].ready

LetsGo(ss) == /\ TablesLetGo(ss)
              /\ \A t \in Tasks : Stays(t, ss) \/ MovesOn(t, ss)
              /\ \A t, u \in Tasks : t # u => Stays(t, ss) \/ Stays(u, ss)

\* Such a step leaves every other subscription with its owner.
LEMMA LetsGoOwns ==
  ASSUME Typed, Owned, NEW ss \in SUBSET SubIds, LetsGo(ss)
  PROVE  Owned'
<1> USE DEF LetsGo
<1>1. /\ subs' = subs /\ Leaving' = Leaving \cup ss /\ Live' = Live
      /\ None \notin ss
      /\ generation \in Int /\ generation' \in Int /\ generation <= generation'
  BY SubIdsAreSome DEF TablesLetGo, Live, Typed, TypeOK
<1>2. \A t \in Tasks : task'[t].pc \in Holding =>
         task[t].pc \in Holding \/ (MovesOn(t, ss) /\ LockFree)
  BY DEF Stays, MovesOn, GivesBack, Holding
<1>3. Exclusive'
  <2> SUFFICES ASSUME NEW t \in Tasks, NEW u \in Tasks, t # u,
                      task'[t].pc \in Holding, task'[u].pc \in Holding
               PROVE  FALSE
    BY DEF Exclusive
  <2>1. Stays(t, ss) => task[t].pc \in Holding
    BY DEF Stays, GivesBack, Holding
  <2>2. Stays(u, ss) => task[u].pc \in Holding
    BY DEF Stays, GivesBack, Holding
  <2>3. ~(task[t].pc \in Holding /\ task[u].pc \in Holding)
    BY DEF Owned, Exclusive
  <2>4. LockFree => task[t].pc \notin Holding /\ task[u].pc \notin Holding
    BY DEF LockFree
  <2> QED BY <1>2, <2>1, <2>2, <2>3, <2>4
<1>4. CallsOwn'
  <2> SUFFICES ASSUME NEW t \in Tasks
               PROVE  HandleOK(t)' /\ MakerOK(t)' /\ AdderOK(t)' /\ MadeOK(t)' /\ ReaderOK(t)'
    BY DEF CallsOwn, CallOK
  <2>1. HandleOK(t) /\ MakerOK(t) /\ AdderOK(t) /\ MadeOK(t) /\ ReaderOK(t)
    BY DEF Owned, CallsOwn, CallOK
  <2>2. CASE Stays(t, ss)
    <3>1. task[t].gen \in Int
      BY DEF Typed, TypeOK, Calls
    <3>2. HandleOK(t)'
      BY <1>1, <2>1, <2>2, <3>1 DEF HandleOK, Stays, GivesBack, Tidying, LockedTidying
    <3>3. MakerOK(t)'
      <4>1. CASE task[t].pc \notin Making
        BY <2>2, <4>1 DEF MakerOK, Stays, GivesBack, Making
      <4>2. CASE task[t].pc \in Making
        <5>1. task[t].ch \in Channels
          BY <4>2, CallFields DEF Typed, Shaped, Making
        <5>2. SameFlags(box'[task[t].bx], box[task[t].bx])
          BY <2>1, <2>2, <4>2 DEF Stays, MakerOK
        <5>3. task[t].ch \in ProcessChannels => task[t].ch \notin PlainChannels
          BY KindsOfChannel
        <5>4. recorded[Proc] = None => recorded'[Proc] = None
          BY SubjectsDiffer DEF TablesLetGo
        <5>5. \A c \in Channels : mailboxes'[c] = mailboxes[c] \/ mailboxes'[c] = None
          BY DEF TablesLetGo
        <5>6. task[t].gen <= generation
          BY <2>1 DEF HandleOK
        <5>7. generation' # generation => \A c \in Channels : mailboxes'[c] = None
          BY DEF TablesLetGo
        <5>8. CASE GivesBack(t, ss)
          <6>1. /\ task[t].pc = "conf" /\ task[t].ch \in ProcessChannels
                /\ \/ task'[t].pc = "tidyAbort"
                   \/ task'[t].pc = "tidyRetryBox" /\ task[t].gen # generation
            BY <5>8 DEF GivesBack
          <6>2. /\ task'[t].ch = task[t].ch /\ task'[t].bx = task[t].bx
                /\ task'[t].gen = task[t].gen
            BY <2>2 DEF Stays
          <6>3. /\ task[t].bx # None /\ ~box[task[t].bx].ready
                /\ mailboxes[task[t].ch] \in {None, task[t].bx}
                /\ \A c \in Channels : mailboxes[c] = task[t].bx => c = task[t].ch
                /\ task[t].gen # generation => mailboxes[task[t].ch] = None
                /\ recorded[Proc] = None
                /\ box[task[t].bx].sub = None
            BY <2>1, <4>2, <5>3, <6>1 DEF MakerOK
          <6>4. ~box'[task[t].bx].ready /\ box'[task[t].bx].sub = None
            BY <5>2, <6>3 DEF SameFlags
          <6>5. /\ mailboxes'[task[t].ch] \in {None, task[t].bx}
                /\ \A c \in Channels : mailboxes'[c] = task[t].bx => c = task[t].ch
                /\ task[t].gen # generation => mailboxes'[task[t].ch] = None
            BY <5>1, <5>5, <6>3
          <6>6. task'[t].pc \notin {"sub", "conf"}
            BY <6>1
          <6> QED BY <5>4, <6>1, <6>2, <6>3, <6>4, <6>5, <6>6 DEF MakerOK
        <5>9. CASE ~GivesBack(t, ss)
          <6>1. task'[t].pc = task[t].pc /\ task'[t].sub = task[t].sub
            BY <2>2, <5>9 DEF Stays
          <6>2. /\ task'[t].ch = task[t].ch /\ task'[t].bx = task[t].bx
                /\ task'[t].gen = task[t].gen
                /\ task[t].ch \in PlainChannels =>
                      mailboxes'[task[t].ch] = mailboxes[task[t].ch] \/ generation' # generation
            BY <2>2, <4>2 DEF Stays
          <6>3. /\ task[t].bx # None /\ ~box[task[t].bx].ready
                /\ mailboxes[task[t].ch] \in {None, task[t].bx}
                /\ \A c \in Channels : mailboxes[c] = task[t].bx => c = task[t].ch
                /\ task[t].pc \in {"sub", "conf"} /\ task[t].ch \in PlainChannels
                   /\ task[t].gen = generation => mailboxes[task[t].ch] = task[t].bx
                /\ task[t].pc \in {"sub", "conf"} /\ task[t].gen # generation =>
                      mailboxes[task[t].ch] = None
                /\ task[t].pc = "tidyRetryBox" => mailboxes[task[t].ch] = None
                /\ task[t].ch \in ProcessChannels => recorded[Proc] = None
                /\ box[task[t].bx].sub =
                      IF task[t].pc = "conf" /\ task[t].ch \in PlainChannels THEN task[t].sub ELSE None
            BY <2>1, <4>2 DEF MakerOK
          <6>4. ~box'[task[t].bx].ready /\ box'[task[t].bx].sub = box[task[t].bx].sub
            BY <5>2, <6>3 DEF SameFlags
          <6>5. /\ mailboxes'[task[t].ch] \in {None, task[t].bx}
                /\ \A c \in Channels : mailboxes'[c] = task[t].bx => c = task[t].ch
                /\ task[t].pc = "tidyRetryBox" => mailboxes'[task[t].ch] = None
            BY <5>1, <5>5, <6>3
          <6>6. task[t].pc \in {"sub", "conf"} /\ task[t].ch \in PlainChannels /\ task[t].gen = generation'
                   => mailboxes'[task[t].ch] = task[t].bx
            BY <1>1, <3>1, <5>6, <6>2, <6>3
          <6>7. task[t].pc \in {"sub", "conf"} /\ task[t].gen # generation' => mailboxes'[task[t].ch] = None
            BY <5>1, <5>5, <5>7, <6>3
          <6> QED BY <5>4, <6>1, <6>2, <6>3, <6>4, <6>5, <6>6, <6>7 DEF MakerOK
        <5> QED BY <5>8, <5>9
      <4> QED BY <4>1, <4>2
    <3>4. AdderOK(t)'
      <4>1. task[t].pc \in {"gsub", "gconf"} => Feeds(task[t].grp, task[t].ch) \in Keys
        BY CallFields, FeedsIsKey DEF Typed, Shaped
      <4> QED BY SMTT(30), <1>1, <2>1, <2>2, <4>1 DEF AdderOK, Stays, GivesBack, TablesLetGo
    <3>5. MadeOK(t)'
      <4>1. CASE GivesBack(t, ss)
        BY <4>1 DEF MadeOK, GivesBack
      <4>2. CASE ~GivesBack(t, ss)
        <5>1. task[t].pc \in {"conf", "gconf"} => task[t].sub # None
          BY CallFields DEF Typed, Shaped
        <5>2. task[t].gen <= generation
          BY <2>1 DEF HandleOK
        <5>3. task[t].ch \in ProcessChannels => task[t].ch \notin PlainChannels
          BY KindsOfChannel
        <5>4. /\ task'[t].pc = task[t].pc /\ task'[t].sub = task[t].sub
              /\ task[t].sub # None /\ task[t].sub \in ss =>
                    task[t].pc = "conf" /\ task[t].ch \in PlainChannels /\ generation' # generation
              /\ task'[t].ch = task[t].ch /\ task'[t].grp = task[t].grp /\ task'[t].bx = task[t].bx
              /\ task'[t].gen = task[t].gen
          BY <2>2, <4>2 DEF Stays
        <5>5. BoxSub(t)' = BoxSub(t) /\ GroupSub(t)' = GroupSub(t)
          BY <5>4 DEF BoxSub, GroupSub
        <5> QED BY <1>1, <2>1, <3>1, <5>1, <5>2, <5>3, <5>4, <5>5 DEF MadeOK
      <4> QED BY <4>1, <4>2
    <3>6. ReaderOK(t)'
      BY <2>1, <2>2 DEF ReaderOK, Stays
    <3> QED BY <3>2, <3>3, <3>4, <3>5, <3>6
  <2>3. CASE MovesOn(t, ss)
    BY <1>1, <2>3 DEF HandleOK, MakerOK, AdderOK, MadeOK, ReaderOK, MovesOn
  <2> QED BY <2>2, <2>3
<1>5. RecordedOK'
  BY <1>1 DEF Owned, RecordedOK, TablesLetGo
<1>6. TableOK'
  <2> SUFFICES ASSUME NEW c \in Channels, mailboxes'[c] # None
               PROVE  SlotOK(c)'
    BY DEF TableOK, SlotOK
  <2> DEFINE b == mailboxes[c]
  <2>1. mailboxes'[c] = b /\ b # None /\ SameFlags(box'[b], box[b]) /\ box[b].sub \notin ss
    BY DEF TablesLetGo
  <2>2. SlotOK(c)
    BY DEF Owned, TableOK
  <2>3. \A d \in Channels : mailboxes'[d] = b => d = c
    BY <2>1, <2>2 DEF SlotOK, TablesLetGo
  <2>4. ~box[b].ready => \E t \in Tasks : task'[t].pc \in Making /\ task'[t].bx = b /\ task'[t].ch = c
    <3> SUFFICES ASSUME ~box[b].ready
                 PROVE  \E t \in Tasks : task'[t].pc \in Making /\ task'[t].bx = b /\ task'[t].ch = c
      OBVIOUS
    <3>1. PICK t \in Tasks : task[t].pc \in Making /\ task[t].bx = b /\ task[t].ch = c
      BY <2>1, <2>2 DEF SlotOK
    <3>2. ~MovesOn(t, ss)
      BY <2>1, <3>1 DEF MovesOn
    <3> QED BY <3>1, <3>2 DEF Stays, GivesBack, Making
  <2>5. c \in ProcessChannels => recorded'[Proc] = recorded[Proc]
    BY DEF TablesLetGo
  <2> QED BY <1>1, <2>1, <2>2, <2>3, <2>4, <2>5 DEF SlotOK, SameFlags
<1>7. NoLeakedSubscription'
  <2> SUFFICES ASSUME NEW s \in Live, s \notin Leaving, s \notin ss
               PROVE  \/ \E t \in Tasks : task'[t].sub = s
                      \/ \E k \in Keys : recorded'[k] = s
                      \/ \E c \in PlainChannels : mailboxes'[c] # None /\ box'[mailboxes'[c]].sub = s
    BY <1>1 DEF NoLeakedSubscription
  <2>1. s # None
    BY SubIdsAreSome DEF Live
  <2>2. CASE \E t \in Tasks : task[t].sub = s
    BY <2>1, <2>2 DEF Stays, MovesOn, GivesBack
  <2>3. CASE \E c \in PlainChannels : mailboxes[c] # None /\ box[mailboxes[c]].sub = s
    BY <2>1, <2>3 DEF TablesLetGo, SameFlags, Channels
  <2>4. CASE \E k \in Keys : recorded[k] = s
    BY <2>1, <2>4 DEF TablesLetGo
  <2> QED BY <2>2, <2>3, <2>4 DEF Owned, NoLeakedSubscription
<1> QED BY <1>3, <1>4, <1>5, <1>6, <1>7 DEF Owned

\* The tables may lose mailboxes without a subscription; all else they say stands.
TablesStand ==
    /\ UNCHANGED <<recorded, generation, subs>>
    /\ Leaving' = Leaving
    /\ \A c \in Channels :
          \/ mailboxes'[c] = mailboxes[c]
          \/ mailboxes'[c] = None /\ box[mailboxes[c]].sub = None
    /\ \A c \in Channels : mailboxes'[c] # None => SameFlags(box'[mailboxes'[c]], box[mailboxes'[c]])

Calm == /\ TablesStand
        /\ \A t \in Tasks : Stays(t, {}) \/ MovesOn(t, {})
        /\ \A t, u \in Tasks : t # u => Stays(t, {}) \/ Stays(u, {})

\* A step that takes nothing down.
LEMMA CalmOwns ==
  ASSUME Typed, Owned, Calm
  PROVE  Owned'
<1>1. generation <= generation
  BY DEF Typed, TypeOK
<1>2. TablesLetGo({})
  BY <1>1 DEF Calm, TablesStand, TablesLetGo
<1> QED BY <1>2, LetsGoOwns DEF Calm, LetsGo

\* Every other task is where it was, and every box referred to has kept its flags.
LEMMA OthersStay ==
  ASSUME Typed, NEW t, NEW me, Become(t, me), NEW nb, StoreBoxes(nb), NEW ss,
         \A u \in Tasks : u # t /\ task[u].sub # None /\ task[u].sub \in ss =>
             task[u].pc = "conf" /\ task[u].ch \in PlainChannels /\ generation' # generation,
         \A u \in Tasks : u # t /\ task[u].pc \in Making =>
             /\ task[u].bx # None => SameFlags(nb[task[u].bx], box[task[u].bx])
             /\ task[u].ch \in PlainChannels =>
                   mailboxes'[task[u].ch] = mailboxes[task[u].ch] \/ generation' # generation,
         \A b \in BoxIds : box[b].ready => nb[b].ready
  PROVE  \A u \in Tasks : u # t => Stays(u, ss) /\ task'[u] = task[u]
<1> TAKE u \in Tasks
<1> HAVE u # t
<1>1. task'[u] = task[u]
  BY DEF Become, Typed, TypeOK
<1>2. task[u].bx \in BoxIds \cup {None} /\ task[u].rd \in BoxIds \cup {None}
  BY CallFields DEF Typed
<1>3. /\ task[u].bx # None => box'[task[u].bx] = nb[task[u].bx]
      /\ task[u].rd # None => box'[task[u].rd] = nb[task[u].rd]
  BY <1>1, Stored
<1> QED BY <1>1, <1>2, <1>3 DEF Stays

\* A call that comes to rest with no subscription to lose is calm.
LEMMA RestsOwns ==
  ASSUME Typed, Owned, NEW t \in Tasks, NEW nb \in [BoxIds -> Boxes], Rests(t, nb),
         UNCHANGED <<recorded, generation, subs, going>>,
         task[t].sub = None, task[t].todo = {},
         \A c \in Channels :
            \/ mailboxes'[c] = mailboxes[c]
            \/ mailboxes'[c] = None /\ box[mailboxes[c]].sub = None,
         \A c \in Channels : mailboxes'[c] # None => SameFlags(nb[mailboxes'[c]], box[mailboxes'[c]]),
         task[t].pc \in Making => \A c \in Channels : mailboxes'[c] # task[t].bx,
         \A u \in Tasks : u # t /\ task[u].pc \in Making =>
             /\ task[u].bx # None => SameFlags(nb[task[u].bx], box[task[u].bx])
             /\ task[u].ch \in PlainChannels => mailboxes'[task[u].ch] = mailboxes[task[u].ch],
         \A b \in BoxIds : box[b].ready => nb[b].ready
  PROVE  Owned'
<1>1. PICK me \in Calls, ns \in [BoxIds -> Boxes] :
        /\ Become(t, me) /\ StoreBoxes(ns)
        /\ \A b \in BoxIds : SameFlags(ns[b], nb[b])
        /\ me.pc \notin Holding \cup Tidying
        /\ me.sub = None /\ me.todo = {} /\ me.gen \in {0, task[t].gen}
        /\ me.rd # None => me.rd = task[t].rd \/ nb[me.rd].ready
  BY DEF Rests
<1>2. task'[t] = me /\ task[t].rd \in BoxIds \cup {None} /\ me.rd \in BoxIds \cup {None}
  BY <1>1, CallFields DEF Become, Typed, TypeOK, Calls
<1>3. \A u \in Tasks : u # t => Stays(u, {}) /\ task'[u] = task[u]
  <2> TAKE u \in Tasks
  <2> HAVE u # t
  <2>1. task'[u] = task[u]
    BY <1>1 DEF Become, Typed, TypeOK
  <2>2. task[u].bx \in BoxIds \cup {None} /\ task[u].rd \in BoxIds \cup {None}
    BY CallFields DEF Typed
  <2>3. /\ task[u].bx # None => box'[task[u].bx] = ns[task[u].bx]
        /\ task[u].rd # None => box'[task[u].rd] = ns[task[u].rd]
    BY <1>1, <2>1, Stored
  <2> QED BY <1>1, <2>1, <2>2, <2>3 DEF Stays, SameFlags
<1>4. Leaving' = Leaving
  <2>1. \A u \in Tasks : task'[u].todo = task[u].todo
    BY <1>1, <1>2, <1>3
  <2> QED BY <2>1 DEF Leaving
<1>5. TablesStand
  <2>1. \A c \in Channels : mailboxes'[c] # None => mailboxes'[c] \in BoxIds /\ box'[mailboxes'[c]] = ns[mailboxes'[c]]
    BY <1>1, Stored DEF Typed, TypeOK
  <2>2. \A c \in Channels : mailboxes'[c] # None => SameFlags(box'[mailboxes'[c]], box[mailboxes'[c]])
    BY <1>1, <2>1 DEF SameFlags
  <2> QED BY <1>4, <2>2 DEF TablesStand
<1>6. MovesOn(t, {})
  <2>1. me.rd # None => box'[me.rd].ready
    <3> SUFFICES ASSUME me.rd # None
                 PROVE  box'[me.rd].ready
      OBVIOUS
    <3>1. nb[me.rd].ready
      BY <1>1, <1>2 DEF Owned, CallsOwn, CallOK, ReaderOK
    <3>2. box'[me.rd] = ns[me.rd]
      BY <1>1, <1>2, Stored
    <3> QED BY <1>1, <1>2, <3>1, <3>2 DEF SameFlags
  <2>2. me.gen <= generation
    BY <1>1 DEF Typed, TypeOK, Owned, CallsOwn, CallOK, HandleOK
  <2> QED BY <1>1, <1>2, <2>1, <2>2, <1>3 DEF MovesOn, Making, Holding, LockedTidying
<1> QED BY <1>3, <1>5, <1>6, CalmOwns DEF Calm

-----------------------------------------------------------------------------
(* The calls that come to rest. *)

\* A call at rest or waiting has nothing in its hands, and is not making a mailbox.
LEMMA AtRest ==
  ASSUME Owned, NEW t \in Tasks, task[t].pc \notin Holding \cup Tidying
  PROVE  task[t].sub = None /\ task[t].todo = {} /\ task[t].pc \notin Making
  BY DEF Owned, CallsOwn, CallOK, HandleOK, Making, Holding, LockedTidying

\* A step of a call that was not making a mailbox, and that leaves the tables to themselves
\* but for the sweep.
LEMMA WaitersRest ==
  ASSUME Typed, Owned, NEW t \in Tasks, NEW nb \in [BoxIds -> Boxes], Rests(t, nb),
         UNCHANGED <<recorded, generation, subs, going>>, mailboxes' \in {mailboxes, Swept},
         task[t].sub = None, task[t].todo = {}, task[t].pc \notin Making,
         \A b \in BoxIds : SameFlags(nb[b], box[b])
  PROVE  Owned'
<1>1. \A c \in Channels : \/ mailboxes'[c] = mailboxes[c]
                          \/ mailboxes'[c] = None /\ box[mailboxes[c]].sub = None /\ c \in ProcessChannels
  BY DEF Swept, Sweepable
<1>2. \A c \in Channels : mailboxes'[c] # None => mailboxes'[c] \in BoxIds
  BY DEF Typed, TypeOK
<1>3. \A u \in Tasks : /\ task[u].bx \in BoxIds \cup {None}
                       /\ task[u].pc \in Making => task[u].ch \in Channels
  BY CallFields DEF Typed, Shaped, Making
<1>4. \A u \in Tasks : u # t /\ task[u].pc \in Making =>
             /\ task[u].bx # None => SameFlags(nb[task[u].bx], box[task[u].bx])
             /\ task[u].ch \in PlainChannels => mailboxes'[task[u].ch] = mailboxes[task[u].ch]
  BY <1>1, <1>3, KindsOfChannel
<1>5. \A b \in BoxIds : box[b].ready => nb[b].ready
  BY DEF SameFlags
<1> QED BY <1>1, <1>2, <1>4, <1>5, RestsOwns

\* _mailbox() from its start.
LEMMA MailboxOwns ==
  ASSUME Typed, Owned, NEW t \in Tasks, task[t].pc \notin Holding \cup Tidying,
         NEW call \in Calls, call.todo = {}, call.sub = None, call.rd \in {None, task[t].rd},
         call.op = "add" => call.grp # None, call.ch # None, Mailbox(t, call)
  PROVE  Owned'
<1>1. box \in [BoxIds -> Boxes] /\ \A b \in BoxIds : SameFlags(box[b], box[b])
  BY DEF Typed, TypeOK, SameFlags
<1>2. Rests(t, box)
  BY <1>1, LookUpRests DEF Mailbox
<1> QED BY <1>1, <1>2, AtRest, WaitersRest DEF Mailbox, server

\* receive(), new_channel() or group_add() starts.
LEMMA CallOwns ==
  ASSUME Typed, Owned, NEW t \in Tasks, Call(t)
  PROVE  Owned'
<1>1. PICK op \in {"receive", "new", "add"} \cap Env, c \in Channels, g \in Groups \cup {None} :
         /\ (op = "add") <=> (g # None)
         /\ Mailbox(t, [Idle EXCEPT !.op = op, !.ch = c, !.grp = g])
  BY DEF Call
<1> DEFINE call == [Idle EXCEPT !.op = op, !.ch = c, !.grp = g]
<1>2. call \in Calls
  BY IdleFields DEF Calls, Ops
<1>3. /\ call.todo = {} /\ call.sub = None /\ call.rd = None
      /\ call.op = op /\ call.grp = g /\ call.ch = c
  BY DEF Idle
<1>4. call.ch # None
  BY <1>3, NoneIsFresh
<1>5. task[t].pc \notin Holding \cup Tidying
  BY DEF Call, Holding, Tidying, LockedTidying
<1> HIDE DEF call
<1> QED BY <1>1, <1>2, <1>3, <1>4, <1>5, MailboxOwns DEF call

\* A reader moves on to the mailbox that replaces its own.
LEMMA MoveOwns ==
  ASSUME Typed, Owned, NEW t \in Tasks, Move(t)
  PROVE  Owned'
<1>1. task[t].pc \notin Holding \cup Tidying
  BY DEF Move, Holding, Tidying, LockedTidying
<1>2. /\ task[t] \in Calls /\ task[t].ch # None
      /\ task[t].op = "add" => task[t].grp # None
  BY CallFields DEF Move, Shaped, Typed
<1> QED BY <1>1, <1>2, AtRest, MailboxOwns DEF Move

\* A waiter on box.ready goes on.
LEMMA ReadyWakeOwns ==
  ASSUME Typed, Owned, NEW t \in Tasks, ReadyWake(t)
  PROVE  Owned'
<1>1. task[t].pc \notin Holding \cup Tidying
  BY DEF ReadyWake, Holding, Tidying, LockedTidying
<1>2. /\ task[t] \in Calls /\ task[t].ch # None /\ task[t].bx \in BoxIds
      /\ task[t].op = "add" => task[t].grp # None
  BY CallFields DEF ReadyWake, Shaped, Typed
<1>3. box \in [BoxIds -> Boxes] /\ \A b \in BoxIds : SameFlags(box[b], box[b])
  BY DEF Typed, TypeOK, SameFlags
<1>4. Rests(t, box)
  BY <1>1, <1>2, <1>3, AtRest, HandOutRests, LookUpRests DEF ReadyWake, Typed
<1> QED BY <1>1, <1>3, <1>4, AtRest, WaitersRest DEF ReadyWake, server

\* A wait is cancelled.
LEMMA WaitCancelledOwns ==
  ASSUME Typed, Owned, NEW t \in Tasks, WaitCancelled(t)
  PROVE  Owned'
<1>1. task[t].pc \notin Holding \cup Tidying
  BY DEF WaitCancelled, Holding, Tidying, LockedTidying
<1>2. box \in [BoxIds -> Boxes] /\ \A b \in BoxIds : SameFlags(box[b], box[b])
  BY DEF Typed, TypeOK, SameFlags
<1>3. Rests(t, box)
  BY <1>2, EndsRests DEF WaitCancelled, Typed
<1> QED BY <1>1, <1>2, <1>3, AtRest, WaitersRest DEF WaitCancelled, server, tables

\* Taking an entry off changes no flag.
LEMMA TakenTyped ==
  ASSUME TypeOK, NEW b \in BoxIds
  PROVE  /\ box[b].msgs > 0 => [box EXCEPT ![b].msgs = @ - 1] \in [BoxIds -> Boxes]
         /\ [box EXCEPT ![b].wakes = @ - 1] \in [BoxIds -> Boxes]
         /\ \A x \in BoxIds : /\ SameFlags([box EXCEPT ![b].msgs = @ - 1][x], box[x])
                              /\ SameFlags([box EXCEPT ![b].wakes = @ - 1][x], box[x])
<1>1. box[b] \in Boxes /\ box \in [BoxIds -> Boxes]
  BY DEF TypeOK
<1>2. box[b].msgs > 0 => box[b].msgs - 1 \in 0..Capacity
  BY <1>1, Bounds DEF Boxes
<1>3. box[b].wakes - 1 \in Int
  BY <1>1 DEF Boxes
<1>4. /\ box[b].msgs > 0 => [box[b] EXCEPT !.msgs = @ - 1] \in Boxes
      /\ [box[b] EXCEPT !.wakes = @ - 1] \in Boxes
  BY <1>1, <1>2, <1>3 DEF Boxes
<1>5. \A x \in BoxIds : box[x] \in Boxes
  BY <1>1
<1> QED BY <1>1, <1>4, <1>5 DEF SameFlags, Boxes

\* An entry comes off a queue.
LEMMA GetOwns ==
  ASSUME Typed, Owned, NEW t \in Tasks, Get(t)
  PROVE  Owned'
<1> DEFINE b == task[t].rd
           pc == IF box[b].superseded THEN "move" ELSE "get"
           me == [task[t] EXCEPT !.pc = pc]
<1>1. task[t].pc \notin Holding \cup Tidying
  BY DEF Get, Holding, Tidying, LockedTidying
<1>2. task[t] \in Calls /\ b \in BoxIds /\ box[b].ready
  BY CallFields DEF Get, Shaped, Typed, Owned, CallsOwn, CallOK, ReaderOK
<1>3. PICK nb \in [BoxIds -> Boxes] :
        /\ \A x \in BoxIds : SameFlags(nb[x], box[x])
        /\ Ends(t, nb, FALSE) \/ (Become(t, me) /\ StoreBoxes(nb))
  <2> DEFINE read == [box EXCEPT ![b].msgs = @ - 1]
             woken == [box EXCEPT ![b].wakes = @ - 1]
  <2>1. /\ box[b].msgs > 0 => read \in [BoxIds -> Boxes]
        /\ woken \in [BoxIds -> Boxes]
        /\ \A x \in BoxIds : SameFlags(read[x], box[x]) /\ SameFlags(woken[x], box[x])
    BY <1>2, TakenTyped DEF Typed
  <2>2. \/ box[b].msgs > 0 /\ Ends(t, read, FALSE)
        \/ Become(t, me) /\ box[b].msgs > 0 /\ Store(read)
        \/ Become(t, me) /\ Store(woken)
    BY DEF Get
  <2> HIDE DEF read, woken, me
  <2> QED BY <2>1, <2>2 DEF Store
<1>4. CASE Become(t, me) /\ StoreBoxes(nb)
  <2>1. pc \in PCs \ (Holding \cup Tidying)
    BY DEF PCs, Holding, Tidying, LockedTidying
  <2> HIDE DEF pc
  <2>2. /\ me \in Calls /\ me.pc = pc /\ me.rd = task[t].rd
        /\ me.sub = task[t].sub /\ me.todo = task[t].todo /\ me.gen = task[t].gen
    BY <1>2, <2>1 DEF Calls
  <2> HIDE DEF me
  <2>3. Rests(t, nb)
    BY <1>1, <1>4, <2>1, <2>2, AtRest DEF Rests, SameFlags
  <2> QED BY <1>1, <1>3, <2>3, AtRest, WaitersRest DEF Get, tables, server
<1>5. CASE Ends(t, nb, FALSE)
  <2>1. Rests(t, nb)
    BY <1>5, EndsRests DEF Typed
  <2> QED BY <1>1, <1>3, <2>1, AtRest, WaitersRest DEF Get, tables, server
<1> QED BY <1>3, <1>4, <1>5

\* A call that becomes idle is at rest.
LEMMA IdleRests ==
  ASSUME NEW t \in Tasks, NEW nb \in [BoxIds -> Boxes], Become(t, Idle), StoreBoxes(nb)
  PROVE  Rests(t, nb)
<1>1. Idle \in Calls
  BY IdleFields
<1>2. /\ Idle.pc \notin Holding \cup Tidying
      /\ Idle.sub = None /\ Idle.todo = {} /\ Idle.gen = 0 /\ Idle.rd = None
  BY DEF Idle, Holding, Tidying, LockedTidying
<1> QED BY <1>1, <1>2 DEF Rests, SameFlags

\* group_add() returns or fails with the tables as they are.
LEMMA AddEndsOwns ==
  ASSUME Typed, Owned, NEW t \in Tasks, task[t].sub = None, task[t].todo = {}, task[t].pc \notin Making,
         UNCHANGED <<mailboxes, recorded, generation, subs, going>>, Become(t, Idle), StoreBoxes(box)
  PROVE  Owned'
<1>1. box \in [BoxIds -> Boxes] /\ \A b \in BoxIds : SameFlags(box[b], box[b])
  BY DEF Typed, TypeOK, SameFlags
<1> QED BY <1>1, IdleRests, WaitersRest

\* While a call holds the lock no other is making anything.
LEMMA HolderAlone ==
  ASSUME Owned, NEW t \in Tasks, task[t].pc \in Holding
  PROVE  \A u \in Tasks : u # t => task[u].pc \notin Holding /\ task[u].pc \notin Making
  BY DEF Owned, Exclusive, Making, Holding, LockedTidying

\* The except branch of _mailbox(): the mailbox leaves the table before its waiters go.
LEMMA MailboxFailsOwns ==
  ASSUME Typed, Owned, NEW t \in Tasks, task[t].pc \in Making, task[t].pc # "conf", task[t].todo = {},
         MailboxFails(t)
  PROVE  Owned'
<1> DEFINE nb == GivenUp(t)
<1>1. /\ task[t].bx \in BoxIds /\ task[t].sub = None /\ task[t].pc \in Holding
      /\ box[task[t].bx].sub = None
  BY CallFields DEF Typed, Owned, CallsOwn, CallOK, HandleOK, MakerOK, Making, Holding, LockedTidying
<1>2. nb \in [BoxIds -> Boxes]
  BY GivenUpTyped DEF Typed
<1>3. /\ \A b \in BoxIds : b # task[t].bx => SameFlags(nb[b], box[b])
      /\ \A b \in BoxIds : box[b].ready => nb[b].ready
  <2>1. \A b \in BoxIds : box[b] \in Boxes
    BY DEF Typed, TypeOK
  <2> QED BY <1>1, <2>1 DEF GivenUp, SameFlags, Boxes, Typed, TypeOK
<1>4. Rests(t, nb)
  BY <1>2, EndsRests DEF MailboxFails, Typed
<1>5. \A c \in Channels :
         /\ mailboxes'[c] # task[t].bx
         /\ \/ mailboxes'[c] = mailboxes[c]
            \/ mailboxes'[c] = None /\ box[mailboxes[c]].sub = None
         /\ mailboxes'[c] # None => mailboxes'[c] \in BoxIds
  <2>1. task[t].bx # None
    BY <1>1, IdsAreNumbers, NoneIsFresh
  <2>2. mailboxes' = Removed(t)
    BY DEF MailboxFails
  <2> QED BY <1>1, <2>1, <2>2 DEF Removed, Typed, TypeOK
<1>6. UNCHANGED <<recorded, generation, subs, going>>
  BY DEF MailboxFails, server
<1> HIDE DEF nb
<1> QED BY <1>1, <1>2, <1>3, <1>4, <1>5, <1>6, HolderAlone, RestsOwns

\* group_add() takes the lock, or finds its subscription there.
LEMMA GroupLockRunOwns ==
  ASSUME Typed, Owned, NEW t \in Tasks, GroupLockRun(t)
  PROVE  Owned'
<1>1. task[t].pc \notin Holding \cup Tidying
  BY DEF GroupLockRun, Holding, Tidying, LockedTidying
<1>2. LockFree /\ StoreBoxes(box) /\ UNCHANGED <<mailboxes, recorded, generation, subs, going>>
  BY DEF GroupLockRun, Store, tables, server
<1>3. CASE AddReturns(t)
  BY <1>1, <1>2, <1>3, AtRest, AddEndsOwns DEF AddReturns
<1>4. CASE /\ recorded[Feeds(task[t].grp, task[t].ch)] = None
           /\ Become(t, [task[t] EXCEPT !.pc = "gsub"])
  <2> DEFINE me == [task[t] EXCEPT !.pc = "gsub"]
  <2>1. /\ me.pc = "gsub" /\ me.sub = task[t].sub /\ me.todo = task[t].todo
        /\ me.gen = task[t].gen /\ me.rd = task[t].rd /\ me.ch = task[t].ch /\ me.grp = task[t].grp
    BY CallFields DEF Typed, Calls
  <2> HIDE DEF me
  <2>2. task'[t] = me
    BY <1>4 DEF Become, Typed, TypeOK, me
  <2>3. \A u \in Tasks : u # t => Stays(u, {}) /\ task'[u] = task[u]
    <3>1. \A u \in Tasks : task[u].bx # None => SameFlags(box[task[u].bx], box[task[u].bx])
      BY DEF SameFlags
    <3> QED BY <1>2, <1>4, <3>1, OthersStay
  <2>4. Leaving' = Leaving
    <3>1. \A u \in Tasks : task'[u].todo = task[u].todo
      BY <2>1, <2>2, <2>3
    <3> QED BY <1>2, <3>1 DEF Leaving
  <2>5. TablesStand
    <3>1. \A c \in Channels : mailboxes'[c] # None => box'[mailboxes'[c]] = box[mailboxes'[c]]
      BY <1>2, Stored
    <3> QED BY <1>2, <2>4, <3>1 DEF TablesStand, SameFlags
  <2>6. MovesOn(t, {})
    <3>1. task[t].sub = None /\ task[t].todo = {} /\ task[t].pc \notin Making
      BY <1>1, AtRest
    <3>2. task[t].gen <= generation /\ (task[t].rd # None => box[task[t].rd].ready)
      BY DEF Owned, CallsOwn, CallOK, HandleOK, ReaderOK
    <3>3. task'[t].rd # None => box'[task'[t].rd] = box[task'[t].rd]
      BY <1>2, Stored
    <3> QED BY <1>2, <1>4, <2>1, <2>2, <3>1, <3>2, <3>3 DEF MovesOn, Making
  <2> QED BY <2>3, <2>5, <2>6, CalmOwns DEF Calm
<1> QED BY <1>3, <1>4 DEF GroupLockRun

\* The next command of a clean-up is given.
LEMMA CommandOwns ==
  ASSUME Typed, Owned, NEW t \in Tasks, task[t].pc \in Tidying, task[t].todo # {},
         UNCHANGED <<mailboxes, recorded, generation, subs>>,
         Tidy(t, task[t].todo, task[t].pc, task[t]), Store(box)
  PROVE  Owned'
<1> DEFINE first == CHOOSE s \in task[t].todo : TRUE
           me == [task[t] EXCEPT !.pc = task[t].pc, !.todo = task[t].todo \ {first}]
<1>1. Become(t, me) /\ going' = going \cup {first} /\ first \in task[t].todo /\ StoreBoxes(box)
  BY DEF Tidy, Store
<1>2. /\ me.pc = task[t].pc /\ me.sub = task[t].sub /\ me.todo = task[t].todo \ {first}
      /\ me.gen = task[t].gen /\ me.rd = task[t].rd /\ me.ch = task[t].ch /\ me.grp = task[t].grp
      /\ me.bx = task[t].bx
  BY CallFields DEF Typed, Calls
<1> HIDE DEF me, first
<1>3. task'[t] = me
  BY <1>1 DEF Become, Typed, TypeOK
<1>4. \A u \in Tasks : u # t => Stays(u, {}) /\ task'[u] = task[u]
  <2>1. \A u \in Tasks : task[u].bx # None => SameFlags(box[task[u].bx], box[task[u].bx])
    BY DEF SameFlags
  <2> QED BY <1>1, <2>1, OthersStay
<1>5. Leaving' = Leaving
  <2>1. (UNION {task'[u].todo : u \in Tasks}) \cup {first} = (UNION {task[u].todo : u \in Tasks}) \cup {first}
    BY <1>1, <1>2, <1>3, <1>4
  <2>2. first \in UNION {task[u].todo : u \in Tasks}
    BY <1>1
  <2> QED BY <1>1, <2>1, <2>2 DEF Leaving
<1>6. TablesStand
  <2>1. \A c \in Channels : mailboxes'[c] # None => box'[mailboxes'[c]] = box[mailboxes'[c]]
    BY <1>1, Stored
  <2> QED BY <1>5, <2>1 DEF TablesStand, SameFlags
<1>7. Stays(t, {})
  <2>1. /\ task[t].bx # None => box'[task[t].bx] = box[task[t].bx]
        /\ task[t].rd # None => box'[task[t].rd] = box[task[t].rd]
    BY <1>1, <1>2, <1>3, Stored
  <2> QED BY <1>2, <1>3, <2>1 DEF Stays, SameFlags
<1> QED BY <1>4, <1>6, <1>7, CalmOwns DEF Calm

\* A flush() that went through took the mailbox out of the table: giving it up lets its
\* waiters go and this call looks for another.
LEMMA RetryOwns ==
  ASSUME Typed, Owned, NEW t \in Tasks, task[t].pc \in {"tidyRetryBox", "tidyRetry"}, task[t].todo = {},
         UNCHANGED <<mailboxes, recorded, generation, subs, going>>, LookUp(t, task[t], GivenUp(t))
  PROVE  Owned'
<1> DEFINE nb == GivenUp(t)
<1>1. /\ task[t] \in Calls /\ task[t].bx \in BoxIds /\ task[t].ch # None /\ task[t].sub = None
      /\ task[t].op = "add" => task[t].grp # None
      /\ task[t].pc \in Holding /\ task[t].ch \in Channels
  BY CallFields DEF Typed, Shaped, Owned, CallsOwn, CallOK, HandleOK, MakerOK, AdderOK, Making, Holding, LockedTidying
<1>2. nb \in [BoxIds -> Boxes]
  BY GivenUpTyped DEF Typed
<1>3. /\ \A b \in BoxIds : b # task[t].bx => SameFlags(nb[b], box[b])
      /\ \A b \in BoxIds : box[b].ready => nb[b].ready /\ SameFlags(nb[b], box[b])
  <2>1. \A b \in BoxIds : box[b] \in Boxes
    BY DEF Typed, TypeOK
  <2> QED BY <1>1, <2>1 DEF GivenUp, SameFlags, Boxes, Typed, TypeOK
<1>4. Rests(t, nb)
  BY <1>1, <1>2, LookUpRests
<1>5. \A c \in Channels : mailboxes[c] # None => mailboxes[c] \in BoxIds /\ SameFlags(nb[mailboxes[c]], box[mailboxes[c]])
  <2>1. CASE task[t].pc = "tidyRetryBox"
    <3>1. \A c \in Channels : mailboxes[c] # task[t].bx
      BY <1>1, <2>1, IdsAreNumbers, NoneIsFresh DEF Owned, CallsOwn, CallOK, MakerOK, Making
    <3> QED BY <1>3, <3>1 DEF Typed, TypeOK
  <2>2. CASE task[t].pc = "tidyRetry"
    <3>1. box[task[t].bx].ready
      BY <2>2 DEF Owned, CallsOwn, CallOK, AdderOK
    <3> QED BY <1>3, <3>1 DEF Typed, TypeOK
  <2> QED BY <2>1, <2>2
<1>6. task[t].pc \in Making => \A c \in Channels : mailboxes[c] # task[t].bx
  BY <1>1, IdsAreNumbers, NoneIsFresh DEF Owned, CallsOwn, CallOK, MakerOK, Making
<1> HIDE DEF nb
<1> QED BY <1>1, <1>2, <1>3, <1>4, <1>5, <1>6, HolderAlone, RestsOwns

\* Every step of a clean-up.
LEMMA TidyDoneOwns ==
  ASSUME Typed, Owned, NEW t \in Tasks, TidyDone(t)
  PROVE  Owned'
<1>1. /\ task[t].sub = None
      /\ task[t].pc # "tidyRetryBox" /\ task[t].pc # "tidyAbort" => task[t].pc \notin Making
  BY DEF TidyDone, Tidying, LockedTidying, Owned, CallsOwn, CallOK, HandleOK, Making
<1>2. CASE /\ task[t].todo # {}
           /\ UNCHANGED <<tables, subs, history>>
           /\ Tidy(t, task[t].todo, task[t].pc, task[t])
           /\ Store(box)
  BY <1>2, CommandOwns DEF TidyDone, tables
<1>3. CASE task[t].todo = {} /\ task[t].pc = "tidyAbort" /\ MailboxFails(t)
  BY <1>3, MailboxFailsOwns DEF Making
<1>4. CASE task[t].todo = {} /\ task[t].pc = "tidyAddFail" /\ AddFails(t)
  BY <1>1, <1>4, AddEndsOwns DEF AddFails, server
<1>5. CASE /\ task[t].todo = {} /\ task[t].pc = "tidyAdd"
           /\ UNCHANGED <<tables, server>> /\ AddReturns(t) /\ Store(box)
  BY <1>1, <1>5, AddEndsOwns DEF AddReturns, server, tables, Store
<1>6. CASE /\ task[t].todo = {} /\ task[t].pc \in {"tidyEnd", "tidyFail"}
           /\ UNCHANGED <<tables, server, history>>
           /\ Ends(t, box, FALSE)
  <2>1. box \in [BoxIds -> Boxes] /\ \A b \in BoxIds : SameFlags(box[b], box[b])
    BY DEF Typed, TypeOK, SameFlags
  <2>2. Rests(t, box)
    BY <1>6, <2>1, EndsRests DEF Typed
  <2> QED BY <1>1, <1>6, <2>1, <2>2, WaitersRest DEF server, tables
<1>7. CASE /\ task[t].todo = {} /\ task[t].pc \in {"tidyRetryBox", "tidyRetry"}
           /\ UNCHANGED <<mailboxes, recorded, generation, server, joined>>
           /\ LookUp(t, task[t], GivenUp(t))
  BY <1>7, RetryOwns DEF server
<1> QED BY <1>2, <1>3, <1>4, <1>5, <1>6, <1>7 DEF TidyDone

\* One that is cancelled when nothing is left to give.
LEMMA TidyCancelledOwns ==
  ASSUME Typed, Owned, "cancelTidy" \notin Env, NEW t \in Tasks, TidyCancelled(t)
  PROVE  Owned'
<1>1. task[t].todo = {}
  BY DEF TidyCancelled
<1>2. CASE task[t].pc \in {"tidyAbort", "tidyRetryBox"} /\ MailboxFails(t)
  BY <1>1, <1>2, MailboxFailsOwns DEF Making
<1>3. CASE task[t].pc \in {"tidyAdd", "tidyAddFail"} /\ AddFails(t)
  BY <1>1, <1>3, AddEndsOwns DEF AddFails, server, Owned, CallsOwn, CallOK, HandleOK, Making
<1>4. CASE /\ task[t].pc \in {"tidyEnd", "tidyFail", "tidyRetry"}
           /\ UNCHANGED <<tables, server, history>>
           /\ Ends(t, box, TRUE)
  <2>1. box \in [BoxIds -> Boxes] /\ \A b \in BoxIds : SameFlags(box[b], box[b])
    BY DEF Typed, TypeOK, SameFlags
  <2>2. Rests(t, box)
    BY <1>4, <2>1, EndsRests DEF Typed
  <2>3. task[t].sub = None /\ task[t].pc \notin Making
    BY <1>4 DEF Owned, CallsOwn, CallOK, HandleOK, Making
  <2> QED BY <1>1, <1>4, <2>1, <2>2, <2>3, WaitersRest DEF server, tables
<1> QED BY <1>2, <1>3, <1>4 DEF TidyCancelled

\* What happens outside the calls and changes no flag.
LEMMA QuietOwns ==
  ASSUME Typed, Owned, UNCHANGED <<mailboxes, recorded, generation, subs, going, task>>,
         NEW nb \in [BoxIds -> Boxes], \A b \in BoxIds : SameFlags(nb[b], box[b]), StoreBoxes(nb)
  PROVE  Owned'
<1>1. \A c \in Channels : mailboxes'[c] # None => mailboxes'[c] \in BoxIds /\ box'[mailboxes'[c]] = nb[mailboxes'[c]]
  BY Stored DEF Typed, TypeOK
<1>2. TablesStand
  BY <1>1 DEF TablesStand, Leaving
<1>3. ASSUME NEW t \in Tasks PROVE Stays(t, {})
  <2>1. task[t].bx \in BoxIds \cup {None} /\ task[t].rd \in BoxIds \cup {None}
    BY CallFields DEF Typed
  <2>2. /\ task[t].bx # None => box'[task[t].bx] = nb[task[t].bx]
        /\ task[t].rd # None => box'[task[t].rd] = nb[task[t].rd]
    BY Stored
  <2> QED BY <2>1, <2>2 DEF Stays, SameFlags
<1> QED BY <1>2, <1>3, CalmOwns DEF Calm

\* Messages come in, and mailbox_grace passes.
LEMMA ArrivesOwns ==
  ASSUME Typed, Owned, \/ \E s \in SubIds : Deliver(s)
                       \/ \E c \in ProcessChannels : GraceElapses(c)
  PROVE  Owned'
<1>1. \A b \in BoxIds : box[b] \in Boxes
  BY DEF Typed, TypeOK
<1>2. ASSUME NEW s \in SubIds, Deliver(s) PROVE Owned'
  <2>1. PICK bs : StoreBoxes(Arrives(bs))
    BY <1>2 DEF Deliver, Store
  <2>2. Arrives(bs) \in [BoxIds -> Boxes]
    BY ArrivesTyped DEF Typed
  <2>3. \A b \in BoxIds : SameFlags(Arrives(bs)[b], box[b])
    BY <1>1 DEF Arrives, SameFlags, Boxes
  <2> QED BY <1>2, <2>1, <2>2, <2>3, QuietOwns DEF Deliver, tables, server
<1>3. ASSUME NEW c \in ProcessChannels, GraceElapses(c) PROVE Owned'
  <2> DEFINE nb == [box EXCEPT ![mailboxes[c]].aged = TRUE]
  <2>1. nb \in [BoxIds -> Boxes]
    BY BoxSetTyped DEF Typed, TypeOK
  <2>2. \A b \in BoxIds : SameFlags(nb[b], box[b])
    BY <1>1 DEF SameFlags, Boxes, Typed, TypeOK
  <2>3. StoreBoxes(nb)
    BY <1>3 DEF GraceElapses, Store
  <2> HIDE DEF nb
  <2> QED BY <1>3, <2>1, <2>2, <2>3, QuietOwns DEF GraceElapses, tables, server
<1> QED BY <1>2, <1>3

-----------------------------------------------------------------------------
(* The calls that take subscriptions down. *)

\* What a clean-up does to the task that starts it, and to what is on its way down.
LEMMA TidyIs ==
  ASSUME Typed, NEW t \in Tasks, task[t].todo = {}, NEW me \in Calls, me.todo = {},
         NEW ss \in SUBSET SubIds, NEW pc, Tidy(t, ss, pc, me)
  PROVE  /\ task'[t].pc = pc /\ task'[t].sub = me.sub /\ task'[t].ch = me.ch /\ task'[t].grp = me.grp
         /\ task'[t].bx = me.bx /\ task'[t].gen = me.gen /\ task'[t].rd = me.rd
         /\ Become(t, task'[t])
         /\ Leaving' = Leaving \cup ss
<1>1. PICK td \in SUBSET SubIds : /\ Become(t, [me EXCEPT !.pc = pc, !.todo = td])
                                  /\ going' \cup td = going \cup ss
  <2>1. CASE ss = {}
    <3>1. [me EXCEPT !.pc = pc] = [me EXCEPT !.pc = pc, !.todo = {}]
      BY DEF Calls
    <3> QED BY <2>1, <3>1 DEF Tidy
  <2>2. CASE ss # {}
    <3> DEFINE first == CHOOSE s \in ss : TRUE
    <3>1. first \in ss
      BY <2>2
    <3>2. /\ Become(t, [me EXCEPT !.pc = pc, !.todo = ss \ {first}])
          /\ going' = going \cup {first}
      BY <2>2 DEF Tidy
    <3> HIDE DEF first
    <3> DEFINE td == ss \ {first}
    <3>3. td \in SUBSET SubIds /\ going' \cup td = going \cup ss
      BY <3>1, <3>2
    <3>4. Become(t, [me EXCEPT !.pc = pc, !.todo = td])
      BY <3>2
    <3> HIDE DEF td
    <3> QED BY <3>3, <3>4
  <2> QED BY <2>1, <2>2
<1> DEFINE r == [me EXCEPT !.pc = pc, !.todo = td]
<1>2. /\ r.pc = pc /\ r.sub = me.sub /\ r.ch = me.ch /\ r.grp = me.grp
      /\ r.bx = me.bx /\ r.gen = me.gen /\ r.rd = me.rd /\ r.todo = td
  BY DEF Calls
<1> HIDE DEF r
<1>3. task'[t] = r /\ \A u \in Tasks : u # t => task'[u] = task[u]
  BY <1>1 DEF Become, Typed, TypeOK, r
<1>4. Leaving' = Leaving \cup ss
  <2>1. UNION {task'[u].todo : u \in Tasks} = (UNION {task[u].todo : u \in Tasks}) \cup td
    BY <1>2, <1>3
  <2> QED BY <1>1, <2>1 DEF Leaving
<1> QED BY <1>1, <1>2, <1>3, <1>4 DEF r

\* The subscription in the hands of a call is recorded nowhere, and is in no mailbox but the
\* one it makes.
LEMMA HandsOwn ==
  ASSUME Typed, Owned, NEW t \in Tasks, task[t].sub # None
  PROVE  /\ task[t].pc \in {"conf", "gconf"} /\ task[t].sub \in SubIds
         /\ \A k \in Keys : recorded[k] # task[t].sub
         /\ \A c \in Channels : mailboxes[c] # None /\ box[mailboxes[c]].sub = task[t].sub =>
               task[t].pc = "conf" /\ task[t].ch \in PlainChannels /\ mailboxes[c] = task[t].bx
<1> DEFINE s == task[t].sub
<1>1. task[t].pc \in {"conf", "gconf"} /\ s \in SubIds /\ task[t].ch \in Channels
  BY CallFields DEF Typed, Owned, CallsOwn, CallOK, HandleOK, Shaped
<1>2. /\ \A k \in Keys : recorded[k] = s => subs[s].subject = k
      /\ \A c \in Channels : mailboxes[c] # None /\ box[mailboxes[c]].sub = s => subs[s].subject = Chan(c)
  BY <1>1, SubIdsAreSome DEF Owned, RecordedOK, TableOK, SlotOK
<1>3. CASE task[t].pc = "conf"
  <2>1. subs[s] \in {BoxSub(t), NoSub} /\ mailboxes[task[t].ch] \in {None, task[t].bx}
        /\ (task[t].ch \in ProcessChannels => recorded[Proc] = None)
    BY <1>3 DEF Owned, CallsOwn, CallOK, MadeOK, MakerOK, Making
  <2>2. subs[s].subject \in {None, IF task[t].ch \in ProcessChannels THEN Proc ELSE Chan(task[t].ch)}
    BY <2>1 DEF BoxSub, NoSub
  <2>3. \A k \in Keys : recorded[k] # s
    BY <1>1, <1>2, <2>1, <2>2, SubjectsDiffer, SubIdsAreSome
  <2>4. ASSUME NEW c \in Channels, mailboxes[c] # None, box[mailboxes[c]].sub = s
        PROVE  task[t].ch \in PlainChannels /\ mailboxes[c] = task[t].bx
    <3>1. Chan(c) # Proc
      BY SubjectsDiffer
    <3>2. c \in PlainChannels
      BY <1>1, <2>4, SubIdsAreSome DEF Owned, TableOK, SlotOK, Channels
    <3>3. c = task[t].ch /\ task[t].ch \in PlainChannels
      BY <1>1, <1>2, <2>2, <2>4, <3>1, <3>2, SubjectsDiffer DEF Channels
    <3> QED BY <2>1, <2>4, <3>3
  <2> QED BY <1>1, <1>3, <2>3, <2>4
<1>4. CASE task[t].pc = "gconf"
  <2> DEFINE k == Feeds(task[t].grp, task[t].ch)
  <2>1. k \in Keys
    BY <1>4, CallFields, FeedsIsKey DEF Typed, Shaped
  <2>2. recorded[k] = None
    BY <1>4 DEF Owned, CallsOwn, CallOK, AdderOK
  <2>3. subs[s] = GroupSub(t)
    BY <1>4 DEF Owned, CallsOwn, CallOK, MadeOK
  <2>4. subs[s].subject = k
    BY <2>3 DEF GroupSub
  <2> HIDE DEF k
  <2> QED BY <1>1, <1>2, <1>4, <2>1, <2>2, <2>4, SubjectsDiffer, SubIdsAreSome
<1> QED BY <1>1, <1>3, <1>4

\* A call that gives up the subscription in its hands, and moves on.
LEMMA HandsLetGo ==
  ASSUME Typed, Owned, NEW t \in Tasks, task[t].sub # None,
         UNCHANGED <<recorded, generation, subs>>,
         NEW pc, Tidy(t, {task[t].sub}, pc, [task[t] EXCEPT !.sub = None]),
         NEW nb, StoreBoxes(nb), \A b \in BoxIds : box[b].ready => nb[b].ready,
         \A c \in Channels :
            \/ mailboxes'[c] = mailboxes[c] /\ mailboxes[c] # task[t].bx
            \/ task[t].pc = "conf" /\ mailboxes[c] = task[t].bx /\ mailboxes'[c] = None
            \/ task[t].pc = "gconf" /\ mailboxes'[c] = mailboxes[c],
         \A c \in Channels : mailboxes'[c] # None => SameFlags(nb[mailboxes'[c]], box[mailboxes'[c]]),
         \/ pc \in {"tidyFail", "tidyAdd", "tidyAddFail"}
         \/ pc = "tidyRetry" /\ task[t].pc = "conf" /\ nb[task[t].bx].ready,
         task[t].pc = "conf" => task[t].ch \in PlainChannels
  PROVE  Owned'
<1> DEFINE ss == {task[t].sub}
           me == [task[t] EXCEPT !.sub = None]
<1>1. /\ task[t].pc \in {"conf", "gconf"} /\ ss \in SUBSET SubIds /\ None \notin ss
      /\ \A k \in Keys : recorded[k] \notin ss
      /\ task[t].pc \in Holding
  BY HandsOwn DEF Holding
<1>2. /\ me \in Calls /\ task[t].todo = {} /\ me.todo = {} /\ me.sub = None
      /\ me.ch = task[t].ch /\ me.grp = task[t].grp /\ me.bx = task[t].bx
      /\ me.gen = task[t].gen /\ me.rd = task[t].rd
  BY <1>1, CallFields DEF Typed, Calls, Owned, CallsOwn, CallOK, HandleOK, Tidying, LockedTidying
<1> HIDE DEF me
<1>3. /\ task'[t].pc = pc /\ task'[t].sub = me.sub /\ task'[t].ch = me.ch /\ task'[t].grp = me.grp
      /\ task'[t].bx = me.bx /\ task'[t].gen = me.gen /\ task'[t].rd = me.rd
      /\ Become(t, task'[t])
      /\ Leaving' = Leaving \cup ss
  BY <1>1, <1>2, TidyIs DEF me
<1>4. \A u \in Tasks : u # t => Stays(u, ss) /\ task'[u] = task[u]
  <2>1. \A u \in Tasks : u # t => task[u].pc \notin Making /\ task[u].sub = None
    BY <1>1, HolderAlone DEF Owned, CallsOwn, CallOK, HandleOK, Holding
  <2> QED BY <1>3, <2>1, OthersStay
<1>5. TablesLetGo(ss)
  <2>1. \A c \in Channels : mailboxes'[c] # None => mailboxes'[c] \in BoxIds /\ box'[mailboxes'[c]] = nb[mailboxes'[c]]
    BY Stored DEF Typed, TypeOK
  <2>2. \A c \in Channels :
          \/ mailboxes'[c] = mailboxes[c] /\ (mailboxes[c] # None => box[mailboxes[c]].sub \notin ss)
          \/ mailboxes'[c] = None /\ box[mailboxes[c]].sub \in ss \cup {None}
    <3> SUFFICES ASSUME NEW c \in Channels
                 PROVE  \/ mailboxes'[c] = mailboxes[c] /\ (mailboxes[c] # None => box[mailboxes[c]].sub \notin ss)
                        \/ mailboxes'[c] = None /\ box[mailboxes[c]].sub \in ss \cup {None}
      OBVIOUS
    <3>1. mailboxes[c] # None /\ box[mailboxes[c]].sub = task[t].sub =>
               task[t].pc = "conf" /\ mailboxes[c] = task[t].bx
      BY HandsOwn
    <3>2. task[t].pc = "conf" => box[task[t].bx].sub = task[t].sub
      BY DEF Owned, CallsOwn, CallOK, MakerOK, Making
    <3> QED BY <3>1, <3>2
  <2>3. generation <= generation
    BY DEF Typed, TypeOK
  <2> QED BY <1>1, <1>3, <2>1, <2>2, <2>3 DEF TablesLetGo
<1>6. MovesOn(t, ss)
  <2>1. /\ task'[t].bx # None => box'[task'[t].bx] = nb[task'[t].bx]
        /\ task'[t].rd # None => box'[task'[t].rd] = nb[task'[t].rd] /\ task[t].rd \in BoxIds
    BY <1>2, <1>3, Stored, CallFields DEF Typed
  <2>2. /\ task[t].gen <= generation
        /\ task[t].rd # None => box[task[t].rd].ready
        /\ task[t].pc = "conf" => task[t].bx # None
    BY DEF Owned, CallsOwn, CallOK, HandleOK, ReaderOK, MakerOK, Making
  <2>3. pc \in Tidying /\ pc \notin Making /\ pc \notin {"conf", "gconf", "gsub"}
    BY DEF Tidying, LockedTidying, Making
  <2>4. task[t].pc \in Making => \A c \in Channels : mailboxes'[c] # task[t].bx
    BY <1>1, <2>2 DEF Making
  <2>5. pc = "tidyRetry" => task'[t].bx # None /\ box'[task'[t].bx].ready
    BY <1>2, <1>3, <2>1, <2>2
  <2>6. task'[t].rd # None => box'[task'[t].rd].ready
    BY <1>2, <1>3, <2>1, <2>2
  <2> QED BY <1>1, <1>2, <1>3, <2>2, <2>3, <2>4, <2>5, <2>6 DEF MovesOn
<1> QED BY <1>1, <1>4, <1>5, <1>6, LetsGoOwns DEF LetsGo

\* A call that gives the process subscription back and keeps its mailbox for the moment.
LEMMA ProcessGivesBack ==
  ASSUME Typed, Owned, NEW t \in Tasks, task[t].pc = "conf", task[t].ch \in ProcessChannels,
         UNCHANGED <<mailboxes, recorded, generation, subs>>, StoreBoxes(box),
         NEW pc, pc = "tidyAbort" \/ (pc = "tidyRetryBox" /\ task[t].gen # generation),
         Tidy(t, {task[t].sub}, pc, [task[t] EXCEPT !.sub = None])
  PROVE  Owned'
<1> DEFINE ss == {task[t].sub}
           me == [task[t] EXCEPT !.sub = None]
<1>1. task[t].sub # None /\ task[t].ch \notin PlainChannels
  BY CallFields, KindsOfChannel DEF Typed, Shaped
<1>2. /\ ss \in SUBSET SubIds /\ None \notin ss
      /\ \A k \in Keys : recorded[k] \notin ss
      /\ task[t].pc \in Holding
  BY <1>1, HandsOwn DEF Holding
<1>3. /\ me \in Calls /\ task[t].todo = {} /\ me.todo = {} /\ me.sub = None
      /\ me.ch = task[t].ch /\ me.grp = task[t].grp /\ me.bx = task[t].bx
      /\ me.gen = task[t].gen /\ me.rd = task[t].rd
  BY CallFields DEF Typed, Calls, Owned, CallsOwn, CallOK, HandleOK, Tidying, LockedTidying
<1> HIDE DEF me
<1>4. /\ task'[t].pc = pc /\ task'[t].sub = me.sub /\ task'[t].ch = me.ch /\ task'[t].grp = me.grp
      /\ task'[t].bx = me.bx /\ task'[t].gen = me.gen /\ task'[t].rd = me.rd
      /\ Become(t, task'[t])
      /\ Leaving' = Leaving \cup ss
  BY <1>2, <1>3, TidyIs DEF me
<1>5. \A u \in Tasks : u # t => Stays(u, ss)
  <2>1. \A u \in Tasks : u # t => task[u].pc \notin Making /\ task[u].sub = None
    BY <1>2, HolderAlone DEF Owned, CallsOwn, CallOK, HandleOK, Holding
  <2> QED BY <1>4, <2>1, OthersStay
<1>6. TablesLetGo(ss)
  <2>1. \A c \in Channels : mailboxes'[c] # None => mailboxes'[c] \in BoxIds /\ box'[mailboxes'[c]] = box[mailboxes'[c]]
    BY Stored DEF Typed, TypeOK
  <2>2. \A c \in Channels : mailboxes[c] # None => box[mailboxes[c]].sub \notin ss
    BY <1>1, HandsOwn
  <2>3. generation <= generation
    BY DEF Typed, TypeOK
  <2> QED BY <1>2, <1>4, <2>1, <2>2, <2>3 DEF TablesLetGo, SameFlags
<1>7. Stays(t, ss)
  <2>1. GivesBack(t, ss)
    BY <1>3, <1>4 DEF GivesBack
  <2>2. /\ task[t].bx # None => box'[task[t].bx] = box[task[t].bx]
        /\ task[t].rd # None => box'[task[t].rd] = box[task[t].rd]
    BY <1>3, <1>4, Stored
  <2> QED BY <1>1, <1>3, <1>4, <2>1, <2>2 DEF Stays, SameFlags
<1> QED BY <1>2, <1>5, <1>6, <1>7, LetsGoOwns DEF LetsGo

\* Giving a mailbox up makes it ready and changes no other.
LEMMA GivenUpFlags ==
  ASSUME Typed, NEW t \in Tasks, task[t].bx \in BoxIds
  PROVE  /\ GivenUp(t)[task[t].bx].ready
         /\ \A b \in BoxIds : /\ box[b].ready => GivenUp(t)[b].ready
                              /\ b # task[t].bx => SameFlags(GivenUp(t)[b], box[b])
<1>1. \A b \in BoxIds : box[b] \in Boxes
  BY DEF Typed, TypeOK
<1> QED BY <1>1 DEF GivenUp, SameFlags, Boxes, Typed, TypeOK

\* Cancelled between the subscribe and its confirmation.
LEMMA ConfAbortedOwns ==
  ASSUME Typed, Owned, NEW t \in Tasks, ConfAborted(t)
  PROVE  Owned'
<1>1. /\ task[t].pc = "conf" /\ task[t].sub # None /\ task[t].bx \in BoxIds
      /\ task[t].ch \in Channels
  BY CallFields DEF Typed, Shaped, ConfAborted
<1>2. UNCHANGED <<recorded, generation, subs>>
  BY DEF ConfAborted
<1>3. CASE task[t].ch \in PlainChannels
  <2>1. /\ mailboxes' = Removed(t)
        /\ Tidy(t, {task[t].sub}, "tidyFail", [task[t] EXCEPT !.sub = None])
        /\ StoreBoxes(GivenUp(t))
    BY <1>3 DEF ConfAborted, Store
  <2>2. \A c \in Channels :
            \/ mailboxes'[c] = mailboxes[c] /\ mailboxes[c] # task[t].bx
            \/ task[t].pc = "conf" /\ mailboxes[c] = task[t].bx /\ mailboxes'[c] = None
    BY <1>1, <2>1 DEF Removed
  <2>3. \A c \in Channels : mailboxes'[c] # None => SameFlags(GivenUp(t)[mailboxes'[c]], box[mailboxes'[c]])
    BY <1>1, <2>2, GivenUpFlags DEF Typed, TypeOK
  <2>4. \A b \in BoxIds : box[b].ready => GivenUp(t)[b].ready
    BY <1>1, GivenUpFlags
  <2> QED BY <1>1, <1>2, <1>3, <2>1, <2>2, <2>3, <2>4, HandsLetGo
<1>4. CASE task[t].ch \in ProcessChannels
  <2>1. task[t].ch \notin PlainChannels
    BY <1>4, KindsOfChannel
  <2> QED BY <1>1, <1>2, <1>4, <2>1, ProcessGivesBack DEF ConfAborted, Store
<1> QED BY <1>1, <1>3, <1>4 DEF Channels

\* The mailbox is confirmed after a flush(): what was made goes down again.
LEMMA LateConfirmOwns ==
  ASSUME Typed, Owned, NEW t \in Tasks, task[t].pc = "conf", ~Unflushed(t),
         UNCHANGED <<mailboxes, recorded, generation, subs>>,
         Tidy(t, {task[t].sub}, IF task[t].ch \in PlainChannels THEN "tidyRetry" ELSE "tidyRetryBox",
              [task[t] EXCEPT !.sub = None]),
         StoreBoxes(IF task[t].ch \in PlainChannels THEN GivenUp(t) ELSE box)
  PROVE  Owned'
<1>1. /\ task[t].sub # None /\ task[t].bx \in BoxIds /\ task[t].ch \in Channels
      /\ task[t].gen # generation
  BY CallFields DEF Typed, Shaped, Unflushed
<1>2. CASE task[t].ch \in PlainChannels
  <2>1. \A c \in Channels : mailboxes[c] # task[t].bx
    BY <1>1, IdsAreNumbers, NoneIsFresh DEF Owned, CallsOwn, CallOK, MakerOK, Making
  <2>2. /\ Tidy(t, {task[t].sub}, "tidyRetry", [task[t] EXCEPT !.sub = None])
        /\ StoreBoxes(GivenUp(t))
    BY <1>2
  <2>3. /\ \A c \in Channels : mailboxes[c] # None => SameFlags(GivenUp(t)[mailboxes[c]], box[mailboxes[c]])
        /\ GivenUp(t)[task[t].bx].ready
        /\ \A b \in BoxIds : box[b].ready => GivenUp(t)[b].ready
    BY <1>1, <2>1, GivenUpFlags DEF Typed, TypeOK
  <2> QED BY <1>1, <1>2, <2>1, <2>2, <2>3, HandsLetGo
<1>3. CASE task[t].ch \in ProcessChannels
  <2>1. task[t].ch \notin PlainChannels
    BY <1>3, KindsOfChannel
  <2> QED BY <1>1, <1>3, <2>1, ProcessGivesBack
<1> QED BY <1>1, <1>2, <1>3 DEF Channels

\* A group that lost its members, and a group_add() that is cancelled, give up what was made.
LEMMA GroupGivesBack ==
  ASSUME Typed, Owned, NEW t \in Tasks, task[t].pc = "gconf",
         UNCHANGED <<mailboxes, recorded, generation, subs>>,
         NEW pc \in {"tidyAdd", "tidyAddFail"},
         Tidy(t, {task[t].sub}, pc, [task[t] EXCEPT !.sub = None]), StoreBoxes(box)
  PROVE  Owned'
<1>1. task[t].sub # None
  BY CallFields DEF Typed, Shaped
<1>2. \A c \in Channels : mailboxes'[c] # None => SameFlags(box[mailboxes'[c]], box[mailboxes'[c]])
  BY DEF SameFlags
<1> QED BY <1>1, <1>2, HandsLetGo

\* A call that only takes subscriptions down: nothing it leaves behind is among them.
LEMMA OnlyTidies ==
  ASSUME Typed, Owned, NEW t \in Tasks, task[t].pc \notin Holding \cup Tidying,
         NEW ss \in SUBSET SubIds, Tidy(t, ss, "tidyEnd", Idle), NEW nb, StoreBoxes(nb),
         subs' = subs, generation <= generation',
         generation' # generation => \A c \in Channels : mailboxes'[c] = None,
         \A k \in Keys : \/ recorded'[k] = recorded[k] /\ recorded[k] \notin ss
                         \/ recorded'[k] = None /\ recorded[k] \in ss \cup {None},
         recorded'[Proc] = recorded[Proc] \/ \A c \in ProcessChannels : mailboxes'[c] = None,
         \A c \in Channels :
            \/ mailboxes'[c] = mailboxes[c] /\ (mailboxes[c] # None => box[mailboxes[c]].sub \notin ss)
            \/ mailboxes'[c] = None /\ box[mailboxes[c]].sub \in ss \cup {None},
         \A u \in Tasks : task[u].sub # None /\ task[u].sub \in ss =>
             task[u].pc = "conf" /\ task[u].ch \in PlainChannels /\ generation' # generation,
         \A u \in Tasks : task[u].pc \in Making /\ task[u].ch \in PlainChannels =>
             mailboxes'[task[u].ch] = mailboxes[task[u].ch] \/ generation' # generation,
         \A b \in BoxIds : SameFlags(nb[b], box[b])
  PROVE  Owned'
<1>1. /\ Idle \in Calls /\ Idle.todo = {} /\ Idle.sub = None /\ Idle.gen = 0 /\ Idle.rd = None
      /\ task[t].todo = {} /\ task[t].sub = None /\ task[t].pc \notin Making
  BY IdleFields, AtRest DEF Idle
<1>2. /\ task'[t].pc = "tidyEnd" /\ task'[t].sub = None /\ task'[t].gen = 0 /\ task'[t].rd = None
      /\ Become(t, task'[t])
      /\ Leaving' = Leaving \cup ss
  BY <1>1, TidyIs
<1>3. \A u \in Tasks : u # t => Stays(u, ss)
  <2>1. \A u \in Tasks : task[u].bx \in BoxIds \cup {None}
    BY CallFields DEF Typed
  <2>2. \A b \in BoxIds : box[b].ready => nb[b].ready
    BY DEF SameFlags
  <2>3. \A u \in Tasks : u # t /\ task[u].pc \in Making =>
             /\ task[u].bx # None => SameFlags(nb[task[u].bx], box[task[u].bx])
             /\ task[u].ch \in PlainChannels =>
                   mailboxes'[task[u].ch] = mailboxes[task[u].ch] \/ generation' # generation
    BY <2>1
  <2> QED BY <1>2, <2>2, <2>3, OthersStay
<1>4. TablesLetGo(ss)
  <2>1. \A c \in Channels : mailboxes'[c] # None => mailboxes'[c] \in BoxIds /\ box'[mailboxes'[c]] = nb[mailboxes'[c]]
    BY Stored DEF Typed, TypeOK
  <2> QED BY <1>2, <2>1 DEF TablesLetGo, SameFlags
<1>5. MovesOn(t, ss)
  <2>1. 0 <= generation'
    BY DEF Typed, TypeOK
  <2> QED BY <1>1, <1>2, <2>1 DEF MovesOn, Making, Tidying, Holding, LockedTidying
<1> QED BY <1>3, <1>4, <1>5, LetsGoOwns DEF LetsGo

\* A cancelled read takes the last reader's mailbox of a plain channel down with it.
LEMMA ReadCancelledOwns ==
  ASSUME Typed, Owned, NEW t \in Tasks, ReadCancelled(t)
  PROVE  Owned'
<1> DEFINE r == task[t].rd
           ss == {box[b].sub : b \in {b \in {r} : Releases(t)}} \ {None}
           nb == Leave(box, r, TRUE)
<1>1. /\ task[t].pc \notin Holding \cup Tidying /\ r \in BoxIds /\ box[r].ready
      /\ box \in [BoxIds -> Boxes]
  BY CallFields DEF ReadCancelled, Shaped, Typed, TypeOK, Owned, CallsOwn, CallOK, ReaderOK,
                    Holding, Tidying, LockedTidying
<1>2. /\ UNCHANGED <<groups, recorded, generation, subs>>
      /\ mailboxes' = IF Releases(t) THEN [mailboxes EXCEPT ![task[t].ch] = None] ELSE mailboxes
      /\ Tidy(t, ss, "tidyEnd", Idle)
      /\ StoreBoxes(nb)
  BY DEF ReadCancelled, Store
<1>3. \A b \in BoxIds : SameFlags(nb[b], box[b])
  BY <1>1, LeaveFlags
<1>4. /\ ss \in SUBSET SubIds
      /\ \A s \in ss : Releases(t) /\ s = box[r].sub
  BY <1>1 DEF Boxes
<1>5. Releases(t) => task[t].ch \in PlainChannels /\ mailboxes[task[t].ch] = r
  BY DEF Releases
<1>6. \A s \in ss : subs[s].subject = Chan(task[t].ch) /\ task[t].ch \in PlainChannels
  <2>1. Releases(t) => SlotOK(task[t].ch)
    BY <1>5 DEF Owned, TableOK, Channels
  <2> QED BY <1>1, <1>4, <1>5, <2>1, SubIdsAreSome, IdsAreNumbers, NoneIsFresh DEF SlotOK
<1>7. \A k \in Keys : recorded[k] \notin ss
  BY <1>4, <1>6, SubjectsDiffer, SubIdsAreSome DEF Owned, RecordedOK
<1>8. \A c \in Channels :
         \/ mailboxes'[c] = mailboxes[c] /\ (mailboxes[c] # None => box[mailboxes[c]].sub \notin ss)
         \/ mailboxes'[c] = None /\ box[mailboxes[c]].sub \in ss \cup {None}
  <2> SUFFICES ASSUME NEW c \in Channels
               PROVE  \/ mailboxes'[c] = mailboxes[c] /\ (mailboxes[c] # None => box[mailboxes[c]].sub \notin ss)
                      \/ mailboxes'[c] = None /\ box[mailboxes[c]].sub \in ss \cup {None}
    OBVIOUS
  <2>1. CASE Releases(t) /\ c = task[t].ch
    BY <1>2, <1>5, <2>1 DEF Typed, TypeOK
  <2>2. CASE ~(Releases(t) /\ c = task[t].ch)
    <3>1. mailboxes'[c] = mailboxes[c]
      BY <1>2, <2>2 DEF Typed, TypeOK
    <3>2. SlotOK(c)
      BY DEF Owned, TableOK
    <3>3. mailboxes[c] # None => box[mailboxes[c]].sub \notin ss
      <4> HIDE DEF ss
      <4> QED BY <1>4, <1>6, <2>2, <3>2, SubjectsDiffer, SubIdsAreSome DEF SlotOK
    <3> QED BY <3>1, <3>3
  <2> QED BY <2>1, <2>2
<1>9. \A u \in Tasks : task[u].sub \in ss => task[u].sub = None
  <2> SUFFICES ASSUME NEW u \in Tasks, task[u].sub \in ss, task[u].sub # None PROVE FALSE
    OBVIOUS
  <2>1. Releases(t) /\ task[u].sub = box[r].sub
    BY <1>4
  <2>2. task[u].pc = "conf" /\ task[u].bx = r
    <3>1. r # None /\ task[t].ch \in Channels /\ mailboxes[task[t].ch] = r
      BY <1>1, <1>5, <2>1, IdsAreNumbers, NoneIsFresh DEF Channels
    <3>2. box[mailboxes[task[t].ch]].sub = task[u].sub
      BY <2>1, <3>1
    <3> HIDE DEF r, ss
    <3> QED BY <3>1, <3>2, HandsOwn
  <2>3. ~box[r].ready
    BY <2>2 DEF Owned, CallsOwn, CallOK, MakerOK, Making
  <2> QED BY <1>1, <2>3
<1>10. \A u \in Tasks : task[u].pc \in Making /\ task[u].ch \in PlainChannels =>
             mailboxes'[task[u].ch] = mailboxes[task[u].ch] \/ generation' # generation
  <2> SUFFICES ASSUME NEW u \in Tasks, task[u].pc \in Making, task[u].ch \in PlainChannels
               PROVE  mailboxes'[task[u].ch] = mailboxes[task[u].ch]
    OBVIOUS
  <2>1. /\ mailboxes[task[u].ch] \in {None, task[u].bx}
        /\ ~box[task[u].bx].ready
    BY DEF Owned, CallsOwn, CallOK, MakerOK
  <2>2. ~(Releases(t) /\ task[u].ch = task[t].ch)
    BY <1>1, <1>5, <2>1, IdsAreNumbers, NoneIsFresh
  <2> QED BY <1>2, <2>2 DEF Typed, TypeOK, Channels
<1>11. generation <= generation
  BY DEF Typed, TypeOK
<1> HIDE DEF ss, nb
<1> QED BY <1>1, <1>2, <1>3, <1>4, <1>7, <1>8, <1>9, <1>10, <1>11, OnlyTidies

\* What is recorded is recorded once.
LEMMA RecordedOnce ==
  ASSUME Owned, NEW k \in Keys, NEW h \in Keys, recorded[k] # None, recorded[k] = recorded[h]
  PROVE  k = h
  BY DEF Owned, RecordedOK

\* What is recorded is in no mailbox.
LEMMA RecordedIsNoBoxes ==
  ASSUME Owned, NEW k \in Keys, recorded[k] # None, NEW c \in Channels, mailboxes[c] # None
  PROVE  box[mailboxes[c]].sub # recorded[k]
  BY SubjectsDiffer DEF Owned, RecordedOK, TableOK, SlotOK

\* group_discard().
LEMMA DiscardOwns ==
  ASSUME Typed, Owned, NEW t \in Tasks, Discard(t)
  PROVE  Owned'
<1>1. PICK g \in Groups, c \in Channels :
         /\ groups[g] # None
         /\ LET rest == members[groups[g]] \ {c}
                dropped == Dropped(g, c, rest)
            IN /\ recorded' = [k \in Keys |-> IF k \in dropped THEN None ELSE recorded[k]]
               /\ Tidy(t, {recorded[k] : k \in dropped} \ {None}, "tidyEnd", Idle)
               /\ StoreBoxes(box)
  BY DEF Discard
<1> DEFINE dropped == Dropped(g, c, members[groups[g]] \ {c})
           ss == {recorded[k] : k \in dropped} \ {None}
<1>2. dropped \subseteq Keys /\ Proc \notin dropped
  BY KeysDiffer DEF Dropped, Keys, Grp, GrpChan, Proc
<1>3. /\ recorded' = [k \in Keys |-> IF k \in dropped THEN None ELSE recorded[k]]
      /\ Tidy(t, ss, "tidyEnd", Idle) /\ StoreBoxes(box)
      /\ UNCHANGED <<mailboxes, generation, subs>>
      /\ task[t].pc \notin Holding \cup Tidying
  BY <1>1 DEF Discard, Holding, Tidying, LockedTidying
<1> HIDE DEF dropped
<1>4. ss \in SUBSET SubIds
  BY <1>2 DEF Typed, TypeOK
<1>5. \A s \in ss : \E k \in Keys : k \in dropped /\ recorded[k] # None /\ s = recorded[k]
  BY <1>2
<1> HIDE DEF ss
<1>6. \A k \in Keys : \/ recorded'[k] = recorded[k] /\ recorded[k] \notin ss
                      \/ recorded'[k] = None /\ recorded[k] \in ss \cup {None}
  BY <1>3, <1>5, RecordedOnce DEF ss
<1>7. recorded'[Proc] = recorded[Proc]
  BY <1>2, <1>3, SubjectsDiffer
<1>8. \A d \in Channels : mailboxes[d] # None => box[mailboxes[d]].sub \notin ss
  BY <1>5, RecordedIsNoBoxes
<1>9. \A u \in Tasks : task[u].sub # None => task[u].sub \notin ss
  BY <1>5, HandsOwn
<1>10. generation <= generation /\ \A b \in BoxIds : SameFlags(box[b], box[b])
  BY DEF Typed, TypeOK, SameFlags
<1> QED BY <1>3, <1>4, <1>6, <1>7, <1>8, <1>9, <1>10, OnlyTidies

\* flush().
LEMMA FlushOwns ==
  ASSUME Typed, Owned, NEW t \in Tasks, Flush(t)
  PROVE  Owned'
<1> DEFINE mine == {mailboxes[c] : c \in Channels} \ {None}
           ss == ({recorded[k] : k \in Keys} \cup {box[b].sub : b \in mine}) \ {None}
           nb == Supersede(mine)
<1>1. /\ Tidy(t, ss, "tidyEnd", Idle) /\ StoreBoxes(nb)
      /\ mailboxes' = [c \in Channels |-> None]
      /\ recorded' = [k \in Keys |-> None]
      /\ generation' = generation + 1
      /\ subs' = subs
      /\ task[t].pc \notin Holding \cup Tidying
  BY DEF Flush, Store, Holding, Tidying, LockedTidying
<1>2. ss \in SUBSET SubIds /\ \A b \in BoxIds : SameFlags(nb[b], box[b])
  <2>1. \A b \in BoxIds : box[b] \in Boxes /\ box[b].sub \in SubIds \cup {None}
    BY DEF Typed, TypeOK, Boxes
  <2>2. mine \subseteq BoxIds
    BY DEF Typed, TypeOK
  <2>3. \A b \in BoxIds : SameFlags(nb[b], box[b])
    BY <2>1 DEF Supersede, SameFlags, Boxes
  <2>4. ss \in SUBSET SubIds
    <3> HIDE DEF mine
    <3> QED BY <2>1, <2>2 DEF Typed, TypeOK
  <2> QED BY <2>3, <2>4
<1>3. generation \in Int /\ generation' # generation /\ generation <= generation'
  BY <1>1 DEF Typed, TypeOK
<1>4. /\ \A k \in Keys : recorded'[k] = None /\ recorded[k] \in ss \cup {None}
      /\ \A c \in Channels : mailboxes'[c] = None
      /\ \A c \in Channels : mailboxes[c] # None => box[mailboxes[c]].sub \in ss \cup {None}
  BY <1>1
<1>5. \A s \in ss : \/ \E k \in Keys : recorded[k] = s
                    \/ \E c \in Channels : mailboxes[c] # None /\ box[mailboxes[c]].sub = s
  OBVIOUS
<1> HIDE DEF ss, nb, mine
<1>6. \A u \in Tasks : task[u].sub # None /\ task[u].sub \in ss =>
             task[u].pc = "conf" /\ task[u].ch \in PlainChannels /\ generation' # generation
  BY <1>3, <1>5, HandsOwn
<1>7. \A c \in Channels :
            \/ mailboxes'[c] = mailboxes[c] /\ (mailboxes[c] # None => box[mailboxes[c]].sub \notin ss)
            \/ mailboxes'[c] = None /\ box[mailboxes[c]].sub \in ss \cup {None}
  BY <1>4
<1>8. \A c \in ProcessChannels : mailboxes'[c] = None
  BY <1>4 DEF Channels
<1> QED BY <1>1, <1>2, <1>3, <1>4, <1>6, <1>7, <1>8, OnlyTidies

-----------------------------------------------------------------------------
(* A subscription comes up. *)

\* Around a step of the call that holds the lock, or takes it, every other call is where it was.
LEMMA OthersOwn ==
  ASSUME Typed, Owned, NEW t \in Tasks, task[t].pc \in Holding \/ LockFree,
         NEW me, Become(t, me), NEW nb, StoreBoxes(nb), generation' = generation,
         \A b \in BoxIds : (\E u \in Tasks : task[u].rd = b) /\ box[b].ready => nb[b].ready
  PROVE  /\ Exclusive'
         /\ \A u \in Tasks : u # t => task'[u] = task[u] /\ CallOK(u)'
<1>1. \A u \in Tasks : u # t => task'[u] = task[u] /\ task[u].pc \notin Holding
  BY HolderAlone DEF Become, Typed, TypeOK, LockFree
<1>2. Exclusive'
  BY <1>1 DEF Exclusive
<1>3. ASSUME NEW u \in Tasks, u # t PROVE CallOK(u)'
  <2>1. HandleOK(u)'
    BY <1>1, <1>3 DEF Owned, CallsOwn, CallOK, HandleOK
  <2>2. task'[u].pc \notin Making /\ task'[u].pc \notin {"conf", "gconf", "gsub", "tidyRetry"}
    BY <1>1, <1>3 DEF Making, Holding, LockedTidying
  <2>3. ReaderOK(u)'
    <3>1. task[u].rd # None => /\ task[u].rd \in BoxIds
                               /\ box'[task[u].rd] = nb[task[u].rd]
      BY <1>1, <1>3, Stored, CallFields DEF Typed
    <3> QED BY <1>1, <1>3, <3>1 DEF Owned, CallsOwn, CallOK, ReaderOK
  <2> QED BY <2>1, <2>2, <2>3 DEF CallOK, MakerOK, AdderOK, MadeOK
<1> QED BY <1>1, <1>2, <1>3

\* A subscription comes up, in the hands of the call that asked for it or to go down again.
SubComesUp(t, s, what) ==
    /\ s \in Fresh(SubIds, SubRefs)
    /\ subs' = [subs EXCEPT ![s] = what]
    /\ UNCHANGED <<tables, going>>

\* The tables know nothing of it yet, but for the mailbox being made.
LEMMA ComesUpTables ==
  ASSUME Typed, Owned, NEW t \in Tasks, task[t].pc \in Holding, NEW s, NEW what, what # NoSub,
         SubComesUp(t, s, what), NEW me, Become(t, me),
         task[t].pc \in Making => me.pc \in Making /\ me.bx = task[t].bx /\ me.ch = task[t].ch,
         me.sub = s \/ s \in me.todo, task[t].sub = None, task[t].todo = {}, me.todo \subseteq {s},
         NEW nb, StoreBoxes(nb),
         \A c \in Channels : mailboxes[c] # None =>
             \/ SameFlags(nb[mailboxes[c]], box[mailboxes[c]])
             \/ /\ nb[mailboxes[c]].sub = s /\ what.subject = Chan(c)
                /\ nb[mailboxes[c]].ready = box[mailboxes[c]].ready
                /\ box[mailboxes[c]].sub = None /\ ~box[mailboxes[c]].ready
                /\ c \notin ProcessChannels /\ me.todo = {}
  PROVE  /\ RecordedOK' /\ TableOK' /\ NoLeakedSubscription'
         /\ Live' = Live \cup {s}
         /\ Leaving' = Leaving \cup me.todo
         /\ subs'[s] = what
         /\ \A u \in Tasks : u # t => task'[u] = task[u]
         /\ task'[t] = me
<1>1. /\ task'[t] = me /\ \A u \in Tasks : u # t => task'[u] = task[u]
  BY DEF Become, Typed, TypeOK
<1>2. /\ s \in SubIds /\ s # None /\ s \notin Live /\ s \notin Leaving
      /\ \A k \in Keys : recorded[k] # s
      /\ \A b \in BoxIds : box[b].sub # s
  BY FreshIsFree DEF SubComesUp, Typed
<1>3. subs'[s] = what /\ \A r \in SubIds : r # s => subs'[r] = subs[r]
  BY <1>2 DEF SubComesUp, Typed, TypeOK
<1>4. Live' = Live \cup {s}
  BY <1>2, <1>3 DEF Live
<1>5. Leaving' = Leaving \cup me.todo
  <2>1. UNION {task'[u].todo : u \in Tasks} = (UNION {task[u].todo : u \in Tasks}) \cup me.todo
    BY <1>1
  <2> QED BY <2>1 DEF Leaving, SubComesUp
<1>6. RecordedOK'
  BY <1>2, <1>3, <1>5, SubIdsAreSome DEF Owned, RecordedOK, SubComesUp, tables, Typed, TypeOK
<1>7. ASSUME NEW c \in Channels, mailboxes[c] # None
      PROVE  SlotOK(c)'
  <2> DEFINE b == mailboxes[c]
  <2>1. /\ SlotOK(c) /\ mailboxes' = mailboxes /\ recorded' = recorded /\ b \in BoxIds
        /\ box'[b] = nb[b] /\ box[b].sub \in SubIds \cup {None}
    BY <1>7, Stored DEF Owned, TableOK, SubComesUp, tables, Typed, TypeOK, Boxes
  <2>2. ~box[b].ready => \E u \in Tasks : task'[u].pc \in Making /\ task'[u].bx = b /\ task'[u].ch = c
    BY <1>1, <1>7, <2>1 DEF SlotOK
  <2>3. \A d \in Channels : mailboxes[d] = b => d = c
    BY <1>7, <2>1 DEF SlotOK
  <2>4. CASE SameFlags(nb[b], box[b])
    <3>1. box'[b].sub # None => subs'[box'[b].sub].subject = Chan(c) /\ box'[b].sub \notin Leaving'
      BY <1>2, <1>3, <1>5, <1>7, <2>1, <2>4 DEF SlotOK, SameFlags
    <3> QED BY <1>7, <2>1, <2>2, <2>3, <2>4, <3>1 DEF SlotOK, SameFlags
  <2>5. CASE /\ nb[b].sub = s /\ what.subject = Chan(c)
             /\ nb[b].ready = box[b].ready
             /\ box[b].sub = None /\ ~box[b].ready
             /\ c \notin ProcessChannels /\ me.todo = {}
    BY <1>2, <1>3, <1>5, <1>7, <2>1, <2>2, <2>3, <2>5 DEF SlotOK
  <2> QED BY <1>7, <2>4, <2>5
<1>8. TableOK'
  BY <1>7 DEF TableOK, SlotOK, SubComesUp, tables
<1>9. NoLeakedSubscription'
  <2> SUFFICES ASSUME NEW r \in Live', r \notin Leaving'
               PROVE  \/ \E u \in Tasks : task'[u].sub = r
                      \/ \E k \in Keys : recorded[k] = r
                      \/ \E c \in PlainChannels : mailboxes[c] # None /\ box'[mailboxes[c]].sub = r
    BY DEF NoLeakedSubscription, SubComesUp, tables
  <2>1. CASE r = s
    BY <1>1, <1>5, <2>1
  <2>2. CASE r # s
    <3>1. /\ r \in Live /\ r \notin Leaving /\ r # None
      BY <1>4, <1>5, <2>2, SubIdsAreSome DEF Live
    <3>2. CASE \E u \in Tasks : task[u].sub = r
      BY <1>1, <3>1, <3>2
    <3>3. CASE \E c \in PlainChannels : mailboxes[c] # None /\ box[mailboxes[c]].sub = r
      <4>1. PICK c \in PlainChannels : mailboxes[c] # None /\ box[mailboxes[c]].sub = r
        BY <3>3
      <4>2. c \in Channels /\ box'[mailboxes[c]] = nb[mailboxes[c]]
        BY <4>1, Stored DEF Channels, SubComesUp, tables
      <4> QED BY <3>1, <4>1, <4>2 DEF SameFlags
    <3> QED BY <3>1, <3>2, <3>3 DEF Owned, NoLeakedSubscription
  <2> QED BY <2>1, <2>2
<1> QED BY <1>1, <1>3, <1>4, <1>5, <1>6, <1>8, <1>9

\* What a call subscribes to is a subject.
LEMMA AsksForASubject ==
  ASSUME TypeOK, NEW t \in Tasks
  PROVE  /\ task[t].pc \in Making => BoxSub(t) # NoSub
         /\ task[t].pc \in {"gsub", "gconf"} => GroupSub(t) # NoSub
<1>1. NoSub.subject = None
  BY DEF NoSub
<1>2. ASSUME task[t].pc \in Making PROVE BoxSub(t) # NoSub
  <2>1. task[t].ch \in Channels
    BY <1>2, CallFields DEF Shaped, Making
  <2>2. BoxSub(t).subject # None
    BY <2>1, SubjectsDiffer DEF BoxSub, Channels
  <2> QED BY <1>1, <2>2
<1>3. ASSUME task[t].pc \in {"gsub", "gconf"} PROVE GroupSub(t) # NoSub
  <2>1. Feeds(task[t].grp, task[t].ch) \in Keys
    BY <1>3, CallFields, FeedsIsKey DEF Shaped
  <2>2. GroupSub(t).subject # None
    BY <2>1, SubjectsDiffer DEF GroupSub
  <2> QED BY <1>1, <2>2
<1> QED BY <1>2, <1>3

\* Client.subscribe() returned.
LEMMA SubscribedOwns ==
  ASSUME Typed, Owned, NEW t \in Tasks, Subscribed(t)
  PROVE  Owned'
<1> DEFINE b == task[t].bx
           plain == task[t].ch \in PlainChannels
<1>1. /\ task[t].pc = "sub" /\ b \in BoxIds /\ task[t].ch \in Channels /\ task[t] \in Calls
      /\ task[t].pc \in Making /\ task[t].pc \in Holding
      /\ task[t].sub = None /\ task[t].todo = {}
  BY CallFields DEF Subscribed, Shaped, Typed, Owned, CallsOwn, CallOK, HandleOK,
                    Making, Holding, Tidying, LockedTidying
<1>2. PICK s \in Fresh(SubIds, SubRefs) :
          /\ subs' = [subs EXCEPT ![s] = BoxSub(t)]
          /\ Become(t, [task[t] EXCEPT !.pc = "conf", !.sub = s])
          /\ StoreBoxes(IF plain THEN [box EXCEPT ![b].sub = s] ELSE box)
  BY DEF Subscribed, Store
<1> DEFINE me == [task[t] EXCEPT !.pc = "conf", !.sub = s]
           nb == IF plain THEN [box EXCEPT ![b].sub = s] ELSE box
<1>3. /\ me.pc = "conf" /\ me.sub = s /\ me.todo = {} /\ me.bx = b /\ me.ch = task[t].ch
      /\ me.gen = task[t].gen /\ me.rd = task[t].rd /\ me.grp = task[t].grp
      /\ me.pc \in Making
  BY <1>1 DEF Calls, Making
<1>4. /\ \A x \in BoxIds : x # b \/ ~plain => SameFlags(nb[x], box[x])
      /\ nb[b].ready = box[b].ready /\ nb[b].subscribed = box[b].subscribed
      /\ nb[b].sub = IF plain THEN s ELSE box[b].sub
  <2>1. \A x \in BoxIds : box[x] \in Boxes
    BY DEF Typed, TypeOK
  <2> QED BY <1>1, <2>1 DEF SameFlags, Boxes, Typed, TypeOK
<1>5. /\ b # None /\ ~box[b].ready /\ box[b].sub = None
      /\ \A c \in Channels : mailboxes[c] = b => c = task[t].ch
      /\ plain => task[t].ch \notin ProcessChannels
  BY <1>1, KindsOfChannel DEF Owned, CallsOwn, CallOK, MakerOK
<1> HIDE DEF me, nb
<1>6. Become(t, me) /\ StoreBoxes(nb) /\ SubComesUp(t, s, BoxSub(t)) /\ BoxSub(t) # NoSub
  BY <1>1, <1>2, AsksForASubject DEF me, nb, SubComesUp, Subscribed, Typed
<1>7. \A c \in Channels : mailboxes[c] # None =>
             \/ SameFlags(nb[mailboxes[c]], box[mailboxes[c]])
             \/ /\ nb[mailboxes[c]].sub = s /\ BoxSub(t).subject = Chan(c)
                /\ nb[mailboxes[c]].ready = box[mailboxes[c]].ready
                /\ box[mailboxes[c]].sub = None /\ ~box[mailboxes[c]].ready
                /\ c \notin ProcessChannels /\ me.todo = {}
  <2> SUFFICES ASSUME NEW c \in Channels, mailboxes[c] # None, ~SameFlags(nb[mailboxes[c]], box[mailboxes[c]])
               PROVE  /\ nb[mailboxes[c]].sub = s /\ BoxSub(t).subject = Chan(c)
                      /\ nb[mailboxes[c]].ready = box[mailboxes[c]].ready
                      /\ box[mailboxes[c]].sub = None /\ ~box[mailboxes[c]].ready
                      /\ c \notin ProcessChannels /\ me.todo = {}
    OBVIOUS
  <2>1. mailboxes[c] = b /\ plain
    BY <1>4 DEF Typed, TypeOK
  <2>2. c = task[t].ch
    BY <1>5, <2>1
  <2> QED BY <1>3, <1>4, <1>5, <2>1, <2>2 DEF BoxSub
<1>8. /\ RecordedOK' /\ TableOK' /\ NoLeakedSubscription'
      /\ Live' = Live \cup {s}
      /\ Leaving' = Leaving \cup me.todo
      /\ subs'[s] = BoxSub(t)
      /\ task'[t] = me
  <2>1. /\ task[t].pc \in Making => me.pc \in Making /\ me.bx = task[t].bx /\ me.ch = task[t].ch
        /\ me.sub = s \/ s \in me.todo
        /\ me.todo \subseteq {s}
    BY <1>1, <1>3
  <2> QED BY <1>1, <1>6, <1>7, <2>1, ComesUpTables
<1>9. /\ Exclusive'
      /\ \A u \in Tasks : u # t => CallOK(u)'
  <2>1. \A x \in BoxIds : box[x].ready => nb[x].ready
    BY <1>4 DEF SameFlags
  <2> QED BY <1>1, <1>6, <2>1, OthersOwn DEF SubComesUp, tables
<1>10. CallOK(t)'
  <2>1. /\ box'[b] = nb[b]
        /\ task[t].rd # None => task[t].rd \in BoxIds /\ box'[task[t].rd] = nb[task[t].rd]
    BY <1>3, <1>5, <1>6, <1>8, Stored, CallFields DEF Typed
  <2>2. CallOK(t) /\ mailboxes' = mailboxes /\ recorded' = recorded /\ generation' = generation
    BY <1>6 DEF Owned, CallsOwn, SubComesUp, tables
  <2>3. HandleOK(t)' /\ AdderOK(t)'
    BY <1>3, <1>8, <2>2 DEF CallOK, HandleOK, AdderOK
  <2>4. ReaderOK(t)'
    BY <1>3, <1>4, <1>8, <2>1, <2>2 DEF CallOK, ReaderOK, SameFlags
  <2>5. MakerOK(t)'
    BY <1>1, <1>3, <1>4, <1>5, <1>8, <2>1, <2>2 DEF CallOK, MakerOK
  <2>6. MadeOK(t)'
    <3>1. BoxSub(t)' = BoxSub(t)
      BY <1>3, <1>8 DEF BoxSub
    <3>2. s \notin Leaving
      BY <1>2, FreshIsFree DEF Typed
    <3> QED BY <1>3, <1>8, <3>1, <3>2 DEF MadeOK
  <2> QED BY <2>3, <2>4, <2>5, <2>6 DEF CallOK
<1> QED BY <1>8, <1>9, <1>10 DEF Owned, CallsOwn

\* A subscribe that is cancelled after its command went out: the subscription goes down again.
LEMMA CutShort ==
  ASSUME Typed, Owned, NEW t \in Tasks, NEW s, NEW what, what # NoSub, SubComesUp(t, s, what),
         StoreBoxes(box), NEW pc,
         \/ task[t].pc = "sub" /\ pc = "tidyAbort"
         \/ task[t].pc = "gsub" /\ pc = "tidyAddFail",
         Become(t, [task[t] EXCEPT !.pc = pc, !.todo = {s}])
  PROVE  Owned'
<1> DEFINE me == [task[t] EXCEPT !.pc = pc, !.todo = {s}]
<1>1. /\ task[t].pc \in Holding /\ task[t].sub = None /\ task[t].todo = {} /\ task[t] \in Calls
      /\ pc \in Tidying /\ pc \notin {"gsub", "gconf", "conf", "sub", "tidyRetry", "tidyRetryBox"}
      /\ task[t].pc \in Making <=> pc \in Making
  BY CallFields DEF Typed, Owned, CallsOwn, CallOK, HandleOK, Making, Holding, Tidying, LockedTidying
<1>2. /\ me.pc = pc /\ me.sub = None /\ me.todo = {s} /\ me.bx = task[t].bx /\ me.ch = task[t].ch
      /\ me.gen = task[t].gen /\ me.rd = task[t].rd /\ me.grp = task[t].grp
  BY <1>1 DEF Calls
<1> HIDE DEF me
<1>3. Become(t, me)
  BY DEF me
<1>4. \A c \in Channels : mailboxes[c] # None => SameFlags(box[mailboxes[c]], box[mailboxes[c]])
  BY DEF SameFlags
<1>5. /\ task[t].pc \in Making => me.pc \in Making /\ me.bx = task[t].bx /\ me.ch = task[t].ch
      /\ me.sub = s \/ s \in me.todo
      /\ me.todo \subseteq {s}
  BY <1>1, <1>2
<1>6. /\ RecordedOK' /\ TableOK' /\ NoLeakedSubscription'
      /\ task'[t] = me
  BY <1>1, <1>3, <1>4, <1>5, ComesUpTables
<1>7. /\ Exclusive'
      /\ \A u \in Tasks : u # t => CallOK(u)'
  BY <1>1, <1>3, OthersOwn DEF SubComesUp, tables
<1>8. CallOK(t)'
  <2>1. /\ task[t].bx # None => box'[task[t].bx] = box[task[t].bx]
        /\ task[t].rd # None => box'[task[t].rd] = box[task[t].rd]
    BY <1>2, <1>6, Stored
  <2>2. /\ CallOK(t) /\ mailboxes' = mailboxes /\ recorded' = recorded /\ generation' = generation
    BY DEF Owned, CallsOwn, SubComesUp, tables
  <2>3. HandleOK(t)' /\ AdderOK(t)' /\ ReaderOK(t)' /\ MadeOK(t)'
    BY <1>1, <1>2, <1>6, <2>1, <2>2 DEF CallOK, HandleOK, AdderOK, ReaderOK, MadeOK
  <2>4. MakerOK(t)'
    <3>1. CASE pc = "tidyAbort"
      <4>1. task[t].pc = "sub"
        BY <3>1
      <4> QED BY <1>2, <1>6, <2>1, <2>2, <3>1, <4>1 DEF CallOK, MakerOK, Making
    <3>2. CASE pc # "tidyAbort"
      BY <1>1, <1>2, <1>6, <3>2 DEF MakerOK, Making
    <3> QED BY <3>1, <3>2
  <2> QED BY <2>3, <2>4 DEF CallOK
<1> QED BY <1>6, <1>7, <1>8 DEF Owned, CallsOwn

\* Cancelled or failed inside Client.subscribe().
LEMMA SubAbortedOwns ==
  ASSUME Typed, Owned, NEW t \in Tasks, SubAborted(t)
  PROVE  Owned'
<1>1. /\ task[t].pc = "sub" /\ task[t].pc \in Making /\ task[t].todo = {}
  BY DEF SubAborted, Owned, CallsOwn, CallOK, HandleOK, Making, Tidying, LockedTidying
<1>2. CASE MailboxFails(t)
  BY <1>1, <1>2, MailboxFailsOwns
<1>3. CASE /\ UNCHANGED <<tables, going, history>>
           /\ \E s \in Fresh(SubIds, SubRefs) :
                /\ subs' = [subs EXCEPT ![s] = BoxSub(t)]
                /\ Become(t, [task[t] EXCEPT !.pc = "tidyAbort", !.todo = {s}])
           /\ Store(box)
  <2>1. PICK s \in Fresh(SubIds, SubRefs) :
                /\ subs' = [subs EXCEPT ![s] = BoxSub(t)]
                /\ Become(t, [task[t] EXCEPT !.pc = "tidyAbort", !.todo = {s}])
    BY <1>3
  <2>2. SubComesUp(t, s, BoxSub(t)) /\ BoxSub(t) # NoSub
    BY <1>1, <1>3, <2>1, AsksForASubject DEF SubComesUp, Typed
  <2> QED BY <1>1, <1>3, <2>1, <2>2, CutShort DEF Store
<1> QED BY <1>2, <1>3 DEF SubAborted

\* group_add()'s own subscribe returned.
LEMMA GroupSubscribedOwns ==
  ASSUME Typed, Owned, NEW t \in Tasks, GroupSubscribed(t)
  PROVE  Owned'
<1>1. PICK s \in Fresh(SubIds, SubRefs) :
          /\ subs' = [subs EXCEPT ![s] = GroupSub(t)]
          /\ Become(t, [task[t] EXCEPT !.pc = "gconf", !.sub = s])
  BY DEF GroupSubscribed
<1> DEFINE me == [task[t] EXCEPT !.pc = "gconf", !.sub = s]
<1>2. /\ task[t].pc = "gsub" /\ task[t].pc \in Holding /\ task[t].pc \notin Making
      /\ task[t].sub = None /\ task[t].todo = {} /\ task[t] \in Calls
  BY CallFields DEF GroupSubscribed, Typed, Owned, CallsOwn, CallOK, HandleOK,
                    Making, Holding, Tidying, LockedTidying
<1>3. /\ me.pc = "gconf" /\ me.sub = s /\ me.todo = {} /\ me.bx = task[t].bx /\ me.ch = task[t].ch
      /\ me.gen = task[t].gen /\ me.rd = task[t].rd /\ me.grp = task[t].grp
  BY <1>2 DEF Calls
<1> HIDE DEF me
<1>4. SubComesUp(t, s, GroupSub(t)) /\ GroupSub(t) # NoSub /\ StoreBoxes(box) /\ Become(t, me)
  BY <1>1, <1>2, AsksForASubject DEF SubComesUp, Typed, GroupSubscribed, Store, me
<1>5. \A c \in Channels : mailboxes[c] # None => SameFlags(box[mailboxes[c]], box[mailboxes[c]])
  BY DEF SameFlags
<1>6. /\ RecordedOK' /\ TableOK' /\ NoLeakedSubscription'
      /\ Leaving' = Leaving \cup me.todo
      /\ subs'[s] = GroupSub(t)
      /\ task'[t] = me
  <2>1. /\ task[t].pc \in Making => me.pc \in Making /\ me.bx = task[t].bx /\ me.ch = task[t].ch
        /\ me.sub = s \/ s \in me.todo
        /\ me.todo \subseteq {s}
    BY <1>2, <1>3
  <2> QED BY <1>2, <1>4, <1>5, <2>1, ComesUpTables
<1>7. /\ Exclusive'
      /\ \A u \in Tasks : u # t => CallOK(u)'
  BY <1>2, <1>4, OthersOwn DEF SubComesUp, tables
<1>8. CallOK(t)'
  <2>1. task[t].rd # None => box'[task[t].rd] = box[task[t].rd]
    BY <1>3, <1>4, <1>6, Stored
  <2>2. /\ CallOK(t) /\ mailboxes' = mailboxes /\ recorded' = recorded /\ generation' = generation
    BY <1>4 DEF Owned, CallsOwn, SubComesUp, tables
  <2>3. HandleOK(t)' /\ AdderOK(t)' /\ ReaderOK(t)' /\ MakerOK(t)'
    BY <1>2, <1>3, <1>6, <2>1, <2>2 DEF CallOK, HandleOK, AdderOK, ReaderOK, MakerOK, Making
  <2>4. MadeOK(t)'
    <3>1. GroupSub(t)' = GroupSub(t)
      BY <1>3, <1>6 DEF GroupSub
    <3>2. s \notin Leaving
      BY FreshIsFree DEF Typed
    <3> QED BY <1>3, <1>6, <3>1, <3>2 DEF MadeOK
  <2> QED BY <2>3, <2>4 DEF CallOK
<1> QED BY <1>6, <1>7, <1>8 DEF Owned, CallsOwn

\* group_add() cancelled or failed in its own subscribe.
LEMMA GroupAbortedOwns ==
  ASSUME Typed, Owned, NEW t \in Tasks, GroupAborted(t)
  PROVE  Owned'
<1>1. CASE task[t].pc \in {"glock", "gsub"} /\ AddFails(t)
  <2>1. task[t].sub = None /\ task[t].todo = {} /\ task[t].pc \notin Making
    BY <1>1 DEF Owned, CallsOwn, CallOK, HandleOK, Making, Tidying, LockedTidying
  <2> QED BY <1>1, <2>1, AddEndsOwns DEF AddFails, server
<1>2. CASE /\ task[t].pc = "gsub"
           /\ UNCHANGED <<tables, going, history>>
           /\ \E s \in Fresh(SubIds, SubRefs) :
                /\ subs' = [subs EXCEPT ![s] = GroupSub(t)]
                /\ Become(t, [task[t] EXCEPT !.pc = "tidyAddFail", !.todo = {s}])
           /\ Store(box)
  <2>1. PICK s \in Fresh(SubIds, SubRefs) :
                /\ subs' = [subs EXCEPT ![s] = GroupSub(t)]
                /\ Become(t, [task[t] EXCEPT !.pc = "tidyAddFail", !.todo = {s}])
    BY <1>2
  <2>2. SubComesUp(t, s, GroupSub(t)) /\ GroupSub(t) # NoSub
    BY <1>2, <2>1, AsksForASubject DEF SubComesUp, Typed
  <2> QED BY <1>2, <2>1, <2>2, CutShort DEF Store
<1>3. CASE /\ task[t].pc = "gconf"
           /\ UNCHANGED <<tables, subs, history>>
           /\ Tidy(t, {task[t].sub}, "tidyAddFail", [task[t] EXCEPT !.sub = None])
           /\ Store(box)
  BY <1>3, GroupGivesBack DEF Store, tables
<1> QED BY <1>1, <1>2, <1>3 DEF GroupAborted

-----------------------------------------------------------------------------
(* What was made is recorded, or its mailbox is registered. *)

\* A call that held or took the lock comes to rest.
LEMMA RestsApart ==
  ASSUME Typed, Owned, NEW t \in Tasks, task[t].pc \in Holding \/ LockFree, task[t].todo = {},
         NEW nb \in [BoxIds -> Boxes], Rests(t, nb), UNCHANGED <<generation, going>>,
         \A b \in BoxIds : (\E u \in Tasks : task[u].rd = b) /\ box[b].ready => nb[b].ready
  PROVE  /\ Exclusive' /\ CallsOwn'
         /\ task'[t].sub = None /\ \A u \in Tasks : u # t => task'[u] = task[u]
         /\ Leaving' = Leaving
         /\ \A c \in Channels : mailboxes'[c] # None => SameFlags(box'[mailboxes'[c]], nb[mailboxes'[c]])
<1>1. PICK me \in Calls, ns \in [BoxIds -> Boxes] :
        /\ Become(t, me) /\ StoreBoxes(ns)
        /\ \A b \in BoxIds : SameFlags(ns[b], nb[b])
        /\ me.pc \notin Holding \cup Tidying
        /\ me.sub = None /\ me.todo = {} /\ me.gen \in {0, task[t].gen}
        /\ me.rd # None => me.rd = task[t].rd \/ nb[me.rd].ready
  BY DEF Rests
<1>2. /\ task'[t] = me /\ task[t].rd \in BoxIds \cup {None} /\ me.rd \in BoxIds \cup {None}
      /\ \A u \in Tasks : u # t => task'[u] = task[u]
  BY <1>1, CallFields DEF Become, Typed, TypeOK, Calls
<1>3. /\ Exclusive'
      /\ \A u \in Tasks : u # t => CallOK(u)'
  <2>1. \A b \in BoxIds : (\E u \in Tasks : task[u].rd = b) /\ box[b].ready => ns[b].ready
    BY <1>1 DEF SameFlags
  <2> QED BY <1>1, <2>1, OthersOwn
<1>4. Leaving' = Leaving
  <2>1. \A u \in Tasks : task'[u].todo = task[u].todo
    BY <1>1, <1>2
  <2> QED BY <2>1 DEF Leaving
<1>5. \A c \in Channels : mailboxes'[c] # None => SameFlags(box'[mailboxes'[c]], nb[mailboxes'[c]])
  BY <1>1, Stored DEF Typed, TypeOK, SameFlags
<1>6. CallOK(t)'
  <2>1. CallOK(t)
    BY DEF Owned, CallsOwn
  <2>2. HandleOK(t)'
    <3>1. 0 <= generation
      BY DEF Typed, TypeOK
    <3> QED BY <1>1, <1>2, <2>1, <3>1 DEF CallOK, HandleOK
  <2>3. task'[t].pc \notin Making /\ task'[t].pc \notin {"conf", "gconf", "gsub", "tidyRetry"}
    BY <1>1, <1>2 DEF Making, Holding, LockedTidying
  <2>4. ReaderOK(t)'
    <3> SUFFICES ASSUME me.rd # None
                 PROVE  box'[me.rd].ready
      BY <1>2 DEF ReaderOK
    <3>1. nb[me.rd].ready
      BY <1>1, <1>2, <2>1 DEF CallOK, ReaderOK
    <3>2. box'[me.rd] = ns[me.rd]
      BY <1>1, <1>2, Stored
    <3> QED BY <1>1, <1>2, <3>1, <3>2 DEF SameFlags
  <2> QED BY <2>2, <2>3, <2>4 DEF CallOK, MakerOK, AdderOK, MadeOK
<1> QED BY <1>1, <1>2, <1>3, <1>4, <1>5, <1>6 DEF CallsOwn

\* No mailbox in the table is being made but by the call that holds the lock.
LEMMA OthersReady ==
  ASSUME Typed, Owned, NEW t \in Tasks, task[t].pc \in Holding \/ LockFree,
         NEW c \in Channels, mailboxes[c] # None, ~box[mailboxes[c]].ready
  PROVE  task[t].pc \in Making /\ mailboxes[c] = task[t].bx /\ c = task[t].ch
<1>1. PICK u \in Tasks : task[u].pc \in Making /\ task[u].bx = mailboxes[c] /\ task[u].ch = c
  BY DEF Owned, TableOK, SlotOK
<1>2. task[u].pc \in Holding
  BY <1>1 DEF Making, Holding, LockedTidying
<1>3. u = t
  BY <1>1, <1>2, HolderAlone DEF LockFree
<1> QED BY <1>1, <1>3

\* The subscription a mailbox waited for is confirmed.
LEMMA EarlyConfirmOwns ==
  ASSUME Typed, Owned, NEW t \in Tasks, task[t].pc = "conf", Unflushed(t),
         UNCHANGED <<mailboxes, generation, subs, going>>,
         recorded' = IF task[t].ch \in PlainChannels THEN recorded ELSE [recorded EXCEPT ![Proc] = task[t].sub],
         HandOut(t, task[t], task[t].bx, [GivenUp(t) EXCEPT ![task[t].bx].subscribed = TRUE])
  PROVE  Owned'
<1> DEFINE b == task[t].bx
           nb == [GivenUp(t) EXCEPT ![b].subscribed = TRUE]
           s == task[t].sub
           plain == task[t].ch \in PlainChannels
<1>1. /\ task[t] \in Calls /\ b \in BoxIds /\ b # None /\ task[t].ch \in Channels
      /\ task[t].op = "add" => task[t].grp # None
      /\ s \in SubIds /\ s # None /\ task[t].todo = {}
      /\ task[t].pc \in Making /\ task[t].pc \in Holding
      /\ plain <=> task[t].ch \notin ProcessChannels
  BY CallFields, SubIdsAreSome, IdsAreNumbers, NoneIsFresh, KindsOfChannel
     DEF Typed, Shaped, Owned, CallsOwn, CallOK, HandleOK, Making, Holding, Tidying, LockedTidying, Channels
<1>2. nb \in [BoxIds -> Boxes]
  BY GivenUpTyped, BoxSetTyped DEF Typed
<1>3. /\ nb[b].ready /\ nb[b].subscribed /\ nb[b].sub = box[b].sub
      /\ \A x \in BoxIds : x # b => SameFlags(nb[x], box[x])
  <2>1. \A x \in BoxIds : box[x] \in Boxes
    BY DEF Typed, TypeOK
  <2> QED BY <1>1, <2>1 DEF GivenUp, SameFlags, Boxes, Typed, TypeOK
<1>4. /\ mailboxes[task[t].ch] \in {None, b}
      /\ \A c \in Channels : mailboxes[c] = b => c = task[t].ch
      /\ plain => mailboxes[task[t].ch] = b
      /\ ~plain => recorded[Proc] = None
      /\ box[b].sub = IF plain THEN s ELSE None
  BY <1>1 DEF Owned, CallsOwn, CallOK, MakerOK, Unflushed
<1>5. s \in Live /\ s \notin Leaving /\ subs[s] = BoxSub(t)
  <2>1. s \in Live \ Leaving /\ subs[s] \in {BoxSub(t), NoSub}
    BY <1>1 DEF Owned, CallsOwn, CallOK, MadeOK, Unflushed
  <2> QED BY <2>1 DEF Live
<1>6. Rests(t, nb)
  <2>1. task[t].ch # None
    BY CallFields DEF Typed, Shaped
  <2> HIDE DEF nb
  <2>2. HandOut(t, task[t], b, nb)
    BY DEF nb
  <2> QED BY <1>1, <1>2, <1>3, <2>1, <2>2, HandOutRests DEF Typed
<1> HIDE DEF nb
<1>7. \A x \in BoxIds : (\E u \in Tasks : task[u].rd = x) /\ box[x].ready => nb[x].ready
  BY <1>3 DEF SameFlags
<1>8. /\ Exclusive' /\ CallsOwn'
      /\ task'[t].sub = None /\ \A u \in Tasks : u # t => task'[u] = task[u]
      /\ Leaving' = Leaving
      /\ \A c \in Channels : mailboxes[c] # None => SameFlags(box'[mailboxes[c]], nb[mailboxes[c]])
  BY <1>1, <1>2, <1>6, <1>7, RestsApart
<1>9. /\ plain => recorded' = recorded
      /\ ~plain => recorded'[Proc] = s /\ \A k \in Keys : k # Proc => recorded'[k] = recorded[k]
  BY SubjectsDiffer DEF Typed, TypeOK
<1>10. RecordedOK'
  <2>1. ~plain => subs[s].subject = Proc
    BY <1>1, <1>5 DEF BoxSub
  <2> QED BY <1>5, <1>8, <1>9, <2>1 DEF Owned, RecordedOK
<1>11. ASSUME NEW c \in Channels, mailboxes[c] # None PROVE SlotOK(c)'
  <2>1. /\ SlotOK(c) /\ mailboxes[c] \in BoxIds
        /\ SameFlags(box'[mailboxes[c]], nb[mailboxes[c]])
    BY <1>8, <1>11 DEF Owned, TableOK, Typed, TypeOK
  <2>2. CASE mailboxes[c] = b
    <3>1. c = task[t].ch
      BY <1>4, <2>2
    <3>2. plain => subs[s].subject = Chan(c)
      BY <1>1, <1>5, <3>1 DEF BoxSub
    <3>3. box'[b].ready /\ box'[b].subscribed /\ box'[b].sub = IF plain THEN s ELSE None
      BY <1>3, <1>4, <2>1, <2>2 DEF SameFlags
    <3>4. c \in ProcessChannels <=> ~plain
      BY <1>1, <3>1
    <3>5. ~plain => recorded'[Proc] # None
      BY <1>1, <1>9
    <3>6. plain => box'[b].sub # None /\ box'[b].sub \notin Leaving /\ subs[box'[b].sub].subject = Chan(c)
      BY <1>1, <1>5, <3>2, <3>3
    <3>7. \A d \in Channels : mailboxes[d] = b => d = c
      BY <1>4, <3>1
    <3> QED BY <1>8, <2>2, <3>3, <3>4, <3>5, <3>6, <3>7 DEF SlotOK
  <2>3. CASE mailboxes[c] # b
    <3>1. box[mailboxes[c]].ready
      BY <1>1, <1>11, <2>3, OthersReady
    <3>2. SameFlags(box'[mailboxes[c]], box[mailboxes[c]])
      BY <1>3, <2>1, <2>3 DEF SameFlags
    <3>3. recorded[Proc] # None => recorded'[Proc] # None
      BY <1>1, <1>9
    <3> QED BY <1>8, <1>11, <2>1, <3>1, <3>2, <3>3 DEF SlotOK, SameFlags
  <2> QED BY <2>2, <2>3
<1>12. TableOK'
  BY <1>11 DEF TableOK, SlotOK
<1>13. NoLeakedSubscription'
  <2> SUFFICES ASSUME NEW r \in Live, r \notin Leaving
               PROVE  \/ \E u \in Tasks : task'[u].sub = r
                      \/ \E k \in Keys : recorded'[k] = r
                      \/ \E c \in PlainChannels : mailboxes[c] # None /\ box'[mailboxes[c]].sub = r
    BY <1>8 DEF NoLeakedSubscription, Live
  <2>1. r # None
    BY SubIdsAreSome DEF Live
  <2>2. CASE r = s
    <3>1. plain => box'[mailboxes[task[t].ch]].sub = s /\ mailboxes[task[t].ch] # None
      BY <1>1, <1>3, <1>4, <1>8 DEF SameFlags
    <3> QED BY <1>9, <2>2, <3>1, SubjectsDiffer
  <2>3. CASE r # s
    <3>1. CASE \E u \in Tasks : task[u].sub = r
      BY <1>8, <2>3, <3>1
    <3>2. CASE \E k \in Keys : recorded[k] = r
      BY <1>4, <1>9, <2>1, <3>2
    <3>3. CASE \E c \in PlainChannels : mailboxes[c] # None /\ box[mailboxes[c]].sub = r
      <4>1. PICK c \in PlainChannels : mailboxes[c] # None /\ box[mailboxes[c]].sub = r
        BY <3>3
      <4>2. c \in Channels /\ mailboxes[c] \in BoxIds
        BY <4>1 DEF Channels, Typed, TypeOK
      <4>3. box'[mailboxes[c]].sub = r
        BY <1>3, <1>8, <4>1, <4>2 DEF SameFlags
      <4> QED BY <4>1, <4>3
    <3> QED BY <3>1, <3>2, <3>3 DEF Owned, NoLeakedSubscription
  <2> QED BY <2>2, <2>3
<1> QED BY <1>8, <1>10, <1>12, <1>13 DEF Owned

\* The two ways a confirmation goes.
LEMMA ConfirmedOwns ==
  ASSUME Typed, Owned, NEW t \in Tasks, Confirmed(t)
  PROVE  Owned'
<1>1. task[t].pc = "conf" /\ UNCHANGED <<mailboxes, generation, subs>>
  BY DEF Confirmed
<1>2. CASE Unflushed(t)
  BY <1>1, <1>2, EarlyConfirmOwns DEF Confirmed
<1>3. CASE ~Unflushed(t)
  BY <1>1, <1>3, LateConfirmOwns DEF Confirmed, Store
<1> QED BY <1>2, <1>3

\* group_add() records what it subscribed for a group that still wants it.
LEMMA GroupConfirmedOwns ==
  ASSUME Typed, Owned, NEW t \in Tasks, GroupConfirmed(t)
  PROVE  Owned'
<1> DEFINE s == task[t].sub
           k == Feeds(task[t].grp, task[t].ch)
<1>1. /\ task[t].pc = "gconf" /\ task[t].pc \in Holding /\ task[t].pc \notin Making
      /\ UNCHANGED <<mailboxes, generation, subs>> /\ StoreBoxes(box)
      /\ s \in SubIds /\ s # None /\ task[t].todo = {} /\ k \in Keys
  BY CallFields, SubIdsAreSome, FeedsIsKey
     DEF GroupConfirmed, Store, Typed, Shaped, Owned, CallsOwn, CallOK, HandleOK,
         Making, Holding, Tidying, LockedTidying
<1>2. CASE /\ UNCHANGED going
           /\ recorded' = [recorded EXCEPT ![k] = s]
           /\ AddReturns(t)
  <2>1. box \in [BoxIds -> Boxes]
    BY DEF Typed, TypeOK
  <2>2. Rests(t, box)
    BY <1>1, <1>2, <2>1, IdleRests DEF AddReturns
  <2>3. /\ Exclusive' /\ CallsOwn'
        /\ task'[t].sub = None /\ \A u \in Tasks : u # t => task'[u] = task[u]
        /\ Leaving' = Leaving
        /\ \A c \in Channels : mailboxes[c] # None => SameFlags(box'[mailboxes[c]], box[mailboxes[c]])
    BY <1>1, <1>2, <2>1, <2>2, RestsApart
  <2>4. subs[s] = GroupSub(t) /\ s \notin Leaving /\ recorded[k] = None
    BY <1>1 DEF Owned, CallsOwn, CallOK, MadeOK, AdderOK
  <2>5. subs[s].subject = k
    BY <2>4 DEF GroupSub
  <2> HIDE DEF k
  <2>6. recorded'[k] = s /\ \A h \in Keys : h # k => recorded'[h] = recorded[h]
    BY <1>1, <1>2 DEF Typed, TypeOK
  <2>7. RecordedOK'
    BY <1>1, <2>3, <2>4, <2>5, <2>6 DEF Owned, RecordedOK
  <2>8. ASSUME NEW c \in Channels, mailboxes[c] # None PROVE SlotOK(c)'
    <3>1. SlotOK(c) /\ SameFlags(box'[mailboxes[c]], box[mailboxes[c]])
      BY <2>3, <2>8 DEF Owned, TableOK
    <3>2. box[mailboxes[c]].ready
      BY <1>1, <2>8, OthersReady
    <3>3. recorded[Proc] # None => recorded'[Proc] # None
      BY <1>1, <2>6, SubjectsDiffer
    <3> QED BY <1>1, <2>3, <2>8, <3>1, <3>2, <3>3 DEF SlotOK, SameFlags
  <2>9. TableOK'
    BY <1>1, <2>8 DEF TableOK, SlotOK
  <2>10. NoLeakedSubscription'
    <3> SUFFICES ASSUME NEW r \in Live, r \notin Leaving
                 PROVE  \/ \E u \in Tasks : task'[u].sub = r
                        \/ \E h \in Keys : recorded'[h] = r
                        \/ \E c \in PlainChannels : mailboxes[c] # None /\ box'[mailboxes[c]].sub = r
      BY <1>1, <2>3 DEF NoLeakedSubscription, Live
    <3>1. r # None
      BY SubIdsAreSome DEF Live
    <3>2. CASE r = s
      BY <1>1, <2>6, <3>2
    <3>3. CASE r # s /\ \E u \in Tasks : task[u].sub = r
      BY <2>3, <3>3
    <3>4. CASE \E h \in Keys : recorded[h] = r
      BY <2>4, <2>6, <3>1, <3>4
    <3>5. CASE \E c \in PlainChannels : mailboxes[c] # None /\ box[mailboxes[c]].sub = r
      BY <2>3, <3>5 DEF SameFlags, Channels
    <3> QED BY <3>2, <3>3, <3>4, <3>5 DEF Owned, NoLeakedSubscription
  <2> QED BY <2>3, <2>7, <2>9, <2>10 DEF Owned
<1>3. CASE /\ UNCHANGED <<recorded, history>>
           /\ Tidy(t, {s}, "tidyAdd", [task[t] EXCEPT !.sub = None])
  BY <1>1, <1>3, GroupGivesBack
<1> QED BY <1>2, <1>3 DEF GroupConfirmed

\* A mailbox registered by the call that holds the lock.
LEMMA RegisteredTables ==
  ASSUME Typed, Owned, NEW t \in Tasks, LockFree, task[t].ch \in Channels, mailboxes[task[t].ch] = None,
         NEW b \in Fresh(BoxIds, BoxRefs), mailboxes' = [mailboxes EXCEPT ![task[t].ch] = b],
         UNCHANGED <<recorded, subs>>, Leaving' = Leaving, task'[t].sub = None, task[t].sub = None,
         \A u \in Tasks : u # t => task'[u] = task[u],
         NEW new, new.sub = None, SameFlags(box'[b], new),
         \A c \in Channels : mailboxes[c] # None => SameFlags(box'[mailboxes[c]], box[mailboxes[c]]),
         \/ new.ready /\ new.subscribed /\ task[t].ch \in ProcessChannels /\ recorded[Proc] # None
         \/ ~new.ready /\ task'[t].pc \in Making /\ task'[t].bx = b /\ task'[t].ch = task[t].ch
  PROVE  RecordedOK' /\ TableOK' /\ NoLeakedSubscription'
<1>1. b \in BoxIds /\ b # None /\ \A c \in Channels : mailboxes[c] # b
  BY FreshBoxIsFree DEF Typed
<1>2. mailboxes'[task[t].ch] = b /\ \A c \in Channels : c # task[t].ch => mailboxes'[c] = mailboxes[c]
  BY DEF Typed, TypeOK
<1>3. RecordedOK'
  BY DEF Owned, RecordedOK
<1>4. ASSUME NEW c \in Channels, mailboxes'[c] # None PROVE SlotOK(c)'
  <2>1. CASE c = task[t].ch
    BY <1>1, <1>2, <2>1 DEF SlotOK, SameFlags
  <2>2. CASE c # task[t].ch
    <3>1. /\ mailboxes'[c] = mailboxes[c] /\ mailboxes[c] # None /\ mailboxes[c] # b
          /\ SlotOK(c) /\ SameFlags(box'[mailboxes[c]], box[mailboxes[c]])
      BY <1>1, <1>2, <1>4, <2>2 DEF Owned, TableOK
    <3>2. box[mailboxes[c]].ready
      <4>1. t \in Tasks /\ task[t].ch # c
        BY <2>2
      <4> QED BY <3>1, <4>1, OthersReady
    <3>3. \A d \in Channels : mailboxes'[d] = mailboxes[c] => d = c
      BY <1>2, <3>1 DEF SlotOK
    <3> QED BY <3>1, <3>2, <3>3 DEF SlotOK, SameFlags
  <2> QED BY <2>1, <2>2
<1>5. TableOK'
  BY <1>4 DEF TableOK, SlotOK
<1>6. NoLeakedSubscription'
  <2> SUFFICES ASSUME NEW r \in Live, r \notin Leaving
               PROVE  \/ \E u \in Tasks : task'[u].sub = r
                      \/ \E k \in Keys : recorded[k] = r
                      \/ \E c \in PlainChannels : mailboxes'[c] # None /\ box'[mailboxes'[c]].sub = r
    BY DEF NoLeakedSubscription, Live
  <2>1. r # None
    BY SubIdsAreSome DEF Live
  <2>2. CASE \E u \in Tasks : task[u].sub = r
    BY <2>1, <2>2
  <2>3. CASE \E c \in PlainChannels : mailboxes[c] # None /\ box[mailboxes[c]].sub = r
    BY <1>2, <2>3 DEF SameFlags, Channels
  <2> QED BY <2>2, <2>3 DEF Owned, NoLeakedSubscription
<1> QED BY <1>3, <1>5, <1>6

\* subscribe_lock acquired: the winner's mailbox is shared.
LEMMA SharedOwns ==
  ASSUME Typed, Owned, NEW t \in Tasks, LockRun(t), mailboxes[task[t].ch] # None, UNCHANGED mailboxes,
         HandOut(t, task[t], mailboxes[task[t].ch], box)
  PROVE  Owned'
<1> DEFINE b == mailboxes[task[t].ch]
<1>1. /\ task[t].pc = "lock" /\ LockFree /\ UNCHANGED <<recorded, generation, server>>
      /\ task[t] \in Calls /\ task[t].ch \in Channels /\ task[t].ch # None
      /\ task[t].op = "add" => task[t].grp # None
      /\ task[t].pc \notin Holding \cup Tidying
  BY CallFields DEF LockRun, Typed, Shaped, Holding, Tidying, LockedTidying
<1>2. task[t].sub = None /\ task[t].todo = {} /\ task[t].pc \notin Making
  BY <1>1, AtRest
<1>3. b \in BoxIds /\ box[b].ready /\ box \in [BoxIds -> Boxes]
  BY <1>1, <1>2, OthersReady DEF Typed, TypeOK
<1>4. Rests(t, box)
  <2> HIDE DEF b
  <2>1. HandOut(t, task[t], b, box)
    BY DEF b
  <2> QED BY <1>1, <1>2, <1>3, <2>1, HandOutRests DEF Typed
<1>5. \A x \in BoxIds : SameFlags(box[x], box[x])
  BY DEF SameFlags
<1> QED BY <1>1, <1>2, <1>3, <1>4, <1>5, WaitersRest DEF server

\* A process channel of a process that is subscribed needs no subscription of its own.
LEMMA RegisteredReadyOwns ==
  ASSUME Typed, Owned, NEW t \in Tasks, LockRun(t), mailboxes[task[t].ch] = None,
         NEW b \in Fresh(BoxIds, BoxRefs), mailboxes' = [mailboxes EXCEPT ![task[t].ch] = b],
         task[t].ch \in ProcessChannels, recorded[Proc] # None,
         HandOut(t, task[t], b, [box EXCEPT ![b] = [NewBox EXCEPT !.ready = TRUE, !.subscribed = TRUE]])
  PROVE  Owned'
<1> DEFINE new == [NewBox EXCEPT !.ready = TRUE, !.subscribed = TRUE]
           nb == [box EXCEPT ![b] = new]
<1>1. /\ task[t].pc = "lock" /\ LockFree /\ UNCHANGED <<recorded, generation, server>>
      /\ task[t] \in Calls /\ task[t].ch \in Channels /\ task[t].ch # None
      /\ task[t].op = "add" => task[t].grp # None
      /\ task[t].pc \notin Holding \cup Tidying
  BY CallFields DEF LockRun, Typed, Shaped, Holding, Tidying, LockedTidying
<1>2. task[t].sub = None /\ task[t].todo = {} /\ task[t].pc \notin Making
  BY <1>1, AtRest
<1>3. b \in BoxIds /\ b # None /\ (\A c \in Channels : mailboxes[c] # b) /\ \A u \in Tasks : task[u].rd # b
  BY FreshBoxIsFree DEF Typed
<1>4. new \in Boxes /\ new.ready /\ new.subscribed /\ new.sub = None
  <2>1. NewBox \in Boxes
    BY Bounds DEF NewBox, Boxes
  <2>2. NewBox.sub = None
    BY DEF NewBox
  <2> QED BY <2>1, <2>2 DEF Boxes
<1> HIDE DEF new
<1>5. /\ nb \in [BoxIds -> Boxes] /\ nb[b] = new
      /\ \A x \in BoxIds : x # b => nb[x] = box[x]
  BY <1>3, <1>4 DEF Typed, TypeOK
<1> HIDE DEF nb
<1>6. Rests(t, nb)
  <2>1. HandOut(t, task[t], b, nb)
    BY DEF nb, new
  <2> QED BY <1>1, <1>2, <1>3, <1>4, <1>5, <2>1, HandOutRests DEF Typed
<1>7. /\ Exclusive' /\ CallsOwn'
      /\ task'[t].sub = None /\ \A u \in Tasks : u # t => task'[u] = task[u]
      /\ Leaving' = Leaving
      /\ \A c \in Channels : mailboxes'[c] # None => SameFlags(box'[mailboxes'[c]], nb[mailboxes'[c]])
  <2>1. \A x \in BoxIds : (\E u \in Tasks : task[u].rd = x) /\ box[x].ready => nb[x].ready
    BY <1>3, <1>5
  <2> QED BY <1>1, <1>2, <1>5, <1>6, <2>1, RestsApart DEF server
<1>8. /\ SameFlags(box'[b], new)
      /\ \A c \in Channels : mailboxes[c] # None => SameFlags(box'[mailboxes[c]], box[mailboxes[c]])
  <2>1. mailboxes'[task[t].ch] = b /\ \A c \in Channels : c # task[t].ch => mailboxes'[c] = mailboxes[c]
    BY <1>1 DEF Typed, TypeOK
  <2> QED BY <1>1, <1>3, <1>5, <1>7, <2>1 DEF Typed, TypeOK
<1>9. RecordedOK' /\ TableOK' /\ NoLeakedSubscription'
  BY <1>1, <1>2, <1>4, <1>7, <1>8, RegisteredTables DEF server
<1> QED BY <1>7, <1>9 DEF Owned

\* A mailbox registered before its subscribe.
LEMMA RegisteredOwns ==
  ASSUME Typed, Owned, NEW t \in Tasks, LockRun(t), mailboxes[task[t].ch] = None,
         NEW b \in Fresh(BoxIds, BoxRefs), mailboxes' = [mailboxes EXCEPT ![task[t].ch] = b],
         ~(task[t].ch \in ProcessChannels /\ recorded[Proc] # None),
         Become(t, [task[t] EXCEPT !.pc = "sub", !.bx = b, !.gen = generation]),
         StoreBoxes([box EXCEPT ![b] = NewBox])
  PROVE  Owned'
<1> DEFINE nb == [box EXCEPT ![b] = NewBox]
           me == [task[t] EXCEPT !.pc = "sub", !.bx = b, !.gen = generation]
<1>1. /\ task[t].pc = "lock" /\ LockFree /\ UNCHANGED <<recorded, generation, server>>
      /\ task[t] \in Calls /\ task[t].ch \in Channels
      /\ task[t].pc \notin Holding \cup Tidying
  BY CallFields DEF LockRun, Typed, Shaped, Holding, Tidying, LockedTidying
<1>2. task[t].sub = None /\ task[t].todo = {}
  BY <1>1, AtRest
<1>3. b \in BoxIds /\ b # None /\ (\A c \in Channels : mailboxes[c] # b) /\ \A u \in Tasks : task[u].rd # b
  BY FreshBoxIsFree DEF Typed
<1>4. NewBox.sub = None /\ ~NewBox.ready
  BY DEF NewBox
<1>5. nb[b] = NewBox /\ \A x \in BoxIds : x # b => nb[x] = box[x]
  BY <1>3 DEF Typed, TypeOK
<1>6. /\ me.pc = "sub" /\ me.pc \in Making /\ me.bx = b /\ me.gen = generation /\ me.sub = None /\ me.todo = {}
      /\ me.ch = task[t].ch /\ me.rd = task[t].rd
  BY <1>1, <1>2 DEF Calls, Making
<1> HIDE DEF nb, me
<1>7. Become(t, me) /\ StoreBoxes(nb)
  BY DEF me, nb
<1>8. task'[t] = me /\ \A u \in Tasks : u # t => task'[u] = task[u]
  BY <1>7 DEF Become, Typed, TypeOK
<1>9. Leaving' = Leaving
  <2>1. \A u \in Tasks : task'[u].todo = task[u].todo
    BY <1>2, <1>6, <1>8
  <2> QED BY <1>1, <2>1 DEF Leaving, server
<1>10. /\ Exclusive'
       /\ \A u \in Tasks : u # t => CallOK(u)'
  <2>1. \A x \in BoxIds : (\E u \in Tasks : task[u].rd = x) /\ box[x].ready => nb[x].ready
    BY <1>3, <1>5
  <2> QED BY <1>1, <1>7, <2>1, OthersOwn
<1>11. mailboxes'[task[t].ch] = b /\ \A c \in Channels : c # task[t].ch => mailboxes'[c] = mailboxes[c]
  BY <1>1 DEF Typed, TypeOK
<1>12. /\ box'[b] = NewBox
       /\ \A c \in Channels : mailboxes[c] # None => SameFlags(box'[mailboxes[c]], box[mailboxes[c]])
  <2>1. \A c \in Channels : mailboxes'[c] # None => box'[mailboxes'[c]] = nb[mailboxes'[c]]
    BY <1>7, Stored
  <2> QED BY <1>1, <1>3, <1>5, <1>11, <2>1 DEF Typed, TypeOK, SameFlags
<1>13. RecordedOK' /\ TableOK' /\ NoLeakedSubscription'
  <2>1. SameFlags(box'[b], NewBox)
    BY <1>12 DEF SameFlags
  <2> QED BY <1>1, <1>2, <1>4, <1>6, <1>8, <1>9, <1>12, <2>1, RegisteredTables DEF server
<1>14. CallOK(t)'
  <2>1. task[t].rd # None => task[t].rd \in BoxIds /\ task[t].rd # b /\ box'[task[t].rd] = nb[task[t].rd]
    BY <1>3, <1>6, <1>7, <1>8, Stored, CallFields DEF Typed
  <2>2. generation <= generation
    BY DEF Typed, TypeOK
  <2>3. HandleOK(t)' /\ AdderOK(t)' /\ MadeOK(t)'
    BY <1>1, <1>6, <1>8, <2>2 DEF HandleOK, AdderOK, MadeOK
  <2>4. ReaderOK(t)'
    BY <1>5, <1>6, <1>8, <2>1 DEF ReaderOK, Owned, CallsOwn, CallOK
  <2>5. MakerOK(t)'
    BY <1>1, <1>3, <1>4, <1>6, <1>8, <1>11, <1>12 DEF MakerOK
  <2> QED BY <2>3, <2>4, <2>5 DEF CallOK
<1> QED BY <1>10, <1>13, <1>14 DEF Owned, CallsOwn

\* The three ways the lock goes.
LEMMA LockRunOwns ==
  ASSUME Typed, Owned, NEW t \in Tasks, LockRun(t)
  PROVE  Owned'
<1> DEFINE c == task[t].ch
<1>1. CASE mailboxes[c] # None
  BY <1>1, SharedOwns DEF LockRun
<1>2. CASE mailboxes[c] = None
  <2>1. PICK b \in Fresh(BoxIds, BoxRefs) :
          /\ mailboxes' = [mailboxes EXCEPT ![c] = b]
          /\ IF c \in ProcessChannels /\ recorded[Proc] # None
             THEN HandOut(t, task[t], b, [box EXCEPT ![b] = [NewBox EXCEPT !.ready = TRUE, !.subscribed = TRUE]])
             ELSE /\ Become(t, [task[t] EXCEPT !.pc = "sub", !.bx = b, !.gen = generation])
                  /\ Store([box EXCEPT ![b] = NewBox])
    BY <1>2 DEF LockRun
  <2>2. CASE c \in ProcessChannels /\ recorded[Proc] # None
    BY <1>2, <2>1, <2>2, RegisteredReadyOwns
  <2>3. CASE ~(c \in ProcessChannels /\ recorded[Proc] # None)
    BY <1>2, <2>1, <2>3, RegisteredOwns DEF Store
  <2> QED BY <2>2, <2>3
<1> QED BY <1>1, <1>2

\* An unsubscribe goes through: nobody owns what was on its way down.
LEMMA UnsubscribedOwns ==
  ASSUME Typed, Owned, NEW s \in SubIds, Unsubscribed(s)
  PROVE  Owned'
<1>1. /\ s \in Leaving
      /\ UNCHANGED <<mailboxes, recorded, generation, task>>
      /\ subs' = [subs EXCEPT ![s] = NoSub] /\ going' = going \ {s}
      /\ StoreBoxes(box)
  BY DEF Unsubscribed, tables, Leaving, Store
<1>2. Leaving' \subseteq Leaving /\ Leaving \subseteq Leaving' \cup {s}
  BY <1>1 DEF Leaving
<1>3. /\ subs'[s] = NoSub
      /\ \A r \in SubIds : r # s => subs'[r] = subs[r]
  BY <1>1 DEF Typed, TypeOK
<1>4. Live' = Live \ {s}
  BY <1>3 DEF Live
<1>5. /\ \A c \in Channels : mailboxes[c] # None => box'[mailboxes[c]] = box[mailboxes[c]]
      /\ \A t \in Tasks : /\ task[t].bx # None => box'[task[t].bx] = box[task[t].bx]
                          /\ task[t].rd # None => box'[task[t].rd] = box[task[t].rd]
  BY <1>1, Stored
<1>6. Exclusive'
  BY <1>1 DEF Owned, Exclusive
<1>7. ASSUME NEW t \in Tasks PROVE CallOK(t)'
  <2>0. CallOK(t)
    BY DEF Owned, CallsOwn
  <2>1. task'[t] = task[t] /\ BoxSub(t)' = BoxSub(t) /\ GroupSub(t)' = GroupSub(t)
    BY <1>1 DEF BoxSub, GroupSub
  <2>2. HandleOK(t)' /\ AdderOK(t)' /\ ReaderOK(t)'
    BY <2>0, <1>1, <1>5 DEF CallOK, HandleOK, AdderOK, ReaderOK
  <2>3. MakerOK(t)'
    BY <2>0, <1>1, <1>5 DEF CallOK, MakerOK
  <2>4. MadeOK(t)'
    <3>1. task[t].pc \in {"conf", "gconf"} => task[t].sub \in SubIds
      BY CallFields DEF Typed, Shaped
    <3> QED BY <2>0, <2>1, <3>1, <1>1, <1>2, <1>3, <1>4 DEF CallOK, MadeOK
  <2> QED BY <2>2, <2>3, <2>4 DEF CallOK
<1>8. RecordedOK'
  <2>1. \A k \in Keys : recorded[k] # None => recorded[k] \in SubIds
    BY DEF Typed, TypeOK
  <2> QED BY <2>1, <1>1, <1>2, <1>3 DEF Owned, RecordedOK
<1>9. ASSUME NEW c \in Channels PROVE SlotOK(c)'
  <2>1. mailboxes[c] # None => (box[mailboxes[c]].sub # None => box[mailboxes[c]].sub \in SubIds)
    BY DEF Typed, TypeOK, Boxes
  <2> QED BY <2>1, <1>1, <1>2, <1>3, <1>5 DEF Owned, TableOK, SlotOK
<1>10. NoLeakedSubscription'
  <2>1. \A c \in PlainChannels : c \in Channels
    BY DEF Channels
  <2> QED BY <2>1, <1>1, <1>2, <1>4, <1>5 DEF Owned, NoLeakedSubscription
<1> QED BY <1>6, <1>7, <1>8, <1>9, <1>10 DEF Owned, CallsOwn, TableOK

-----------------------------------------------------------------------------
(* The invariant. *)

\* Nothing is owned at the start.
LEMMA InitOwned == Init => Owned
<1> SUFFICES ASSUME Init PROVE Owned
  OBVIOUS
<1>1. Live = {} /\ \A t \in Tasks : task[t] = Idle
  BY DEF Init, Live
<1>2. Exclusive
  BY <1>1 DEF Exclusive, Holding, LockedTidying, Idle
<1>3. CallsOwn
  <2> SUFFICES ASSUME NEW t \in Tasks PROVE CallOK(t)
    BY DEF CallsOwn
  <2>1. /\ task[t].pc = "idle" /\ task[t].sub = None /\ task[t].todo = {}
        /\ task[t].gen = 0 /\ task[t].rd = None
    BY <1>1 DEF Idle
  <2> QED BY <2>1 DEF Init, CallOK, HandleOK, MakerOK, AdderOK, MadeOK, ReaderOK, Making
<1>4. RecordedOK /\ TableOK
  BY DEF Init, RecordedOK, TableOK, SlotOK
<1> QED BY <1>1, <1>2, <1>3, <1>4 DEF Owned, NoLeakedSubscription

\* The invariant is inductive as long as no clean-up is cancelled with commands left to give.
LEMMA NextOwned ==
  ASSUME "cancelTidy" \notin Env
  PROVE  TypeOK /\ Owned /\ [Next]_vars => (TypeOK /\ Owned)'
<1> SUFFICES ASSUME TypeOK, Owned, [Next]_vars PROVE (TypeOK /\ Owned)'
  OBVIOUS
<1>1. Typed
  BY NextTyped DEF Typed
<1>2. ASSUME NEW t \in Tasks, Progress(t) PROVE Owned'
  BY <1>1, <1>2, MoveOwns, ReadyWakeOwns, LockRunOwns, SubscribedOwns, ConfirmedOwns, GetOwns,
     GroupLockRunOwns, GroupSubscribedOwns, GroupConfirmedOwns, TidyDoneOwns DEF Progress
<1>3. ASSUME NEW t \in Tasks, Interrupt(t) PROVE Owned'
  BY <1>1, <1>3, SubAbortedOwns, ConfAbortedOwns, WaitCancelledOwns, ReadCancelledOwns,
     GroupAbortedOwns, TidyCancelledOwns DEF Interrupt
<1>4. ASSUME NEW t \in Tasks, Call(t) \/ Progress(t) \/ Interrupt(t) \/ Discard(t) \/ Flush(t)
      PROVE  Owned'
  BY <1>1, <1>2, <1>3, <1>4, CallOwns, DiscardOwns, FlushOwns
<1>5. ASSUME NEW s \in SubIds, Unsubscribed(s) \/ Deliver(s) PROVE Owned'
  BY <1>1, <1>5, UnsubscribedOwns, ArrivesOwns
<1>6. ASSUME NEW c \in ProcessChannels, GraceElapses(c) PROVE Owned'
  BY <1>1, <1>6, ArrivesOwns
<1>7. ASSUME UNCHANGED vars PROVE Owned'
  <2>1. /\ UNCHANGED <<mailboxes, recorded, generation, box, subs, going, task>>
    BY <1>7 DEF vars
  <2>2. Leaving' = Leaving /\ Live' = Live
    BY <2>1 DEF Leaving, Live
  <2>3. Exclusive' /\ RecordedOK' /\ TableOK' /\ NoLeakedSubscription'
    BY <2>1, <2>2 DEF Owned, Exclusive, RecordedOK, TableOK, SlotOK, NoLeakedSubscription
  <2>4. ASSUME NEW t \in Tasks PROVE CallOK(t)'
    BY <2>1, <2>2 DEF Owned, CallsOwn, CallOK, HandleOK, MakerOK, AdderOK, MadeOK, ReaderOK, BoxSub, GroupSub
  <2> QED BY <2>3, <2>4 DEF Owned, CallsOwn
<1>8. ASSUME Next PROVE Owned'
  BY <1>4, <1>5, <1>6, <1>8 DEF Next
<1>9. Owned'
  BY <1>7, <1>8
<1> QED BY <1>1, <1>9 DEF Typed

-----------------------------------------------------------------------------
(* What it gives. *)

\* Where a subscription that is live and not on its way down is found.
OwnerIs(s) ==
    \/ \E t \in Tasks : task[t].sub = s
    \/ \E k \in Keys : recorded[k] = s
    \/ \E c \in PlainChannels : mailboxes[c] # None /\ box[mailboxes[c]].sub = s

\* A subscription a call has made is for the subject it asked for, and that no table has.
LEMMA HandsSubject ==
  ASSUME Owned, TypeOK, NEW t \in Tasks, task[t].sub \in Live
  PROVE  /\ task[t].pc \in {"conf", "gconf"} /\ task[t].pc \in Holding
         /\ \A k \in Keys : recorded[k] # None => subs[task[t].sub].subject # k
         /\ \A c \in PlainChannels :
               /\ mailboxes[c] # None
               /\ box[mailboxes[c]].sub # None
               /\ subs[task[t].sub].subject = Chan(c)
               => box[mailboxes[c]].sub = task[t].sub
<1> DEFINE s == task[t].sub
<1>1. s # None /\ s \in SubIds /\ subs[s] # NoSub
  BY SubIdsAreSome DEF Live
<1>2. task[t].pc \in {"conf", "gconf"} /\ task[t].pc \in Holding /\ task[t].ch \in Channels
  BY <1>1, CallFields DEF Owned, CallsOwn, CallOK, HandleOK, Shaped, Holding
<1>3. CASE task[t].pc = "conf"
  <2>1. subs[s] = BoxSub(t) /\ MakerOK(t) /\ task[t].pc \in Making
    BY <1>1, <1>3 DEF Owned, CallsOwn, CallOK, MadeOK, Making
  <2>2. subs[s].subject = IF task[t].ch \in ProcessChannels THEN Proc ELSE Chan(task[t].ch)
    BY <2>1 DEF BoxSub
  <2>3. task[t].ch \in ProcessChannels => recorded[Proc] = None
    BY <2>1 DEF MakerOK
  <2>4. \A k \in Keys : recorded[k] # None => subs[s].subject # k
    BY <2>2, <2>3, SubjectsDiffer
  <2>5. ASSUME NEW c \in PlainChannels, mailboxes[c] # None, box[mailboxes[c]].sub # None,
               subs[s].subject = Chan(c)
        PROVE  box[mailboxes[c]].sub = s
    <3>1. Chan(c) # Proc
      BY SubjectsDiffer
    <3>2. c = task[t].ch /\ c \in PlainChannels
      BY <2>2, <2>5, <3>1, SubjectsDiffer
    <3>3. mailboxes[c] = task[t].bx /\ box[task[t].bx].sub = s
      BY <1>3, <2>1, <2>5, <3>2 DEF MakerOK
    <3> QED BY <3>3
  <2> QED BY <1>2, <2>4, <2>5
<1>4. CASE task[t].pc = "gconf"
  <2> DEFINE k == Feeds(task[t].grp, task[t].ch)
  <2>1. k \in Keys
    BY <1>4, CallFields, FeedsIsKey DEF Shaped
  <2>2. recorded[k] = None
    BY <1>4 DEF Owned, CallsOwn, CallOK, AdderOK
  <2>3. subs[s].subject = k
    <3>1. subs[s] = GroupSub(t)
      BY <1>4 DEF Owned, CallsOwn, CallOK, MadeOK
    <3> QED BY <3>1 DEF GroupSub
  <2> HIDE DEF k
  <2>4. \A c : k # Chan(c)
    BY <2>1, SubjectsDiffer
  <2> QED BY <1>2, <2>1, <2>2, <2>3, <2>4
<1> QED BY <1>2, <1>3, <1>4

\* Who owns what makes subscriptions of one subject one.
LEMMA OwnedIsOne == TypeOK /\ Owned => OneSubscriptionPerSubject
<1> SUFFICES ASSUME TypeOK, Owned, NEW s \in Live \ Leaving, NEW r \in Live \ Leaving,
                    subs[s].subject = subs[r].subject
             PROVE  s = r
  BY DEF OneSubscriptionPerSubject
<1>1. /\ s \in SubIds /\ s # None /\ OwnerIs(s)
      /\ r \in SubIds /\ r # None /\ OwnerIs(r)
  BY SubIdsAreSome DEF Owned, NoLeakedSubscription, Live, OwnerIs
<1>2. ASSUME NEW x, NEW y, x \in Live, y \in Live, x # None, y # None,
             subs[x].subject = subs[y].subject, NEW t \in Tasks, task[t].sub = x, OwnerIs(y)
      PROVE  x = y
  <2>1. CASE \E u \in Tasks : task[u].sub = y
    BY <1>2, <2>1, HandsSubject DEF Owned, Exclusive
  <2>2. CASE \E k \in Keys : recorded[k] = y
    BY <1>2, <2>2, HandsSubject DEF Owned, RecordedOK
  <2>3. CASE \E c \in PlainChannels : mailboxes[c] # None /\ box[mailboxes[c]].sub = y
    <3>1. PICK c \in PlainChannels : mailboxes[c] # None /\ box[mailboxes[c]].sub = y
      BY <2>3
    <3>2. subs[y].subject = Chan(c)
      BY <1>2, <3>1 DEF Owned, TableOK, SlotOK, Channels
    <3> QED BY <1>2, <3>1, <3>2, HandsSubject
  <2> QED BY <1>2, <2>1, <2>2, <2>3 DEF OwnerIs
<1>3. CASE \E t \in Tasks : task[t].sub = s \/ task[t].sub = r
  BY <1>1, <1>2, <1>3
<1>4. CASE ~\E t \in Tasks : task[t].sub = s \/ task[t].sub = r
  <2>1. /\ \A k \in Keys : recorded[k] # None => subs[recorded[k]].subject = k
        /\ \A c \in PlainChannels : mailboxes[c] # None /\ box[mailboxes[c]].sub # None =>
              subs[box[mailboxes[c]].sub].subject = Chan(c)
    BY DEF Owned, RecordedOK, TableOK, SlotOK, Channels
  <2> QED BY <1>1, <1>4, <2>1, SubjectsDiffer DEF OwnerIs
<1> QED BY <1>3, <1>4

\* A mailbox that looks ready has its subscription, and the server has it.
LEMMA OwnedIsFed == TypeOK /\ Owned => ReadyMailboxIsFed
<1> SUFFICES ASSUME TypeOK, Owned, NEW c \in Channels, mailboxes[c] # None, box[mailboxes[c]].ready
             PROVE  box[mailboxes[c]].subscribed /\ Fed(mailboxes[c], c)
  BY DEF ReadyMailboxIsFed
<1> DEFINE b == mailboxes[c]
<1>1. b \in BoxIds /\ box[b].sub \in SubIds \cup {None} /\ recorded[Proc] \in SubIds \cup {None}
  BY SubjectsDiffer DEF TypeOK, Boxes
<1>2. box[b].subscribed
  BY DEF Owned, TableOK, SlotOK
<1>3. \A s \in SubIds : subs[s].subject # None => s \in Live
  BY DEF Live, NoSub
<1>4. CASE c \in ProcessChannels
  <2>1. recorded[Proc] # None
    BY <1>4 DEF Owned, TableOK, SlotOK
  <2>2. subs[recorded[Proc]].subject = Proc
    BY <2>1, SubjectsDiffer DEF Owned, RecordedOK
  <2>3. recorded[Proc] \in Live
    BY <1>1, <1>3, <2>1, <2>2, SubjectsDiffer
  <2> QED BY <1>2, <1>4, <2>3 DEF Fed
<1>5. CASE c \notin ProcessChannels
  <2>1. c \in PlainChannels /\ box[b].sub # None /\ subs[box[b].sub].subject = Chan(c)
    BY <1>5 DEF Owned, TableOK, SlotOK, Channels
  <2>2. box[b].sub \in Live
    BY <1>1, <1>3, <2>1, SubjectsDiffer
  <2> QED BY <1>2, <1>5, <2>2 DEF Fed
<1> QED BY <1>4, <1>5

\* Every subscription the server has is in a table, in the hands of the call that makes it
\* or on its way down, whatever calls are cancelled or fail in _mailbox(), receive(),
\* group_add(), group_discard() and flush(), but for a clean-up cut short.
THEOREM NothingLeaks ==
  ASSUME "cancelTidy" \notin Env
  PROVE  Spec => []NoLeakedSubscription
<1>1. Owned => NoLeakedSubscription
  BY DEF Owned
<1> QED BY <1>1, InitTyped, InitOwned, NextOwned, PTL DEF Spec

\* No subject has two subscriptions that nobody is taking down, whatever calls race to make
\* them: no message comes twice.
THEOREM SubjectsHaveOne ==
  ASSUME "cancelTidy" \notin Env
  PROVE  Spec => []OneSubscriptionPerSubject
  BY OwnedIsOne, InitTyped, InitOwned, NextOwned, PTL DEF Spec

\* A mailbox that _mailbox() would hand out as ready is subscribed and the server feeds it.
THEOREM ReadyIsFed ==
  ASSUME "cancelTidy" \notin Env
  PROVE  Spec => []ReadyMailboxIsFed
  BY OwnedIsFed, InitTyped, InitOwned, NextOwned, PTL DEF Spec

\* What is recorded is up.
LEMMA MembershipsDeliver == TypeOK /\ RecordedOK /\ Memberships => JoinedIsDelivered
<1> SUFFICES ASSUME TypeOK, RecordedOK, Memberships, NEW p \in joined
             PROVE  p[2] \in Members(p[1]) /\ recorded[Feeds(p[1], p[2])] \in Live
  BY DEF JoinedIsDelivered
<1> DEFINE k == Feeds(p[1], p[2])
<1>1. p[2] \in Members(p[1]) /\ recorded[k] # None /\ k \in Keys
  BY FeedsIsKey DEF Memberships, JoinedOK, TypeOK
<1> HIDE DEF k
<1>2. recorded[k] \in SubIds /\ subs[recorded[k]].subject = k /\ k # None
  BY <1>1, SubjectsDiffer DEF RecordedOK, TypeOK
<1>3. recorded[k] \in Live
  BY <1>2 DEF Live, NoSub
<1> QED BY <1>1, <1>3 DEF k

\* Whatever adds, discards, flushes, sweeps and cancelled calls come in between: what
\* group_add() returned for is in the group, and the subscription that feeds it is up, until
\* it is given up. No group_add() fails, and no clean-up is cut short.
THEOREM JoinedStaysDelivered ==
  ASSUME "cancelTidy" \notin Env, "abortAdd" \notin Env
  PROVE  Spec => []JoinedIsDelivered
<1>1. Inv /\ Owned /\ Memberships /\ [Next]_vars => (Inv /\ Owned /\ Memberships)'
  BY NextKeeps, NextOwned, NextStays, NextTyped DEF Typed, Inv, MembersStay
<1>2. Inv /\ Owned /\ Memberships => JoinedIsDelivered
  BY MembershipsDeliver DEF Inv, Owned
<1> QED BY <1>1, <1>2, InitInv, InitOwned, InitMemberships, PTL DEF Spec
=============================================================================
