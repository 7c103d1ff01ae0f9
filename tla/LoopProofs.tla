----------------------------- MODULE LoopProofs -----------------------------
(***************************************************************************)
(* For any tasks, channels and groups: every call keeps the types of the   *)
(* tables, and a call has the arguments its place in the code needs.       *)
(*                                                                         *)
(* Whatever is cancelled outside group_add(), a group's subscription is    *)
(* recorded only while the group has a member it serves, and no two groups *)
(* share a set of members.  A group_add() that fails is left out there: it *)
(* may take a set out of the table that is not its own, with what another  *)
(* call has just added to it.  And what group_add() leaves behind: who     *)
(* counts as a member stays one, until it is given up.                     *)
(***************************************************************************)
EXTENDS LoopState, TLAPS

Subscriptions == [subject : Subjects, box : BoxIds \cup {None}]

\* The parts of the type invariant.
TablesOK ==
    /\ mailboxes \in [Channels -> BoxIds \cup {None}]
    /\ groups \in [Groups -> SetIds \cup {None}]
    /\ recorded \in [Keys -> SubIds \cup {None}]
    /\ generation \in 0..MaxFlushes
ServerOK ==
    /\ subs \in [SubIds -> Subscriptions \cup {NoSub}]
    /\ going \subseteq SubIds
StoreOK ==
    /\ members \in [SetIds -> SUBSET Channels]
    /\ box \in [BoxIds -> Boxes]
HistoryOK ==
    /\ joined \subseteq Groups \X Channels
    /\ due \subseteq Tasks
ShapedCalls == {me \in Calls : Shaped(me)}
CallsOK == task \in [Tasks -> ShapedCalls]

\* The parts are the whole.
LEMMA TypeParts == TypeOK <=> TablesOK /\ ServerOK /\ StoreOK /\ HistoryOK /\ CallsOK
<1>1. CallsOK <=> task \in [Tasks -> Calls] /\ \A t \in Tasks : Shaped(task[t])
  BY DEF CallsOK, ShapedCalls
<1> QED BY <1>1 DEF TypeOK, TablesOK, ServerOK, StoreOK, HistoryOK, Subscriptions

\* The parts make up the type invariant of the next state.
LEMMA TypePartsNext == TablesOK' /\ ServerOK' /\ StoreOK' /\ HistoryOK' /\ CallsOK' => TypeOK'
<1>1. CallsOK' <=> task' \in [Tasks -> Calls] /\ \A t \in Tasks : Shaped(task'[t])
  BY DEF CallsOK, ShapedCalls
<1> QED BY <1>1 DEF TypeOK, TablesOK, ServerOK, StoreOK, HistoryOK, Subscriptions

-----------------------------------------------------------------------------
(* The pieces of the calls. *)

\* What is stored has the types of what was computed.
LEMMA StoreBoxesTyped ==
  ASSUME NEW nb \in [BoxIds -> Boxes], StoreBoxes(nb)
  PROVE  box' \in [BoxIds -> Boxes]
<1>1. NewBox \in Boxes
  BY Bounds DEF NewBox, Boxes
<1> QED BY <1>1 DEF StoreBoxes

\* Storing sets keeps the sets of channels they are.
LEMMA StoreSetsTyped ==
  ASSUME NEW ns \in [SetIds -> SUBSET Channels], StoreSets(ns)
  PROVE  members' \in [SetIds -> SUBSET Channels]
  BY DEF StoreSets

\* Storing boxes and leaving sets keeps both.
LEMMA StoreTyped ==
  ASSUME NEW nb \in [BoxIds -> Boxes], Store(nb), StoreOK
  PROVE  StoreOK'
  BY StoreBoxesTyped, StoreSetsTyped DEF Store, StoreOK

\* A reader that leaves changes its mailbox only.
LEMMA LeaveTyped ==
  ASSUME NEW nb \in [BoxIds -> Boxes], NEW r \in BoxIds \cup {None}, NEW cancelled \in BOOLEAN
  PROVE  Leave(nb, r, cancelled) \in [BoxIds -> Boxes]
<1>1. CASE r = None
  BY <1>1 DEF Leave
<1>2. CASE r # None
  <2>1. nb[r] \in Boxes
    BY <1>2
  <2> DEFINE n == nb[r].receivers - 1
  <2>2. n \in Int
    BY <2>1 DEF Boxes
  <2> DEFINE left == [nb[r] EXCEPT !.receivers = n, !.aged = @ /\ n # 0, !.left = cancelled /\ n = 0]
  <2>3. Leave(nb, r, cancelled) = [nb EXCEPT ![r] = left]
    BY <1>2 DEF Leave
  <2>4. left \in Boxes
    <3> HIDE DEF n
    <3> QED BY <2>1, <2>2 DEF Boxes
  <2> HIDE DEF left
  <2> QED BY <2>3, <2>4
<1> QED BY <1>1, <1>2

\* A task that becomes a well-shaped call leaves the others as they were.
LEMMA BecomeTyped ==
  ASSUME CallsOK, NEW t \in Tasks, NEW me \in ShapedCalls, Become(t, me)
  PROVE  CallsOK'
  BY DEF CallsOK, Become

\* A coroutine at rest is a call of the right shape.
LEMMA IdleTyped == Idle \in ShapedCalls
  BY Bounds DEF Idle, ShapedCalls, Calls, Shaped, PCs, Ops

\* Taking down subscriptions, to go on as a call of the shape wanted.
LEMMA TidyTyped ==
  ASSUME CallsOK, ServerOK, NEW t \in Tasks, NEW ss \in SUBSET SubIds, NEW pc \in PCs, NEW me \in Calls,
         \A td \in SUBSET SubIds : [me EXCEPT !.pc = pc, !.todo = td] \in ShapedCalls,
         Tidy(t, ss, pc, me)
  PROVE  CallsOK' /\ going' \subseteq SubIds
<1>1. [me EXCEPT !.pc = pc] \in ShapedCalls
  <2>1. me.todo \in SUBSET SubIds
    BY DEF Calls
  <2>2. [me EXCEPT !.pc = pc] = [me EXCEPT !.pc = pc, !.todo = me.todo]
    BY DEF Calls
  <2> QED BY <2>1, <2>2
<1>2. CASE ss = {}
  BY <1>1, <1>2, BecomeTyped DEF Tidy, ServerOK
<1>3. CASE ss # {}
  <2> DEFINE first == CHOOSE s \in ss : TRUE
  <2>1. first \in ss
    BY <1>3
  <2>2. [me EXCEPT !.pc = pc, !.todo = ss \ {first}] \in ShapedCalls
    OBVIOUS
  <2>3. /\ Become(t, [me EXCEPT !.pc = pc, !.todo = ss \ {first}])
        /\ going' = going \cup {first}
    BY <1>3 DEF Tidy
  <2> QED BY <2>1, <2>2, <2>3, BecomeTyped DEF ServerOK
<1> QED BY <1>2, <1>3

\* A call that ends is idle and its mailbox, if it was reading, has one reader less.
LEMMA EndsTyped ==
  ASSUME CallsOK, StoreOK, NEW t \in Tasks, NEW nb \in [BoxIds -> Boxes], NEW cancelled \in BOOLEAN,
         Ends(t, nb, cancelled)
  PROVE  CallsOK' /\ StoreOK'
<1>1. task[t].rd \in BoxIds \cup {None}
  BY DEF CallsOK, ShapedCalls, Calls
<1>2. Leave(nb, task[t].rd, cancelled) \in [BoxIds -> Boxes]
  BY <1>1, LeaveTyped
<1> QED BY <1>2, IdleTyped, BecomeTyped, StoreTyped DEF Ends

\* Reads counted in or out of a mailbox.
LEMMA CountedTyped ==
  ASSUME NEW nb \in [BoxIds -> Boxes], NEW b, NEW left \in BOOLEAN
  PROVE  /\ [nb EXCEPT ![b].receivers = @ + 1, ![b].left = left] \in [BoxIds -> Boxes]
         /\ [nb EXCEPT ![b].receivers = @ - 1] \in [BoxIds -> Boxes]
<1>1. CASE b \in BoxIds
  <2>1. nb[b] \in Boxes
    BY <1>1
  <2> DEFINE r1 == [nb[b] EXCEPT !.receivers = @ + 1, !.left = left]
             r2 == [nb[b] EXCEPT !.receivers = @ - 1]
  <2>2. nb[b].receivers + 1 \in Int /\ nb[b].receivers - 1 \in Int
    BY <2>1 DEF Boxes
  <2>3. r1 \in Boxes
    BY <2>1, <2>2 DEF Boxes
  <2>4. r2 \in Boxes
    BY <2>1, <2>2 DEF Boxes
  <2>5. /\ [nb EXCEPT ![b].receivers = @ + 1, ![b].left = left] = [nb EXCEPT ![b] = r1]
        /\ [nb EXCEPT ![b].receivers = @ - 1] = [nb EXCEPT ![b] = r2]
    BY <1>1
  <2> HIDE DEF r1, r2
  <2> QED BY <2>3, <2>4, <2>5
<1>2. CASE b \notin BoxIds
  BY <1>2
<1> QED BY <1>1, <1>2

\* A mailbox handed out goes to a read, to the caller of new_channel(), or to a group_add()
\* that makes its channel a member.
LEMMA HandOutTyped ==
  ASSUME TypeOK, NEW t \in Tasks, NEW call \in Calls, call.ch # None,
         call.op = "add" => call.grp # None,
         NEW b \in BoxIds, NEW nb \in [BoxIds -> Boxes], HandOut(t, call, b, nb)
  PROVE  /\ CallsOK' /\ StoreOK'
         /\ groups' \in [Groups -> SetIds \cup {None}]
         /\ due' \subseteq Tasks
<1> DEFINE me == [call EXCEPT !.bx = None, !.sub = None, !.gen = 0]
<1>1. /\ me \in Calls
      /\ me.ch = call.ch /\ me.op = call.op /\ me.grp = call.grp /\ me.rd = call.rd
  <2>1. 0 \in 0..MaxFlushes
    BY Bounds
  <2>2. me \in Calls
    BY <2>1 DEF Calls
  <2>3. me.ch = call.ch /\ me.op = call.op /\ me.grp = call.grp /\ me.rd = call.rd
    BY DEF Calls
  <2> QED BY <2>2, <2>3
<1>2. /\ groups \in [Groups -> SetIds \cup {None}] /\ due \subseteq Tasks
      /\ members \in [SetIds -> SUBSET Channels] /\ CallsOK /\ StoreOK
  BY TypeParts DEF TablesOK, HistoryOK, StoreOK
<1> HIDE DEF me
<1>3. CASE HandToRead(t, me, b, nb)
  <2> DEFINE pc == IF nb[b].superseded THEN "move" ELSE "get"
             counted == [nb EXCEPT ![b].receivers = @ + 1, ![b].left = FALSE]
  <2>1. [me EXCEPT !.pc = pc, !.rd = b] \in ShapedCalls
    <3> DEFINE r == [me EXCEPT !.pc = pc, !.rd = b]
    <3>1. pc \in {"move", "get"} /\ pc \in PCs
      BY DEF PCs
    <3> HIDE DEF pc
    <3>2. r \in Calls
      BY <1>1, <3>1 DEF Calls
    <3>3. r.pc = pc /\ r.op = "receive" /\ r.ch # None /\ r.rd = b /\ b # None
      BY <1>1, <1>3, IdsAreNumbers, NoneIsFresh DEF HandToRead, Calls
    <3>4. Shaped(r)
      BY <3>1, <3>3 DEF Shaped
    <3> QED BY <3>2, <3>4 DEF ShapedCalls
  <2>2. counted \in [BoxIds -> Boxes]
    BY CountedTyped
  <2>3. [counted EXCEPT ![me.rd].receivers = @ - 1] \in [BoxIds -> Boxes]
    BY <2>2, CountedTyped
  <2>4. /\ Become(t, [me EXCEPT !.pc = pc, !.rd = b])
        /\ Store(IF me.rd = None THEN counted ELSE [counted EXCEPT ![me.rd].receivers = @ - 1])
        /\ UNCHANGED <<groups, due>>
    BY <1>3 DEF HandToRead
  <2> HIDE DEF counted, pc
  <2> QED BY <1>2, <2>1, <2>2, <2>3, <2>4, BecomeTyped, StoreTyped
<1>4. CASE HandToCaller(t, me, nb)
  <2>1. [Idle EXCEPT !.pc = "handed", !.ch = me.ch] \in ShapedCalls
    <3> DEFINE r == [Idle EXCEPT !.pc = "handed", !.ch = me.ch]
    <3>1. Idle \in Calls /\ Idle.op = "none" /\ me.ch \in Channels \cup {None} /\ "handed" \in PCs
      BY <1>1, IdleTyped DEF ShapedCalls, Idle, Calls, PCs
    <3>2. r \in Calls
      BY <3>1 DEF Calls
    <3>3. r.pc = "handed" /\ r.op = "none" /\ r.ch # None
      BY <1>1, <3>1 DEF Calls
    <3>4. Shaped(r)
      BY <3>3 DEF Shaped
    <3> QED BY <3>2, <3>4 DEF ShapedCalls
  <2> QED BY <1>2, <1>4, <2>1, BecomeTyped, StoreTyped DEF HandToCaller
<1>5. CASE HandToAdd(t, me, nb)
  <2>1. PICK x \in IF groups[me.grp] = None THEN Fresh(SetIds, SetRefs) ELSE {groups[me.grp]} :
             /\ groups' = [groups EXCEPT ![me.grp] = x]
             /\ Become(t, [me EXCEPT !.pc = "glock", !.set = x])
             /\ StoreBoxes(nb)
             /\ StoreSets([members EXCEPT ![x] = @ \cup {me.ch}])
    BY <1>5 DEF HandToAdd
  <2>2. me.op = "add" /\ me.grp \in Groups /\ me.ch \in Channels
    BY <1>1, <1>5 DEF HandToAdd, Calls
  <2>3. x \in SetIds
    BY <1>2, <2>1, <2>2 DEF Fresh
  <2>4. [me EXCEPT !.pc = "glock", !.set = x] \in ShapedCalls
    BY <1>1, <2>2, <2>3 DEF ShapedCalls, Calls, Shaped, PCs, Holding
  <2>5. [members EXCEPT ![x] = @ \cup {me.ch}] \in [SetIds -> SUBSET Channels]
    BY <1>2, <2>2
  <2> QED BY <1>2, <1>5, <2>1, <2>3, <2>4, <2>5, BecomeTyped, StoreBoxesTyped, StoreSetsTyped
          DEF HandToAdd, StoreOK
<1> QED BY <1>3, <1>4, <1>5 DEF HandOut, me

\* _mailbox() waits, or hands out what it found.
LEMMA LookUpTyped ==
  ASSUME TypeOK, NEW t \in Tasks, NEW call \in Calls, call.ch # None,
         call.op = "add" => call.grp # None,
         mailboxes' \in [Channels -> BoxIds \cup {None}],
         NEW nb \in [BoxIds -> Boxes], LookUp(t, call, nb)
  PROVE  /\ CallsOK' /\ StoreOK'
         /\ groups' \in [Groups -> SetIds \cup {None}]
         /\ due' \subseteq Tasks
<1> DEFINE b == mailboxes'[call.ch]
           pc == IF b = None THEN "lock" ELSE "ready"
           waiting == [call EXCEPT !.pc = pc, !.bx = b, !.gen = 0]
<1>1. b \in BoxIds \cup {None}
  BY DEF Calls
<1>2. CASE UNCHANGED <<groups, due>> /\ Become(t, waiting) /\ Store(nb)
  <2>1. waiting \in ShapedCalls
    <3>1. pc \in {"lock", "ready"} /\ pc \in PCs /\ 0 \in 0..MaxFlushes
      BY Bounds DEF PCs
    <3> HIDE DEF pc, b
    <3>2. waiting \in Calls
      BY <1>1, <3>1 DEF Calls
    <3>3. /\ waiting.pc = pc /\ waiting.op = call.op /\ waiting.ch = call.ch /\ waiting.grp = call.grp
          /\ waiting.bx = b /\ pc = "ready" => b # None
      BY DEF Calls, pc
    <3>4. Shaped(waiting)
      BY <3>1, <3>3 DEF Shaped
    <3> QED BY <3>2, <3>4 DEF ShapedCalls
  <2> HIDE DEF waiting
  <2> QED BY <1>2, <2>1, TypeParts, BecomeTyped, StoreTyped DEF TablesOK, HistoryOK
<1>3. CASE b # None /\ HandOut(t, call, b, nb)
  <2> HIDE DEF b
  <2> QED BY <1>1, <1>3, HandOutTyped
<1> QED BY <1>2, <1>3 DEF LookUp

-----------------------------------------------------------------------------
(* What every action needs to know of a task, and where it may go. *)

\* What the type invariant says of one task.
LEMMA CallFields ==
  ASSUME TypeOK, NEW t \in Tasks
  PROVE  /\ task[t] \in Calls /\ Shaped(task[t])
         /\ task[t].pc \in PCs /\ task[t].op \in Ops
         /\ task[t].ch \in Channels \cup {None} /\ task[t].grp \in Groups \cup {None}
         /\ task[t].bx \in BoxIds \cup {None} /\ task[t].rd \in BoxIds \cup {None}
         /\ task[t].set \in SetIds \cup {None} /\ task[t].sub \in SubIds \cup {None}
         /\ task[t].todo \in SUBSET SubIds
<1>1. task[t] \in Calls /\ Shaped(task[t])
  BY DEF TypeOK
<1> QED BY <1>1 DEF Calls

\* An identity is never None.
LEMMA SubIdsAreSome == \A s \in SubIds : s # None
  BY IdsAreNumbers, NoneIsFresh

\* A task that holds what Shaped asks for may go on at pc.
LEMMA MoveShaped ==
  ASSUME NEW me \in Calls, Shaped(me), NEW pc \in PCs,
         me.ch # None, pc \in {"glock", "gsub", "gconf", "tidyAdd", "tidyAddFail"} => me.op = "add",
         pc \in {"get", "move"} => me.rd # None
  PROVE  /\ pc \notin {"ready", "sub", "conf", "gconf"} => [me EXCEPT !.pc = pc] \in ShapedCalls
         /\ (pc \in {"ready", "sub", "conf"} => me.bx # None) =>
               \A s \in SubIds : [me EXCEPT !.pc = pc, !.sub = s] \in ShapedCalls
         /\ pc \notin {"conf", "gconf"} =>
               \A b \in BoxIds, gen \in 0..MaxFlushes : [me EXCEPT !.pc = pc, !.bx = b, !.gen = gen] \in ShapedCalls
<1>1. ASSUME pc \notin {"ready", "sub", "conf", "gconf"} PROVE [me EXCEPT !.pc = pc] \in ShapedCalls
  <2> DEFINE r == [me EXCEPT !.pc = pc]
  <2>1. r \in Calls
    BY DEF Calls
  <2>2. r.pc = pc /\ r.op = me.op /\ r.ch = me.ch /\ r.grp = me.grp /\ r.bx = me.bx /\ r.rd = me.rd
    BY DEF Calls
  <2>3. Shaped(r)
    BY <1>1, <2>2 DEF Shaped
  <2> QED BY <2>1, <2>3 DEF ShapedCalls
<1>2. ASSUME pc \in {"ready", "sub", "conf"} => me.bx # None, NEW s \in SubIds
      PROVE  [me EXCEPT !.pc = pc, !.sub = s] \in ShapedCalls
  <2> DEFINE r == [me EXCEPT !.pc = pc, !.sub = s]
  <2>1. r \in Calls
    BY DEF Calls
  <2>2. r.pc = pc /\ r.op = me.op /\ r.ch = me.ch /\ r.grp = me.grp /\ r.sub = s
        /\ r.bx = me.bx /\ r.rd = me.rd
    BY DEF Calls
  <2>3. Shaped(r)
    BY <1>2, <2>2, SubIdsAreSome DEF Shaped
  <2> QED BY <2>1, <2>3 DEF ShapedCalls
<1>3. ASSUME pc \notin {"conf", "gconf"}, NEW b \in BoxIds, NEW gen \in 0..MaxFlushes
      PROVE  [me EXCEPT !.pc = pc, !.bx = b, !.gen = gen] \in ShapedCalls
  <2> DEFINE r == [me EXCEPT !.pc = pc, !.bx = b, !.gen = gen]
  <2>1. r \in Calls
    BY DEF Calls
  <2>2. r.pc = pc /\ r.op = me.op /\ r.ch = me.ch /\ r.grp = me.grp /\ r.bx = b /\ r.rd = me.rd
    BY DEF Calls
  <2>3. Shaped(r)
    BY <1>3, <2>2, IdsAreNumbers, NoneIsFresh DEF Shaped
  <2> QED BY <2>1, <2>3 DEF ShapedCalls
<1> QED BY <1>1, <1>2, <1>3

\* A clean-up keeps the call well shaped, whatever it still has to do.
LEMMA TidyShaped ==
  ASSUME NEW me \in Calls, NEW pc \in Tidying,
         pc # "tidyEnd" => me.ch # None,
         pc \in {"tidyAdd", "tidyAddFail"} => me.op = "add",
         me.op = "add" => me.ch # None /\ me.grp # None
  PROVE  /\ pc \in PCs
         /\ \A td \in SUBSET SubIds : [me EXCEPT !.pc = pc, !.todo = td] \in ShapedCalls
<1>1. pc \in PCs /\ pc \notin {"ready", "sub", "conf", "gconf", "idle", "glock", "gsub", "get", "move"}
  BY DEF PCs, Tidying, LockedTidying
<1>2. ASSUME NEW td \in SUBSET SubIds PROVE [me EXCEPT !.pc = pc, !.todo = td] \in ShapedCalls
  <2> DEFINE r == [me EXCEPT !.pc = pc, !.todo = td]
  <2>1. r \in Calls
    BY <1>1 DEF Calls
  <2>2. r.pc = pc /\ r.op = me.op /\ r.ch = me.ch /\ r.grp = me.grp
    BY <1>1 DEF Calls
  <2>3. Shaped(r)
    BY <1>1, <2>2 DEF Shaped
  <2> QED BY <2>1, <2>3 DEF ShapedCalls
<1> QED BY <1>1, <1>2

\* The handle to a subscription can be dropped without losing shape.
LEMMA HandleDropped ==
  ASSUME NEW me \in Calls
  PROVE  /\ [me EXCEPT !.sub = None] \in Calls
         /\ [me EXCEPT !.sub = None].op = me.op
         /\ [me EXCEPT !.sub = None].ch = me.ch
         /\ [me EXCEPT !.sub = None].grp = me.grp
  BY DEF Calls

\* The fields of a coroutine at rest.
LEMMA IdleFields == Idle \in Calls /\ Idle.op = "none" /\ Idle.ch = None /\ Idle.set = None
  BY IdleTyped DEF ShapedCalls, Idle

\* A fresh identity is one of those given.
LEMMA FreshIsOne == \A ids, used : Fresh(ids, used) \subseteq ids
  BY DEF Fresh

\* A call that has nothing left to do but to take subscriptions down.
LEMMA EndTidyTyped ==
  ASSUME TypeOK, NEW t \in Tasks, NEW ss \in SUBSET SubIds, Tidy(t, ss, "tidyEnd", Idle)
  PROVE  CallsOK' /\ going' \subseteq SubIds
<1>1. "tidyEnd" \in PCs /\ [Idle EXCEPT !.pc = "tidyEnd"] \in Calls
  BY IdleFields DEF PCs, Tidying, Calls
<1>2. \A td \in SUBSET SubIds : [Idle EXCEPT !.pc = "tidyEnd", !.todo = td] \in ShapedCalls
  BY IdleFields, TidyShaped DEF Tidying
<1> QED BY <1>1, <1>2, IdleFields, TypeParts, TidyTyped

\* Fields of a mailbox that calls set.
LEMMA BoxSetTyped ==
  ASSUME NEW nb \in [BoxIds -> Boxes], NEW b
  PROVE  /\ [nb EXCEPT ![b].ready = TRUE] \in [BoxIds -> Boxes]
         /\ [nb EXCEPT ![b].subscribed = TRUE] \in [BoxIds -> Boxes]
         /\ [nb EXCEPT ![b].aged = TRUE] \in [BoxIds -> Boxes]
         /\ \A s \in SubIds : [nb EXCEPT ![b].sub = s] \in [BoxIds -> Boxes]
<1>1. CASE b \in BoxIds
  <2>1. nb[b] \in Boxes
    BY <1>1
  <2>2. /\ [nb[b] EXCEPT !.ready = TRUE] \in Boxes
        /\ [nb[b] EXCEPT !.subscribed = TRUE] \in Boxes
        /\ [nb[b] EXCEPT !.aged = TRUE] \in Boxes
    BY <2>1 DEF Boxes
  <2>3. \A s \in SubIds : [nb[b] EXCEPT !.sub = s] \in Boxes
    BY <2>1 DEF Boxes
  <2> QED BY <2>2, <2>3
<1>2. CASE b \notin BoxIds
  BY <1>2
<1> QED BY <1>1, <1>2

\* Letting the waiters of a mailbox go keeps it a mailbox.
LEMMA GivenUpTyped ==
  ASSUME TypeOK, NEW t
  PROVE  GivenUp(t) \in [BoxIds -> Boxes]
  BY BoxSetTyped DEF GivenUp, TypeOK

\* The except branch of _mailbox().
LEMMA MailboxFailsTyped ==
  ASSUME TypeOK, NEW t \in Tasks, MailboxFails(t)
  PROVE  TypeOK'
<1>1. CallsOK' /\ StoreOK'
  BY TypeParts, GivenUpTyped, EndsTyped DEF MailboxFails
<1>2. TablesOK' /\ ServerOK' /\ HistoryOK'
  BY TypeParts DEF MailboxFails, Removed, TablesOK, ServerOK, HistoryOK, server, history
<1> QED BY <1>1, <1>2, TypePartsNext

\* group_add() returns.
LEMMA AddReturnsTyped ==
  ASSUME TypeOK, NEW t \in Tasks, task[t].op = "add", AddReturns(t)
  PROVE  CallsOK' /\ HistoryOK'
<1>1. task[t].grp \in Groups /\ task[t].ch \in Channels
  BY CallFields DEF Shaped
<1> QED BY <1>1, TypeParts, IdleTyped, BecomeTyped DEF AddReturns, HistoryOK

\* group_add() fails.
LEMMA AddFailsTyped ==
  ASSUME TypeOK, NEW t \in Tasks, AddFails(t)
  PROVE  TypeOK'
<1> DEFINE undo == recorded[Feeds(task[t].grp, task[t].ch)] = None
           rest == IF undo THEN members[task[t].set] \ {task[t].ch} ELSE members[task[t].set]
           ns == [members EXCEPT ![task[t].set] = rest]
<1>1. /\ UNCHANGED <<mailboxes, recorded, generation, server, joined>>
      /\ due' = due \ {t}
      /\ groups' = IF undo /\ rest = {} THEN [groups EXCEPT ![task[t].grp] = None] ELSE groups
      /\ Become(t, Idle)
      /\ StoreBoxes(box)
      /\ StoreSets(ns)
  BY DEF AddFails
<1>2. ns \in [SetIds -> SUBSET Channels]
  <2>1. CASE task[t].set \in SetIds
    BY <2>1 DEF TypeOK
  <2>2. CASE task[t].set \notin SetIds
    BY <2>2 DEF TypeOK
  <2> QED BY <2>1, <2>2
<1> HIDE DEF ns, undo, rest
<1>3. CallsOK' /\ StoreOK'
  BY <1>1, <1>2, TypeParts, IdleTyped, BecomeTyped, StoreBoxesTyped, StoreSetsTyped DEF StoreOK
<1>4. TablesOK' /\ ServerOK' /\ HistoryOK'
  BY <1>1, TypeParts DEF TablesOK, ServerOK, HistoryOK, server
<1> QED BY <1>3, <1>4, TypePartsNext

-----------------------------------------------------------------------------
(* One lemma per action or group of like actions. *)

\* The initial state is typed.
LEMMA InitTyped == Init => TypeOK
<1> SUFFICES ASSUME Init PROVE TypeOK
  OBVIOUS
<1>1. CallsOK
  BY IdleTyped DEF Init, CallsOK
<1>2. StoreOK
  BY Bounds DEF Init, StoreOK, NewBox, Boxes
<1>3. TablesOK /\ ServerOK /\ HistoryOK
  BY Bounds DEF Init, TablesOK, ServerOK, HistoryOK
<1> QED BY <1>1, <1>2, <1>3, TypeParts

\* _mailbox() from its start: receive, new_channel, group_add, and a read that moves on.
LEMMA MailboxTyped ==
  ASSUME TypeOK, NEW t \in Tasks, NEW call \in Calls, call.ch # None,
         call.op = "add" => call.grp # None, Mailbox(t, call)
  PROVE  TypeOK'
<1>1. mailboxes' \in [Channels -> BoxIds \cup {None}]
  BY DEF Mailbox, Swept, TypeOK
<1>2. box \in [BoxIds -> Boxes]
  BY DEF TypeOK
<1>3. /\ CallsOK' /\ StoreOK'
      /\ groups' \in [Groups -> SetIds \cup {None}]
      /\ due' \subseteq Tasks
  BY <1>1, <1>2, LookUpTyped DEF Mailbox
<1>4. TablesOK' /\ ServerOK' /\ HistoryOK'
  BY <1>1, <1>3, TypeParts DEF Mailbox, TablesOK, ServerOK, HistoryOK, server
<1> QED BY <1>3, <1>4, TypePartsNext

\* A call starts.
LEMMA CallTyped ==
  ASSUME TypeOK, NEW t \in Tasks, Call(t)
  PROVE  TypeOK'
<1>1. PICK op \in {"receive", "new", "add"} \cap Env, c \in Channels, g \in Groups \cup {None} :
         /\ (op = "add") <=> (g # None)
         /\ Mailbox(t, [Idle EXCEPT !.op = op, !.ch = c, !.grp = g])
  BY DEF Call
<1> DEFINE call == [Idle EXCEPT !.op = op, !.ch = c, !.grp = g]
<1>2. c # None
  BY NoneIsFresh
<1>3. call \in Calls /\ call.ch = c /\ call.op = op /\ call.grp = g
  <2>1. op \in Ops
    BY DEF Ops
  <2> QED BY <2>1, IdleFields DEF Calls
<1> HIDE DEF call
<1>4. Mailbox(t, call)
  BY <1>1 DEF call
<1> QED BY <1>1, <1>2, <1>3, <1>4, MailboxTyped

\* A reader moves on.
LEMMA MoveTyped ==
  ASSUME TypeOK, NEW t \in Tasks, Move(t)
  PROVE  TypeOK'
  BY CallFields, MailboxTyped DEF Move, Shaped

\* A waiter on box.ready goes on.
LEMMA ReadyWakeTyped ==
  ASSUME TypeOK, NEW t \in Tasks, ReadyWake(t)
  PROVE  TypeOK'
<1>1. /\ task[t] \in Calls /\ task[t].ch # None /\ task[t].bx \in BoxIds
      /\ task[t].op = "add" => task[t].grp # None
      /\ box \in [BoxIds -> Boxes]
  BY CallFields DEF ReadyWake, Shaped, TypeOK
<1>2. mailboxes' \in [Channels -> BoxIds \cup {None}]
  BY DEF ReadyWake, TypeOK
<1>3. /\ CallsOK' /\ StoreOK'
      /\ groups' \in [Groups -> SetIds \cup {None}]
      /\ due' \subseteq Tasks
  BY <1>1, <1>2, HandOutTyped, LookUpTyped DEF ReadyWake
<1>4. TablesOK' /\ ServerOK' /\ HistoryOK'
  BY <1>2, <1>3, TypeParts DEF ReadyWake, TablesOK, ServerOK, HistoryOK, server
<1> QED BY <1>3, <1>4, TypePartsNext

\* The subscribe lock is taken.
LEMMA LockRunTyped ==
  ASSUME TypeOK, NEW t \in Tasks, LockRun(t)
  PROVE  TypeOK'
<1> DEFINE c == task[t].ch
           made == [NewBox EXCEPT !.ready = TRUE, !.subscribed = TRUE]
<1>1. /\ task[t] \in Calls /\ Shaped(task[t]) /\ c # None /\ c \in Channels
      /\ task[t].op = "add" => task[t].grp # None
      /\ box \in [BoxIds -> Boxes] /\ generation \in 0..MaxFlushes
  BY CallFields DEF LockRun, Shaped, TypeOK
<1>2. NewBox \in Boxes /\ made \in Boxes
  <2>1. NewBox \in Boxes
    BY Bounds DEF NewBox, Boxes
  <2> QED BY <2>1 DEF Boxes
<1>3. CASE mailboxes[c] # None /\ UNCHANGED mailboxes /\ HandOut(t, task[t], mailboxes[c], box)
  <2>1. mailboxes[c] \in BoxIds
    BY <1>1, <1>3 DEF TypeOK
  <2>2. /\ CallsOK' /\ StoreOK' /\ due' \subseteq Tasks
        /\ groups' \in [Groups -> SetIds \cup {None}]
    BY <1>1, <1>3, <2>1, HandOutTyped
  <2>3. TablesOK' /\ ServerOK' /\ HistoryOK'
    BY <1>3, <2>2, TypeParts DEF LockRun, TablesOK, ServerOK, HistoryOK, server
  <2> QED BY <2>2, <2>3, TypePartsNext
<1>4. ASSUME NEW b \in Fresh(BoxIds, BoxRefs), mailboxes' = [mailboxes EXCEPT ![c] = b],
             \/ HandOut(t, task[t], b, [box EXCEPT ![b] = made])
             \/ /\ UNCHANGED <<groups, due>>
                /\ Become(t, [task[t] EXCEPT !.pc = "sub", !.bx = b, !.gen = generation])
                /\ Store([box EXCEPT ![b] = NewBox])
      PROVE  TypeOK'
  <2> HIDE DEF made
  <2>1. b \in BoxIds
    BY FreshIsOne
  <2>2. mailboxes' \in [Channels -> BoxIds \cup {None}]
    BY <1>4, <2>1 DEF TypeOK
  <2>3. /\ [box EXCEPT ![b] = made] \in [BoxIds -> Boxes]
        /\ [box EXCEPT ![b] = NewBox] \in [BoxIds -> Boxes]
    BY <1>1, <1>2
  <2>4. [task[t] EXCEPT !.pc = "sub", !.bx = b, !.gen = generation] \in ShapedCalls
    <3>1. "sub" \in PCs
      BY DEF PCs, Holding
    <3> QED BY <1>1, <2>1, <3>1, MoveShaped
  <2>5. /\ CallsOK' /\ StoreOK' /\ due' \subseteq Tasks
        /\ groups' \in [Groups -> SetIds \cup {None}]
    <3>1. CASE HandOut(t, task[t], b, [box EXCEPT ![b] = made])
      BY <1>1, <2>1, <2>3, <3>1, HandOutTyped
    <3>2. CASE /\ UNCHANGED <<groups, due>>
               /\ Become(t, [task[t] EXCEPT !.pc = "sub", !.bx = b, !.gen = generation])
               /\ Store([box EXCEPT ![b] = NewBox])
      BY <2>3, <2>4, <3>2, TypeParts, BecomeTyped, StoreTyped DEF TablesOK, HistoryOK
    <3> QED BY <1>4, <3>1, <3>2
  <2>6. TablesOK' /\ ServerOK' /\ HistoryOK'
    BY <2>2, <2>5, TypeParts DEF LockRun, TablesOK, ServerOK, HistoryOK, server
  <2> QED BY <2>5, <2>6, TypePartsNext
<1> QED BY <1>3, <1>4 DEF LockRun

\* Subscribing: the new subscription has a subject of ours.
LEMMA BoxSubTyped ==
  ASSUME TypeOK, NEW t \in Tasks, task[t].ch # None
  PROVE  BoxSub(t) \in Subscriptions
<1>1. task[t].ch \in Channels /\ task[t].bx \in BoxIds \cup {None}
  BY CallFields
<1> QED BY <1>1 DEF BoxSub, Subscriptions, Subjects, Keys, Channels

\* A group subscription has one of the subjects.
LEMMA GroupSubTyped ==
  ASSUME TypeOK, NEW t \in Tasks, task[t].op = "add"
  PROVE  GroupSub(t) \in Subscriptions /\ Feeds(task[t].grp, task[t].ch) \in Keys
<1>1. task[t].ch \in Channels /\ task[t].grp \in Groups
  BY CallFields DEF Shaped
<1> QED BY <1>1 DEF GroupSub, Feeds, Subscriptions, Subjects, Keys, Channels

\* A subscription is registered for a mailbox.
LEMMA SubscribedTyped ==
  ASSUME TypeOK, NEW t \in Tasks, Subscribed(t)
  PROVE  TypeOK'
<1>1. /\ task[t] \in Calls /\ Shaped(task[t]) /\ task[t].ch # None /\ task[t].bx # None
      /\ box \in [BoxIds -> Boxes] /\ "conf" \in PCs
  BY CallFields DEF Subscribed, Shaped, TypeOK, PCs, Holding
<1>2. PICK s \in Fresh(SubIds, SubRefs) :
         /\ subs' = [subs EXCEPT ![s] = BoxSub(t)]
         /\ Become(t, [task[t] EXCEPT !.pc = "conf", !.sub = s])
         /\ Store(IF task[t].ch \in PlainChannels THEN [box EXCEPT ![task[t].bx].sub = s] ELSE box)
  BY DEF Subscribed
<1>3. s \in SubIds /\ s # None
  BY FreshIsOne, SubIdsAreSome
<1>4. [task[t] EXCEPT !.pc = "conf", !.sub = s] \in ShapedCalls
  BY <1>1, <1>3, MoveShaped
<1>5. CallsOK'
  BY <1>2, <1>4, TypeParts, BecomeTyped
<1>6. StoreOK'
  <2>1. [box EXCEPT ![task[t].bx].sub = s] \in [BoxIds -> Boxes]
    BY <1>1, <1>3, BoxSetTyped
  <2> QED BY <1>1, <1>2, <2>1, TypeParts, StoreTyped
<1>7. TablesOK' /\ ServerOK' /\ HistoryOK'
  <2>1. BoxSub(t) \in Subscriptions
    BY <1>1, BoxSubTyped
  <2> QED BY <1>2, <1>3, <2>1, TypeParts
          DEF Subscribed, TablesOK, ServerOK, HistoryOK, tables, history
<1> QED BY <1>5, <1>6, <1>7, TypePartsNext

\* The flush after subscribing returned.
LEMMA ConfirmedTyped ==
  ASSUME TypeOK, NEW t \in Tasks, Confirmed(t)
  PROVE  TypeOK'
<1> DEFINE me == task[t]
           plain == me.ch \in PlainChannels
           nb == [GivenUp(t) EXCEPT ![me.bx].subscribed = TRUE]
<1>1. /\ me \in Calls /\ Shaped(me) /\ me.ch # None /\ me.sub \in SubIds /\ me.bx \in BoxIds
      /\ me.op = "add" => me.grp # None
      /\ box \in [BoxIds -> Boxes]
  BY CallFields DEF Confirmed, Shaped, TypeOK
<1>2. GivenUp(t) \in [BoxIds -> Boxes] /\ nb \in [BoxIds -> Boxes]
  BY GivenUpTyped, BoxSetTyped
<1>3. CASE /\ UNCHANGED going
           /\ recorded' = IF plain THEN recorded ELSE [recorded EXCEPT ![Proc] = me.sub]
           /\ HandOut(t, me, me.bx, nb)
  <2> HIDE DEF nb
  <2>1. /\ CallsOK' /\ StoreOK' /\ due' \subseteq Tasks
        /\ groups' \in [Groups -> SetIds \cup {None}]
    BY <1>1, <1>2, <1>3, HandOutTyped
  <2>2. recorded' \in [Keys -> SubIds \cup {None}]
    BY <1>1, <1>3 DEF TypeOK
  <2>3. TablesOK' /\ ServerOK' /\ HistoryOK'
    BY <1>3, <2>1, <2>2, TypeParts DEF Confirmed, TablesOK, ServerOK, HistoryOK
  <2> QED BY <2>1, <2>3, TypePartsNext
<1>4. CASE /\ UNCHANGED <<groups, recorded, due>>
           /\ Tidy(t, {me.sub}, IF plain THEN "tidyRetry" ELSE "tidyRetryBox", [me EXCEPT !.sub = None])
           /\ Store(IF plain THEN GivenUp(t) ELSE box)
  <2> DEFINE pc == IF plain THEN "tidyRetry" ELSE "tidyRetryBox"
  <2>1. pc \in Tidying /\ pc \notin {"tidyAdd", "tidyAddFail"}
    BY DEF Tidying, LockedTidying
  <2>2. CallsOK' /\ going' \subseteq SubIds
    <3> HIDE DEF pc
    <3>1. Tidy(t, {me.sub}, pc, [me EXCEPT !.sub = None])
      BY <1>4 DEF pc
    <3>2. /\ pc \in PCs
          /\ \A td \in SUBSET SubIds : [[me EXCEPT !.sub = None] EXCEPT !.pc = pc, !.todo = td] \in ShapedCalls
      BY <1>1, <2>1, HandleDropped, TidyShaped DEF Shaped
    <3> QED BY <1>1, <3>1, <3>2, HandleDropped, TypeParts, TidyTyped
  <2>3. StoreOK'
    BY <1>1, <1>2, <1>4, TypeParts, StoreTyped
  <2>4. TablesOK' /\ ServerOK' /\ HistoryOK'
    BY <1>4, <2>2, TypeParts DEF Confirmed, TablesOK, ServerOK, HistoryOK
  <2> QED BY <2>2, <2>3, <2>4, TypePartsNext
<1> QED BY <1>3, <1>4 DEF Confirmed

\* Cancelled inside Client.subscribe().
LEMMA SubAbortedTyped ==
  ASSUME TypeOK, NEW t \in Tasks, SubAborted(t)
  PROVE  TypeOK'
<1>1. /\ task[t] \in Calls /\ Shaped(task[t]) /\ task[t].ch # None /\ box \in [BoxIds -> Boxes]
      /\ "tidyAbort" \in Tidying
  BY CallFields DEF SubAborted, Shaped, TypeOK, Tidying, LockedTidying
<1>2. CASE MailboxFails(t)
  BY <1>2, MailboxFailsTyped
<1>3. ASSUME UNCHANGED <<tables, going, history>>, NEW s \in Fresh(SubIds, SubRefs),
             subs' = [subs EXCEPT ![s] = BoxSub(t)],
             Become(t, [task[t] EXCEPT !.pc = "tidyAbort", !.todo = {s}]), Store(box)
      PROVE  TypeOK'
  <2>1. s \in SubIds
    BY FreshIsOne
  <2>2. [task[t] EXCEPT !.pc = "tidyAbort", !.todo = {s}] \in ShapedCalls
    BY <1>1, <2>1, TidyShaped DEF Shaped
  <2>3. CallsOK' /\ StoreOK'
    BY <1>1, <1>3, <2>2, TypeParts, BecomeTyped, StoreTyped
  <2>4. BoxSub(t) \in Subscriptions
    BY <1>1, BoxSubTyped
  <2>5. TablesOK' /\ ServerOK' /\ HistoryOK'
    BY <1>3, <2>1, <2>4, TypeParts DEF TablesOK, ServerOK, HistoryOK, tables, history
  <2> QED BY <2>3, <2>5, TypePartsNext
<1> QED BY <1>2, <1>3 DEF SubAborted

\* Cancelled in the flush after it.
LEMMA ConfAbortedTyped ==
  ASSUME TypeOK, NEW t \in Tasks, ConfAborted(t)
  PROVE  TypeOK'
<1> DEFINE me == task[t]
           plain == me.ch \in PlainChannels
           pc == IF plain THEN "tidyFail" ELSE "tidyAbort"
<1>1. /\ me \in Calls /\ Shaped(me) /\ me.ch # None /\ me.sub \in SubIds
      /\ box \in [BoxIds -> Boxes] /\ GivenUp(t) \in [BoxIds -> Boxes]
  BY CallFields, GivenUpTyped DEF ConfAborted, Shaped, TypeOK
<1>2. pc \in Tidying /\ pc \notin {"tidyAdd", "tidyAddFail"}
  BY DEF Tidying, LockedTidying
<1>3. Tidy(t, {me.sub}, pc, [me EXCEPT !.sub = None])
  BY DEF ConfAborted
<1>4. mailboxes' \in [Channels -> BoxIds \cup {None}]
  BY DEF ConfAborted, Removed, TypeOK
<1>5. CallsOK' /\ going' \subseteq SubIds
  <2> HIDE DEF pc
  <2>1. /\ pc \in PCs
        /\ \A td \in SUBSET SubIds : [[me EXCEPT !.sub = None] EXCEPT !.pc = pc, !.todo = td] \in ShapedCalls
    BY <1>1, <1>2, HandleDropped, TidyShaped DEF Shaped
  <2> QED BY <1>1, <1>3, <2>1, HandleDropped, TypeParts, TidyTyped
<1>6. StoreOK'
  BY <1>1, TypeParts, StoreTyped DEF ConfAborted
<1>7. TablesOK' /\ ServerOK' /\ HistoryOK'
  BY <1>4, <1>5, TypeParts DEF ConfAborted, TablesOK, ServerOK, HistoryOK, history
<1> QED BY <1>5, <1>6, <1>7, TypePartsNext

\* Cancelled waiting for box.ready or the lock.
LEMMA WaitCancelledTyped ==
  ASSUME TypeOK, NEW t \in Tasks, WaitCancelled(t)
  PROVE  TypeOK'
<1>1. CallsOK' /\ StoreOK'
  BY TypeParts, EndsTyped DEF WaitCancelled, TypeOK
<1> QED BY <1>1, TypeParts, TypePartsNext
        DEF WaitCancelled, TablesOK, ServerOK, HistoryOK, tables, server, history

\* Entries that come off a queue.
LEMMA GetTyped ==
  ASSUME TypeOK, NEW t \in Tasks, Get(t)
  PROVE  TypeOK'
<1> DEFINE b == task[t].rd
           pc == IF box[b].superseded THEN "move" ELSE "get"
           read == [box EXCEPT ![b].msgs = @ - 1]
           woken == [box EXCEPT ![b].wakes = @ - 1]
<1>1. /\ task[t] \in Calls /\ Shaped(task[t]) /\ task[t].ch # None /\ b \in BoxIds
      /\ box \in [BoxIds -> Boxes]
  BY CallFields DEF Get, Shaped, TypeOK
<1>2. ASSUME box[b].msgs > 0 PROVE read \in [BoxIds -> Boxes]
  <2>1. box[b] \in Boxes
    BY <1>1
  <2>2. box[b].msgs - 1 \in 0..Capacity
    BY <1>2, <2>1, Bounds DEF Boxes
  <2>3. [box[b] EXCEPT !.msgs = @ - 1] \in Boxes
    BY <2>1, <2>2 DEF Boxes
  <2> QED BY <1>1, <2>3
<1>3. woken \in [BoxIds -> Boxes]
  <2>1. box[b] \in Boxes
    BY <1>1
  <2>2. box[b].wakes - 1 \in Int
    BY <2>1 DEF Boxes
  <2>3. [box[b] EXCEPT !.wakes = @ - 1] \in Boxes
    BY <2>1, <2>2 DEF Boxes
  <2> QED BY <1>1, <2>3
<1>4. UNCHANGED <<tables, server, history>>
  BY DEF Get
<1>5. [task[t] EXCEPT !.pc = pc] \in ShapedCalls
  <2>1. pc \in {"move", "get"} /\ pc \in PCs /\ task[t].rd # None
    BY CallFields DEF PCs, Get, Shaped
  <2> HIDE DEF pc
  <2> QED BY <1>1, <2>1, MoveShaped
<1>6. \/ box[b].msgs > 0 /\ Ends(t, read, FALSE)
      \/ /\ Become(t, [task[t] EXCEPT !.pc = pc])
         /\ \/ box[b].msgs > 0 /\ Store(read)
            \/ box[b].wakes > 0 /\ Store(woken)
  BY DEF Get
<1> HIDE DEF read, woken, pc
<1>7. CallsOK' /\ StoreOK'
  BY <1>2, <1>3, <1>5, <1>6, TypeParts, EndsTyped, BecomeTyped, StoreTyped
<1> QED BY <1>4, <1>7, TypeParts, TypePartsNext
        DEF TablesOK, ServerOK, HistoryOK, tables, server, history

\* A read is cancelled.
LEMMA ReadCancelledTyped ==
  ASSUME TypeOK, NEW t \in Tasks, ReadCancelled(t)
  PROVE  TypeOK'
<1> DEFINE ss == {box[b].sub : b \in {b \in {task[t].rd} : Releases(t)}} \ {None}
<1>1. task[t].rd \in BoxIds /\ box \in [BoxIds -> Boxes]
  BY CallFields DEF ReadCancelled, Shaped, TypeOK
<1>2. ss \in SUBSET SubIds
  BY <1>1 DEF Boxes
<1>3. Tidy(t, ss, "tidyEnd", Idle)
  BY DEF ReadCancelled
<1> HIDE DEF ss
<1>4. CallsOK' /\ going' \subseteq SubIds
  BY <1>2, <1>3, EndTidyTyped
<1>5. StoreOK'
  BY <1>1, LeaveTyped, StoreTyped, TypeParts DEF ReadCancelled
<1>6. mailboxes' \in [Channels -> BoxIds \cup {None}]
  BY DEF ReadCancelled, TypeOK
<1>7. TablesOK' /\ ServerOK' /\ HistoryOK'
  BY <1>4, <1>6, TypeParts DEF ReadCancelled, TablesOK, ServerOK, HistoryOK, history
<1> QED BY <1>4, <1>5, <1>7, TypePartsNext

\* group_add() takes the lock.
LEMMA GroupLockRunTyped ==
  ASSUME TypeOK, NEW t \in Tasks, GroupLockRun(t)
  PROVE  TypeOK'
<1>1. /\ task[t] \in Calls /\ Shaped(task[t]) /\ task[t].ch # None /\ task[t].op = "add"
      /\ box \in [BoxIds -> Boxes] /\ "gsub" \in PCs
  BY CallFields DEF GroupLockRun, Shaped, TypeOK, PCs, Holding
<1>2. [task[t] EXCEPT !.pc = "gsub"] \in ShapedCalls
  BY <1>1, MoveShaped
<1>3. CallsOK' /\ HistoryOK'
  BY <1>1, <1>2, TypeParts, AddReturnsTyped, BecomeTyped DEF GroupLockRun, HistoryOK, history
<1>4. StoreOK'
  BY <1>1, TypeParts, StoreTyped DEF GroupLockRun
<1> QED BY <1>3, <1>4, TypeParts, TypePartsNext
        DEF GroupLockRun, TablesOK, ServerOK, tables, server

\* A group's subscription is registered.
LEMMA GroupSubscribedTyped ==
  ASSUME TypeOK, NEW t \in Tasks, GroupSubscribed(t)
  PROVE  TypeOK'
<1>1. /\ task[t] \in Calls /\ Shaped(task[t]) /\ task[t].ch # None /\ task[t].op = "add"
      /\ box \in [BoxIds -> Boxes] /\ "gconf" \in PCs
  BY CallFields DEF GroupSubscribed, Shaped, TypeOK, PCs, Holding
<1>2. PICK s \in Fresh(SubIds, SubRefs) :
         /\ subs' = [subs EXCEPT ![s] = GroupSub(t)]
         /\ Become(t, [task[t] EXCEPT !.pc = "gconf", !.sub = s])
  BY DEF GroupSubscribed
<1>3. s \in SubIds
  BY FreshIsOne
<1>4. [task[t] EXCEPT !.pc = "gconf", !.sub = s] \in ShapedCalls
  BY <1>1, <1>3, MoveShaped
<1>5. CallsOK' /\ StoreOK'
  BY <1>1, <1>2, <1>4, TypeParts, BecomeTyped, StoreTyped DEF GroupSubscribed
<1>6. GroupSub(t) \in Subscriptions
  BY <1>1, GroupSubTyped
<1>7. TablesOK' /\ ServerOK' /\ HistoryOK'
  BY <1>2, <1>3, <1>6, TypeParts DEF GroupSubscribed, TablesOK, ServerOK, HistoryOK, tables, history
<1> QED BY <1>5, <1>7, TypePartsNext

\* A group_add() that takes its subscription down again.
LEMMA AddTidyTyped ==
  ASSUME TypeOK, NEW t \in Tasks, task[t].op = "add", task[t].sub # None,
         NEW pc \in {"tidyAdd", "tidyAddFail"},
         Tidy(t, {task[t].sub}, pc, [task[t] EXCEPT !.sub = None])
  PROVE  CallsOK' /\ going' \subseteq SubIds
<1> DEFINE me == [task[t] EXCEPT !.sub = None]
<1>1. /\ me \in Calls /\ me.op = "add" /\ me.ch # None /\ me.grp # None
      /\ {task[t].sub} \in SUBSET SubIds /\ pc \in Tidying
  BY CallFields, HandleDropped DEF Shaped, Tidying, LockedTidying
<1> HIDE DEF me
<1>2. /\ pc \in PCs
      /\ \A td \in SUBSET SubIds : [me EXCEPT !.pc = pc, !.todo = td] \in ShapedCalls
  BY <1>1, TidyShaped
<1>3. Tidy(t, {task[t].sub}, pc, me)
  BY DEF me
<1> QED BY <1>1, <1>2, <1>3, TypeParts, TidyTyped

\* A group's subscription is recorded, or taken down again.
LEMMA GroupConfirmedTyped ==
  ASSUME TypeOK, NEW t \in Tasks, GroupConfirmed(t)
  PROVE  TypeOK'
<1>1. /\ task[t].op = "add" /\ task[t].sub \in SubIds /\ task[t].sub # None
      /\ box \in [BoxIds -> Boxes]
  BY CallFields DEF GroupConfirmed, Shaped, TypeOK
<1>2. StoreOK'
  BY <1>1, TypeParts, StoreTyped DEF GroupConfirmed
<1>3. CASE /\ UNCHANGED going
           /\ recorded' = [recorded EXCEPT ![Feeds(task[t].grp, task[t].ch)] = task[t].sub]
           /\ AddReturns(t)
  <2>1. CallsOK' /\ HistoryOK'
    BY <1>1, <1>3, AddReturnsTyped
  <2>2. TablesOK' /\ ServerOK'
    BY <1>1, <1>3, TypeParts DEF GroupConfirmed, TablesOK, ServerOK
  <2> QED BY <1>2, <2>1, <2>2, TypePartsNext
<1>4. CASE /\ UNCHANGED <<recorded, history>>
           /\ Tidy(t, {task[t].sub}, "tidyAdd", [task[t] EXCEPT !.sub = None])
  <2>1. CallsOK' /\ going' \subseteq SubIds
    BY <1>1, <1>4, AddTidyTyped
  <2>2. TablesOK' /\ ServerOK' /\ HistoryOK'
    BY <1>4, <2>1, TypeParts DEF GroupConfirmed, TablesOK, ServerOK, HistoryOK, history
  <2> QED BY <1>2, <2>1, <2>2, TypePartsNext
<1> QED BY <1>3, <1>4 DEF GroupConfirmed

\* group_add() is cancelled or fails.
LEMMA GroupAbortedTyped ==
  ASSUME TypeOK, NEW t \in Tasks, GroupAborted(t)
  PROVE  TypeOK'
<1>1. /\ task[t] \in Calls /\ Shaped(task[t]) /\ task[t].ch # None /\ task[t].grp # None
      /\ task[t].op = "add" /\ box \in [BoxIds -> Boxes]
  BY CallFields DEF GroupAborted, Shaped, TypeOK
<1>2. CASE AddFails(t)
  BY <1>2, AddFailsTyped
<1>3. ASSUME UNCHANGED <<tables, going, history>>, NEW s \in Fresh(SubIds, SubRefs),
             subs' = [subs EXCEPT ![s] = GroupSub(t)],
             Become(t, [task[t] EXCEPT !.pc = "tidyAddFail", !.todo = {s}]), Store(box)
      PROVE  TypeOK'
  <2>1. s \in SubIds /\ "tidyAddFail" \in Tidying
    BY FreshIsOne DEF Tidying, LockedTidying
  <2>2. [task[t] EXCEPT !.pc = "tidyAddFail", !.todo = {s}] \in ShapedCalls
    BY <1>1, <2>1, TidyShaped
  <2>3. CallsOK' /\ StoreOK'
    BY <1>1, <1>3, <2>2, TypeParts, BecomeTyped, StoreTyped
  <2>4. GroupSub(t) \in Subscriptions
    BY <1>1, GroupSubTyped
  <2>5. TablesOK' /\ ServerOK' /\ HistoryOK'
    BY <1>3, <2>1, <2>4, TypeParts DEF TablesOK, ServerOK, HistoryOK, tables, history
  <2> QED BY <2>3, <2>5, TypePartsNext
<1>4. CASE /\ task[t].pc = "gconf"
           /\ UNCHANGED <<tables, subs, history>>
           /\ Tidy(t, {task[t].sub}, "tidyAddFail", [task[t] EXCEPT !.sub = None])
           /\ Store(box)
  <2>1. task[t].sub # None
    BY <1>1, <1>4 DEF Shaped
  <2>2. CallsOK' /\ going' \subseteq SubIds
    BY <1>1, <1>4, <2>1, AddTidyTyped
  <2>3. StoreOK'
    BY <1>1, <1>4, TypeParts, StoreTyped
  <2>4. TablesOK' /\ ServerOK' /\ HistoryOK'
    BY <1>4, <2>2, TypeParts DEF TablesOK, ServerOK, HistoryOK, tables, history
  <2> QED BY <2>2, <2>3, <2>4, TypePartsNext
<1> QED BY <1>2, <1>3, <1>4 DEF GroupAborted

\* group_discard().
LEMMA DiscardTyped ==
  ASSUME TypeOK, NEW t \in Tasks, Discard(t)
  PROVE  TypeOK'
<1>1. PICK g \in Groups, c \in Channels :
         /\ groups[g] # None
         /\ LET rest == members[groups[g]] \ {c}
                dropped == Dropped(g, c, rest)
            IN /\ joined' = joined \ {<<g, c>>}
               /\ due' = {u \in due : task[u].grp # g \/ task[u].ch # c}
               /\ recorded' = [k \in Keys |-> IF k \in dropped THEN None ELSE recorded[k]]
               /\ groups' = IF rest = {} THEN [groups EXCEPT ![g] = None] ELSE groups
               /\ Tidy(t, {recorded[k] : k \in dropped} \ {None}, "tidyEnd", Idle)
               /\ StoreBoxes(box)
               /\ StoreSets([members EXCEPT ![groups[g]] = rest])
  BY DEF Discard
<1> DEFINE rest == members[groups[g]] \ {c}
           dropped == Dropped(g, c, rest)
           stale == {recorded[k] : k \in dropped} \ {None}
<1>2. groups[g] \in SetIds
  BY <1>1 DEF TypeOK
<1>3. rest \in SUBSET Channels
  BY <1>2 DEF TypeOK
<1>4. dropped \subseteq Keys
  BY DEF Dropped, Keys
<1>5. stale \in SUBSET SubIds
  <2> HIDE DEF dropped
  <2> QED BY <1>4 DEF TypeOK
<1>6. CallsOK' /\ going' \subseteq SubIds
  <2> HIDE DEF stale
  <2>1. Tidy(t, stale, "tidyEnd", Idle)
    BY <1>1 DEF stale
  <2> QED BY <1>5, <2>1, EndTidyTyped
<1>7. [members EXCEPT ![groups[g]] = rest] \in [SetIds -> SUBSET Channels]
  BY <1>3 DEF TypeOK
<1>8. StoreOK'
  <2>1. box' \in [BoxIds -> Boxes]
    BY <1>1, StoreBoxesTyped DEF TypeOK
  <2>2. members' \in [SetIds -> SUBSET Channels]
    BY <1>1, <1>7, StoreSetsTyped
  <2> QED BY <2>1, <2>2 DEF StoreOK
<1>9. TablesOK' /\ HistoryOK'
  <2>1. recorded' \in [Keys -> SubIds \cup {None}]
    BY <1>1 DEF TypeOK
  <2>2. groups' \in [Groups -> SetIds \cup {None}]
    BY <1>1 DEF TypeOK
  <2>3. joined' \subseteq Groups \X Channels /\ due' \subseteq Tasks
    BY <1>1 DEF TypeOK
  <2> QED BY <2>1, <2>2, <2>3 DEF Discard, TablesOK, HistoryOK, TypeOK
<1>10. ServerOK'
  BY <1>6, TypeParts DEF Discard, ServerOK
<1> QED BY <1>6, <1>8, <1>9, <1>10, TypePartsNext

\* Mailboxes that flush() takes away, and mailboxes a message arrives at.
LEMMA SupersedeTyped ==
  ASSUME TypeOK, NEW bs
  PROVE  Supersede(bs) \in [BoxIds -> Boxes]
<1>1. ASSUME NEW b \in BoxIds
      PROVE  [box[b] EXCEPT !.superseded = TRUE, !.wakes = @ + box[b].receivers] \in Boxes
  <2>1. box[b] \in Boxes
    BY DEF TypeOK
  <2>2. box[b].wakes + box[b].receivers \in Int
    BY <2>1 DEF Boxes
  <2> QED BY <2>1, <2>2 DEF Boxes
<1> QED BY <1>1 DEF Supersede, TypeOK

\* A message filed where there is room.
LEMMA ArrivesTyped ==
  ASSUME TypeOK, NEW bs
  PROVE  Arrives(bs) \in [BoxIds -> Boxes]
<1>1. ASSUME NEW b \in BoxIds, box[b].msgs < Capacity
      PROVE  [box[b] EXCEPT !.msgs = @ + 1, !.aged = FALSE] \in Boxes
  <2>1. box[b] \in Boxes
    BY DEF TypeOK
  <2>2. box[b].msgs + 1 \in 0..Capacity
    BY <1>1, <2>1, Bounds DEF Boxes
  <2> QED BY <2>1, <2>2 DEF Boxes
<1> QED BY <1>1 DEF Arrives, TypeOK

\* flush().
LEMMA FlushTyped ==
  ASSUME TypeOK, NEW t \in Tasks, Flush(t)
  PROVE  TypeOK'
<1> DEFINE mine == {mailboxes[c] : c \in Channels} \ {None}
           stale == ({recorded[k] : k \in Keys} \cup {box[b].sub : b \in mine}) \ {None}
<1>1. mine \subseteq BoxIds
  BY DEF TypeOK
<1>2. stale \in SUBSET SubIds
  <2>1. \A b \in BoxIds : box[b].sub \in SubIds \cup {None}
    BY DEF TypeOK, Boxes
  <2>2. \A k \in Keys : recorded[k] \in SubIds \cup {None}
    BY DEF TypeOK
  <2> HIDE DEF mine
  <2> QED BY <1>1, <2>1, <2>2
<1>3. Tidy(t, stale, "tidyEnd", Idle) /\ Store(Supersede(mine))
  BY DEF Flush
<1> HIDE DEF mine, stale
<1>4. CallsOK' /\ going' \subseteq SubIds
  BY <1>2, <1>3, EndTidyTyped
<1>5. StoreOK'
  BY <1>3, SupersedeTyped, StoreTyped, TypeParts
<1>6. TablesOK'
  BY Bounds DEF Flush, TablesOK, TypeOK
<1>7. ServerOK' /\ HistoryOK'
  BY <1>4, TypeParts DEF Flush, ServerOK, HistoryOK
<1> QED BY <1>4, <1>5, <1>6, <1>7, TypePartsNext

\* A clean-up goes on or ends.
LEMMA TidyDoneTyped ==
  ASSUME TypeOK, NEW t \in Tasks, TidyDone(t)
  PROVE  TypeOK'
<1>1. /\ task[t] \in Calls /\ Shaped(task[t]) /\ task[t].pc \in Tidying
      /\ task[t].todo \in SUBSET SubIds
      /\ box \in [BoxIds -> Boxes] /\ GivenUp(t) \in [BoxIds -> Boxes]
  BY CallFields, GivenUpTyped DEF TidyDone, TypeOK
<1>2. CASE /\ UNCHANGED <<tables, subs, history>>
           /\ Tidy(t, task[t].todo, task[t].pc, task[t])
           /\ Store(box)
  <2>1. /\ task[t].pc \in PCs
        /\ \A td \in SUBSET SubIds : [task[t] EXCEPT !.pc = task[t].pc, !.todo = td] \in ShapedCalls
    <3>1. task[t].pc \notin {"idle"}
      BY <1>1 DEF Tidying, LockedTidying
    <3> QED BY <1>1, <3>1, TidyShaped DEF Shaped
  <2>2. CallsOK' /\ going' \subseteq SubIds
    BY <1>1, <1>2, <2>1, TypeParts, TidyTyped
  <2>3. StoreOK'
    BY <1>1, <1>2, TypeParts, StoreTyped
  <2>4. TablesOK' /\ ServerOK' /\ HistoryOK'
    BY <1>2, <2>2, TypeParts DEF TablesOK, ServerOK, HistoryOK, tables, history
  <2> QED BY <2>2, <2>3, <2>4, TypePartsNext
<1>3. CASE MailboxFails(t)
  BY <1>3, MailboxFailsTyped
<1>4. CASE AddFails(t)
  BY <1>4, AddFailsTyped
<1>5. CASE task[t].pc = "tidyAdd" /\ UNCHANGED <<tables, server>> /\ AddReturns(t) /\ Store(box)
  <2>1. CallsOK' /\ HistoryOK' /\ StoreOK'
    BY <1>1, <1>5, TypeParts, AddReturnsTyped, StoreTyped DEF Shaped
  <2> QED BY <1>5, <2>1, TypeParts, TypePartsNext DEF TablesOK, ServerOK, tables, server
<1>6. CASE UNCHANGED <<tables, server, history>> /\ Ends(t, box, FALSE)
  <2>1. CallsOK' /\ StoreOK'
    BY <1>1, <1>6, TypeParts, EndsTyped
  <2> QED BY <1>6, <2>1, TypeParts, TypePartsNext
          DEF TablesOK, ServerOK, HistoryOK, tables, server, history
<1>7. CASE /\ task[t].pc \in {"tidyRetryBox", "tidyRetry"}
           /\ UNCHANGED <<mailboxes, recorded, generation, server, joined>>
           /\ LookUp(t, task[t], GivenUp(t))
  <2>1. mailboxes' \in [Channels -> BoxIds \cup {None}]
    BY <1>7 DEF TypeOK
  <2>2. /\ CallsOK' /\ StoreOK'
        /\ groups' \in [Groups -> SetIds \cup {None}]
        /\ due' \subseteq Tasks
    BY <1>1, <1>7, <2>1, LookUpTyped DEF Shaped
  <2>3. TablesOK' /\ ServerOK' /\ HistoryOK'
    BY <1>7, <2>1, <2>2, TypeParts DEF TablesOK, ServerOK, HistoryOK, server
  <2> QED BY <2>2, <2>3, TypePartsNext
<1> QED BY <1>2, <1>3, <1>4, <1>5, <1>6, <1>7 DEF TidyDone

\* A clean-up is cancelled.
LEMMA TidyCancelledTyped ==
  ASSUME TypeOK, NEW t \in Tasks, TidyCancelled(t)
  PROVE  TypeOK'
<1>1. CASE MailboxFails(t)
  BY <1>1, MailboxFailsTyped
<1>2. CASE AddFails(t)
  BY <1>2, AddFailsTyped
<1>3. CASE UNCHANGED <<tables, server, history>> /\ Ends(t, box, TRUE)
  <2>1. CallsOK' /\ StoreOK'
    BY <1>3, TypeParts, EndsTyped DEF TypeOK
  <2> QED BY <1>3, <2>1, TypeParts, TypePartsNext
          DEF TablesOK, ServerOK, HistoryOK, tables, server, history
<1> QED BY <1>1, <1>2, <1>3 DEF TidyCancelled

\* What happens outside the calls.
LEMMA OutsideTyped ==
  ASSUME TypeOK,
         \/ \E s \in SubIds : Unsubscribed(s) \/ Deliver(s)
         \/ \E c \in ProcessChannels : GraceElapses(c)
  PROVE  TypeOK'
<1>1. box \in [BoxIds -> Boxes]
  BY DEF TypeOK
<1>2. ASSUME NEW s \in SubIds, Unsubscribed(s) PROVE TypeOK'
  <2>1. StoreOK'
    BY <1>1, <1>2, TypeParts, StoreTyped DEF Unsubscribed
  <2> QED BY <1>2, <2>1, TypeParts, TypePartsNext
          DEF Unsubscribed, TablesOK, ServerOK, HistoryOK, CallsOK, tables, history
<1>3. ASSUME NEW s \in SubIds, Deliver(s) PROVE TypeOK'
  <2>1. PICK bs : Store(Arrives(bs))
    BY <1>3 DEF Deliver
  <2>2. StoreOK'
    BY <2>1, ArrivesTyped, TypeParts, StoreTyped
  <2> QED BY <1>3, <2>2, TypeParts, TypePartsNext
          DEF Deliver, TablesOK, ServerOK, HistoryOK, CallsOK, tables, server, history
<1>4. ASSUME NEW c \in ProcessChannels, GraceElapses(c) PROVE TypeOK'
  <2>1. StoreOK'
    BY <1>1, <1>4, BoxSetTyped, TypeParts, StoreTyped DEF GraceElapses
  <2> QED BY <1>4, <2>1, TypeParts, TypePartsNext
          DEF GraceElapses, TablesOK, ServerOK, HistoryOK, CallsOK, tables, server, history
<1> QED BY <1>2, <1>3, <1>4

\* The type invariant is inductive.
LEMMA NextTyped == TypeOK /\ [Next]_vars => TypeOK'
<1> SUFFICES ASSUME TypeOK, [Next]_vars PROVE TypeOK'
  OBVIOUS
<1>1. ASSUME NEW t \in Tasks, Progress(t) PROVE TypeOK'
  BY <1>1, MoveTyped, ReadyWakeTyped, LockRunTyped, SubscribedTyped, ConfirmedTyped, GetTyped,
     GroupLockRunTyped, GroupSubscribedTyped, GroupConfirmedTyped, TidyDoneTyped DEF Progress
<1>2. ASSUME NEW t \in Tasks, Interrupt(t) PROVE TypeOK'
  BY <1>2, SubAbortedTyped, ConfAbortedTyped, WaitCancelledTyped, ReadCancelledTyped,
     GroupAbortedTyped, TidyCancelledTyped DEF Interrupt
<1>3. CASE UNCHANGED vars
  BY <1>3, TypeParts, TypePartsNext DEF vars, TablesOK, ServerOK, StoreOK, HistoryOK, CallsOK
<1> QED BY <1>1, <1>2, <1>3, CallTyped, DiscardTyped, FlushTyped, OutsideTyped DEF Next

\* The tables of a loop keep their types, no mailbox is filed beyond its capacity, and
\* every call has, wherever it is suspended, the mailbox, subscription or group that the
\* code after that await uses.
THEOREM LoopTyped == Spec => []TypeOK
  BY InitTyped, NextTyped, PTL DEF Spec

-----------------------------------------------------------------------------
(* Groups, their sets, and what is recorded for them. *)

\* No group_add() is on its way to fail.
NoAddFails == \A t \in Tasks : task[t].pc # "tidyAddFail"

\* No two groups share a set of members.
SetsAreOwn == \A g, h \in Groups : groups[g] # None /\ groups[g] = groups[h] => g = h

Inv == TypeOK /\ NoAddFails /\ SetsAreOwn /\ RecordedIsWanted

\* What the rest of a step leaves alone where recorded keys only disappear.
KeysOnlyGo == \A k \in Keys \ {Proc} : recorded'[k] \in {recorded[k], None}

-----------------------------------------------------------------------------

\* A task that goes on elsewhere than to a failing group_add().
LEMMA BecomeKeeps ==
  ASSUME TypeOK, NoAddFails, NEW t \in Tasks, NEW me, me.pc # "tidyAddFail", Become(t, me)
  PROVE  NoAddFails'
  BY DEF NoAddFails, Become, TypeOK

\* A clean-up whose outcome is not a failing group_add().
LEMMA TidyKeeps ==
  ASSUME TypeOK, NoAddFails, NEW t \in Tasks, NEW ss, NEW pc, pc # "tidyAddFail",
         NEW me \in Calls, Tidy(t, ss, pc, me)
  PROVE  NoAddFails'
<1>1. CASE Become(t, [me EXCEPT !.pc = pc])
  <2>1. [me EXCEPT !.pc = pc].pc = pc
    BY DEF Calls
  <2> QED BY <1>1, <2>1, BecomeKeeps
<1>2. ASSUME NEW td, Become(t, [me EXCEPT !.pc = pc, !.todo = td]) PROVE NoAddFails'
  <2>1. [me EXCEPT !.pc = pc, !.todo = td].pc = pc
    BY DEF Calls
  <2> QED BY <1>2, <2>1, BecomeKeeps
<1> QED BY <1>1, <1>2 DEF Tidy

\* A call that ends leaves every set as it was.
LEMMA EndsKeeps ==
  ASSUME TypeOK, NoAddFails, NEW t \in Tasks, NEW nb, NEW cancelled, Ends(t, nb, cancelled)
  PROVE  NoAddFails' /\ StoreSets(members)
<1>1. Idle.pc # "tidyAddFail"
  BY DEF Idle
<1> QED BY <1>1, BecomeKeeps DEF Ends, Store

\* Groups that keep their sets keep their members.
LEMMA MembersKept ==
  ASSUME groups' = groups, StoreSets(members), TypeOK, NEW g \in Groups
  PROVE  Members(g)' = Members(g)
<1>1. groups[g] # None => groups[g] \in SetRefs' /\ groups[g] \in SetIds
  BY DEF SetRefs, TypeOK
<1> QED BY <1>1 DEF StoreSets, Members

\* Keys are told apart by what they are for.
LEMMA KeysDiffer ==
  \A g \in Groups : /\ Grp(g) \in Keys /\ Grp(g) # Proc
                    /\ \A h \in Groups : Grp(h) = Grp(g) => h = g
                    /\ \A c \in PlainChannels :
                          /\ GrpChan(g, c) \in Keys /\ GrpChan(g, c) # Proc
                          /\ \A h \in Groups : Grp(h) # GrpChan(g, c)
                          /\ \A h \in Groups, d \in PlainChannels : GrpChan(h, d) = GrpChan(g, c) => h = g /\ d = c
<1>1. /\ Proc.kind = "pc"
      /\ \A g : Grp(g).kind = "grp" /\ Grp(g).grp = g
      /\ \A g, c : GrpChan(g, c).kind = "grpch" /\ GrpChan(g, c).grp = g /\ GrpChan(g, c).ch = c
  BY DEF Grp, GrpChan, Proc
<1>2. \A g \in Groups : Grp(g) \in Keys /\ \A c \in PlainChannels : GrpChan(g, c) \in Keys
  BY DEF Keys
<1> TAKE g \in Groups
<1>3. Grp(g) # Proc /\ \A h \in Groups : Grp(h) = Grp(g) => h = g
  BY <1>1
<1>4. ASSUME NEW c \in PlainChannels
      PROVE  /\ GrpChan(g, c) # Proc
             /\ \A h \in Groups : Grp(h) # GrpChan(g, c)
             /\ \A h \in Groups, d \in PlainChannels : GrpChan(h, d) = GrpChan(g, c) => h = g /\ d = c
  BY <1>1
<1> QED BY <1>2, <1>3, <1>4

\* No group loses a member.
GroupsGrow == \A g \in Groups : Members(g) \subseteq Members(g)'

\* A group that loses no member, and a table that gains no key, stay as wanted.
LEMMA GrowingKeeps ==
  ASSUME RecordedIsWanted, KeysOnlyGo, GroupsGrow
  PROVE  RecordedIsWanted'
<1> SUFFICES ASSUME NEW g \in Groups
             PROVE  /\ recorded'[Grp(g)] # None => Members(g)' \cap ProcessChannels # {}
                    /\ \A c \in PlainChannels : recorded'[GrpChan(g, c)] # None => c \in Members(g)'
  BY DEF RecordedIsWanted
<1>1. recorded'[Grp(g)] # None => Members(g)' \cap ProcessChannels # {}
  BY KeysDiffer DEF KeysOnlyGo, RecordedIsWanted, GroupsGrow
<1>2. ASSUME NEW c \in PlainChannels, recorded'[GrpChan(g, c)] # None PROVE c \in Members(g)'
  BY <1>2, KeysDiffer DEF KeysOnlyGo, RecordedIsWanted, GroupsGrow
<1> QED BY <1>1, <1>2

\* Groups that keep their sets lose no member.
LEMMA SameGroups ==
  ASSUME TypeOK, groups' = groups, StoreSets(members)
  PROVE  GroupsGrow
  BY MembersKept DEF GroupsGrow

\* A step that leaves groups alone.
LEMMA CalmKeeps ==
  ASSUME Inv, groups' = groups, StoreSets(members), KeysOnlyGo
  PROVE  SetsAreOwn' /\ RecordedIsWanted'
  BY SameGroups, GrowingKeeps DEF Inv, SetsAreOwn

\* A group gains a member, in its own set.
LEMMA HandToAddGrows ==
  ASSUME TypeOK, SetsAreOwn, NEW t \in Tasks, NEW me \in Calls, me.grp # None, NEW nb, HandToAdd(t, me, nb)
  PROVE  /\ SetsAreOwn' /\ GroupsGrow /\ me.ch \in Members(me.grp)'
         /\ due' = due \cup {t}
         /\ \E x \in SetIds : Become(t, [me EXCEPT !.pc = "glock", !.set = x])
<1>1. PICK x \in IF groups[me.grp] = None THEN Fresh(SetIds, SetRefs) ELSE {groups[me.grp]} :
           /\ groups' = [groups EXCEPT ![me.grp] = x]
           /\ Become(t, [me EXCEPT !.pc = "glock", !.set = x])
           /\ StoreSets([members EXCEPT ![x] = @ \cup {me.ch}])
  BY DEF HandToAdd
<1>2. me.grp \in Groups /\ due' = due \cup {t}
  BY DEF HandToAdd, Calls
<1>3. x \in SetIds /\ x # None
  BY <1>1, <1>2, IdsAreNumbers, NoneIsFresh DEF Fresh, TypeOK
<1>4. \A g \in Groups : groups[g] = x => g = me.grp
  <2>1. CASE groups[me.grp] = None
    <3>1. x \notin SetRefs
      BY <1>1, <2>1 DEF Fresh
    <3> QED BY <1>3, <3>1 DEF SetRefs
  <2>2. CASE groups[me.grp] # None
    BY <1>1, <1>2, <2>2 DEF SetsAreOwn
  <2> QED BY <2>1, <2>2
<1>5. SetsAreOwn'
  BY <1>1, <1>2, <1>4 DEF SetsAreOwn, TypeOK
<1>6. \A g \in Groups : groups'[g] # None => groups'[g] \in SetRefs'
  BY DEF SetRefs
<1>7. Members(me.grp)' = members[x] \cup {me.ch} /\ (groups[me.grp] # None => groups[me.grp] = x)
  <2>1. groups'[me.grp] = x
    BY <1>1, <1>2 DEF TypeOK
  <2>2. members'[x] = members[x] \cup {me.ch}
    BY <1>1, <1>2, <1>3, <1>6, <2>1 DEF StoreSets, TypeOK
  <2> QED BY <1>1, <1>3, <2>1, <2>2 DEF Members
<1>8. ASSUME NEW g \in Groups PROVE Members(g) \subseteq Members(g)'
  <2>1. CASE g = me.grp
    BY <1>7, <2>1 DEF Members
  <2>2. CASE g # me.grp
    <3>1. groups'[g] = groups[g]
      BY <1>1, <2>2 DEF TypeOK
    <3>2. groups[g] # None => members'[groups[g]] = members[groups[g]]
      BY <1>1, <1>4, <1>6, <2>2, <3>1 DEF StoreSets, TypeOK
    <3> QED BY <3>1, <3>2 DEF Members
  <2> QED BY <2>1, <2>2
<1> QED BY <1>1, <1>2, <1>3, <1>5, <1>7, <1>8 DEF GroupsGrow

\* A mailbox handed to group_add(): its group gains a member, in its own set.
LEMMA HandOutKeeps ==
  ASSUME Inv, NEW t \in Tasks, NEW call \in Calls, call.ch # None,
         call.op = "add" => call.grp # None, NEW b, NEW nb,
         HandOut(t, call, b, nb), KeysOnlyGo
  PROVE  NoAddFails' /\ SetsAreOwn' /\ RecordedIsWanted'
<1> DEFINE me == [call EXCEPT !.bx = None, !.sub = None, !.gen = 0]
<1>1. me.ch = call.ch /\ me.op = call.op /\ me.grp = call.grp
  BY DEF Calls
<1>2. \A pc, x : [me EXCEPT !.pc = pc, !.rd = x].pc = pc /\ [me EXCEPT !.pc = pc, !.set = x].pc = pc
  BY DEF Calls
<1> HIDE DEF me
<1>3. CASE HandToRead(t, me, b, nb)
  <2> DEFINE pc == IF nb[b].superseded THEN "move" ELSE "get"
  <2>1. [me EXCEPT !.pc = pc, !.rd = b].pc # "tidyAddFail"
    BY <1>2
  <2> HIDE DEF pc
  <2>2. Become(t, [me EXCEPT !.pc = pc, !.rd = b]) /\ groups' = groups /\ StoreSets(members)
    BY <1>3 DEF HandToRead, Store, pc
  <2> QED BY <2>1, <2>2, BecomeKeeps, CalmKeeps DEF Inv
<1>4. CASE HandToCaller(t, me, nb)
  <2>1. [Idle EXCEPT !.pc = "handed", !.ch = me.ch].pc = "handed"
    BY DEF Idle
  <2>2. /\ Become(t, [Idle EXCEPT !.pc = "handed", !.ch = me.ch])
        /\ groups' = groups /\ StoreSets(members)
    BY <1>4 DEF HandToCaller, Store
  <2> QED BY <2>1, <2>2, BecomeKeeps, CalmKeeps DEF Inv
<1>5. CASE HandToAdd(t, me, nb)
  <2>1. me \in Calls /\ me.grp # None
    <3>1. 0 \in 0..MaxFlushes
      BY Bounds
    <3> QED BY <1>1, <1>5, <3>1 DEF HandToAdd, Calls, me
  <2>2. SetsAreOwn' /\ GroupsGrow /\ \E x \in SetIds : Become(t, [me EXCEPT !.pc = "glock", !.set = x])
    BY <1>5, <2>1, HandToAddGrows DEF Inv
  <2>3. PICK x \in SetIds : Become(t, [me EXCEPT !.pc = "glock", !.set = x])
    BY <2>2
  <2>4. [me EXCEPT !.pc = "glock", !.set = x].pc # "tidyAddFail"
    <3>1. [me EXCEPT !.pc = "glock", !.set = x].pc = "glock"
      BY <1>2
    <3> QED BY <3>1
  <2>5. NoAddFails'
    BY <2>3, <2>4, BecomeKeeps DEF Inv
  <2> QED BY <2>2, <2>5, GrowingKeeps DEF Inv
<1> QED BY <1>3, <1>4, <1>5 DEF HandOut, me

\* What _mailbox() does up to its next await only adds to a group.
LEMMA LookUpKeeps ==
  ASSUME Inv, NEW t \in Tasks, NEW call \in Calls, call.ch # None,
         call.op = "add" => call.grp # None, NEW nb,
         LookUp(t, call, nb), KeysOnlyGo
  PROVE  NoAddFails' /\ SetsAreOwn' /\ RecordedIsWanted'
<1> DEFINE b == mailboxes'[call.ch]
           pc == IF b = None THEN "lock" ELSE "ready"
<1>1. CASE groups' = groups /\ Become(t, [call EXCEPT !.pc = pc, !.bx = b, !.gen = 0]) /\ StoreSets(members)
  <2>1. [call EXCEPT !.pc = pc, !.bx = b, !.gen = 0].pc = pc
    BY DEF Calls
  <2>2. pc # "tidyAddFail"
    OBVIOUS
  <2> HIDE DEF pc, b
  <2> QED BY <1>1, <2>1, <2>2, BecomeKeeps, CalmKeeps DEF Inv
<1>2. CASE HandOut(t, call, b, nb)
  <2> HIDE DEF b
  <2> QED BY <1>2, HandOutKeeps
<1> QED BY <1>1, <1>2 DEF LookUp, Store

-----------------------------------------------------------------------------
(* One lemma per action. *)

Kept == NoAddFails' /\ SetsAreOwn' /\ RecordedIsWanted'

\* A step that records nothing gains no key.
LEMMA SameKeys == UNCHANGED recorded => KeysOnlyGo
  BY DEF KeysOnlyGo

\* A whole call of _mailbox(), its sweep included.
LEMMA MailboxKeeps ==
  ASSUME Inv, NEW t \in Tasks, NEW call \in Calls, call.ch # None,
         call.op = "add" => call.grp # None, Mailbox(t, call)
  PROVE  Kept
  BY SameKeys, LookUpKeeps DEF Mailbox, Kept

\* receive(), new_channel() or group_add() starts.
LEMMA CallKeeps ==
  ASSUME Inv, NEW t \in Tasks, Call(t)
  PROVE  Kept
<1>1. PICK op \in {"receive", "new", "add"} \cap Env, c \in Channels, g \in Groups \cup {None} :
         /\ (op = "add") <=> (g # None)
         /\ Mailbox(t, [Idle EXCEPT !.op = op, !.ch = c, !.grp = g])
  BY DEF Call
<1> DEFINE call == [Idle EXCEPT !.op = op, !.ch = c, !.grp = g]
<1>2. call \in Calls /\ call.ch = c /\ call.op = op /\ call.grp = g /\ c # None
  <2>1. op \in Ops /\ c # None
    BY NoneIsFresh DEF Ops
  <2> QED BY <2>1, IdleFields DEF Calls
<1>3. Mailbox(t, call)
  BY <1>1
<1> HIDE DEF call
<1> QED BY <1>1, <1>2, <1>3, MailboxKeeps

\* A reader goes on to the mailbox that replaces its own.
LEMMA MoveKeeps ==
  ASSUME Inv, NEW t \in Tasks, Move(t)
  PROVE  Kept
  BY CallFields, MailboxKeeps DEF Inv, Move, Shaped

\* A waiter on box.ready goes on.
LEMMA ReadyWakeKeeps ==
  ASSUME Inv, NEW t \in Tasks, ReadyWake(t)
  PROVE  Kept
<1>1. task[t] \in Calls /\ task[t].ch # None /\ (task[t].op = "add" => task[t].grp # None)
  BY CallFields DEF Inv, ReadyWake, Shaped
<1> QED BY <1>1, SameKeys, HandOutKeeps, LookUpKeeps DEF ReadyWake, Kept

\* The subscribe lock is taken.
LEMMA LockRunKeeps ==
  ASSUME Inv, NEW t \in Tasks, LockRun(t)
  PROVE  Kept
<1>1. task[t] \in Calls /\ task[t].ch # None /\ (task[t].op = "add" => task[t].grp # None)
  BY CallFields DEF Inv, LockRun, Shaped
<1>2. KeysOnlyGo
  BY SameKeys DEF LockRun
<1>3. ASSUME NEW b, NEW nb, HandOut(t, task[t], b, nb) PROVE Kept
  BY <1>1, <1>2, <1>3, HandOutKeeps DEF Kept
<1>4. ASSUME NEW b, NEW nb, UNCHANGED <<groups, due>>,
             Become(t, [task[t] EXCEPT !.pc = "sub", !.bx = b, !.gen = generation]), Store(nb)
      PROVE  Kept
  <2>1. [task[t] EXCEPT !.pc = "sub", !.bx = b, !.gen = generation].pc = "sub"
    BY <1>1 DEF Calls
  <2>2. [task[t] EXCEPT !.pc = "sub", !.bx = b, !.gen = generation].pc # "tidyAddFail"
    BY <2>1
  <2> QED BY <1>2, <1>4, <2>2, BecomeKeeps, CalmKeeps DEF Inv, Store, Kept
<1> QED BY <1>3, <1>4 DEF LockRun

\* Subscribing moves a task on and leaves the groups alone.
LEMMA SubscribedKeeps ==
  ASSUME Inv, NEW t \in Tasks, Subscribed(t) \/ GroupSubscribed(t)
  PROVE  Kept
<1>1. task[t] \in Calls
  BY CallFields DEF Inv
<1>2. \/ \E s : Become(t, [task[t] EXCEPT !.pc = "conf", !.sub = s])
      \/ \E s : Become(t, [task[t] EXCEPT !.pc = "gconf", !.sub = s])
  BY DEF Subscribed, GroupSubscribed
<1>3. \A s : /\ [task[t] EXCEPT !.pc = "conf", !.sub = s].pc # "tidyAddFail"
             /\ [task[t] EXCEPT !.pc = "gconf", !.sub = s].pc # "tidyAddFail"
  BY <1>1 DEF Calls
<1>4. groups' = groups /\ StoreSets(members) /\ KeysOnlyGo
  BY SameKeys DEF Subscribed, GroupSubscribed, Store, tables
<1> QED BY <1>2, <1>3, <1>4, BecomeKeeps, CalmKeeps DEF Inv, Kept

\* The process subscription is recorded, or a flushed one taken down.
LEMMA ConfirmedKeeps ==
  ASSUME Inv, NEW t \in Tasks, Confirmed(t)
  PROVE  Kept
<1> DEFINE plain == task[t].ch \in PlainChannels
<1>1. /\ task[t] \in Calls /\ task[t].ch # None /\ (task[t].op = "add" => task[t].grp # None)
      /\ [task[t] EXCEPT !.sub = None] \in Calls
  BY CallFields, HandleDropped DEF Inv, Confirmed, Shaped
<1>2. CASE /\ recorded' = IF plain THEN recorded ELSE [recorded EXCEPT ![Proc] = task[t].sub]
           /\ HandOut(t, task[t], task[t].bx, [GivenUp(t) EXCEPT ![task[t].bx].subscribed = TRUE])
  <2>1. KeysOnlyGo
    BY <1>2 DEF KeysOnlyGo, Inv, TypeOK
  <2> QED BY <1>1, <1>2, <2>1, HandOutKeeps DEF Kept
<1>3. CASE /\ UNCHANGED <<groups, recorded, due>>
           /\ Tidy(t, {task[t].sub}, IF plain THEN "tidyRetry" ELSE "tidyRetryBox",
                   [task[t] EXCEPT !.sub = None])
           /\ Store(IF plain THEN GivenUp(t) ELSE box)
  <2>1. (IF plain THEN "tidyRetry" ELSE "tidyRetryBox") # "tidyAddFail"
    OBVIOUS
  <2>2. NoAddFails'
    BY <1>1, <1>3, <2>1, TidyKeeps DEF Inv
  <2> QED BY <1>3, <2>2, SameKeys, CalmKeeps DEF Store, Kept
<1> QED BY <1>2, <1>3 DEF Confirmed

\* The except branch of _mailbox() leaves groups and keys alone.
LEMMA MailboxFailsKeeps ==
  ASSUME Inv, NEW t \in Tasks, MailboxFails(t)
  PROVE  Kept
  BY EndsKeeps, SameKeys, CalmKeeps DEF MailboxFails, Inv, Kept

\* A call of _mailbox() is cancelled or fails.
LEMMA AbortedKeeps ==
  ASSUME Inv, NEW t \in Tasks, SubAborted(t) \/ ConfAborted(t) \/ WaitCancelled(t)
  PROVE  Kept
<1>1. task[t] \in Calls /\ [task[t] EXCEPT !.sub = None] \in Calls
  BY CallFields, HandleDropped DEF Inv
<1>2. CASE MailboxFails(t)
  BY <1>2, MailboxFailsKeeps
<1>3. ASSUME NEW s, Become(t, [task[t] EXCEPT !.pc = "tidyAbort", !.todo = {s}]),
             UNCHANGED <<tables, going, history>>, Store(box)
      PROVE  Kept
  <2>1. [task[t] EXCEPT !.pc = "tidyAbort", !.todo = {s}].pc = "tidyAbort"
    BY <1>1 DEF Calls
  <2>2. [task[t] EXCEPT !.pc = "tidyAbort", !.todo = {s}].pc # "tidyAddFail"
    BY <2>1
  <2> QED BY <1>3, <2>2, BecomeKeeps, SameKeys, CalmKeeps DEF Inv, Store, tables, Kept
<1>4. CASE ConfAborted(t)
  <2> DEFINE pc == IF task[t].ch \in PlainChannels THEN "tidyFail" ELSE "tidyAbort"
  <2>1. pc # "tidyAddFail" /\ Tidy(t, {task[t].sub}, pc, [task[t] EXCEPT !.sub = None])
    BY <1>4 DEF ConfAborted
  <2> HIDE DEF pc
  <2> QED BY <1>1, <1>4, <2>1, TidyKeeps, SameKeys, CalmKeeps DEF ConfAborted, Inv, Store, Kept
<1>5. CASE WaitCancelled(t)
  BY <1>5, EndsKeeps, SameKeys, CalmKeeps DEF WaitCancelled, tables, Inv, Kept
<1> QED BY <1>2, <1>3, <1>4, <1>5 DEF SubAborted

\* An entry is read.
LEMMA GetKeeps ==
  ASSUME Inv, NEW t \in Tasks, Get(t)
  PROVE  Kept
<1> DEFINE pc == IF box[task[t].rd].superseded THEN "move" ELSE "get"
<1>1. task[t] \in Calls
  BY CallFields DEF Inv
<1>2. CASE \E nb : Ends(t, nb, FALSE)
  BY <1>2, EndsKeeps, SameKeys, CalmKeeps DEF Get, tables, Inv, Kept
<1>3. CASE Become(t, [task[t] EXCEPT !.pc = pc]) /\ \E nb : Store(nb)
  <2>1. [task[t] EXCEPT !.pc = pc].pc # "tidyAddFail"
    BY <1>1 DEF Calls
  <2> HIDE DEF pc
  <2> QED BY <1>3, <2>1, BecomeKeeps, SameKeys, CalmKeeps DEF Get, tables, Inv, Store, Kept
<1> QED BY <1>2, <1>3 DEF Get

\* A read is cancelled, and may release its plain channel.
LEMMA ReadCancelledKeeps ==
  ASSUME Inv, NEW t \in Tasks, ReadCancelled(t)
  PROVE  Kept
<1>1. \E ss : Tidy(t, ss, "tidyEnd", Idle)
  BY DEF ReadCancelled
<1>2. NoAddFails'
  BY <1>1, IdleFields, TidyKeeps DEF Inv
<1> QED BY <1>2, SameKeys, CalmKeeps DEF ReadCancelled, Store, Kept

\* group_add() takes the lock, or finds its subscription there.
LEMMA GroupLockRunKeeps ==
  ASSUME Inv, NEW t \in Tasks, GroupLockRun(t)
  PROVE  Kept
<1>1. task[t] \in Calls /\ Idle.pc # "tidyAddFail"
  BY CallFields DEF Inv, Idle
<1>2. [task[t] EXCEPT !.pc = "gsub"].pc # "tidyAddFail"
  BY <1>1 DEF Calls
<1>3. NoAddFails'
  BY <1>1, <1>2, BecomeKeeps DEF GroupLockRun, AddReturns, Inv
<1> QED BY <1>3, SameKeys, CalmKeeps DEF GroupLockRun, tables, Store, Kept

\* A subscription is recorded only where the group still wants it.
LEMMA GroupConfirmedKeeps ==
  ASSUME Inv, NEW t \in Tasks, GroupConfirmed(t)
  PROVE  Kept
<1> DEFINE g == task[t].grp
           c == task[t].ch
<1>1. /\ g \in Groups /\ c \in Channels /\ Idle.pc # "tidyAddFail"
      /\ [task[t] EXCEPT !.sub = None] \in Calls
      /\ groups' = groups /\ StoreSets(members)
  BY CallFields, HandleDropped DEF GroupConfirmed, Inv, Shaped, Idle, Store
<1>2. CASE /\ Wants(g, c)
           /\ recorded' = [recorded EXCEPT ![Feeds(g, c)] = task[t].sub]
           /\ AddReturns(t)
  <2>1. NoAddFails'
    BY <1>1, <1>2, BecomeKeeps DEF AddReturns, Inv
  <2>2. \A k \in Keys : k # Feeds(g, c) => recorded'[k] = recorded[k]
    BY <1>2 DEF Inv, TypeOK
  <2>3. ASSUME NEW h \in Groups, recorded'[Grp(h)] # None
        PROVE  Members(h)' \cap ProcessChannels # {}
    <3>1. CASE Feeds(g, c) = Grp(h)
      <4>1. c \in ProcessChannels /\ h = g
        BY <1>1, <3>1, KeysDiffer DEF Feeds, Channels
      <4> QED BY <1>1, <1>2, <4>1, MembersKept DEF Wants, Inv
    <3>2. CASE Feeds(g, c) # Grp(h)
      BY <1>1, <2>2, <2>3, <3>2, KeysDiffer, MembersKept DEF RecordedIsWanted, Inv
    <3> QED BY <3>1, <3>2
  <2>4. ASSUME NEW h \in Groups, NEW d \in PlainChannels, recorded'[GrpChan(h, d)] # None
        PROVE  d \in Members(h)'
    <3>1. CASE Feeds(g, c) = GrpChan(h, d)
      <4>1. c \notin ProcessChannels /\ h = g /\ c = d
        BY <1>1, <3>1, KeysDiffer DEF Feeds, Channels
      <4> QED BY <1>1, <1>2, <4>1, MembersKept DEF Wants, Inv
    <3>2. CASE Feeds(g, c) # GrpChan(h, d)
      BY <1>1, <2>2, <2>4, <3>2, KeysDiffer, MembersKept DEF RecordedIsWanted, Inv
    <3> QED BY <3>1, <3>2
  <2>5. SetsAreOwn'
    BY <1>1 DEF Inv, SetsAreOwn
  <2> QED BY <2>1, <2>3, <2>4, <2>5 DEF RecordedIsWanted, Kept
<1>3. CASE /\ UNCHANGED <<recorded, history>>
           /\ Tidy(t, {task[t].sub}, "tidyAdd", [task[t] EXCEPT !.sub = None])
  <2>1. NoAddFails'
    BY <1>1, <1>3, TidyKeeps DEF Inv
  <2> QED BY <1>1, <1>3, <2>1, SameKeys, CalmKeeps DEF Kept
<1> QED BY <1>2, <1>3 DEF GroupConfirmed

\* group_discard() takes one member of one group, and leaves the others alone.
LEMMA DiscardTakesOne ==
  ASSUME TypeOK, SetsAreOwn, NEW t \in Tasks, Discard(t)
  PROVE  /\ SetsAreOwn' /\ (\E ss : Tidy(t, ss, "tidyEnd", Idle))
         /\ \E g \in Groups, c \in Channels :
              /\ recorded' = [k \in Keys |-> IF k \in Dropped(g, c, Members(g) \ {c}) THEN None ELSE recorded[k]]
              /\ Members(g)' = Members(g) \ {c} /\ \A h \in Groups : h # g => Members(h)' = Members(h)
              /\ joined' = joined \ {<<g, c>>}
              /\ due' = {u \in due : task[u].grp # g \/ task[u].ch # c}
<1>1. PICK g \in Groups, c \in Channels :
         /\ groups[g] # None
         /\ LET rest == members[groups[g]] \ {c}
                dropped == Dropped(g, c, rest)
            IN /\ joined' = joined \ {<<g, c>>}
               /\ due' = {u \in due : task[u].grp # g \/ task[u].ch # c}
               /\ recorded' = [k \in Keys |-> IF k \in dropped THEN None ELSE recorded[k]]
               /\ groups' = IF rest = {} THEN [groups EXCEPT ![g] = None] ELSE groups
               /\ Tidy(t, {recorded[k] : k \in dropped} \ {None}, "tidyEnd", Idle)
               /\ StoreSets([members EXCEPT ![groups[g]] = rest])
  BY DEF Discard
<1> DEFINE rest == members[groups[g]] \ {c}
<1>2. /\ groups[g] \in SetIds /\ Members(g) = members[groups[g]]
      /\ groups' = IF rest = {} THEN [groups EXCEPT ![g] = None] ELSE groups
      /\ StoreSets([members EXCEPT ![groups[g]] = rest])
  BY <1>1 DEF TypeOK, Members
<1>3. SetsAreOwn'
  BY <1>2 DEF SetsAreOwn, TypeOK
<1>4. Members(g)' = rest
  <2>1. CASE rest = {}
    BY <1>2, <2>1 DEF Members, TypeOK
  <2>2. CASE rest # {}
    <3>1. groups'[g] = groups[g] /\ groups[g] \in SetRefs'
      BY <1>1, <1>2, <2>2 DEF SetRefs
    <3>2. members'[groups[g]] = rest
      BY <1>2, <3>1 DEF StoreSets, TypeOK
    <3> QED BY <1>1, <3>1, <3>2 DEF Members
  <2> QED BY <2>1, <2>2
<1>5. ASSUME NEW h \in Groups, h # g PROVE Members(h)' = Members(h)
  <2>1. groups'[h] = groups[h]
    BY <1>2, <1>5 DEF TypeOK
  <2>2. groups[h] # None => groups[h] # groups[g] /\ groups[h] \in SetRefs' /\ groups[h] \in SetIds
    BY <1>5, <2>1 DEF SetsAreOwn, SetRefs, TypeOK
  <2>3. groups[h] # None => members'[groups[h]] = members[groups[h]]
    BY <1>2, <2>2 DEF StoreSets, TypeOK
  <2> QED BY <2>1, <2>3 DEF Members
<1>6. recorded' = [k \in Keys |-> IF k \in Dropped(g, c, Members(g) \ {c}) THEN None ELSE recorded[k]]
  BY <1>1, <1>2
<1> QED BY ZenonT(40), <1>1, <1>2, <1>3, <1>4, <1>5, <1>6

\* What group_discard() drops covers every key that loses its last member.
LEMMA DiscardKeeps ==
  ASSUME Inv, NEW t \in Tasks, Discard(t)
  PROVE  Kept
<1>1. SetsAreOwn' /\ \E ss : Tidy(t, ss, "tidyEnd", Idle)
  BY DiscardTakesOne DEF Inv
<1>2. PICK g \in Groups, c \in Channels :
         /\ recorded' = [k \in Keys |-> IF k \in Dropped(g, c, Members(g) \ {c}) THEN None ELSE recorded[k]]
         /\ Members(g)' = Members(g) \ {c} /\ \A h \in Groups : h # g => Members(h)' = Members(h)
  BY DiscardTakesOne DEF Inv
<1> DEFINE rest == Members(g) \ {c}
           dropped == Dropped(g, c, rest)
<1>3. NoAddFails'
  BY <1>1, IdleFields, TidyKeeps DEF Inv
<1>4. /\ GrpChan(g, c) \in Keys => GrpChan(g, c) \in dropped
      /\ rest \cap ProcessChannels = {} => Grp(g) \in dropped
  BY DEF Dropped
<1> HIDE DEF dropped
<1>5. \A k \in Keys : recorded'[k] # None => recorded[k] # None /\ k \notin dropped
  BY <1>2 DEF dropped
<1>6. ASSUME NEW h \in Groups, recorded'[Grp(h)] # None
      PROVE  Members(h)' \cap ProcessChannels # {}
  <2>1. recorded[Grp(h)] # None /\ Grp(h) \notin dropped
    BY <1>5, <1>6, KeysDiffer
  <2>2. CASE h = g
    BY <1>2, <1>4, <2>1, <2>2
  <2>3. CASE h # g
    BY <1>2, <2>1, <2>3 DEF Inv, RecordedIsWanted
  <2> QED BY <2>2, <2>3
<1>7. ASSUME NEW h \in Groups, NEW d \in PlainChannels, recorded'[GrpChan(h, d)] # None
      PROVE  d \in Members(h)'
  <2>1. recorded[GrpChan(h, d)] # None /\ GrpChan(h, d) \notin dropped /\ d \in Members(h)
    BY <1>5, <1>7, KeysDiffer DEF Inv, RecordedIsWanted
  <2>2. CASE h = g
    <3>1. d # c
      BY <1>4, <2>1, <2>2, KeysDiffer
    <3> QED BY <1>2, <2>1, <2>2, <3>1
  <2>3. CASE h # g
    BY <1>2, <2>1, <2>3
  <2> QED BY <2>2, <2>3
<1> QED BY <1>1, <1>3, <1>6, <1>7 DEF RecordedIsWanted, Kept

\* flush() leaves no group and no key.
LEMMA FlushKeeps ==
  ASSUME Inv, NEW t \in Tasks, Flush(t)
  PROVE  Kept
<1>1. \E ss : Tidy(t, ss, "tidyEnd", Idle)
  BY DEF Flush
<1>2. NoAddFails'
  BY <1>1, IdleFields, TidyKeeps DEF Inv
<1>3. /\ \A g \in Groups : groups'[g] = None
      /\ \A k \in Keys : recorded'[k] = None
  BY DEF Flush
<1>4. SetsAreOwn' /\ RecordedIsWanted'
  BY <1>3, KeysDiffer DEF SetsAreOwn, RecordedIsWanted
<1> QED BY <1>2, <1>4 DEF Kept

\* A clean-up that ends, or is cancelled, where no group_add() fails.
LEMMA TidyDoneKeeps ==
  ASSUME Inv, NEW t \in Tasks, TidyDone(t)
  PROVE  Kept
<1>1. /\ task[t] \in Calls /\ Shaped(task[t]) /\ task[t].pc # "tidyAddFail"
      /\ Idle.pc # "tidyAddFail"
  BY CallFields DEF Inv, NoAddFails, Idle
<1>2. CASE /\ UNCHANGED <<tables, subs, history>>
           /\ Tidy(t, task[t].todo, task[t].pc, task[t])
           /\ Store(box)
  <2>1. NoAddFails'
    BY <1>1, <1>2, TidyKeeps DEF Inv
  <2> QED BY <1>2, <2>1, SameKeys, CalmKeeps DEF tables, Store, Kept
<1>3. CASE MailboxFails(t)
  BY <1>3, MailboxFailsKeeps
<1>4. CASE UNCHANGED <<tables, server>> /\ AddReturns(t) /\ Store(box)
  <2>1. NoAddFails'
    BY <1>1, <1>4, BecomeKeeps DEF AddReturns, Inv
  <2> QED BY <1>4, <2>1, SameKeys, CalmKeeps DEF tables, Store, Kept
<1>5. CASE UNCHANGED <<tables, server, history>> /\ Ends(t, box, FALSE)
  BY <1>5, EndsKeeps, SameKeys, CalmKeeps DEF tables, Inv, Kept
<1>6. CASE /\ task[t].pc \in {"tidyRetryBox", "tidyRetry"}
           /\ UNCHANGED <<mailboxes, recorded, generation, server, joined>>
           /\ LookUp(t, task[t], GivenUp(t))
  <2>1. task[t].ch # None /\ (task[t].op = "add" => task[t].grp # None)
    BY <1>1, <1>6 DEF Shaped
  <2> QED BY <1>1, <1>6, <2>1, SameKeys, LookUpKeeps DEF Kept
<1> QED BY <1>1, <1>2, <1>3, <1>4, <1>5, <1>6 DEF TidyDone

\* A clean-up is cancelled; no group_add() is on its way to fail.
LEMMA TidyCancelledKeeps ==
  ASSUME Inv, "abortAdd" \notin Env, NEW t \in Tasks, TidyCancelled(t)
  PROVE  Kept
<1>1. CASE MailboxFails(t)
  BY <1>1, MailboxFailsKeeps
<1>2. CASE UNCHANGED <<tables, server, history>> /\ Ends(t, box, TRUE)
  BY <1>2, EndsKeeps, SameKeys, CalmKeeps DEF tables, Inv, Kept
<1> QED BY <1>1, <1>2 DEF TidyCancelled

\* Arrivals, finished unsubscribes and the passing of time touch no table.
LEMMA OutsideKeeps ==
  ASSUME Inv,
         \/ \E s \in SubIds : Unsubscribed(s) \/ Deliver(s)
         \/ \E c \in ProcessChannels : GraceElapses(c)
  PROVE  Kept
<1>1. /\ UNCHANGED <<tables, task>> /\ \E nb : Store(nb)
  BY DEF Unsubscribed, Deliver, GraceElapses
<1>2. NoAddFails'
  BY <1>1 DEF Inv, NoAddFails
<1> QED BY <1>1, <1>2, SameKeys, CalmKeeps DEF tables, Store, Kept

\* The tables start empty.
LEMMA InitInv == Init => Inv
<1> SUFFICES ASSUME Init PROVE Inv
  OBVIOUS
<1>1. NoAddFails
  BY DEF Init, NoAddFails, Idle
<1>2. SetsAreOwn
  BY DEF Init, SetsAreOwn
<1>3. RecordedIsWanted
  BY KeysDiffer DEF Init, RecordedIsWanted
<1> QED BY <1>1, <1>2, <1>3, InitTyped DEF Inv

\* The invariant is inductive.
LEMMA NextKeeps ==
  ASSUME "abortAdd" \notin Env
  PROVE  Inv /\ [Next]_vars => Inv'
<1> SUFFICES ASSUME Inv, [Next]_vars PROVE Inv'
  OBVIOUS
<1>1. ASSUME NEW t \in Tasks, Progress(t) PROVE Kept
  BY <1>1, MoveKeeps, ReadyWakeKeeps, LockRunKeeps, SubscribedKeeps, ConfirmedKeeps, GetKeeps,
     GroupLockRunKeeps, GroupConfirmedKeeps, TidyDoneKeeps DEF Progress
<1>2. ASSUME NEW t \in Tasks, Interrupt(t) PROVE Kept
  BY <1>2, AbortedKeeps, ReadCancelledKeeps, TidyCancelledKeeps DEF Interrupt, GroupAborted
<1>3. ASSUME UNCHANGED vars PROVE Kept
  <2>1. UNCHANGED <<groups, members, recorded, task>>
    BY <1>3 DEF vars
  <2>2. NoAddFails'
    BY <2>1 DEF Inv, NoAddFails
  <2>3. SetsAreOwn'
    BY <2>1 DEF Inv, SetsAreOwn
  <2>4. RecordedIsWanted'
    BY <2>1 DEF Inv, RecordedIsWanted, Members
  <2> QED BY <2>2, <2>3, <2>4 DEF Kept
<1>4. Kept
  <2>1. ASSUME NEW t \in Tasks, Call(t) \/ Progress(t) \/ Interrupt(t) \/ Discard(t) \/ Flush(t)
        PROVE  Kept
    BY <2>1, <1>1, <1>2, CallKeeps, DiscardKeeps, FlushKeeps
  <2>2. ASSUME NEW s \in SubIds, Unsubscribed(s) \/ Deliver(s) PROVE Kept
    BY <2>2, OutsideKeeps
  <2>3. ASSUME NEW c \in ProcessChannels, GraceElapses(c) PROVE Kept
    BY <2>3, OutsideKeeps
  <2>4. CASE Next
    BY <2>1, <2>2, <2>3, <2>4 DEF Next
  <2> QED BY <1>3, <2>4
<1>5. TypeOK'
  BY NextTyped DEF Inv
<1> QED
  BY <1>4, <1>5 DEF Kept, Inv

\* As long as no group_add() fails, a group's subscription is kept only while the group has
\* a member it serves, however adds, discards, flushes, cancelled reads and cancelled
\* subscribes interleave.
THEOREM WantedHolds ==
  ASSUME "abortAdd" \notin Env
  PROVE  Spec => []RecordedIsWanted
<1>1. Inv => RecordedIsWanted
  BY DEF Inv
<1> QED BY <1>1, InitInv, NextKeeps, PTL DEF Spec

-----------------------------------------------------------------------------
(* What group_add() leaves behind. *)

\* The subject that feeds a channel for a group is one the tables may record.
LEMMA FeedsIsKey ==
  ASSUME NEW g \in Groups, NEW c \in Channels
  PROVE  Feeds(g, c) \in Keys
  BY DEF Feeds, Keys, Channels

\* Where a group_add() is whose membership is in its group's set.
Waiting == {"glock", "gsub", "gconf"}

\* A membership that is to stay is in the set, and one that counts has a subscription.
Member(t) == task[t].pc \in Waiting /\ task[t].ch \in Members(task[t].grp)
DueOK == \A t \in due : Member(t)
JoinedOK == \A p \in joined : p[2] \in Members(p[1]) /\ recorded[Feeds(p[1], p[2])] # None
Memberships == DueOK /\ JoinedOK

\* What is recorded stays recorded; the others stay where they are.
KeysStay == \A k \in Keys : recorded[k] # None => recorded'[k] # None
OthersStayPut(t) == \A u \in Tasks : u # t => task'[u] = task[u]

\* Memberships that last: those that count, and those a group_add() is about to count. They
\* did before the step, or their group_add() has just been handed the mailbox.
Lasting == joined \cup {<<task[t].grp, task[t].ch>> : t \in due}
ComesFrom == \A p \in Lasting' : p \in Lasting \/ \E t \in Tasks : IsHanded(t) /\ p[2] = task'[t].ch

\* Only a discard or a flush(), which leaves no mailbox, takes a member away.
SetsStay == GroupsGrow \/ "discard" \in Env \/ \A c \in Channels : mailboxes'[c] = None
MembersStay == Memberships' /\ ComesFrom /\ SetsStay

\* What lasts is counted already, or some group_add() is about to count it.
LEMMA LastingNext ==
  ASSUME joined' \subseteq Lasting,
         \A u \in due' : /\ u \in Tasks
                         /\ \/ u \in due /\ task'[u].grp = task[u].grp /\ task'[u].ch = task[u].ch
                            \/ IsHanded(u)
  PROVE  ComesFrom
<1> SUFFICES ASSUME NEW p \in Lasting', p \notin Lasting
             PROVE  \E t \in Tasks : IsHanded(t) /\ p[2] = task'[t].ch
  BY DEF ComesFrom
<1>1. PICK u \in due' : p = <<task'[u].grp, task'[u].ch>>
  BY DEF Lasting
<1>2. IsHanded(u) /\ u \in Tasks /\ p[2] = task'[u].ch
  BY <1>1 DEF Lasting
<1> QED BY <1>2

\* Members and records that stay keep the memberships.
LEMMA GrowthStays ==
  ASSUME Inv, Memberships, NEW t \in Tasks, GroupsGrow, KeysStay, OthersStayPut(t),
         joined' = joined, due' \subseteq due \cup {t},
         t \in due' => Member(t)',
         t \in due' => (t \in due /\ task'[t].grp = task[t].grp /\ task'[t].ch = task[t].ch) \/ IsHanded(t)
  PROVE  MembersStay
<1>1. DueOK'
  <2> SUFFICES ASSUME NEW u \in due' PROVE Member(u)'
    BY DEF DueOK
  <2>1. CASE u # t
    <3>1. u \in due /\ u \in Tasks /\ task'[u] = task[u]
      BY <2>1 DEF OthersStayPut, Inv, TypeOK
    <3>2. task[u].pc \in Waiting /\ task[u].ch \in Members(task[u].grp)
      BY <3>1 DEF Memberships, DueOK, Member
    <3>3. task[u].grp \in Groups
      BY <3>1, <3>2, CallFields DEF Inv, Shaped, Waiting, Calls
    <3>4. task[u].ch \in Members(task[u].grp)'
      BY <3>1, <3>2, <3>3 DEF GroupsGrow, Members
    <3> QED BY <3>1, <3>2, <3>4 DEF Member
  <2> QED BY <2>1
<1>2. JoinedOK'
  <2> SUFFICES ASSUME NEW p \in joined'
               PROVE  p[2] \in Members(p[1])' /\ recorded'[Feeds(p[1], p[2])] # None
    BY DEF JoinedOK
  <2>1. p[1] \in Groups /\ p[2] \in Channels /\ p \in joined
    BY DEF Inv, TypeOK
  <2>2. p[2] \in Members(p[1]) /\ recorded[Feeds(p[1], p[2])] # None /\ Feeds(p[1], p[2]) \in Keys
    BY <2>1, FeedsIsKey DEF Memberships, JoinedOK
  <2> QED BY <2>1, <2>2 DEF GroupsGrow, KeysStay
<1>3. ComesFrom
  <2>1. \A u \in due' : u \in Tasks /\ (u = t \/ (u \in due /\ task'[u] = task[u]))
    BY DEF OthersStayPut, Inv, TypeOK
  <2>2. joined' \subseteq Lasting
    BY DEF Lasting
  <2> QED BY <2>1, <2>2, LastingNext
<1> QED BY <1>1, <1>2, <1>3 DEF Memberships, MembersStay, SetsStay

\* A step of a call that has nothing to do with a group.
CalmStep(t) ==
    /\ groups' = groups /\ StoreSets(members) /\ UNCHANGED history
    /\ KeysStay /\ OthersStayPut(t)

LEMMA CalmStays ==
  ASSUME Inv, Memberships, NEW t \in Tasks, task[t].pc \notin Waiting, CalmStep(t)
  PROVE  MembersStay
<1>1. t \notin due /\ joined' = joined /\ due' = due
  BY DEF Memberships, DueOK, Member, CalmStep, history
<1>2. GroupsGrow
  BY SameGroups DEF Inv, CalmStep
<1> QED BY <1>1, <1>2, GrowthStays DEF CalmStep

\* What is not written stays.
LEMMA SameKeysStay == UNCHANGED recorded => KeysStay
  BY DEF KeysStay

\* A task that becomes something leaves the others where they are.
LEMMA BecomesAlone ==
  ASSUME TypeOK, NEW t \in Tasks, NEW me, Become(t, me)
  PROVE  task'[t] = me /\ OthersStayPut(t)
  BY DEF Become, OthersStayPut, TypeOK

\* ... and so does one that goes into a clean-up.
LEMMA TidiesAlone ==
  ASSUME TypeOK, NEW t \in Tasks, NEW ss, NEW pc, NEW me, Tidy(t, ss, pc, me)
  PROVE  OthersStayPut(t)
  BY BecomesAlone DEF Tidy

\* ... or ends.
LEMMA EndsAlone ==
  ASSUME TypeOK, NEW t \in Tasks, NEW nb, NEW cancelled, Ends(t, nb, cancelled)
  PROVE  OthersStayPut(t) /\ StoreSets(members)
  BY BecomesAlone DEF Ends, Store

\* A call is handed its mailbox: only group_add() makes it a member.
LEMMA HandOutStays ==
  ASSUME Inv, Memberships, NEW t \in Tasks, task[t].pc \notin Waiting \cup {"get"}, NEW call \in Calls, call.ch # None,
         call.op = "add" => call.grp # None, NEW b, NEW nb, HandOut(t, call, b, nb),
         KeysStay, joined' = joined
  PROVE  MembersStay
<1> DEFINE me == [call EXCEPT !.bx = None, !.sub = None, !.gen = 0]
<1>1. me \in Calls /\ me.ch = call.ch /\ me.op = call.op /\ me.grp = call.grp
  <2>1. 0 \in 0..MaxFlushes
    BY Bounds
  <2> QED BY <2>1 DEF Calls
<1> HIDE DEF me
<1>2. CASE HandToRead(t, me, b, nb) \/ HandToCaller(t, me, nb)
  <2>1. groups' = groups /\ due' = due /\ StoreSets(members) /\ \E r : Become(t, r)
    BY <1>2 DEF HandToRead, HandToCaller, Store
  <2>2. CalmStep(t)
    BY <2>1, BecomesAlone DEF CalmStep, history, Inv
  <2> QED BY <2>2, CalmStays
<1>3. CASE HandToAdd(t, me, nb)
  <2>1. me.grp # None
    BY <1>1, <1>3 DEF HandToAdd
  <2>2. /\ GroupsGrow /\ me.ch \in Members(me.grp)' /\ due' = due \cup {t}
        /\ \E x \in SetIds : Become(t, [me EXCEPT !.pc = "glock", !.set = x])
    BY <1>1, <1>3, <2>1, HandToAddGrows DEF Inv
  <2>3. PICK x \in SetIds : Become(t, [me EXCEPT !.pc = "glock", !.set = x])
    BY <2>2
  <2>4. task'[t].pc = "glock" /\ task'[t].ch = me.ch /\ task'[t].grp = me.grp /\ OthersStayPut(t)
    <3>1. task'[t] = [me EXCEPT !.pc = "glock", !.set = x] /\ OthersStayPut(t)
      BY <2>3, BecomesAlone DEF Inv
    <3> QED BY <1>1, <3>1 DEF Calls
  <2>5. Member(t)'
    BY <2>2, <2>4 DEF Member, Waiting, Members
  <2>6. IsHanded(t)
    BY <2>4 DEF IsHanded, Held, Waiting
  <2> QED BY <2>2, <2>4, <2>5, <2>6, GrowthStays
<1> QED BY <1>2, <1>3 DEF HandOut, me

\* A call looks its mailbox up.
LEMMA LookUpStays ==
  ASSUME Inv, Memberships, NEW t \in Tasks, task[t].pc \notin Waiting \cup {"get"}, NEW call \in Calls, call.ch # None,
         call.op = "add" => call.grp # None, NEW nb, LookUp(t, call, nb),
         KeysStay, joined' = joined
  PROVE  MembersStay
<1>1. CASE groups' = groups /\ due' = due /\ Store(nb) /\ \E me : Become(t, me)
  <2>1. CalmStep(t)
    BY <1>1, BecomesAlone DEF CalmStep, history, Inv, Store
  <2> QED BY <2>1, CalmStays
<1>2. CASE \E b : HandOut(t, call, b, nb)
  BY <1>2, HandOutStays
<1> QED BY <1>1, <1>2 DEF LookUp

\* A step that begins with one of the awaits of _mailbox(), or with none.
LEMMA MailboxStays ==
  ASSUME Inv, Memberships, NEW t \in Tasks, task[t].pc \notin Waiting \cup {"get"}, NEW call \in Calls, call.ch # None,
         call.op = "add" => call.grp # None, Mailbox(t, call)
  PROVE  MembersStay
  BY SameKeysStay, LookUpStays DEF Mailbox

\* receive(), new_channel() or group_add() starts.
LEMMA CallStays ==
  ASSUME Inv, Memberships, NEW t \in Tasks, Call(t)
  PROVE  MembersStay
<1>1. PICK op \in {"receive", "new", "add"} \cap Env, c \in Channels, g \in Groups \cup {None} :
         /\ (op = "add") <=> (g # None)
         /\ Mailbox(t, [Idle EXCEPT !.op = op, !.ch = c, !.grp = g])
  BY DEF Call
<1> DEFINE call == [Idle EXCEPT !.op = op, !.ch = c, !.grp = g]
<1>2. call \in Calls /\ call.ch = c /\ call.op = op /\ call.grp = g /\ c # None
  <2>1. op \in Ops /\ c # None
    BY NoneIsFresh DEF Ops
  <2> QED BY <2>1, IdleFields DEF Calls
<1>3. Mailbox(t, call) /\ task[t].pc \notin Waiting \cup {"get"}
  BY <1>1 DEF Call, Waiting
<1> HIDE DEF call
<1> QED BY <1>1, <1>2, <1>3, MailboxStays

\* What a call under way has for arguments.
LEMMA Arguments ==
  ASSUME Inv, NEW t \in Tasks, task[t].pc \notin {"idle", "tidyEnd"}
  PROVE  task[t] \in Calls /\ task[t].ch # None /\ (task[t].op = "add" => task[t].grp # None)
  BY CallFields DEF Inv, Shaped

\* A read goes on to the mailbox that replaces its own, a waiter to the one that is ready.
LEMMA WokenStays ==
  ASSUME Inv, Memberships, NEW t \in Tasks, Move(t) \/ ReadyWake(t)
  PROVE  MembersStay
<1>1. task[t].pc \in {"move", "ready"}
  BY DEF Move, ReadyWake
<1>2. task[t].pc \notin Waiting \cup {"get"}
  BY <1>1 DEF Waiting
<1>3. task[t] \in Calls /\ task[t].ch # None /\ (task[t].op = "add" => task[t].grp # None)
  BY <1>1, Arguments
<1>4. CASE Move(t)
  BY <1>2, <1>3, <1>4, MailboxStays DEF Move
<1>5. CASE ReadyWake(t)
  BY <1>2, <1>3, <1>5, SameKeysStay, HandOutStays, LookUpStays DEF ReadyWake
<1> QED BY <1>4, <1>5

\* subscribe_lock is taken.
LEMMA LockRunStays ==
  ASSUME Inv, Memberships, NEW t \in Tasks, LockRun(t)
  PROVE  MembersStay
<1>1. task[t].pc = "lock" /\ joined' = joined /\ KeysStay
  BY SameKeysStay DEF LockRun
<1>2. task[t] \in Calls /\ task[t].ch # None /\ (task[t].op = "add" => task[t].grp # None)
  BY <1>1, Arguments
<1>3. task[t].pc \notin Waiting \cup {"get"} /\ task[t].pc \notin Waiting
  BY <1>1 DEF Waiting
<1>4. CASE \E b, nb : HandOut(t, task[t], b, nb)
  BY <1>1, <1>2, <1>3, <1>4, HandOutStays
<1>5. CASE groups' = groups /\ due' = due /\ \E me, nb : Become(t, me) /\ Store(nb)
  <2>1. CalmStep(t)
    BY <1>1, <1>5, BecomesAlone DEF CalmStep, history, Inv, Store
  <2> QED BY <1>3, <2>1, CalmStays
<1> QED BY <1>4, <1>5 DEF LockRun

\* The subscription of a mailbox is confirmed.
LEMMA ConfirmedStays ==
  ASSUME Inv, Memberships, NEW t \in Tasks, Confirmed(t)
  PROVE  MembersStay
<1> DEFINE plain == task[t].ch \in PlainChannels
<1>1. task[t].pc = "conf" /\ joined' = joined /\ task[t].sub # None
  BY DEF Confirmed, Inv, TypeOK, Shaped
<1>2. task[t] \in Calls /\ task[t].ch # None /\ (task[t].op = "add" => task[t].grp # None)
  BY <1>1, Arguments
<1>3. task[t].pc \notin Waiting \cup {"get"} /\ task[t].pc \notin Waiting
  BY <1>1 DEF Waiting
<1>4. CASE /\ recorded' = IF plain THEN recorded ELSE [recorded EXCEPT ![Proc] = task[t].sub]
           /\ \E b, nb : HandOut(t, task[t], b, nb)
  <2>1. KeysStay
    BY <1>1, <1>4 DEF KeysStay, Inv, TypeOK
  <2> QED BY <1>1, <1>2, <1>3, <1>4, <2>1, HandOutStays
<1>5. CASE /\ UNCHANGED <<groups, recorded, due>>
           /\ \E ss, pc, me, nb : Tidy(t, ss, pc, me) /\ Store(nb)
  <2>1. CalmStep(t)
    BY <1>1, <1>5, TidiesAlone, SameKeysStay DEF CalmStep, history, Inv, Store
  <2> QED BY <1>3, <2>1, CalmStays
<1> QED BY <1>4, <1>5 DEF Confirmed

\* The except branch of _mailbox().
LEMMA MailboxFailsStays ==
  ASSUME Inv, Memberships, NEW t \in Tasks, task[t].pc \notin Waiting, MailboxFails(t)
  PROVE  MembersStay
<1>1. CalmStep(t)
  BY EndsAlone, SameKeysStay DEF MailboxFails, CalmStep, Inv
<1> QED BY <1>1, CalmStays

\* A call that subscribes, reads, waits or is cancelled there touches no membership.
LEMMA CalmActionsStay ==
  ASSUME Inv, Memberships, NEW t \in Tasks,
         Subscribed(t) \/ Get(t) \/ SubAborted(t) \/ ConfAborted(t) \/ WaitCancelled(t) \/ ReadCancelled(t)
  PROVE  MembersStay
<1>1. task[t].pc \in {"sub", "get", "conf", "ready", "lock"}
  BY DEF Subscribed, Get, SubAborted, ConfAborted, WaitCancelled, ReadCancelled
<1>2. task[t].pc \notin Waiting
  BY <1>1 DEF Waiting
<1>3. CASE Subscribed(t)
  <2>1. groups' = groups /\ recorded' = recorded /\ UNCHANGED history /\ \E me, nb : Become(t, me) /\ Store(nb)
    BY <1>3 DEF Subscribed, tables
  <2>2. CalmStep(t)
    BY <2>1, BecomesAlone, SameKeysStay DEF CalmStep, Inv, Store
  <2> QED BY <1>2, <2>2, CalmStays
<1>4. CASE Get(t)
  <2>1. /\ groups' = groups /\ recorded' = recorded /\ UNCHANGED history
        /\ (\E nb : Ends(t, nb, FALSE)) \/ (\E me, nb : Become(t, me) /\ Store(nb))
    BY <1>4 DEF Get, tables
  <2>2. CalmStep(t)
    BY <2>1, BecomesAlone, EndsAlone, SameKeysStay DEF CalmStep, Inv, Store
  <2> QED BY <1>2, <2>2, CalmStays
<1>5. CASE SubAborted(t)
  <2>1. CASE MailboxFails(t)
    BY <1>2, <2>1, MailboxFailsStays
  <2>2. CASE UNCHANGED <<tables, going, history>> /\ \E me, nb : Become(t, me) /\ Store(nb)
    <3>1. CalmStep(t)
      BY <2>2, BecomesAlone, SameKeysStay DEF CalmStep, Inv, Store, tables
    <3> QED BY <1>2, <3>1, CalmStays
  <2> QED BY <1>5, <2>1, <2>2 DEF SubAborted
<1>6. CASE ConfAborted(t) \/ ReadCancelled(t)
  <2>1. groups' = groups /\ recorded' = recorded /\ UNCHANGED history /\ \E nb : Store(nb)
    BY <1>6 DEF ConfAborted, ReadCancelled
  <2>2. \E ss, pc, me : Tidy(t, ss, pc, me)
    BY <1>6 DEF ConfAborted, ReadCancelled
  <2>3. CalmStep(t)
    BY <2>1, <2>2, TidiesAlone, SameKeysStay DEF CalmStep, Inv, Store
  <2> QED BY <1>2, <2>3, CalmStays
<1>7. CASE WaitCancelled(t)
  <2>1. CalmStep(t)
    BY <1>7, EndsAlone, SameKeysStay DEF WaitCancelled, CalmStep, Inv, tables
  <2> QED BY <1>2, <2>1, CalmStays
<1> QED BY <1>3, <1>4, <1>5, <1>6, <1>7

\* group_add() returns: if nobody gave its membership up meanwhile, it is one that counts.
LEMMA AddReturnsStays ==
  ASSUME Inv, Memberships, NEW t \in Tasks, groups' = groups, StoreSets(members), KeysStay, AddReturns(t),
         t \in due => recorded'[Feeds(task[t].grp, task[t].ch)] # None
  PROVE  MembersStay
<1>1. /\ joined' = joined \cup {p \in {<<task[t].grp, task[t].ch>>} : t \in due}
      /\ due' = due \ {t} /\ OthersStayPut(t)
  BY BecomesAlone DEF AddReturns, Inv
<1>2. GroupsGrow
  BY SameGroups DEF Inv
<1>3. DueOK'
  <2> SUFFICES ASSUME NEW u \in due' PROVE Member(u)'
    BY DEF DueOK
  <2>1. u \in due /\ u # t /\ u \in Tasks /\ task'[u] = task[u]
    BY <1>1 DEF OthersStayPut, Inv, TypeOK
  <2>2. task[u].pc \in Waiting /\ task[u].ch \in Members(task[u].grp)
    BY <2>1 DEF Memberships, DueOK, Member
  <2>3. task[u].grp \in Groups
    BY <2>1, <2>2, CallFields DEF Inv, Shaped, Waiting, Calls
  <2>4. task[u].ch \in Members(task[u].grp)'
    BY <1>2, <2>1, <2>2, <2>3 DEF GroupsGrow, Members
  <2> QED BY <2>1, <2>2, <2>4 DEF Member
<1>4. ASSUME NEW p \in joined' PROVE p[2] \in Members(p[1])' /\ recorded'[Feeds(p[1], p[2])] # None
  <2>1. CASE p \in joined
    <3>1. p[1] \in Groups /\ p[2] \in Channels
      BY <2>1 DEF Inv, TypeOK
    <3>2. p[2] \in Members(p[1]) /\ recorded[Feeds(p[1], p[2])] # None /\ Feeds(p[1], p[2]) \in Keys
      BY <2>1, <3>1, FeedsIsKey DEF Memberships, JoinedOK
    <3> QED BY <1>2, <3>1, <3>2 DEF GroupsGrow, KeysStay
  <2>2. CASE p \notin joined
    <3>1. t \in due /\ p[1] = task[t].grp /\ p[2] = task[t].ch
      BY <1>1, <1>4, <2>2
    <3>2. task[t].pc \in Waiting /\ task[t].ch \in Members(task[t].grp)
      BY <3>1 DEF Memberships, DueOK, Member
    <3>3. task[t].grp \in Groups
      BY <3>2, CallFields DEF Inv, Shaped, Waiting, Calls
    <3> QED BY <1>2, <3>1, <3>2, <3>3 DEF GroupsGrow
  <2> QED BY <2>1, <2>2
<1>5. ComesFrom
  <2>1. \A u \in due' : u \in Tasks /\ u \in due /\ task'[u] = task[u]
    BY <1>1 DEF OthersStayPut, Inv, TypeOK
  <2>2. joined' \subseteq Lasting
    BY <1>1 DEF Lasting
  <2> QED BY <2>1, <2>2, LastingNext
<1> QED BY <1>2, <1>3, <1>4, <1>5 DEF Memberships, JoinedOK, MembersStay, SetsStay

\* A group_add() goes from one await to the next.
LEMMA AddGoesOn ==
  ASSUME Inv, Memberships, NEW t \in Tasks, groups' = groups, StoreSets(members), KeysStay,
         UNCHANGED history, NEW me \in Calls, Become(t, me), me.pc \in Waiting,
         me.ch = task[t].ch, me.grp = task[t].grp
  PROVE  MembersStay
<1>1. task'[t] = me /\ OthersStayPut(t) /\ GroupsGrow /\ joined' = joined /\ due' = due
  BY BecomesAlone, SameGroups DEF Inv, history
<1>2. ASSUME t \in due' PROVE Member(t)'
  <2>1. task[t].pc \in Waiting /\ task[t].ch \in Members(task[t].grp)
    BY <1>1, <1>2 DEF Memberships, DueOK, Member
  <2>2. task[t].grp \in Groups
    BY <2>1, CallFields DEF Inv, Shaped, Waiting, Calls
  <2>3. me.ch \in Members(me.grp)'
    BY <1>1, <2>1, <2>2 DEF GroupsGrow
  <2> QED BY <1>1, <2>3 DEF Member, Members
<1> QED BY <1>1, <1>2, GrowthStays

\* group_add() takes the lock, or finds its subscription there.
LEMMA GroupLockRunStays ==
  ASSUME Inv, Memberships, NEW t \in Tasks, GroupLockRun(t)
  PROVE  MembersStay
<1>1. /\ task[t].pc = "glock" /\ groups' = groups /\ recorded' = recorded /\ StoreSets(members) /\ KeysStay
      /\ task[t] \in Calls
  BY CallFields, SameKeysStay DEF GroupLockRun, tables, Store, Inv
<1>2. CASE recorded[Feeds(task[t].grp, task[t].ch)] # None /\ AddReturns(t)
  BY <1>1, <1>2, AddReturnsStays
<1>3. CASE UNCHANGED history /\ Become(t, [task[t] EXCEPT !.pc = "gsub"])
  <2> DEFINE me == [task[t] EXCEPT !.pc = "gsub"]
  <2>1. me \in Calls /\ me.pc = "gsub" /\ me.ch = task[t].ch /\ me.grp = task[t].grp
    <3>1. "gsub" \in PCs
      BY DEF PCs, Holding
    <3> QED BY <1>1, <3>1 DEF Calls
  <2>2. Become(t, me)
    BY <1>3
  <2> HIDE DEF me
  <2>3. me.pc \in Waiting
    BY <2>1 DEF Waiting
  <2> QED BY <1>1, <1>3, <2>1, <2>2, <2>3, AddGoesOn
<1> QED BY <1>2, <1>3 DEF GroupLockRun

\* Its subscribe returned.
LEMMA GroupSubscribedStays ==
  ASSUME Inv, Memberships, NEW t \in Tasks, GroupSubscribed(t)
  PROVE  MembersStay
<1>1. PICK s \in Fresh(SubIds, SubRefs) : Become(t, [task[t] EXCEPT !.pc = "gconf", !.sub = s])
  BY DEF GroupSubscribed
<1>2. /\ groups' = groups /\ StoreSets(members) /\ KeysStay /\ UNCHANGED history
      /\ task[t] \in Calls /\ s \in SubIds
  BY CallFields, SameKeysStay, FreshIsOne DEF GroupSubscribed, tables, Store, Inv
<1> DEFINE me == [task[t] EXCEPT !.pc = "gconf", !.sub = s]
<1>3. me \in Calls /\ me.pc = "gconf" /\ me.ch = task[t].ch /\ me.grp = task[t].grp
  <2>1. "gconf" \in PCs
    BY DEF PCs, Holding
  <2> QED BY <1>2, <2>1 DEF Calls
<1>4. Become(t, me)
  BY <1>1
<1> HIDE DEF me
<1>5. me.pc \in Waiting
  BY <1>3 DEF Waiting
<1> QED BY <1>2, <1>3, <1>4, <1>5, AddGoesOn

\* The group's subscription is confirmed; a membership that is to stay is one the group wants.
LEMMA GroupConfirmedStays ==
  ASSUME Inv, Memberships, NEW t \in Tasks, GroupConfirmed(t)
  PROVE  MembersStay
<1> DEFINE g == task[t].grp
           c == task[t].ch
<1>1. task[t].pc = "gconf" /\ groups' = groups /\ StoreSets(members)
  BY DEF GroupConfirmed, Store
<1>2. /\ g \in Groups /\ c \in Channels /\ task[t].sub # None /\ Feeds(g, c) \in Keys
  <2>1. g \in Groups /\ c \in Channels /\ task[t].sub # None
    BY <1>1, CallFields DEF Inv, Shaped
  <2> QED BY <2>1, FeedsIsKey
<1>3. CASE /\ recorded' = [recorded EXCEPT ![Feeds(g, c)] = task[t].sub]
           /\ AddReturns(t)
  <2>1. recorded'[Feeds(g, c)] # None /\ KeysStay
    BY <1>2, <1>3 DEF KeysStay, Inv, TypeOK
  <2> QED BY <1>1, <1>3, <2>1, AddReturnsStays
<1>4. CASE /\ ~Wants(g, c) /\ UNCHANGED <<recorded, history>>
           /\ Tidy(t, {task[t].sub}, "tidyAdd", [task[t] EXCEPT !.sub = None])
  <2>1. t \notin due
    <3>1. t \in due => c \in Members(g)
      BY DEF Memberships, DueOK, Member
    <3> QED BY <1>2, <1>4, <3>1 DEF Wants
  <2>2. OthersStayPut(t) /\ GroupsGrow /\ KeysStay
    BY <1>1, <1>4, TidiesAlone, SameGroups, SameKeysStay DEF Inv
  <2> QED BY <1>4, <2>1, <2>2, GrowthStays DEF history
<1> QED BY <1>3, <1>4 DEF GroupConfirmed

\* A group's subjects are told apart, whatever the channel.
LEMMA GroupKeys ==
  \A g, h, c, d : Grp(h) # GrpChan(g, c) /\ (GrpChan(h, d) = GrpChan(g, c) => h = g /\ d = c)
<1>1. /\ \A h : Grp(h).kind = "grp"
      /\ \A g, c : GrpChan(g, c).kind = "grpch" /\ GrpChan(g, c).grp = g /\ GrpChan(g, c).ch = c
  BY DEF Grp, GrpChan
<1> QED BY <1>1

\* group_discard() keeps every record that a membership left over needs.
LEMMA DiscardStays ==
  ASSUME Inv, Memberships, NEW t \in Tasks, Discard(t)
  PROVE  MembersStay
<1>1. PICK g \in Groups, c \in Channels :
         /\ recorded' = [k \in Keys |-> IF k \in Dropped(g, c, Members(g) \ {c}) THEN None ELSE recorded[k]]
         /\ Members(g)' = Members(g) \ {c} /\ \A h \in Groups : h # g => Members(h)' = Members(h)
         /\ joined' = joined \ {<<g, c>>}
         /\ due' = {u \in due : task[u].grp # g \/ task[u].ch # c}
  BY DiscardTakesOne DEF Inv
<1>2. OthersStayPut(t) /\ task[t].pc \notin Waiting
  <2>1. OthersStayPut(t)
    BY DiscardTakesOne, TidiesAlone DEF Inv
  <2>2. task[t].pc \in {"idle", "handed"}
    BY DEF Discard
  <2> QED BY <2>1, <2>2 DEF Waiting
<1>3. \A h \in Groups : \A d \in Members(h) : h # g \/ d # c => d \in Members(h)'
  BY <1>1
<1>4. DueOK'
  <2> SUFFICES ASSUME NEW u \in due' PROVE Member(u)'
    BY DEF DueOK
  <2>1. u \in due /\ u \in Tasks /\ (task[u].grp # g \/ task[u].ch # c)
    BY <1>1 DEF Inv, TypeOK
  <2>2. task[u].pc \in Waiting /\ task[u].ch \in Members(task[u].grp)
    BY <2>1 DEF Memberships, DueOK, Member
  <2>3. task'[u] = task[u] /\ task[u].grp \in Groups
    BY <1>2, <2>1, <2>2, CallFields DEF OthersStayPut, Inv, Shaped, Waiting, Calls
  <2>4. task[u].ch \in Members(task[u].grp)'
    BY <1>3, <2>1, <2>2, <2>3 DEF Members
  <2> QED BY <2>2, <2>3, <2>4 DEF Member
<1>5. ASSUME NEW p \in joined' PROVE p[2] \in Members(p[1])' /\ recorded'[Feeds(p[1], p[2])] # None
  <2> DEFINE h == p[1]
             d == p[2]
  <2>1. p \in joined /\ h \in Groups /\ d \in Channels /\ (h # g \/ d # c)
    BY <1>1, <1>5 DEF Inv, TypeOK
  <2>2. d \in Members(h) /\ recorded[Feeds(h, d)] # None /\ Feeds(h, d) \in Keys
    BY <2>1, FeedsIsKey DEF Memberships, JoinedOK
  <2>3. d \in Members(h)'
    BY <1>3, <2>1, <2>2
  <2>4. Feeds(h, d) \notin Dropped(g, c, Members(g) \ {c})
    <3>1. CASE d \in ProcessChannels
      <4>1. Feeds(h, d) = Grp(h)
        BY <3>1 DEF Feeds
      <4>2. Feeds(h, d) # GrpChan(g, c)
        BY <4>1, GroupKeys
      <4>3. h = g => (Members(g) \ {c}) \cap ProcessChannels # {}
        BY <2>1, <2>2, <3>1
      <4>4. Grp(h) = Grp(g) => h = g
        BY <2>1, KeysDiffer
      <4> QED BY <2>2, <4>1, <4>2, <4>3, <4>4 DEF Dropped
    <3>2. CASE d \notin ProcessChannels
      <4>1. d \in PlainChannels /\ Feeds(h, d) = GrpChan(h, d)
        BY <2>1, <3>2 DEF Feeds, Channels
      <4>2. Feeds(h, d) # Grp(g)
        BY <2>1, <4>1, KeysDiffer
      <4>3. Feeds(h, d) # GrpChan(g, c)
        BY <2>1, <4>1, GroupKeys
      <4> QED BY <4>2, <4>3 DEF Dropped
    <3> QED BY <3>1, <3>2
  <2> QED BY <1>1, <2>2, <2>3, <2>4
<1>6. ComesFrom
  <2>1. \A u \in due' : u \in due /\ u \in Tasks
    BY <1>1 DEF Inv, TypeOK
  <2>2. t \notin due
    BY <1>2 DEF Memberships, DueOK, Member
  <2>3. joined' \subseteq Lasting
    BY <1>1 DEF Lasting
  <2> QED BY <1>2, <2>1, <2>2, <2>3, LastingNext DEF OthersStayPut
<1>7. SetsStay
  BY DEF Discard, SetsStay
<1> QED BY <1>4, <1>5, <1>6, <1>7 DEF Memberships, JoinedOK, MembersStay

\* flush() gives up every membership.
LEMMA FlushStays ==
  ASSUME NEW t \in Tasks, Flush(t)
  PROVE  MembersStay
<1>1. joined' = {} /\ due' = {}
  BY DEF Flush
<1>2. ComesFrom
  BY <1>1, LastingNext
<1>3. SetsStay
  BY DEF Flush, SetsStay
<1> QED BY <1>1, <1>2, <1>3 DEF Memberships, DueOK, JoinedOK, MembersStay

\* A clean-up that ends, or is cancelled, where no group_add() fails.
LEMMA CleanUpStays ==
  ASSUME Inv, Memberships, NEW t \in Tasks,
         TidyDone(t) \/ (TidyCancelled(t) /\ "abortAdd" \notin Env)
  PROVE  MembersStay
<1>1. task[t].pc \in Tidying /\ task[t].pc # "tidyAddFail"
  BY DEF TidyDone, TidyCancelled, Tidying, LockedTidying, Inv, NoAddFails
<1>2. task[t].pc \notin Waiting /\ t \notin due /\ task[t].pc \notin Waiting \cup {"get"}
  <2>1. task[t].pc \notin Waiting /\ task[t].pc \notin Waiting \cup {"get"}
    BY <1>1 DEF Tidying, LockedTidying, Waiting
  <2> QED BY <2>1 DEF Memberships, DueOK, Member
<1>3. CASE UNCHANGED <<tables, history>> /\ Store(box) /\ \E ss, pc, me : Tidy(t, ss, pc, me)
  <2>1. CalmStep(t)
    BY <1>3, TidiesAlone, SameKeysStay DEF CalmStep, Inv, Store, tables
  <2> QED BY <1>2, <2>1, CalmStays
<1>4. CASE MailboxFails(t)
  BY <1>2, <1>4, MailboxFailsStays
<1>5. CASE UNCHANGED tables /\ AddReturns(t) /\ Store(box)
  BY <1>2, <1>5, SameKeysStay, AddReturnsStays DEF tables, Store
<1>6. CASE UNCHANGED <<tables, history>> /\ \E cancelled : Ends(t, box, cancelled)
  <2>1. CalmStep(t)
    BY <1>6, EndsAlone, SameKeysStay DEF CalmStep, Inv, tables
  <2> QED BY <1>2, <2>1, CalmStays
<1>7. CASE /\ task[t].pc \in {"tidyRetryBox", "tidyRetry"}
           /\ UNCHANGED <<recorded, joined>> /\ LookUp(t, task[t], GivenUp(t))
  <2>1. task[t] \in Calls /\ task[t].ch # None /\ (task[t].op = "add" => task[t].grp # None)
    BY <1>7, Arguments
  <2> QED BY <1>2, <1>7, <2>1, SameKeysStay, LookUpStays
<1>8. CASE TidyDone(t)
  BY <1>1, <1>3, <1>4, <1>5, <1>6, <1>7, <1>8 DEF TidyDone
<1>9. CASE TidyCancelled(t) /\ "abortAdd" \notin Env
  BY <1>4, <1>6, <1>9 DEF TidyCancelled
<1> QED BY <1>8, <1>9

\* Arrivals, finished unsubscribes and the passing of time touch no membership.
LEMMA OutsideStays ==
  ASSUME Inv, Memberships,
         \/ \E s \in SubIds : Unsubscribed(s) \/ Deliver(s)
         \/ \E c \in ProcessChannels : GraceElapses(c)
  PROVE  MembersStay
<1>1. /\ groups' = groups /\ recorded' = recorded /\ task' = task /\ joined' = joined /\ due' = due
      /\ \E nb : Store(nb)
  BY DEF Unsubscribed, Deliver, GraceElapses, tables, history
<1>2. \A g \in Groups : Members(g)' = Members(g)
  BY <1>1, MembersKept DEF Store, Inv
<1>3. DueOK'
  <2> SUFFICES ASSUME NEW u \in due PROVE Member(u)'
    BY <1>1 DEF DueOK
  <2>1. task[u].pc \in Waiting /\ task[u].ch \in Members(task[u].grp)
    BY DEF Memberships, DueOK, Member
  <2>2. task[u].grp \in Groups
    <3>1. u \in Tasks
      BY DEF Inv, TypeOK
    <3> QED BY <2>1, <3>1, CallFields DEF Inv, Shaped, Waiting, Calls
  <2>3. task[u].ch \in Members(task[u].grp)'
    BY <1>1, <1>2, <2>1, <2>2 DEF Members
  <2> QED BY <1>1, <2>1, <2>3 DEF Member
<1>4. JoinedOK'
  BY <1>1, <1>2 DEF Memberships, JoinedOK, Inv, TypeOK
<1>5. ComesFrom
  BY <1>1 DEF ComesFrom, Lasting
<1>6. SetsStay
  BY <1>2 DEF SetsStay, GroupsGrow
<1> QED BY <1>3, <1>4, <1>5, <1>6 DEF Memberships, MembersStay

\* No membership yet.
LEMMA InitMemberships == Init => Memberships
  BY DEF Init, Memberships, DueOK, JoinedOK

\* Every step keeps the memberships that are to stay.
LEMMA NextStays ==
  ASSUME "abortAdd" \notin Env, Inv, Memberships, [Next]_vars
  PROVE  MembersStay
<1>1. ASSUME NEW t \in Tasks, Progress(t) PROVE MembersStay
  BY <1>1, WokenStays, LockRunStays, CalmActionsStay, ConfirmedStays, GroupLockRunStays,
     GroupSubscribedStays, GroupConfirmedStays, CleanUpStays DEF Progress
<1>2. ASSUME NEW t \in Tasks, Interrupt(t) PROVE MembersStay
  BY <1>2, CalmActionsStay, CleanUpStays DEF Interrupt, GroupAborted
<1>3. ASSUME UNCHANGED vars PROVE MembersStay
  <2>1. UNCHANGED <<groups, members, recorded, task, joined, due>>
    BY <1>3 DEF vars, history
  <2> QED BY <2>1 DEF Memberships, DueOK, Member, JoinedOK, Members, MembersStay, ComesFrom, Lasting,
                 SetsStay, GroupsGrow
<1> QED BY <1>1, <1>2, <1>3, CallStays, DiscardStays, FlushStays, OutsideStays DEF Next
=============================================================================
