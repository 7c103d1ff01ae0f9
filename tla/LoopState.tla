----------------------------- MODULE LoopState -----------------------------
(***************************************************************************)
(* The tables one event loop keeps (`_LoopState`) and the calls that share *)
(* them: receive, new_channel, group_add, group_discard and flush, with    *)
(* the mailbox sweep, the background clean-ups and the messages that come  *)
(* in.  The connection is up throughout.                                   *)
(*                                                                         *)
(* A task runs from one await to the next without interruption, so an      *)
(* action is what lies between two awaits.  Taking the subscribe lock when *)
(* it is free does not suspend in the code; it is a step of its own here,  *)
(* so other tasks interleave a little more than asyncio lets them.         *)
(***************************************************************************)
EXTENDS Integers, FiniteSets

CONSTANTS
    Tasks,              \* coroutines on this loop
    ProcessChannels,    \* names with a "!", of the one prefix in use
    PlainChannels,      \* shared names
    Groups,
    BoxIds, SetIds, SubIds,  \* identities of _Mailbox, set() and Subscription objects
    None,
    Capacity,           \* messages a mailbox holds
    MaxFlushes,         \* bound on flush() calls
    Env                 \* what callers and the outside world do in this instance

Channels == ProcessChannels \cup PlainChannels

ASSUME IdsAreNumbers == BoxIds \subseteq Nat /\ SetIds \subseteq Nat /\ SubIds \subseteq Nat
ASSUME NoneIsFresh == None \notin Nat \cup Channels \cup Groups
ASSUME KindsOfChannel == ProcessChannels \cap PlainChannels = {}
ASSUME Bounds == Capacity \in Nat \ {0} /\ MaxFlushes \in Nat /\ IsFiniteSet(Tasks)

VARIABLES
    mailboxes,    \* channel -> its mailbox
    groups,       \* group -> the set object holding its members
    members,      \* set object -> channels
    recorded,     \* subject -> the subscription the tables record for it
    generation,   \* bumped by flush()
    box,          \* mailbox -> its fields
    subs,         \* subscription -> what it delivers, while the server has it
    going,        \* subscriptions whose unsubscribe() has been started
    task,         \* what each coroutine is doing
    joined,       \* history: memberships whose group_add() returned, not given up since
    due           \* history: tasks whose group_add() is to leave its membership behind

history == <<joined, due>>
vars == <<mailboxes, groups, members, recorded, generation, box, subs, going, task, joined, due>>

-----------------------------------------------------------------------------
(* Subjects.  A process has one for all its process channels. *)

Proc == [kind |-> "pc", grp |-> None, ch |-> None]
Chan(c) == [kind |-> "ch", grp |-> None, ch |-> c]
Grp(g) == [kind |-> "grp", grp |-> g, ch |-> None]
GrpChan(g, c) == [kind |-> "grpch", grp |-> g, ch |-> c]

Keys == {Proc} \cup {Grp(g) : g \in Groups}
               \cup {GrpChan(g, c) : g \in Groups, c \in PlainChannels}
Subjects == Keys \cup {Chan(c) : c \in PlainChannels}

ASSUME NoneIsNoSubject == None \notin Subjects

\* The subscription that feeds channel c for group g.
Feeds(g, c) == IF c \in ProcessChannels THEN Grp(g) ELSE GrpChan(g, c)

-----------------------------------------------------------------------------
(* What a mailbox and a task remember. *)

NewBox == [ready |-> FALSE, subscribed |-> FALSE, superseded |-> FALSE, aged |-> FALSE,
           left |-> FALSE, sub |-> None, receivers |-> 0, msgs |-> 0, wakes |-> 0]

NoSub == [subject |-> None, box |-> None]

Idle == [pc |-> "idle", op |-> "none", ch |-> None, grp |-> None, bx |-> None, rd |-> None,
         gen |-> 0, set |-> None, sub |-> None, todo |-> {}]

\* "ready", "lock", "get" ... name the await a task is suspended at.  The tidy states are
\* the awaits inside _unsubscribe(), told apart by what the caller does next.
LockedTidying == {"tidyAbort", "tidyFail", "tidyRetryBox", "tidyRetry", "tidyAdd", "tidyAddFail"}
Tidying == LockedTidying \cup {"tidyEnd"}
Holding == {"sub", "conf", "gsub", "gconf"} \cup LockedTidying
PCs == {"idle", "handed", "move", "ready", "lock", "get", "glock"} \cup Holding \cup Tidying
Ops == {"none", "receive", "new", "add"}

Members(g) == IF groups[g] = None THEN {} ELSE members[groups[g]]
InAGroup(c) == \E g \in Groups : c \in Members(g)

\* The group's set not looked at again (variant with a bug).
WantsAnyway(g, c) == TRUE

\* Whether the group still has a member that the subscription feeding c serves.
Wants(g, c) == IF c \in ProcessChannels THEN Members(g) \cap ProcessChannels # {} ELSE c \in Members(g)

Boxes == [ready : BOOLEAN, subscribed : BOOLEAN, superseded : BOOLEAN, aged : BOOLEAN,
          left : BOOLEAN, sub : SubIds \cup {None}, receivers : Int, msgs : 0..Capacity, wakes : Int]

Calls == [pc : PCs, op : Ops, ch : Channels \cup {None}, grp : Groups \cup {None},
          bx : BoxIds \cup {None}, rd : BoxIds \cup {None}, gen : 0..MaxFlushes,
          set : SetIds \cup {None}, sub : SubIds \cup {None}, todo : SUBSET SubIds]

\* Which arguments a call has, by where it is.
Shaped(me) ==
    /\ me.pc \notin {"idle", "tidyEnd"} => me.ch # None
    /\ me.pc \in {"glock", "gsub", "gconf", "tidyAdd", "tidyAddFail"} => me.op = "add"
    /\ me.op = "add" => me.ch # None /\ me.grp # None
    /\ me.pc \in {"conf", "gconf"} => me.sub # None
    /\ me.pc \in {"ready", "sub", "conf"} => me.bx # None
    /\ me.pc \in {"get", "move"} => me.rd # None

TypeOK ==
    /\ mailboxes \in [Channels -> BoxIds \cup {None}]
    /\ groups \in [Groups -> SetIds \cup {None}]
    /\ members \in [SetIds -> SUBSET Channels]
    /\ recorded \in [Keys -> SubIds \cup {None}]
    /\ generation \in 0..MaxFlushes
    /\ box \in [BoxIds -> Boxes]
    /\ subs \in [SubIds -> [subject : Subjects, box : BoxIds \cup {None}] \cup {NoSub}]
    /\ going \subseteq SubIds
    /\ task \in [Tasks -> Calls]
    /\ joined \subseteq Groups \X Channels
    /\ due \subseteq Tasks
    /\ \A t \in Tasks : Shaped(task[t])

-----------------------------------------------------------------------------
(* Identities.  An object nobody refers to is gone, and its identity is free. *)

Live == {s \in SubIds : subs[s] # NoSub}

BoxRefs == ({mailboxes[c] : c \in Channels} \cup {task[t].bx : t \in Tasks}
             \cup {task[t].rd : t \in Tasks} \cup {subs[s].box : s \in SubIds}) \ {None}
SetRefs == ({groups[g] : g \in Groups} \cup {task[t].set : t \in Tasks}) \ {None}
SubRefs == Live \cup going \cup {recorded[k] : k \in Keys} \cup {box[b].sub : b \in BoxIds}
                \cup {task[t].sub : t \in Tasks} \cup UNION {task[t].todo : t \in Tasks}

Fresh(ids, used) == {i \in ids \ used : \A j \in ids \ used : i <= j}

\* The last conjuncts of every action: what is still referred to takes its new value.
StoreBoxes(nb) == \E refs \in {BoxRefs'} : box' = [b \in BoxIds |-> IF b \in refs THEN nb[b] ELSE NewBox]
StoreSets(ns) == \E refs \in {SetRefs'} : members' = [x \in SetIds |-> IF x \in refs THEN ns[x] ELSE {}]
Store(nb) == StoreBoxes(nb) /\ StoreSets(members)

-----------------------------------------------------------------------------
(* Pieces of the calls. *)

tables == <<mailboxes, groups, recorded, generation>>
server == <<subs, going>>

Become(t, me) == task' = [task EXCEPT ![t] = me]

\* A lock that does not exclude (variant with a bug).
LockIgnored == TRUE

\* subscribe_lock is held by the task that is between acquiring and releasing it.
LockFree == \A t \in Tasks : task[t].pc \notin Holding

\* A reader that leaves without being counted down (variant with a bug).
LeaveUncounted(nb, r, cancelled) == nb

\* The `finally` of receive(): the reader no longer counts.
Leave(nb, r, cancelled) ==
    IF r = None THEN nb
    ELSE LET n == nb[r].receivers - 1 IN
         [nb EXCEPT ![r].receivers = n,
                    ![r].aged = @ /\ n # 0,
                    ![r].left = cancelled /\ n = 0]

\* An _unsubscribe() that sends nothing (variant with a bug).
TidyNothing(t, ss, pc, me) == Become(t, [me EXCEPT !.pc = pc]) /\ UNCHANGED going

\* Unsubscribe from ss, then do what pc says.  The first command starts at once.
Tidy(t, ss, pc, me) ==
    \/ ss = {} /\ Become(t, [me EXCEPT !.pc = pc]) /\ UNCHANGED going
    \/ /\ ss # {}
       /\ LET first == CHOOSE s \in ss : TRUE IN
          Become(t, [me EXCEPT !.pc = pc, !.todo = ss \ {first}]) /\ going' = going \cup {first}

\* A call ends, in success or not; a read it was making no longer counts.
Ends(t, nb, cancelled) == Become(t, Idle) /\ Store(Leave(nb, task[t].rd, cancelled))

\* A read takes mailbox b up; if flush() took it away in the meantime it moves on.
HandToRead(t, me, b, nb) ==
    /\ me.op = "receive"
    /\ UNCHANGED <<groups, due>>
    /\ Become(t, [me EXCEPT !.pc = IF nb[b].superseded THEN "move" ELSE "get", !.rd = b])
    /\ LET counted == [nb EXCEPT ![b].receivers = @ + 1, ![b].left = FALSE] IN
       Store(IF me.rd = None THEN counted ELSE [counted EXCEPT ![me.rd].receivers = @ - 1])

\* new_channel() returns the name.
HandToCaller(t, me, nb) ==
    /\ me.op = "new"
    /\ UNCHANGED <<groups, due>>
    /\ Become(t, [Idle EXCEPT !.pc = "handed", !.ch = me.ch])
    /\ Store(nb)

\* group_add() makes the channel a member of the group's set, or of a new one.
HandToAdd(t, me, nb) ==
    /\ me.op = "add"
    /\ due' = due \cup {t}
    /\ \E x \in IF groups[me.grp] = None THEN Fresh(SetIds, SetRefs) ELSE {groups[me.grp]} :
          /\ groups' = [groups EXCEPT ![me.grp] = x]
          /\ Become(t, [me EXCEPT !.pc = "glock", !.set = x])
          /\ StoreBoxes(nb)
          /\ StoreSets([members EXCEPT ![x] = @ \cup {me.ch}])

\* _mailbox() returns b to call; nb are the boxes by then.
HandOut(t, call, b, nb) ==
    LET me == [call EXCEPT !.bx = None, !.sub = None, !.gen = 0] IN
    HandToRead(t, me, b, nb) \/ HandToCaller(t, me, nb) \/ HandToAdd(t, me, nb)

\* The mailbox left in the table, its waiters left waiting (variants with a bug).
NotRemoved(t) == mailboxes
NotGivenUp(t) == box

\* The mailbox being made is taken out, then its waiters are let go.
Removed(t) == [c \in Channels |-> IF mailboxes[c] = task[t].bx THEN None ELSE mailboxes[c]]
GivenUp(t) == [box EXCEPT ![task[t].bx].ready = TRUE]

\* The except branch of _mailbox() with nothing left to take down.
MailboxFails(t) ==
    /\ UNCHANGED <<groups, recorded, generation, server, history>>
    /\ mailboxes' = Removed(t)
    /\ Ends(t, GivenUp(t), FALSE)

\* group_add() returns; unless the membership was given up meanwhile, it now counts.
AddReturns(t) ==
    /\ joined' = joined \cup {p \in {<<task[t].grp, task[t].ch>>} : t \in due}
    /\ due' = due \ {t}
    /\ Become(t, Idle)

\* group_add() fails: a membership nothing feeds is taken back out of our set object.
AddFails(t) ==
    LET me == task[t]
        undo == recorded[Feeds(me.grp, me.ch)] = None
        rest == IF undo THEN members[me.set] \ {me.ch} ELSE members[me.set]
    IN  /\ UNCHANGED <<mailboxes, recorded, generation, server, joined>>
        /\ due' = due \ {t}
        /\ groups' = IF undo /\ rest = {} THEN [groups EXCEPT ![me.grp] = None] ELSE groups
        /\ Become(t, Idle)
        /\ StoreBoxes(box)
        /\ StoreSets([members EXCEPT ![me.set] = rest])

-----------------------------------------------------------------------------
(* _mailbox(). *)

InUse(c) == mailboxes[c] # None \/ InAGroup(c) \/ \E t \in Tasks : task[t].ch = c

\* A sweep that forgets to ask about groups (variant with a bug).
SweepableMember(c) ==
    /\ c \in ProcessChannels
    /\ mailboxes[c] # None
    /\ box[mailboxes[c]].receivers = 0
    /\ box[mailboxes[c]].aged

\* Process channels nobody has read, fed or grouped for mailbox_grace.
Sweepable(c) ==
    /\ c \in ProcessChannels
    /\ mailboxes[c] # None
    /\ box[mailboxes[c]].sub = None
    /\ box[mailboxes[c]].receivers = 0
    /\ box[mailboxes[c]].aged
    /\ ~InAGroup(c)
Swept == [c \in Channels |-> IF Sweepable(c) THEN None ELSE mailboxes[c]]

\* _mailbox()'s loop up to its next await.
LookUp(t, call, nb) ==
    LET b == mailboxes'[call.ch] IN
    \/ /\ b # None => ~nb[b].ready
       /\ UNCHANGED <<groups, due>>
       /\ Become(t, [call EXCEPT !.pc = IF b = None THEN "lock" ELSE "ready", !.bx = b, !.gen = 0])
       /\ Store(nb)
    \/ /\ b # None
       /\ nb[b].ready /\ nb[b].subscribed
       /\ HandOut(t, call, b, nb)

\* _mailbox() from its start.  It sweeps, at most every mailbox_grace / 2.
Mailbox(t, call) ==
    /\ UNCHANGED <<recorded, generation, server, joined>>
    /\ mailboxes' \in {mailboxes, Swept}
    /\ LookUp(t, call, box)

Call(t) ==
    /\ task[t].pc \in {"idle", "handed"}
    /\ \E op \in {"receive", "new", "add"} \cap Env, c \in Channels, g \in Groups \cup {None} :
          /\ (op = "add") <=> (g # None)
          /\ op = "new" => c \in ProcessChannels /\ ~InUse(c)   \* a uuid nobody has
          /\ Mailbox(t, [Idle EXCEPT !.op = op, !.ch = c, !.grp = g])

\* Woken by box.ready.  The box may have left the table since.
ReadyWake(t) ==
    /\ task[t].pc = "ready"
    /\ box[task[t].bx].ready
    /\ UNCHANGED <<mailboxes, recorded, generation, server, joined>>
    /\ \/ box[task[t].bx].subscribed /\ HandOut(t, task[t], task[t].bx, box)
       \/ ~box[task[t].bx].subscribed /\ LookUp(t, task[t], box)

\* subscribe_lock acquired: share what the winner of the race made, or make a mailbox.
LockRun(t) ==
    /\ task[t].pc = "lock"
    /\ LockFree
    /\ UNCHANGED <<recorded, generation, server, joined>>
    /\ LET c == task[t].ch IN
       \/ mailboxes[c] # None /\ UNCHANGED mailboxes /\ HandOut(t, task[t], mailboxes[c], box)
       \/ /\ mailboxes[c] = None
          /\ \E b \in Fresh(BoxIds, BoxRefs) :
                /\ mailboxes' = [mailboxes EXCEPT ![c] = b]
                /\ IF c \in ProcessChannels /\ recorded[Proc] # None
                   THEN HandOut(t, task[t], b, [box EXCEPT ![b] = [NewBox EXCEPT !.ready = TRUE, !.subscribed = TRUE]])
                   ELSE /\ UNCHANGED <<groups, due>>
                        /\ Become(t, [task[t] EXCEPT !.pc = "sub", !.bx = b, !.gen = generation])
                        /\ Store([box EXCEPT ![b] = NewBox])

\* The process subscription routes by table, a plain channel's own one knows its box.
BoxSub(t) ==
    IF task[t].ch \in ProcessChannels THEN [subject |-> Proc, box |-> None]
    ELSE [subject |-> Chan(task[t].ch), box |-> task[t].bx]

\* Client.subscribe() returned: the server has, or will have, the subscription.
Subscribed(t) ==
    /\ task[t].pc = "sub"
    /\ UNCHANGED <<tables, going, history>>
    /\ \E s \in Fresh(SubIds, SubRefs) :
          /\ subs' = [subs EXCEPT ![s] = BoxSub(t)]
          /\ Become(t, [task[t] EXCEPT !.pc = "conf", !.sub = s])
          /\ Store(IF task[t].ch \in PlainChannels THEN [box EXCEPT ![task[t].bx].sub = s] ELSE box)

\* The comparison left out (variant with a bug).
AlwaysUnflushed(t) == TRUE

\* No flush() went through since t registered its mailbox.
Unflushed(t) == task[t].gen = generation

\* The flush after it returned: record what was made, unless flush() went through meanwhile.
Confirmed(t) ==
    /\ task[t].pc = "conf"
    /\ UNCHANGED <<mailboxes, generation, subs, joined>>
    /\ LET me == task[t]
           plain == me.ch \in PlainChannels
       IN \/ /\ Unflushed(t)
             /\ UNCHANGED going
             /\ recorded' = IF plain THEN recorded ELSE [recorded EXCEPT ![Proc] = me.sub]
             /\ HandOut(t, me, me.bx, [GivenUp(t) EXCEPT ![me.bx].subscribed = TRUE])
          \/ /\ ~Unflushed(t)
             /\ UNCHANGED <<groups, recorded, due>>
             /\ Tidy(t, {me.sub}, IF plain THEN "tidyRetry" ELSE "tidyRetryBox", [me EXCEPT !.sub = None])
             /\ Store(IF plain THEN GivenUp(t) ELSE box)

\* Cancelled or failed inside Client.subscribe(): what it registered is taken down first.
SubAborted(t) ==
    /\ "abort" \in Env
    /\ task[t].pc = "sub"
    /\ \/ MailboxFails(t)
       \/ /\ UNCHANGED <<tables, going, history>>
          /\ \E s \in Fresh(SubIds, SubRefs) :
                /\ subs' = [subs EXCEPT ![s] = BoxSub(t)]
                /\ Become(t, [task[t] EXCEPT !.pc = "tidyAbort", !.todo = {s}])
          /\ Store(box)

\* Cancelled or failed in the flush after it.
ConfAborted(t) ==
    /\ "abort" \in Env
    /\ task[t].pc = "conf"
    /\ UNCHANGED <<groups, recorded, generation, subs, history>>
    /\ LET plain == task[t].ch \in PlainChannels IN
       /\ mailboxes' = IF plain THEN Removed(t) ELSE mailboxes
       /\ Tidy(t, {task[t].sub}, IF plain THEN "tidyFail" ELSE "tidyAbort", [task[t] EXCEPT !.sub = None])
       /\ Store(IF plain THEN GivenUp(t) ELSE box)

\* Cancelled while waiting for box.ready or for subscribe_lock.
WaitCancelled(t) ==
    /\ "abort" \in Env
    /\ task[t].pc \in {"ready", "lock"}
    /\ UNCHANGED <<tables, server, history>>
    /\ Ends(t, box, TRUE)

-----------------------------------------------------------------------------
(* receive() on its mailbox. *)

\* An entry comes off the queue: a message that is returned, or one that is not
\* (expired, unreadable, a wake-up), and then the flag decides where to wait next.
Get(t) ==
    /\ task[t].pc = "get"
    /\ UNCHANGED <<tables, server, history>>
    /\ LET b == task[t].rd IN
       \/ box[b].msgs > 0 /\ Ends(t, [box EXCEPT ![b].msgs = @ - 1], FALSE)
       \/ /\ Become(t, [task[t] EXCEPT !.pc = IF box[b].superseded THEN "move" ELSE "get"])
          /\ \/ box[b].msgs > 0 /\ Store([box EXCEPT ![b].msgs = @ - 1])
             \/ box[b].wakes > 0 /\ Store([box EXCEPT ![b].wakes = @ - 1])

\* flush() took the mailbox away: on to the one that replaces it, still counted here.
Move(t) == task[t].pc = "move" /\ Mailbox(t, task[t])

\* A waiter that box.ready has woken runs before a cancellation asked for later.
NoneWoken(b) == \A t \in Tasks : ~(task[t].pc = "ready" /\ task[t].bx = b /\ box[b].ready)

\* The count looked at before this read has left it (variant with a bug).
ReleasesTooLate(t) ==
    /\ task[t].ch \in PlainChannels
    /\ box[task[t].rd].receivers = 0

\* The last read of a plain channel takes the mailbox with it, unless a group needs it.
Releases(t) ==
    /\ task[t].ch \in PlainChannels
    /\ box[task[t].rd].receivers = 1
    /\ mailboxes[task[t].ch] = task[t].rd
    /\ ~InAGroup(task[t].ch)

\* A cancelled read; the last one on a plain channel releases the channel.
ReadCancelled(t) ==
    /\ "cancelRead" \in Env
    /\ task[t].pc = "get"
    /\ UNCHANGED <<groups, recorded, generation, subs, history>>
    /\ NoneWoken(task[t].rd)
    /\ mailboxes' = IF Releases(t) THEN [mailboxes EXCEPT ![task[t].ch] = None] ELSE mailboxes
    /\ Tidy(t, {box[b].sub : b \in {b \in {task[t].rd} : Releases(t)}} \ {None}, "tidyEnd", Idle)
    /\ Store(Leave(box, task[t].rd, TRUE))

-----------------------------------------------------------------------------
(* group_add() once it has its mailbox, and group_discard(). *)

GroupLockRun(t) ==
    /\ task[t].pc = "glock"
    /\ LockFree
    /\ UNCHANGED <<tables, server>>
    /\ \/ recorded[Feeds(task[t].grp, task[t].ch)] # None /\ AddReturns(t)
       \/ /\ recorded[Feeds(task[t].grp, task[t].ch)] = None
          /\ UNCHANGED history
          /\ Become(t, [task[t] EXCEPT !.pc = "gsub"])
    /\ Store(box)

GroupSub(t) == [subject |-> Feeds(task[t].grp, task[t].ch), box |-> None]

GroupSubscribed(t) ==
    /\ task[t].pc = "gsub"
    /\ UNCHANGED <<tables, going, history>>
    /\ \E s \in Fresh(SubIds, SubRefs) :
          /\ subs' = [subs EXCEPT ![s] = GroupSub(t)]
          /\ Become(t, [task[t] EXCEPT !.pc = "gconf", !.sub = s])
    /\ Store(box)

\* Recorded only if the group still has a member it serves.
GroupConfirmed(t) ==
    /\ task[t].pc = "gconf"
    /\ UNCHANGED <<mailboxes, groups, generation, subs>>
    /\ LET me == task[t] IN
       \/ /\ Wants(me.grp, me.ch)
          /\ UNCHANGED going
          /\ recorded' = [recorded EXCEPT ![Feeds(me.grp, me.ch)] = me.sub]
          /\ AddReturns(t)
       \/ /\ ~Wants(me.grp, me.ch)
          /\ UNCHANGED <<recorded, history>>
          /\ Tidy(t, {me.sub}, "tidyAdd", [me EXCEPT !.sub = None])
    /\ Store(box)

\* Cancelled or failed anywhere in _group_subscribe().
GroupAborted(t) ==
    /\ "abortAdd" \in Env
    /\ \/ task[t].pc \in {"glock", "gsub"} /\ AddFails(t)
       \/ /\ task[t].pc = "gsub"
          /\ UNCHANGED <<tables, going, history>>
          /\ \E s \in Fresh(SubIds, SubRefs) :
                /\ subs' = [subs EXCEPT ![s] = GroupSub(t)]
                /\ Become(t, [task[t] EXCEPT !.pc = "tidyAddFail", !.todo = {s}])
          /\ Store(box)
       \/ /\ task[t].pc = "gconf"
          /\ UNCHANGED <<tables, subs, history>>
          /\ Tidy(t, {task[t].sub}, "tidyAddFail", [task[t] EXCEPT !.sub = None])
          /\ Store(box)

\* The group's subscription dropped with any member (variant with a bug).
DroppedTooMany(g, c, rest) == {GrpChan(g, c), Grp(g)} \cap Keys

\* The subscriptions group_discard() has no more use for, rest being the members left.
Dropped(g, c, rest) ==
    ({GrpChan(g, c)} \cap Keys) \cup {k \in {Grp(g)} : rest \cap ProcessChannels = {}}

Discard(t) ==
    /\ "discard" \in Env
    /\ task[t].pc \in {"idle", "handed"}
    /\ UNCHANGED <<mailboxes, generation, subs>>
    /\ \E g \in Groups, c \in Channels :
       /\ groups[g] # None
       /\ LET rest == members[groups[g]] \ {c}
              dropped == Dropped(g, c, rest)
          IN /\ joined' = joined \ {<<g, c>>}
             /\ due' = {u \in due : task[u].grp # g \/ task[u].ch # c}
             /\ recorded' = [k \in Keys |-> IF k \in dropped THEN None ELSE recorded[k]]
             /\ groups' = IF rest = {} THEN [groups EXCEPT ![g] = None] ELSE groups
             /\ Tidy(t, {recorded[k] : k \in dropped} \ {None}, "tidyEnd", Idle)
             /\ StoreBoxes(box)
             /\ StoreSets([members EXCEPT ![groups[g]] = rest])

-----------------------------------------------------------------------------
(* flush(): every table is emptied, then what was recorded is taken down. *)

\* Readers not woken (variant with a bug).
SupersedeSilently(bs) ==
    [b \in BoxIds |-> IF b \in bs THEN [box[b] EXCEPT !.superseded = TRUE] ELSE box[b]]

\* The mailboxes taken away, with one wake-up for each of their readers.
Supersede(bs) ==
    [b \in BoxIds |-> IF b \in bs THEN [box[b] EXCEPT !.superseded = TRUE, !.wakes = @ + box[b].receivers]
                                  ELSE box[b]]

Flush(t) ==
    /\ "flush" \in Env
    /\ task[t].pc \in {"idle", "handed"}
    /\ generation < MaxFlushes
    /\ mailboxes' = [c \in Channels |-> None]
    /\ groups' = [g \in Groups |-> None]
    /\ recorded' = [k \in Keys |-> None]
    /\ generation' = generation + 1
    /\ joined' = {}
    /\ due' = {}
    /\ UNCHANGED subs
    /\ LET mine == {mailboxes[c] : c \in Channels} \ {None}
           stale == ({recorded[k] : k \in Keys} \cup {box[b].sub : b \in mine}) \ {None}
       IN Tidy(t, stale, "tidyEnd", Idle) /\ Store(Supersede(mine))

-----------------------------------------------------------------------------
(* _unsubscribe(): one command after another, each waited for at most CLEANUP_GRACE
   and going on by itself after that. *)

TidyDone(t) ==
    /\ task[t].pc \in Tidying
    /\ \/ /\ task[t].todo # {}
          /\ UNCHANGED <<tables, subs, history>>
          /\ Tidy(t, task[t].todo, task[t].pc, task[t])
          /\ Store(box)
       \/ /\ task[t].todo = {}
          /\ \/ task[t].pc = "tidyAbort" /\ MailboxFails(t)
             \/ task[t].pc = "tidyAddFail" /\ AddFails(t)
             \/ task[t].pc = "tidyAdd" /\ UNCHANGED <<tables, server>> /\ AddReturns(t) /\ Store(box)
             \/ /\ task[t].pc \in {"tidyEnd", "tidyFail"}
                /\ UNCHANGED <<tables, server, history>>
                /\ Ends(t, box, FALSE)
             \/ /\ task[t].pc \in {"tidyRetryBox", "tidyRetry"}
                /\ UNCHANGED <<mailboxes, recorded, generation, server, joined>>
                /\ LookUp(t, task[t], GivenUp(t))

\* A cancellation that lands in a clean-up.  Commands not started yet never are.
TidyCancelled(t) ==
    /\ IF task[t].todo = {} THEN "abort" \in Env ELSE "cancelTidy" \in Env
    /\ \/ task[t].pc \in {"tidyAbort", "tidyRetryBox"} /\ MailboxFails(t)
       \/ task[t].pc \in {"tidyAdd", "tidyAddFail"} /\ "abortAdd" \in Env /\ AddFails(t)
       \/ /\ task[t].pc \in {"tidyEnd", "tidyFail", "tidyRetry"}
          /\ UNCHANGED <<tables, server, history>>
          /\ Ends(t, box, TRUE)

-----------------------------------------------------------------------------
(* Outside the calls. *)

\* An unsubscribe command has gone through.
Unsubscribed(s) ==
    /\ s \in going
    /\ UNCHANGED <<tables, task, history>>
    /\ subs' = [subs EXCEPT ![s] = NoSub]
    /\ going' = going \ {s}
    /\ Store(box)

\* Filed whether there is room or not (variant with a bug).
ArrivesAnyway(bs) ==
    [b \in BoxIds |-> IF b \in bs THEN [box[b] EXCEPT !.msgs = @ + 1, !.aged = FALSE] ELSE box[b]]

\* A message is filed in a mailbox with room; one without drops it.
Arrives(bs) ==
    [b \in BoxIds |-> IF b \in bs /\ box[b].msgs < Capacity
                      THEN [box[b] EXCEPT !.msgs = @ + 1, !.aged = FALSE] ELSE box[b]]

\* The mailboxes subscription s files a message in.
Targets(s) ==
    LET k == subs[s].subject
        table(cs) == {mailboxes[c] : c \in cs} \ {None}
    IN CASE k.kind = "pc" -> {{b} : b \in table(ProcessChannels)}
         [] k.kind = "ch" -> {{subs[s].box}}
         [] k.kind = "grp" -> {table(Members(k.grp) \cap ProcessChannels)}
         [] k.kind = "grpch" -> {table({k.ch})}

Deliver(s) ==
    /\ "deliver" \in Env
    /\ s \in Live
    /\ UNCHANGED <<tables, server, task, history>>
    /\ \E bs \in Targets(s) : Store(Arrives(bs))

\* mailbox_grace passes over a mailbox; over one still being made only if a subscribe
\* may take that long.
GraceElapses(c) ==
    /\ "sweep" \in Env
    /\ mailboxes[c] # None
    /\ box[mailboxes[c]].ready \/ "slowSubscribe" \in Env
    /\ NoneWoken(mailboxes[c])
    /\ UNCHANGED <<tables, server, task, history>>
    /\ Store([box EXCEPT ![mailboxes[c]].aged = TRUE])

-----------------------------------------------------------------------------

Init ==
    /\ mailboxes = [c \in Channels |-> None]
    /\ groups = [g \in Groups |-> None]
    /\ members = [x \in SetIds |-> {}]
    /\ recorded = [k \in Keys |-> None]
    /\ generation = 0
    /\ box = [b \in BoxIds |-> NewBox]
    /\ subs = [s \in SubIds |-> NoSub]
    /\ going = {}
    /\ task = [t \in Tasks |-> Idle]
    /\ joined = {}
    /\ due = {}

\* What a coroutine does once what it waits for is there.
Progress(t) ==
    \/ Move(t) \/ ReadyWake(t) \/ LockRun(t) \/ Subscribed(t) \/ Confirmed(t)
    \/ Get(t) \/ GroupLockRun(t) \/ GroupSubscribed(t) \/ GroupConfirmed(t) \/ TidyDone(t)

\* What somebody else makes it do.
Interrupt(t) ==
    \/ SubAborted(t) \/ ConfAborted(t) \/ WaitCancelled(t) \/ ReadCancelled(t)
    \/ GroupAborted(t) \/ TidyCancelled(t)

Next ==
    \/ \E t \in Tasks : Call(t) \/ Progress(t) \/ Interrupt(t) \/ Discard(t) \/ Flush(t)
    \/ \E s \in SubIds : Unsubscribed(s) \/ Deliver(s)
    \/ \E c \in ProcessChannels : GraceElapses(c)

Spec == Init /\ [][Next]_vars

-----------------------------------------------------------------------------
(* What must hold. *)

\* Subscriptions on their way down.
Leaving == going \cup UNION {task[t].todo : t \in Tasks}

\* Mailbox b is the one channel c has, and the server has the subscription that feeds it.
Fed(b, c) ==
    /\ mailboxes[c] = b
    /\ (IF c \in ProcessChannels THEN recorded[Proc] ELSE box[b].sub) \in Live

HasFedMailbox(c) == mailboxes[c] # None /\ Fed(mailboxes[c], c)

\* Two subscriptions on one subject would deliver every message twice, or under a queue
\* group take it away from the one that is read: whatever races to make one, and whoever
\* is cancelled on the way, at most one is live that nobody is taking down.
OneSubscriptionPerSubject ==
    \A s, r \in Live \ Leaving : subs[s].subject = subs[r].subject => s = r

\* Every subscription the server has is in a table, in the hands of the call that is making
\* it, or being taken down: no cancelled or failed call leaves one behind.
NoLeakedSubscription ==
    \A s \in Live :
        \/ s \in Leaving
        \/ \E t \in Tasks : task[t].sub = s
        \/ \E k \in Keys : recorded[k] = s
        \/ \E c \in PlainChannels : mailboxes[c] # None /\ box[mailboxes[c]].sub = s

\* A mailbox in the table that looks ready is subscribed and fed.  One that is ready and
\* not subscribed would make _mailbox() loop without ever suspending.
ReadyMailboxIsFed ==
    \A c \in Channels :
        LET b == mailboxes[c] IN
        b # None /\ box[b].ready => box[b].subscribed /\ Fed(b, c)

\* A receive() that waits does so on the mailbox messages go to, unless flush() took it
\* away; then an entry is there for every such reader, so none of them waits on.
ReaderIsFedOrWoken ==
    \A t \in Tasks : task[t].pc = "get" =>
        LET b == task[t].rd IN
        IF box[b].superseded
        THEN Cardinality({u \in Tasks : task[u].pc = "get" /\ task[u].rd = b}) <= box[b].msgs + box[b].wakes
        ELSE Fed(b, task[t].ch)

\* Each read is counted on exactly one mailbox, the replacement after a flush included.
ReceiversAreCounted ==
    \A b \in BoxIds : box[b].receivers = Cardinality({t \in Tasks : task[t].rd = b})

\* What group_add() returned for stays until group_discard() or flush(): the channel is in
\* the group's set and the subscription that feeds it there is live.
JoinedIsDelivered ==
    \A p \in joined : /\ p[2] \in Members(p[1])
                      /\ recorded[Feeds(p[1], p[2])] \in Live

\* ... and as long as no flush() comes it has a mailbox to deliver to: neither the sweep nor a
\* cancelled read takes a member's.  (A subscribe is taken to end within mailbox_grace.)
JoinedHasMailbox == \A p \in joined : HasFedMailbox(p[2])

\* Whoever else sweeps, cancels reads, adds or flushes: the mailbox of a member, with what is
\* in it, stays under its channel until group_discard() or flush() gives the membership up.
MembersKeepMailbox ==
    [][\A p \in joined \cap joined' :
          mailboxes[p[2]] # None /\ box[mailboxes[p[2]]].ready
          => mailboxes'[p[2]] = mailboxes[p[2]]]_vars

\* A group_add() that fails takes back its own channel and no other membership.
FailureTakesBackItsOwn ==
    [][\A t \in Tasks, g \in Groups, c \in Channels :
          /\ task[t].op = "add" /\ task[t].grp = g /\ task'[t].pc = "idle"
          /\ c # task[t].ch
          => (c \in Members(g) => c \in Members(g)')]_vars

\* No group subscription is kept past the last member it serves.
RecordedIsWanted ==
    \A g \in Groups :
        /\ recorded[Grp(g)] # None => Members(g) \cap ProcessChannels # {}
        /\ \A c \in PlainChannels : recorded[GrpChan(g, c)] # None => c \in Members(g)

\* A plain channel whose last reader was cancelled does not keep its queue-group share
\* unless it is in a group.
PlainIsReleased ==
    \A c \in PlainChannels :
        mailboxes[c] # None /\ box[mailboxes[c]].left => InAGroup(c)

\* _mailbox() returns to t's call, and what it returns is fed then.
Held == {"get", "handed", "glock"}
IsHanded(t) == task'[t] # task[t] /\ task[t].pc # "get" /\ task'[t].pc \in Held
HandedFed(t) == (\E c \in Channels : c = task[t].ch /\ HasFedMailbox(c))'

\* flush() came between ready.set() and t's turn: t is still to resume on the mailbox it took.
Overtaken(t) == task[t].pc = "ready" /\ box[task[t].bx].superseded

\* A read only ever settles on a mailbox messages go to, whatever flush() does and when; so
\* does what new_channel() and group_add() are handed, unless a flush() overtook them in the
\* one turn for which _mailbox() does not look again.  (A subscribe is taken to end within
\* mailbox_grace.)
HandoverIsFed ==
    [][\A t \in Tasks :
          IsHanded(t) => HandedFed(t) \/ (Overtaken(t) /\ task'[t].pc # "get")]_vars


\* Once calls stop being cancelled or failing, every call returns or is a read waiting on
\* a mailbox flush() has not taken away.
Settled(t) == task[t].pc \in {"idle", "handed"} \/ (task[t].pc = "get" /\ ~box[task[t].rd].superseded)
CallsSettle ==
    <>[][\A t \in Tasks : ~Interrupt(t)]_vars => \A t \in Tasks : ~Settled(t) ~> Settled(t)

\* A task that can go on does, asyncio.Lock is first come, first served, and a command
\* given to the connection goes out.
Fairness ==
    /\ \A t \in Tasks : WF_vars(Progress(t)) /\ SF_vars(LockRun(t)) /\ SF_vars(GroupLockRun(t))
    /\ \A s \in SubIds : WF_vars(Unsubscribed(s))
FairSpec == Spec /\ Fairness
=============================================================================
