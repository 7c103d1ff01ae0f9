----------------------------- MODULE Connection -----------------------------
(***************************************************************************)
(* The connection of one event loop: `_client()` under the state's lock,   *)
(* a connect that is cancelled or runs into its deadline, the recovery     *)
(* that nats-py's closed_cb starts, the subscriptions restored on the new  *)
(* client, `close()` with its drain and its hard close, the close() the    *)
(* layer wraps around the loop's own, and the count of what that missed.   *)
(*                                                                         *)
(* Objects have identities; that of a client is free again when nobody     *)
(* refers to it.  The recovery task of state s is the task s.  The four    *)
(* tables a state keeps subscriptions in are one, indexed by what is       *)
(* subscribed to.                                                          *)
(***************************************************************************)
EXTENDS Naturals, Sequences, FiniteSets, SequencesExt

CONSTANTS Callers,    \* coroutines of the loop that call the layer
          Closers,    \* those that call close(); may be among them
          StateIds,   \* identities of _LoopState objects, numbers
          ClientIds,  \* identities of nats-py clients
          Subjects,
          None

ASSUME ConnectionConstants == None \notin StateIds \cup ClientIds \cup Subjects
ASSUME RecoveriesAreNoCallers == StateIds \subseteq Nat /\ (Callers \cup Closers) \cap StateIds = {}

VARIABLES loop,      \* "open" or "closed"
          listed,    \* layer._states[loop], or None
          closers,   \* loop.close: the states of the wrappers in it, outermost first
          state,     \* _LoopState objects
          client,    \* nats-py clients; of: the state its callbacks know
          live,      \* <<client, subject, the state it was made for>>: what the server has
          task,      \* where each coroutine is suspended
          behind,    \* layer._closing_behind
          orphaned,  \* layer._orphaned_connections
          last       \* history: the state listed when the loop closed

vars == <<loop, listed, closers, state, client, live, task, behind, orphaned, last>>

Tasks == Callers \cup Closers \cup StateIds

NewState == [client |-> None, table |-> [x \in Subjects |-> None], cleanups |-> {}]

NoClient == [status |-> "closed", socket |-> FALSE, of |-> None]

Idle == [pc |-> "idle", own |-> None, st |-> None, k |-> None, want |-> None, todo |-> {}, stale |-> {}]

Connecting == {"connect", "restore", "undo"}  \* these hold state.lock
Closing == {"settle", "drain", "hard"}
Pcs == {"idle", "queued", "lock", "subscribe", "sleep"} \cup Connecting \cup Closing

TypeOK ==
    /\ loop \in {"open", "closed"}
    /\ {listed, last} \subseteq StateIds \cup {None}
    /\ closers \in Seq(StateIds)
    /\ state \in [StateIds -> [client: ClientIds \cup {None}, table: [Subjects -> ClientIds \cup {None}],
                               cleanups: SUBSET ClientIds]]
    /\ client \in [ClientIds -> [status: {"opening", "up", "closed"}, socket: BOOLEAN, of: StateIds \cup {None}]]
    /\ live \subseteq ClientIds \X Subjects \X StateIds
    /\ task \in [Tasks -> [pc: Pcs, own: StateIds \cup {None}, st: StateIds \cup {None}, k: ClientIds \cup {None},
                           want: Subjects \cup {None}, todo: SUBSET Subjects, stale: SUBSET Subjects]]
    /\ behind \subseteq ClientIds
    /\ orphaned \in Nat

Init ==
    /\ loop = "open" /\ listed = None /\ closers = <<>> /\ last = None
    /\ state = [s \in StateIds |-> NewState]
    /\ client = [k \in ClientIds |-> NoClient]
    /\ live = {} /\ behind = {} /\ orphaned = 0
    /\ task = [t \in Tasks |-> Idle]

-----------------------------------------------------------------------------
IsClosed(k) == client[k].status = "closed"

\* `state.client is None or state.client.is_closed` is false.
Usable(s) == state[s].client # None /\ ~IsClosed(state[s].client)

\* The recovery takes the lock around its _client() (variant with a bug).
LockHeldByRecovery(s) == task[s].pc # "lock" /\ \A t \in Tasks : ~(task[t].pc \in Connecting /\ task[t].st = s)

LockFree(s) == \A t \in Tasks : ~(task[t].pc \in Connecting /\ task[t].st = s)

Least(S) == {x \in S : \A y \in S : x <= y}

Referred(s) ==
    \/ listed = s \/ task[s].pc # "idle"
    \/ \E t \in Tasks : s \in {task[t].own, task[t].st}

\* A state is made once: every one that was has its wrapper.
FreeStates == StateIds \ Range(closers)

FreeClients ==
    {k \in ClientIds :
        /\ ~client[k].socket /\ k \notin behind
        /\ \A t \in Tasks : task[t].k # k
        /\ \A s \in StateIds : Referred(s) => state[s].client # k /\ \A x \in Subjects : state[s].table[x] # k}

\* A coroutine goes on.  The recovery of a state taken by close() was cancelled with it.
Runs(t) == loop = "open" /\ (t \notin StateIds \/ listed = t)

MayBeCancelled(t) == loop = "open" /\ (t \notin StateIds \/ listed # t)

\* _client() raises: a recovery tries again later, unless it was cancelled.
Raised(t) == IF t \in StateIds /\ listed = t THEN [Idle EXCEPT !.pc = "sleep"] ELSE Idle

Gone(k) == [client EXCEPT ![k] = NoClient]

LiveWithout(k) == {sub \in live : sub[1] # k}

\* _start_recovery()
Recovering(s) == IF listed = s /\ task[s] = Idle THEN [task EXCEPT ![s].pc = "sleep"] ELSE task

\* _state(): the state s of the loop, made if there is none.
TheState == IF listed # None THEN {listed} ELSE Least(FreeStates)

Registered(s) ==
    /\ listed' = s
    /\ closers' = IF listed = s THEN closers ELSE <<s>> \o closers
    /\ state' = IF listed = s THEN state ELSE [q \in StateIds |-> IF Referred(q) THEN state[q] ELSE NewState]

\* _client() has returned k to a call that wants to subscribe, or only to publish.
Given(k, own, want) ==
    IF want = None THEN Idle ELSE [Idle EXCEPT !.pc = "subscribe", !.own = own, !.k = k, !.want = want]

\* _client() up to the lock.
Entered(s, own, want) ==
    IF listed = s /\ Usable(s) THEN Given(state[s].client, own, want)
    ELSE [Idle EXCEPT !.pc = "lock", !.own = IF want = None THEN None ELSE own, !.st = s, !.want = want]

-----------------------------------------------------------------------------
(* Calls, and what they wait for. *)

\* A call that publishes, or one that will subscribe: it has its state and waits for subscribe_lock.
Call(t) ==
    /\ loop = "open" /\ task[t] = Idle
    /\ \E s \in TheState, want \in Subjects \cup {None} :
        /\ want # None => /\ \A u \in Tasks : task[u].want # want
                          /\ listed = s => state[s].table[want] = None
        /\ Registered(s)
        /\ task' = [task EXCEPT ![t] = IF want = None THEN Entered(s, s, None)
                                       ELSE [Idle EXCEPT !.pc = "queued", !.own = s, !.want = want]]
    /\ UNCHANGED <<loop, client, live, behind, orphaned, last>>

\* It is its turn, and `_client()` asks for the loop's state again.  So does the subscribe
\* for a process, which then keeps to that state; any other keeps to the one it began with.
Resume(t) ==
    /\ loop = "open" /\ task[t].pc = "queued"
    /\ \E s \in TheState, own \in {task[t].own} \cup TheState :
        /\ Registered(s)
        /\ task' = [task EXCEPT ![t] = IF own = listed /\ state[own].table[@.want] # None THEN Idle
                                       ELSE Entered(s, own, @.want)]
    /\ UNCHANGED <<loop, client, live, behind, orphaned, last>>

LockTaken(t) ==
    /\ Runs(t) /\ task[t].pc = "lock" /\ LockFree(task[t].st)
    /\ \/ /\ Usable(task[t].st)
          /\ task' = [task EXCEPT ![t] = Given(state[task[t].st].client, task[t].own, task[t].want)]
          /\ UNCHANGED client
       \/ /\ ~Usable(task[t].st)
          /\ \E k \in FreeClients :
                /\ client' = [client EXCEPT ![k] = [status |-> "opening", socket |-> TRUE, of |-> task[t].st]]
                /\ task' = [task EXCEPT ![t].pc = "connect", ![t].k = k]
    /\ UNCHANGED <<loop, listed, closers, state, live, behind, orphaned, last>>

Stale(s) == state[s].client # None

Subscribed(s) == {x \in Subjects : state[s].table[x] # None}

Connected(t) ==
    LET s == task[t].st
        k == task[t].k
    IN  /\ Runs(t) /\ task[t].pc = "connect"
        /\ client' = [client EXCEPT ![k].status = "up"]
        /\ IF Stale(s) THEN /\ task' = [task EXCEPT ![t].pc = "restore", ![t].todo = Subscribed(s), ![t].stale = {}]
                            /\ UNCHANGED state
           ELSE /\ task' = [task EXCEPT ![t] = Given(k, task[t].own, task[t].want)]
                /\ state' = [state EXCEPT ![s].client = k]
        /\ UNCHANGED <<loop, listed, closers, live, behind, orphaned, last>>

\* Nothing closes a client whose connect failed (variant with a bug).
NotClosed(k) == state

\* `_finish_later(_close_quietly(k))`: without a state the task is cancelled before it runs.
CloseQuietly(k) == IF listed = None THEN state ELSE [state EXCEPT ![listed].cleanups = @ \cup {k}]

\* An error, the deadline or a cancellation.
ConnectFails(t) ==
    /\ loop = "open" /\ task[t].pc = "connect"
    /\ state' = CloseQuietly(task[t].k)
    /\ task' = [task EXCEPT ![t] = Raised(t)]
    /\ UNCHANGED <<loop, listed, closers, client, live, behind, orphaned, last>>

\* closed_cb of a client that never came up starts a recovery too (variant with a bug).
RecoverForIt(k) == Recovering(client[k].of)

NeverCameUp(k) == task

ClosedQuietly(s, k) ==
    /\ loop = "open" /\ k \in state[s].cleanups
    /\ state' = [state EXCEPT ![s].cleanups = @ \ {k}]
    /\ client' = Gone(k)
    /\ task' = NeverCameUp(k)
    /\ UNCHANGED <<loop, listed, closers, live, behind, orphaned, last>>

\* CLEANUP_GRACE cuts that close short: marked closed, the transport up.
CloseTimesOut(s, k) ==
    /\ loop = "open" /\ k \in state[s].cleanups
    /\ state' = [state EXCEPT ![s].cleanups = @ \ {k}]
    /\ client' = [client EXCEPT ![k].status = "closed"]
    /\ UNCHANGED <<loop, listed, closers, live, task, behind, orphaned, last>>

-----------------------------------------------------------------------------
(* _resubscribe(), and what happens to the tables meanwhile. *)

\* Stored without looking whether it is still wanted (variant with a bug).
StillThere(s, x) == TRUE

StillWanted(s, x) == state[s].table[x] # None

Restore(t) ==
    LET s == task[t].st
        k == task[t].k
    IN  /\ Runs(t) /\ task[t].pc = "restore" /\ client[k].status = "up"
        /\ \E x \in task[t].todo :
            /\ live' = live \cup {<<k, x, s>>}
            /\ task' = [task EXCEPT ![t].todo = @ \ {x}, ![t].stale = IF StillWanted(s, x) THEN @ ELSE @ \cup {x}]
            /\ state' = IF StillWanted(s, x) THEN [state EXCEPT ![s].table[x] = k] ELSE state
        /\ UNCHANGED <<loop, listed, closers, client, behind, orphaned, last>>

\* Subscriptions given up meanwhile stay on the new client (variant with a bug).
NothingTakenDown(t) == {}

TakenDown(t) == {task[t].k} \X task[t].stale \X {task[t].st}

Restored(t) ==
    LET k == task[t].k
    IN  /\ Runs(t) /\ task[t].pc = "restore" /\ client[k].status = "up" /\ task[t].todo = {}
        /\ live' = live \ TakenDown(t)
        /\ state' = [state EXCEPT ![task[t].st].client = k]
        /\ task' = [task EXCEPT ![t] = Given(k, task[t].own, task[t].want)]
        /\ UNCHANGED <<loop, listed, closers, client, behind, orphaned, last>>

\* An error or a cancellation: the new client is closed before anybody sees it.
RestoreFails(t) ==
    /\ loop = "open" /\ task[t].pc = "restore"
    /\ client' = [client EXCEPT ![task[t].k].status = "closed"]
    /\ task' = [task EXCEPT ![t].pc = "undo"]
    /\ UNCHANGED <<loop, listed, closers, state, live, behind, orphaned, last>>

Undone(t) ==
    LET k == task[t].k
    IN  /\ loop = "open" /\ task[t].pc = "undo"
        /\ client' = Gone(k)
        /\ live' = LiveWithout(k)
        /\ task' = [IF client[k].socket THEN Recovering(client[k].of) ELSE task EXCEPT ![t] = Raised(t)]
        /\ UNCHANGED <<loop, listed, closers, state, behind, orphaned, last>>

\* The cancellation that ended the restore, or another one, cuts that close short.
UndoCutShort(t) ==
    /\ MayBeCancelled(t) /\ task[t].pc = "undo"
    /\ task' = [task EXCEPT ![t] = Idle]
    /\ UNCHANGED <<loop, listed, closers, state, client, live, behind, orphaned, last>>

\* A subscription made by a call is recorded in the tables it keeps to.
Recorded(t) ==
    LET k == task[t].k
    IN  /\ loop = "open" /\ task[t].pc = "subscribe" /\ client[k].status = "up"
        /\ state' = [state EXCEPT ![task[t].own].table[task[t].want] = k]
        /\ live' = live \cup {<<k, task[t].want, task[t].own>>}
        /\ task' = [task EXCEPT ![t] = Idle]
        /\ UNCHANGED <<loop, listed, closers, client, behind, orphaned, last>>

\* flush(), group_discard() or a cancelled read takes a subscription out of the tables and down.
Dropped(x) ==
    /\ loop = "open" /\ listed # None
    /\ state[listed].table[x] # None
    /\ live' = live \ {<<state[listed].table[x], x, listed>>}
    /\ state' = [state EXCEPT ![listed].table[x] = None]
    /\ UNCHANGED <<loop, listed, closers, client, task, behind, orphaned, last>>

\* nats-py gives up reconnecting and closes the client.
Lost(k) ==
    /\ loop = "open" /\ client[k].status = "up"
    /\ client' = Gone(k)
    /\ live' = LiveWithout(k)
    /\ task' = Recovering(client[k].of)
    /\ UNCHANGED <<loop, listed, closers, state, behind, orphaned, last>>

\* _recover(): one turn of its loop.
Wake(s) ==
    /\ Runs(s) /\ task[s].pc = "sleep"
    /\ task' = [task EXCEPT ![s] = IF Usable(s) THEN Idle ELSE Entered(s, None, None)]
    /\ UNCHANGED <<loop, listed, closers, state, client, live, behind, orphaned, last>>

\* A wait with nothing to undo ends by an error or a cancellation.
Cancelled(t) ==
    /\ MayBeCancelled(t) /\ task[t].pc \in {"queued", "lock", "subscribe", "sleep"}
    /\ task' = [task EXCEPT ![t] = Idle]
    /\ UNCHANGED <<loop, listed, closers, state, client, live, behind, orphaned, last>>

-----------------------------------------------------------------------------
(* close() *)

\* The state goes first, then what it left to finish later is cancelled, the recovery with it.
Close(t) ==
    /\ loop = "open" /\ task[t] = Idle /\ listed # None
    /\ listed' = None
    /\ state' = [state EXCEPT ![listed].cleanups = {}]
    /\ task' = [task EXCEPT ![t].pc = "settle", ![t].own = listed, ![t].k = state[listed].client]
    /\ UNCHANGED <<loop, closers, client, live, behind, orphaned, last>>

\* What was cancelled has ended, or CLEANUP_GRACE has; only an open client is drained.
Settled(t) ==
    /\ loop = "open" /\ task[t].pc = "settle"
    /\ task[task[t].own].pc \in {"idle", "undo"}
    /\ task' = [task EXCEPT ![t] = IF Usable(@.own)
                                   THEN [@ EXCEPT !.pc = "drain", !.k = state[task[t].own].client] ELSE Idle]
    /\ UNCHANGED <<loop, listed, closers, state, client, live, behind, orphaned, last>>

\* A drain ends in nats-py's close, which marks the client closed as it begins.
DrainCloses(t) ==
    /\ loop = "open" /\ task[t].pc = "drain"
    /\ client' = [client EXCEPT ![task[t].k].status = "closed"]
    /\ UNCHANGED <<loop, listed, closers, state, live, task, behind, orphaned, last>>

\* The drain comes to its end, or the hard close does, by cutting the transport if need be.
ClosedForGood(t) ==
    /\ loop = "open" /\ task[t].pc \in {"drain", "hard"}
    /\ client' = Gone(task[t].k)
    /\ live' = LiveWithout(task[t].k)
    /\ task' = [task EXCEPT ![t] = Idle]
    /\ UNCHANGED <<loop, listed, closers, state, behind, orphaned, last>>

DrainFails(t) ==
    /\ loop = "open" /\ task[t].pc = "drain"
    /\ client' = [client EXCEPT ![task[t].k].status = "closed"]
    /\ task' = [task EXCEPT ![t].pc = "hard"]
    /\ UNCHANGED <<loop, listed, closers, state, live, behind, orphaned, last>>

\* Nobody goes on closing for a cancelled caller (variant with a bug).
NobodyBehind(k) == {}

\* close() of a state that never had a client (variant with a bug).
BehindAnyway(k) == {k}

HardBehind(k) == IF k = None \/ IsClosed(k) THEN {} ELSE {k}

\* The caller of close() is cancelled while it waits.
CloseCancelled(t) ==
    LET k == task[t].k
    IN  /\ loop = "open" /\ task[t].pc \in Closing
        /\ task' = [task EXCEPT ![t] = Idle]
        /\ IF task[t].pc = "hard" THEN /\ client' = Gone(k)
                                       /\ live' = LiveWithout(k)
                                       /\ UNCHANGED behind
           ELSE /\ behind' = behind \cup HardBehind(k)
                /\ UNCHANGED <<client, live>>
        /\ UNCHANGED <<loop, listed, closers, state, orphaned, last>>

ClosedBehind(k) ==
    /\ loop = "open" /\ k \in behind
    /\ behind' = behind \ {k}
    /\ client' = Gone(k)
    /\ live' = LiveWithout(k)
    /\ UNCHANGED <<loop, listed, closers, state, task, orphaned, last>>

Held(k) ==
    \/ listed # None /\ state[listed].client = k
    \/ \E t \in Tasks : task[t].k = k /\ task[t].pc \in Connecting \cup Closing
    \/ k \in behind \/ \E s \in StateIds : k \in state[s].cleanups

\* The garbage collector takes a client that nobody holds.
Collected(k) ==
    /\ loop = "open" /\ client[k].socket /\ ~Held(k)
    /\ \A t \in Tasks : task[t].k # k
    /\ client' = Gone(k)
    /\ live' = LiveWithout(k)
    /\ UNCHANGED <<loop, listed, closers, state, task, behind, orphaned, last>>

-----------------------------------------------------------------------------
(* The end of the loop.  Its calls have ended, by a cancellation if need be; what else is *)
(* under way, recoveries and clean-ups, gets no further.                                 *)

CallsEnded == \A t \in Tasks \ StateIds : task[t] = Idle

\* The client of a restore that is stopped is marked closed.
Stopped == [k \in ClientIds |-> IF \E s \in StateIds : task[s].pc = "restore" /\ task[s].k = k
                                THEN [client[k] EXCEPT !.status = "closed"] ELSE client[k]]

\* Only the first state of a loop gets a wrapper (variant with a bug).
FirstMade == {closers[i] : i \in DOMAIN closers \cap {Len(closers)}} \cap {listed}

\* Each wrapper in turn: is the state it was made for the one that is listed?
Released == Range(closers) \cap {listed}

\* loop.close(), the layer's own.
LoopCloses ==
    /\ loop = "open" /\ CallsEnded
    /\ loop' = "closed" /\ last' = listed /\ closers' = <<>>
    /\ task' = [t \in Tasks |-> Idle]
    /\ listed' = IF listed \in Released THEN None ELSE listed
    /\ IF listed \in Released /\ state[listed].client # None
       THEN /\ client' = [Stopped EXCEPT ![state[listed].client] = NoClient]
            /\ live' = LiveWithout(state[listed].client)
       ELSE client' = Stopped /\ UNCHANGED live
    /\ UNCHANGED <<state, behind, orphaned>>

\* The loop is closed past the wrapper.
LoopClosesPastIt ==
    /\ loop = "open" /\ CallsEnded
    /\ loop' = "closed" /\ last' = listed
    /\ task' = [t \in Tasks |-> Idle]
    /\ client' = Stopped
    /\ UNCHANGED <<listed, closers, state, live, behind, orphaned>>

\* A call on another loop drops the state of a closed one.
ForgetClosedLoops ==
    /\ loop = "closed" /\ listed # None
    /\ listed' = None
    /\ orphaned' = IF Usable(listed) THEN orphaned + 1 ELSE orphaned
    /\ UNCHANGED <<loop, closers, state, client, live, task, behind, last>>

-----------------------------------------------------------------------------
ByCloser(t) ==
    \/ Close(t) \/ Settled(t) \/ DrainCloses(t) \/ ClosedForGood(t) \/ DrainFails(t) \/ CloseCancelled(t)

Connects(t) ==
    \/ LockTaken(t) \/ Connected(t) \/ ConnectFails(t)
    \/ Restore(t) \/ Restored(t) \/ RestoreFails(t) \/ Undone(t) \/ UndoCutShort(t)
    \/ Cancelled(t)

Next ==
    \/ \E t \in Callers : Call(t) \/ Resume(t) \/ Recorded(t)
    \/ \E t \in Closers : ByCloser(t)
    \/ \E t \in Tasks : Connects(t)
    \/ \E s \in StateIds : Wake(s)
    \/ \E s \in StateIds, k \in ClientIds : ClosedQuietly(s, k) \/ CloseTimesOut(s, k)
    \/ \E k \in ClientIds : Lost(k) \/ ClosedBehind(k) \/ Collected(k)
    \/ \E x \in Subjects : Dropped(x)
    \/ LoopCloses \/ LoopClosesPastIt \/ ForgetClosedLoops

Spec == Init /\ [][Next]_vars

\* What the event loop runs by itself: a coroutine whose await is over, one that was
\* cancelled, a command that fails on a closed client, what was left to finish later.
Progress ==
    \/ \E t \in Tasks :
        \/ LockTaken(t) \/ Connected(t) \/ Restore(t) \/ Restored(t) \/ Undone(t)
        \/ Settled(t) \/ ClosedForGood(t)
        \/ ~Runs(t) /\ (Cancelled(t) \/ ConnectFails(t) \/ RestoreFails(t))
        \/ task[t].k # None /\ IsClosed(task[t].k) /\ (RestoreFails(t) \/ Cancelled(t))
    \/ \E s \in StateIds : Wake(s) \/ \E k \in ClientIds : ClosedQuietly(s, k)
    \/ \E k \in ClientIds : ClosedBehind(k) \/ Collected(k)

\* The loop does not stop while it has something to run.
FairSpec == Spec /\ WF_vars(Progress)

\* What goes wrong: a client is lost, a connect or a restore fails, a call is cancelled.
Trouble ==
    \/ \E k \in ClientIds : Lost(k)
    \/ \E t \in Tasks : Runs(t) /\ \/ ConnectFails(t) \/ Cancelled(t)
                                   \/ RestoreFails(t) /\ ~IsClosed(task[t].k)

-----------------------------------------------------------------------------
(* What must hold. *)

\* While the loop runs, a connection opened for its state is the state's client, in the hands
\* of the call that makes it, or somebody's to close, whichever connects and restores failed,
\* were cancelled or raced (#27).  That somebody may fail: a close that was begun and cut short
\* leaves its transport to nats-py and the garbage collector.
ListedIsHeld ==
    loop = "open" /\ listed # None =>
        \A k \in ClientIds : client[k].status # "closed" /\ client[k].of = listed => Held(k)

\* While the loop's client is open the server has what the tables hold, on that client: all
\* of it, and nothing else made for them, such as what flush() or group_discard() took away
\* while it was being restored.
TablesAreLive ==
    listed # None /\ Usable(listed) =>
        LET k == state[listed].client
        IN  /\ \A x \in Subjects : state[listed].table[x] \in {None, k}
            /\ \A x \in Subjects : state[listed].table[x] = k <=> <<k, x, listed>> \in live

\* Restoring never brings back what was given up: only a call that subscribes adds to a table.
GivenUpStaysGivenUp ==
    [][\A s \in StateIds, x \in Subjects :
         state'[s].table[x] # None => \/ state[s].table[x] # None
                                      \/ \E t \in Callers : task[t].own = s /\ task[t].want = x]_vars

\* A state has a recovery running whenever its client is closed, and only after a client it
\* had was lost: not on behalf of a first connect that failed.
RecoveryFollowsLoss ==
    loop = "open" /\ listed # None =>
        /\ state[listed].client # None /\ ~Usable(listed) => task[listed] # Idle
        /\ task[listed] # Idle => state[listed].client # None

\* A close() that ends, also by a cancellation, leaves the client it had taken closed or in
\* the hands of a task: the state is gone, and nothing else would ever close it (#37).
CloseLetsGo ==
    [][\A t \in Closers : task[t].pc \in Closing /\ task'[t] = Idle =>
         LET k == task[t].k IN k # None => client'[k].status = "closed" \/ k \in behind']_vars

\* A loop closed through its close() leaves no connection of its state up, however often
\* close() had replaced that state and whatever still ran; what a loop closed past it leaves up
\* was counted, once somebody came to look.  A connection that never came up is neither: its
\* clean-up may not get to run before the loop ends.
OrphansAreCounted ==
    loop = "closed" =>
        LET left == {k \in ClientIds : client[k].status = "up" /\ client[k].of = last /\ last # None}
        IN  /\ closers = <<>> => left = {}
            /\ listed = None => Cardinality(left) = orphaned

\* Only a loop closed past its close() is closed with a connection up that nobody is closing,
\* whatever close() of the layer did before: the comment on `_orphaned_connections`.
OnlyPastItStaysOpen ==
    loop = "closed" /\ closers = <<>> => \A k \in ClientIds \ behind : client[k].status # "up"

\* A loop that only receives gets its connection back, however many attempts have failed
\* and however losses, calls and close() fell, once nothing goes wrong any more.
ComesBack ==
    <>[][~Trouble]_vars =>
        \A s \in StateIds : listed = s /\ state[s].client # None /\ ~Usable(s) /\ loop = "open"
                            ~> listed # s \/ Usable(s) \/ loop = "closed"
=============================================================================
