# channels-nats in TLA+

A Django Channels layer over NATS. This directory models it, model-checks the models with TLC
on small instances and proves part of the invariants with TLAPS for every instance.
Line numbers below are those of `channels_nats/layer.py` unless a file is named.

Contents: [the system](#the-system) · [modules](#modules-and-the-code) · [runs](#runs) ·
[what the runs found](#where-code-and-words-disagree) · [proofs](#proofs) ·
[not modelled](#not-modelled)

## The system

One `NatsChannelLayer` per process. Each asyncio event loop that uses it gets a `_LoopState`
with its own NATS connection; everything in a state is touched only by coroutines of that
loop, so the interleavings that matter are those at `await`s, and what arrives from the
server through nats-py's callbacks.

| component | state | operations | what is hard | what makes it correct |
|---|---|---|---|---|
| Loop tables (1100-1480) | `mailboxes`, `groups`, `group_subscriptions`, `group_channel_subscriptions`, `process_subscriptions`, `generation`, `subscribe_lock` | `receive`, `new_channel`, `group_add`, `group_discard`, `flush`, sweep, release of plain channels, deliver callbacks | a call awaits between registering and recording; any await may be cancelled; `flush()` empties everything at any of them | one subscription per subject, none leaked; a mailbox handed out is fed; a membership is delivered; a group subscription goes with its last member; calls return |
| Mailbox queue (1041-1098, 1194-1274) | `queue`, `oldest_at`, `dropped`, `receivers`, `superseded`/`closed` | `_enqueue`, `_drop_expired`, the read loop, `_wake_receivers` | expired messages hold room; the sweep is skipped on a mark; a mailbox is taken away under its readers | room is refused only for unexpired messages; order; no reader stays behind |
| Flush barrier (`_nats_patches.py` 52-71, layer 995-1017) | nats-py's `_pongs` | `flush()`, `_process_pong` | a cancelled flush leaves its future on the list | a flush that returned is a barrier; every flush ends |
| Subscribing and cleaning up (837-959) | `cleanups`, `_closing_behind` | `_subscribe`, `_within_grace`, `_unsubscribe_later`, `_finish_later`, `_flush_or_undo`, `_unsubscribe` | commands that outlive their caller; a second cancellation | a cancelled subscribe leaves nothing on the server |
| Connection (499-575, 657-741, 1482-1554) | `client`, `lock`, `recovery`, `closed` | `_client`, `_connect`, `_start_recovery`, `_recover`, `_resubscribe`, `close`, `_close_hard` | connect, close, recovery and cancellation race | the loop's connections are held until somebody begins to close them; what the tables want is what is restored; a receive-only loop comes back |
| Loops (307-497) | `_states`, `_orphaned_connections` | `_state`, `_release_on_close`, `_release`, `_forget_closed_loops` | a loop closed from outside, after a second state, or with work under way | what a closing loop leaves open is closed or counted |
| Delivery (775-835, 961-993, 1187-1192, 1449-1452) | server-side subscriptions | `send`, `group_send`, deliver callbacks, queue groups | several processes; old and new subscription both live | a channel's message reaches one mailbox, a group's each member once |
| Deadlines (999-1039) | — | `_within_deadline`, `_keeping_cancellation` | nats-py swallows cancellations | a cancellation is never lost, a deadline is told from one, the count on the task comes out right |
| Names and sizes (745-801, 969-982) | — | validity, subjects, `_frame_size` | boundary of `max_payload`, bytes and characters | exactly the frames the server would refuse are refused |
| Patch selection (`_nats_patches.py` 77-116) | `_process_pong_outcome` | `patch_process_pong`, `apply` | release and code disagree | a defect is patched or warned about |
| Serializer, reports, package, bench, scripts | — | — | — | — |

How they interact: `receive`, `new_channel` and `group_add` all go through `_mailbox()`,
which makes the mailbox and its subscription under `subscribe_lock`; `_subscribe` and `_flush`
talk to the connection; a deliver callback looks the tables up and files the payload in the
mailbox's queue, where the read loop takes it out. A flush of the connection is what turns
"sent" into "the server has it", which is why `Pongs` stands at the bottom. Every command goes
through `_within_deadline`, every clean-up through `_within_grace` (`Commands`), and every call gets
its client from `_client()`, which may connect and restore what the tables hold (`Connection`).
`LoopState` takes the connection as up and its commands as ending; `Connection` takes the tables
as a set of wanted subjects that changes at any await; `Delivery` takes a process's tables as changing at once.


## Modules and the code

**`LoopState`** — the loop's tables and every call on them, with the connection up.

*State.* `mailboxes`, `groups`, `generation` are the fields of that name. `members` holds the
contents of the `set()` objects, because `group_add` keeps a reference to one across awaits;
`recorded` joins the three tables of subscriptions, keyed by subject; `box` holds the
`_Mailbox` fields (`aged`: `mailbox_grace` has passed over it; `wakes`: wake-up entries in
its queue). `subs` is what the server, or nats-py, has; `going` are the unsubscribes under way.
`task` says where each coroutine is suspended and what it holds across that await: `bx` a
mailbox being made or waited for, `rd` the one its read is counted on, `gen` the generation
remembered, `set` the group's set, `sub` a handle, `todo` the unsubscribes not yet started.
`joined` and `due` are history: memberships whose `group_add()` returned and has not been
revoked, and calls that will leave one. Objects have identities; an identity nobody refers
to is free again, and `Store` resets what it stood for, so that the state space is finite
without losing aliasing.

*Actions.* One per stretch between two awaits:

| await the task leaves | action | code |
|---|---|---|
| call starts, reader moves on | `Call`, `Move` | 1113-1117, 1211-1220 |
| `box.ready.wait()` | `ReadyWake` | 1117-1122 |
| `subscribe_lock` | `LockRun`, `GroupLockRun` | 1125-1136, 1395-1399 |
| `Client.subscribe()` | `Subscribed`, `GroupSubscribed`; cancelled `SubAborted`, `GroupAborted` | 837-882 |
| the flush after it | `Confirmed`, `GroupConfirmed`; cancelled `ConfAborted`, `GroupAborted` | 933-943, 1143-1183, 1403-1428 |
| `box.queue.get()` | `Get`; cancelled `ReadCancelled` | 1221-1236, 1323-1347 |
| an unsubscribe waited for | `TidyDone`; cancelled `TidyCancelled` | 945-959 |
| none (synchronous up to the clean-up) | `Discard`, `Flush` | 1430-1447, 1456-1480 |
| outside | `Unsubscribed`, `Deliver`, `GraceElapses` | 803-835, 906-931, 1302 |

The clean-up states `tidy…` share one step and remember what the caller does afterwards.
Taking a free lock is a step of its own, where asyncio takes it without suspending: the model
has a few more interleavings than the code, never fewer. What holds with them holds without.

*Environment.* `Env` names what callers and the world do in an instance. Three flags let in
the things that break a property, so that the passing runs say under which conditions it
holds: `abortAdd` (a `group_add` fails after it joined), `cancelTidy` (a clean-up of several
subscriptions is cut between two), `slowSubscribe` (a subscribe takes longer than
`mailbox_grace`). They are written on the runs below; none is an assumption about the code. `flush()` may run
at any moment, the turn between `box.ready.set()` and its waiters included.
`abort` covers both a cancellation and an error of nats-py in `_mailbox()`: the code treats
both by `except BaseException`.

*Abstracted.* One process prefix; messages are counts, their order and expiry are
`Mailbox`'s; `Capacity` is one for all; the fallback of `_process_deliver` to a mailbox
under the bare prefix is left out.

**`Mailbox`**, **`Inbox`** — one queue in detail, and what it promises. Entries are numbered
by arrival and stamped with the clock; `Enqueue` is `_enqueue` with `_drop_expired` in it,
for a capacity that depends on the name the message is for; `Get` is one turn of
`receive()`'s loop with `_decode`; `Retire` is `_supersede`, or `close()` doing the same with
`closed`. `Inbox` is the abstract queue without mark, sweep or wake-ups: expired messages are
not in it at all. `Mailbox` implements it with `inbox <- Held` (the unexpired messages) and
`turnedAway <- dropped`. A wake-up is in the queue but not in the inbox; a message may be
turned away because of one only once the mailbox is retired, when nothing looks at it any
more. Time stands still while a reader of a retired mailbox has an entry to take: a
coroutine that is ready runs before any later timer.

**`Pongs`** — commands written and served in order, PINGs among them, the list of futures, and
`_process_pong` as it is found or as it is patched. `Builds` are the nats-py that may be installed: what the
release tells, what the names in the method look like, whether it has the defect; `Apply` decides
as `patch_process_pong()` does, and `SetResult` raises where neither the method nor the patch looks at
`done()`. Assumed of upstream: a later release than 2.16.0, and a method that names `done`, look.
A class without the method, or one already patched, is left out: the first cannot have the
defect in it, the second is "applied". The server and nats-py's side are external.

**`Connection`** — `_client()` and everything around it, for one loop and the `_LoopState`s it
has one after another.

*State.* `listed` is the loop's entry in `_states`; `state` the `_LoopState` objects (their `client`,
their tables, `cleanups`); `client` the nats-py clients, whose `status` is what `is_closed` says and whose
`socket` is what the peer sees — nats-py marks a client closed before its transport goes, and
several comments in the code are about the time between; `live` is what the server has, each with the state whose callback it was made
with; `closers` the wrappers around `loop.close`, `behind` is `_closing_behind`. `task` says where a coroutine is: `own`,
the state whose tables the call will record in, and `st`, the one `_client()` asked for, may differ once close() ran between
them. A subscribe for the process asks for its tables again under the lock (1165); every other keeps to the state of 1113.

| await | actions | code |
|---|---|---|
| `subscribe_lock`, `state.lock` | `Call`, `Resume`, `LockTaken` | 1113-1136, 499-505 |
| `client.connect()` | `Connected`, `ConnectFails`, then `ClosedQuietly` or `CloseTimesOut` | 517-575, 627-633 |
| each subscribe of `_resubscribe()`, its end | `Restore`, `Restored`, `RestoreFails`, then `Undone` or `UndoCutShort` | 506-514, 681-741 |
| a call's own subscribe | `Recorded`, `Cancelled` | 1174-1183 |
| the recovery's sleep | `Wake` | 657-679 |
| `close()` settling, draining, closing hard | `Close`, `Settled`, `DrainCloses`, `DrainFails`, `ClosedForGood`, `CloseCancelled`, `ClosedBehind` | 1482-1554 |
| outside | `Dropped`, `Lost`, `Collected`, `LoopCloses`, `LoopClosesPastIt`, `ForgetClosedLoops` | 340-403, 466-497 |

The four tables are one, indexed by subject; `Dropped` is flush(), group_discard() or a cancelled
read, seen from here. A subscribe and its flush are one step, which ends in `Recorded` or in an
error; what it leaves is `Commands`' business. The recovery of a state is the task with the state's name. The
garbage collector is an action, so that "held" means held by the program.

*Closes that do not get to the end.* A close marks its client closed and takes the transport down afterwards. It may be cut between
the two: the one that undoes a failed restore by a cancellation (`UndoCutShort`; close() cancels the recovery, and a caller may be cancelled
twice), the one in the background by `CLEANUP_GRACE` (`CloseTimesOut`). What is left is a client that is `closed` with its `socket` up, which nobody
holds: no property says it is held, and `Collected` is all that ends it. At the end of the loop `asyncio.run()` has cancelled and waited for the calls (`CallsEnded`).
Whatever else is under way is not let finish but stopped where it is: a restore with its client marked closed (`Stopped`), a connect, or the close
of one that failed, with the socket as it is, a hard close that close() left to a task (`behind`) before it began. So `OrphansAreCounted` speaks of connections that are up, not of sockets.

**`Commands`** — a call that publishes or subscribes, wait by wait: the command under its deadline, the
subscribe that is shielded, the grace around a clean-up, the tasks left to finish later, and
`close()` cancelling those. asyncio is modelled where it decides the outcome: a cancellation and a
timer count a request (`req`) and arrange a throw (`hit`) that happens at the task's next turn, so that both may
be there when it runs; leaving `asyncio.timeout()` takes back what its timer asked and says it
expired if nobody else asked since it was entered. `Swallowed` is what nats-py does with a throw while it
waits on its flusher: a publish returns, a flush goes on to wait for its PONG with its own timeout.
Calls do not touch each other except through the state that close() takes, so one is checked
and any number is proved about. A command that fails by itself after it has swallowed a cancellation
raises its own error; the model has that as `Errs` and `TimesOut`.

**`Delivery`** — processes, the server's subscriptions (`subs`) and the copies on their way to a
subscription's callback. A subscription that is being taken down has an `old` number until the unsubscribe is through: the server
may still route to it, and what it was sent is still called back. Nothing in the code makes the next flush wait for that: an unsubscribe
held up by `CLEANUP_GRACE` or by a cancelled flush leaves several old ones of a kind, `MaxOld` in an instance. `met` is history: which of them a message was routed to. `Routes` is the server: every
subscription without a queue, one of each queue. `due` is what a mailbox is owed and
has not got: a message stops being due when it is filed or when the mailbox or the membership is
given up. Sizes stand for sizes: `WireSize` is what nats-py writes, line by line, and `FrameSize` what the layer
counts. The queue behind `_enqueue` is `Mailbox`'s: filed is filed, room or not.

**`MCLoopState`** and **`MCConnection`** add the symmetry of coroutines, of channels of a kind, of clients. It is used in
the runs without a liveness property. **`LoopProofs`**, **`LoopOwners`**, **`LoopReaders`** (each
extends the one before), **`MailboxProofs`**, **`PongsProofs`**, **`CommandsProofs`**, **`DeliveryProofs`**, **`ConnectionProofs`** hold the theorems.

Definitions commented "variant with a bug" are plausible mistakes in the code next to them;
each was put in the place of that definition to see that a property notices.

## Runs

`tlc -config <run>.cfg <module>`; `LoopState`'s runs use the module `MCLoopState`, `Connection`'s `MCConnection`.

| run | question | bounds | distinct states |
|---|---|---|---|
| `LoopProcess` | races for the one process subscription, with cancelled subscribes, a flush, the sweep | 3 tasks, 2 process channels, 1 flush | 171 k |
| `LoopPlain` | readers of a plain channel, cancelled anywhere, with a flush | 3 tasks, 1 plain channel, 1 flush | 824 k |
| `LoopGroup` | what add, discard, flush, reads and the sweep do to members of both kinds | 2 tasks, 1+1 channels, 1 group, 1 flush | 1,761 k |
| `LoopSettle` | does every call return once cancellations stop, whatever else is going on | 2 tasks, 1 channel, 1 group, 1 flush, fair | 173 k |
| `MailboxRefines` | is the queue an `Inbox`, does every reader leave a retired one | capacities 1 and 2, expiry 1, 2 readers, 5 arrivals, clock to 4, fair | 213 k |
| `Pongs` | is a flush a barrier, does it end, is a defect never left without a warning | 3 flushes, 5 commands, every build, fair | 153 k |
| `Connection` | who holds a connection, what is restored, what close() and the loop's end leave | 2 coroutines that call and close, 2 states, 3 clients, 1 subject | 366 k |
| `ConnectionBack` | does a loop come back | 1 coroutine, 2 states, 3 clients, 1 subject, fair | 322 k |
| `Commands` | how a call ends, what it leaves, that it ends | 1 call, 3 cancellations, fair | 2.8 k |
| `Delivery` | who gets a message, once, and at all; which frames are refused | 2 processes, 1 process and 1 shared channel, the bare prefix, 1 group, 1 message, 1 old subscription of a kind, fair | 709 k |
| `ClosedWhileConnecting` | a disagreement below | see the configuration | ends early |
| `FlushOvertakes` | a disagreement below | 2 tasks, 1 plain channel, 1 group, 1 flush | ends early |

*Why the bounds are enough.* Three coroutines are what the races for a mailbox need: one makes
it, one waits on `ready`, one on the lock (or flushes). Around the groups two are enough, one in `group_add()` and one that does something to it,
so that both kinds of member, reads and the sweep fit in beside them. One flush is enough because a
call compares one remembered generation and starts over; the calls that start over run after
the flush among themselves. Identities of objects are a
bound too: a task that needs one more than the instance has waits until one is free. Two or
three of a kind are room for an old, a new and a leaving one. Two capacities make a message for one name find full
a queue that has room for another; five arrivals fill, expire, sweep and refill it.
`Connection`: two coroutines and the recoveries of two states make four that can hold the lock, wait for it or
close; a state before and a state after close() are all that a call can be caught between, and three clients are one
that was lost, one being made and one being closed. One subject is enough for what is
given up before, while and after it is restored; that one subject is restored while another is given up is left to the proof, since two subjects
and two coroutines are beyond this run (with one coroutine, two subjects have been run: 493 k states). `Commands`: three cancellations are one for each wait that a call can be in one after another,
and one more; the count on the task enters as 0 or 1, since only differences are compared.
`Delivery`: messages do not meet (there is no capacity here), so one is enough, while tables and subscriptions change
around it; one process makes a channel of its own and both share one, so a group has members of both kinds. One old subscription of a
kind beside the current one is what the run has; the proof has any number of them, and with `MaxOld = 2` and no shared channel (131 k states) a message does come three times. The
sizes are one far under `MaxPayload`, the last that fits with its header and one that does not, and one too large by itself;
the name is longer in bytes than in characters.

*Deadlock* is not checked: the layer rests when every coroutine is idle or reading and the
bounds on flushes, arrivals, commands or messages are spent, and after a loop has closed.

*Fairness.* `LoopState`: a coroutine whose await is over runs (the event loop is fair), so
`Progress` is weakly fair per task; `asyncio.Lock` is first come first served, so lock
acquisition is strongly fair; a command given to the connection goes out, so `Unsubscribed`
is weakly fair. Cancellation, calls, flushes, messages and time have none. `CallsSettle`
moreover assumes that from some point on nobody is interrupted; without it a caller could be
cancelled for ever, which is not the code's doing. `Mailbox`: a read with an entry in its queue runs.
`Pongs`: the server serves, and the read loop, while it runs, reads; both break with the connection, and then the
connection's own recovery takes over.
`Connection`: the event loop runs what can run, as one weakly fair `Progress` — it does not
say which coroutine is next, and need not; the server is one that answers, and `ComesBack` asks for it only once no
loss, failure or cancellation happens any more (`Trouble`), else a server that is down would refute it. A drain may hang: only its
end by deadline is assumed (`ClosedForGood`). `Commands`: a task takes its turn, and the timers run; nothing whatever is
assumed of the connection, so that `CallsEnd` says a jammed one holds nobody. It assumes the default
deadlines; with `publish_deadline=None` a call waits as long as nats-py does, as documented. `Delivery`: nats-py calls
its callbacks.

*Properties* are stated, with the behaviour each is about, at the end of their module.
`OneSubscriptionPerSubject` speaks of subscriptions nobody is taking down: after a flush the
old and the new one may both be live until the server has served the unsubscribe, and a
message sent in that time can arrive twice. The code accepts that; `OwnOnce` in `Delivery` says how
often: once, and once more for each subscription that was on its way down when it was sent. And `SharedOnce` that a shared channel is spared it, since both subscriptions are in one queue group
and the old one's mailbox is out of reach.

## Where code and words disagree

`ClosedWhileConnecting`: a call waits in `_connect()` when `close()` takes the loop's state. It goes on, stores its new client in that state
(505, 514) and returns. close() had no client to drain; the wrapper of `loop.close()` skips a state that is not
listed (367); `_forget_closed_loops` does not see it. The loop closes with the connection open and uncounted, against
the comment on `_orphaned_connections` (290). `ListedIsHeld` is what holds: it speaks of the state that is still listed.

`FlushOvertakes`: a `group_add()` waits for the mailbox another call makes. That call is through and sets `ready`; before the waiter has its turn
`flush()` takes the mailbox out of the table. The maker of a mailbox looks at the generation, with the comment that "Handing it out would
give the caller a mailbox nothing feeds" (1154); the waiter looks at `subscribed` only (1117-1119) and is handed it. It then joins its channel, for which
there is no mailbox, and its subscription delivers nowhere. `new_channel()` is exposed to the same; a read is not, because
it looks at `superseded` before it waits (1211). `HandoverIsFed` is what holds, for every call but one so overtaken.

Reproducible by changing a configuration; each counterexample follows the code step by step:

| configuration | property | what happens |
|---|---|---|
| `LoopGroup`, `Env` of `add` and `abortAdd` | `JoinedIsDelivered` | Two `group_add` of one channel. The second is cancelled while the first is subscribing or both still wait for the lock: no subscription feeds the channel yet, so the failure path removes the shared membership (1370-1375). The first then finds the group does not want it, unsubscribes and returns as if it had joined. |
| the same with two process channels | `FailureTakesBackItsOwn` | `group_add` keeps its set across the subscribe. Two calls add one channel, the second fails and takes the emptied set out of the table, an add of the other channel makes a new one, the first call fails: its own set is empty, so it pops the group, new set and all (1376-1377). |
| `LoopPlain` with a group, `Env` with `add` and `discard` | `PlainIsReleased` | The last read of a plain channel is cancelled while it is in a group: kept (1340). `group_discard` then takes the membership and never releases mailbox and queue-group share. |
| `LoopProcess` with a group, `Env` with `add` and `cancelTidy` | `NoLeakedSubscription` | `flush()` unsubscribes one after another; cancelled during the first wait, the rest stay on the server and in no table (957). |
| `LoopProcess`, `Env` with `slowSubscribe` | `HandoverIsFed` | A mailbox whose subscription takes longer than `mailbox_grace` is swept by another call (1304 does not look at `ready`), and its maker hands it out all the same; with the default deadlines a subscribe cannot take that long. |

Seen while modelling, without a run: a wake-up is decoded as a frame (1221-1226, against the docstring
at 1311): `bad` goes up in `Mailbox` where nothing unreadable arrives, and a warning blames a publisher. close() cancelled
after nats-py's own close has begun finds `is_closed` already true (1535) and hands nothing on, though the docstring of
`_finished` (407) knows better; what becomes of the transport is nats-py's. A connect that fails after close() has
its clean-up cancelled before it runs (917-921), "and the connection with it" being not true of a client that no
state ever had: the socket goes with the garbage collector. A call that waits for `subscribe_lock` across close() opens a connection in
a new state, and if its channel is a plain one or the call joins a group it records the subscription in the old state's tables (1113,
1143, 1409), where nothing looks any more; only the process's own goes into the new ones (1165).

## Proofs

`tlapm <module>.tla` checks them; nothing is assumed beyond the named `ASSUME`s of the modules
(identities are numbers, `None` is none of the values, channels are of one kind, a recovery is no caller).

**`LoopProofs`: `LoopTyped == Spec => []TypeOK`.** The invariant is inductive as it stands because it
includes `Shaped`: a task suspended at an await holds what the code after that await uses.
Without it a step could read the fields of `None`. The proof is cut along the variables that change
together (`TablesOK`, `ServerOK`, `StoreOK`, `CallsOK`, `HistoryOK`), with one lemma per
helper (`HandOut`, `LookUp`, `Tidy`, `Ends`) and one per action.

**`WantedHolds == Spec => []RecordedIsWanted`, if `"abortAdd" \notin Env`.** The inductive
invariant is `TypeOK /\ NoAddFails /\ SetsAreOwn /\ RecordedIsWanted`. `SetsAreOwn` (no two groups
share a set object) is what makes `group_discard` of one group leave the members of the others
alone. `NoAddFails` is there for a reason: a failing `group_add` may take a set out of the
table that is not its own, with it members for which the group's subscription
was recorded, and the invariant is then lost. The argument: keys are only added by
`GroupConfirmed`, behind `Wants`; members only leave through `Discard`, which drops the keys the
leaver was the last to need, and `Flush`, which drops all.

**`LoopOwners`: `NothingLeaks` (`NoLeakedSubscription`), `SubjectsHaveOne` (`OneSubscriptionPerSubject`), `ReadyIsFed`
(`ReadyMailboxIsFed`), if `"cancelTidy" \notin Env`.** The inductive invariant `Owned` joins what each needs of the others.
`Exclusive`: one task at a time is between taking and leaving `subscribe_lock`. `CallsOwn`: what a suspended call may count on
after its await — the mailbox it makes is its own and in the table unless a flush came (`gen`), the handle it holds is a
subscription that nobody else holds or takes down. `TableOK`: a ready mailbox in the table is its maker's success, and
`RecordedOK`: a subscription in a table is live, on its subject, and owned by that entry alone. From these
follow the single owner (`NoLeakedSubscription`) and then at most one subscription on a subject: two would have two
owners, of which one is in a table and the other in the hands of the task with the lock, which looked at the table first
or starts over after a flush. The assumption is needed, as the table
above shows with `cancelTidy`: a clean-up cut between two unsubscribes leaves the second without an owner. `NoneIsNoSubject` keeps the absence of a subscription apart from one.

`JoinedStaysDelivered` (`JoinedIsDelivered`), if moreover `"abortAdd" \notin Env`. The invariant `Memberships` of `LoopProofs` is about
the past of a group_add() that returned and about the future of one that has not: whoever is `due` to count is on its way through the lock
or the subscribe with its channel in the set, and what counts has its subscription recorded; `RecordedOK` makes that one live. It is inductive
because members only leave with `Discard` and `Flush`, which take back what counts in the same step.

**`LoopReaders`: `ReadsAreCounted` (`ReceiversAreCounted`), `NoReadIsStranded` (`ReaderIsFedOrWoken`), `HandsOutWhatIsFed` (`HandoverIsFed`),
`MembersAreKept` (`MembersKeepMailbox`), `JoinedKeepsMailbox` (`JoinedHasMailbox`), `LastReaderGivesUp` (`PlainIsReleased`).** The invariant `Reads` is inductive together with `Owned`. `WaitsOK`
says for each await what the code after it relies on without looking again: a waiter's mailbox is still its channel's or in no table,
a maker's is in the table until a flush came, a read is on its channel's mailbox or on one that flush() took away. `TabledOK` keeps the latter out of the
tables, `BoxesOK` lets `mailbox_grace` pass only over what is ready, and `WokenOK` counts: a mailbox taken away has an entry for every read
that still waits there. So an entry may only be taken by the one who leaves (`EntriesStep`), and the sweep must not take a mailbox somebody has been woken for, reads
or makes (`Free`): the last is what the receivers' count has to be right for. Each action is reduced to what it does to the boxes (`BoxesStep`, `CountStep`) and to the
table (`TablesStep`), and `StepReads` keeps the invariant once for all of them. `MembersAreKept` is about the table alone: a sweep, a cancelled read
and a failing subscribe spare what is in a group (`Spares`, `GroupsKeepBoxes`), and `flush()`, which does not, ends the membership. `JoinedKeepsMailbox` follows a membership from
the moment its group_add() is handed the mailbox (`IsHanded`): what lasts had a ready mailbox before or is given one in this step (`ComesFrom`, `HandsOn`).

The assumptions: `ReadsAreCounted` has none. `NoReadIsStranded` and `HandsOutWhatIsFed` leave out `cancelTidy`, which is `Owned`'s, and `slowSubscribe`, with which
a mailbox still being made can be swept and is handed out in no table (below the runs); `MembersAreKept` and `JoinedKeepsMailbox` also `abortAdd`, with which a membership may go that
a call still counts on. `HandsOutWhatIsFed` has the overtaken waiter in its property (`Overtaken`), and because such a waiter
may be a group_add(), `JoinedKeepsMailbox` is proved for `MaxFlushes = 0`: with a flush `FlushOvertakes` shows it false, and the runs, which all have one, check `MembersKeepMailbox` instead. `LastReaderGivesUp` needs what `JoinedStaysDelivered` needs, and leaves `discard` out for
the reason in the table above.

**`MailboxProofs`.** `MailboxTyped`; `MarkHolds` (`MarkIsNeverNewer`: entries only leave
at the front or in a sweep, which takes a new mark, and arrive with the present time);
`MailboxIsAnInbox`: every step of `Mailbox` is a step of `Inbox` or a stutter. The refinement
rests on `MarkHolds`: a sweep that is skipped would have found nothing, so the queue's size
is the number of unexpired entries, and wake-ups, which are the rest of it, are in a queue
only when it is retired.

**`PongsProofs`.** `FlushIsABarrier` (`FlushMeansServed`) and `PongsTyped`. The invariant
orders the list of futures by the numbers of their PINGs and says that as many PONGs are on
their way as PINGs on the list have been served: so the first future is one whose PING was.
`NeverSilentlyDeaf` (`DeafOnlyWarned`): a read loop that is over met a method that does not look, which
`patch_process_pong()` replaces or warns about.

**`CommandsProofs`.** `OutcomesTell`, `CountsAreKept`, `LeftoversHaveOwners`, `TidyingReopensNothing` (`TidyingMakesNoState`), `CommandsTyped`: every
safety property of `Commands`, for any number of calls and cancellations. The invariant
`Inv` says what the counters mean while a call waits: the requests on a task are those it came with, those of its
callers and, if it has fired, that of this wait's own timer (`Counted`); a command begins with none of the callers'
(`Undisturbed`), which is why comparing with the count at its beginning is enough; in the wait after a cancelled
subscribe the count has gone up already, unless the deadline did it (`CallOK`), which is why a leak takes two.
`SubsOK` ties where a call waits to how far its subscription is, `ClosedIsDead` says that without a state no
connection a call used is left. The two lemmas `Local` and `GoesOn` reduce a step of one call to what it leaves of that call.

**`DeliveryProofs`.** `FiledOnce` (`SharedOnce`), `OwnFiledOnce` (`OwnOnce`), `FramesFit` (`SizesAgree`) and
`DeliveryTyped`, from `DeliveryConstants` and `NamesTellApart` (a channel belongs to one process or is shared, and a
group's subject is not a channel's). For shared channels the invariant `Inv` says that there is one copy of a message per
queue (`OneCopyPerQueue`), that what a message was sent to leaves one queue by which it can come to a channel
(`SubjectOf`), and that nothing has been filed while that copy is on its way (`NotYetFiled`). For the channels of a process
`OwnBounded` adds up what has been filed and what may still be, under the current subscription of a kind and under every old one: the
bound is one more than the old ones the message met when it was sent (`Bound`), each of which got one copy. Retiring a subscription renames a copy and
makes none (`RetiringCounts`, `OwnRetiring`), whatever `MaxOld` is.
`FramesFit` is arithmetic over any sizes; that it states the format nats-py writes is `WireSize`'s part.

**`ConnectionProofs`: `OpenOnesAreHeld` (`ListedIsHeld`), `ServerHasTheTables` (`TablesAreLive`), `RecoversWhatWasLost`
(`RecoveryFollowsLoss`), `CountsWhatWasMissed` (`OrphansAreCounted`), `NothingComesBack` (`GivenUpStaysGivenUp`),
`ClosesWhatItTook` (`CloseLetsGo`), `Typed`:** everything the run `Connection` checks, for any number of coroutines, states, clients
and subjects. The inductive invariant `Inv` adds what the code relies on without saying so. `Excludes`: `state.lock` does. `MakerOK`: a
client being connected or restored is in nobody else's hands, and the state it is for has no usable one until it is stored. `CloserOK`:
what close() took is not the client of the state that is listed now — without it a hard close could take the new connection.
`CleanupsOK`: a client left to be closed later never came up, so no closed_cb speaks for it. `ClientsApart`: two states never share a client.
`RestoringOK` says what the tables hold in the middle of `_resubscribe()`: an entry is already moved to the new client exactly
when the server has it there, or it is on the list to be taken down at the end, or its turn is still to come. `AllWrapped` and `EndOK`
carry `OrphansAreCounted`: every state made on the loop has its wrapper in `loop.close`, and when the loop ends with nothing awaited and the rest stopped (`Halted`),
at most the listed state's own client is up. What somebody holds (`OwnHeld`, `CleanupsOK`) is said of a running loop only.
The steps are proved in classes: those that only retire something (`Retires`: a coroutine gives up, a client goes), those that
make a client (`MakesKeeps`), put it in its state (`BecomesTheClient`), write an entry of a table (`EntryKeeps`, `WritesKeeps`), or make a state (`MadeKeeps`);
each class says what may change and is shown to keep `Inv` once. `RecoveriesAreNoCallers` is the naming of tasks: a recovery is one
the layer starts itself.

*Only model-checked:* `CallsSettle`, `RetiredIsLeft`, `EveryFlushEnds`, `ComesBack`, `CallsEnd`, `Reaches`: liveness
under fairness is out of the prover's reach. Every other property of the passing runs has a theorem.

## Not modelled

Which names are valid (745-773: regular expressions over characters; names are values here); the throttled warnings and
the counters only they read; msgpack (two calls; an unreadable message is a kind of message); the Windows send
buffer (583-625), which sets a socket option; user callbacks (`closed_cb`, `error_cb`), which the layer calls after its own
work; the warning about many loops (321-328); several loops at once, which share nothing but the table they are
keyed in; `__init__.py`, `bench/`, `scripts/`, which keep no state the layer uses.

nats-py's own reconnects are in no module: they restore its subscriptions themselves and show the layer an
open client throughout. What nats-py does with a close that is cut short is left to `Collected`.

