------------------------------ MODULE Commands ------------------------------
(***************************************************************************)
(* How long a call to the layer may take, and what it leaves: a nats-py    *)
(* command under publish_deadline (`_within_deadline`), with the           *)
(* cancellations nats-py swallows put back (`_keeping_cancellation`); the  *)
(* subscribe that must not be left half made, the flush that confirms it   *)
(* or takes it back down, the wait of CLEANUP_GRACE around each clean-up   *)
(* (`_within_grace`), and what is left to finish later.                    *)
(*                                                                         *)
(* A cancellation and a timer only ask: asyncio counts the request and     *)
(* throws at the task's next turn, so that several may have been made by   *)
(* then.  A command may never be done: the connection may be jammed.       *)
(***************************************************************************)
EXTENDS Naturals

CONSTANTS Calls,     \* calls that publish or subscribe
          MaxAsked   \* bound on the cancellations of one call

ASSUME CommandsConstants == MaxAsked \in Nat

VARIABLES call,     \* the task of each call
          sub,      \* its subscription: client.subscribe() asked for it, it is up, ...
          cleanup,  \* what state.cleanups holds for it
          open,     \* the loop has a state
          dead      \* calls whose connection close() has taken

vars == <<call, sub, cleanup, open, dead>>

\* Where a call waits: in a command, or in a clean-up.
InCommand == {"publish", "flush", "pong"}
Waits == {"subscribe", "grace", "undo"} \cup InCommand
Outcomes == {"none", "result", "CancelledError", "FlushTimeoutError", "error"}

CallRecords ==
    [pc: {"idle", "over"} \cup Waits,
     entry: 0..1,        \* history: cancelling() as the call began
     req: Nat,           \* task.cancelling()
     base: Nat,          \* what it was as this wait began
     hit: BOOLEAN,       \* a CancelledError is to be thrown
     due: BOOLEAN,       \* the timer of this wait has fired
     asked: 0..MaxAsked, \* history: cancellations of this call
     rang: BOOLEAN,      \* history: publish_deadline has passed
     out: Outcomes]

TypeOK ==
    /\ call \in [Calls -> CallRecords]
    /\ sub \in [Calls -> {"none", "asked", "up", "failed", "leaving", "gone"}]
    /\ cleanup \in [Calls -> {"none", "await", "undo", "left"}]
    /\ open \in BOOLEAN /\ dead \subseteq Calls
    /\ \A t \in Calls : call[t].req <= 2 + call[t].asked

NewCall == [pc |-> "idle", entry |-> 0, req |-> 0, base |-> 0, hit |-> FALSE, due |-> FALSE,
            asked |-> 0, rang |-> FALSE, out |-> "none"]

Init ==
    /\ call = [t \in Calls |-> NewCall]
    /\ sub = [t \in Calls |-> "none"] /\ cleanup = [t \in Calls |-> "none"]
    /\ open = FALSE /\ dead = {}

-----------------------------------------------------------------------------
(* asyncio.timeout(), which wait_for() is made of. *)

\* Leaving it takes back the request its timer made; a CancelledError that leaves it becomes
\* a TimeoutError when nobody else has asked.
Exited(c) == [c EXCEPT !.req = IF c.due THEN c.req - 1 ELSE c.req, !.due = FALSE, !.hit = FALSE]

Expired(c) == c.due /\ c.req - 1 <= c.base

Entered(c, pc) == [Exited(c) EXCEPT !.pc = pc, !.base = Exited(c).req]

\* A clean-up waits for its unsubscribe whatever it takes (variant with a bug).
TimedButCleanups == {"subscribe", "grace"} \cup InCommand

\* The timers that run.  A flush whose cancellation was swallowed is past its own.
Timed == {"subscribe", "grace", "undo"} \cup InCommand

Timer(t) ==
    /\ call[t].pc \in Timed /\ ~call[t].due
    /\ call' = [call EXCEPT ![t].due = TRUE, ![t].hit = TRUE, ![t].req = @ + 1,
                            ![t].rang = @ \/ call[t].pc \notin {"grace", "undo"}]
    /\ UNCHANGED <<sub, cleanup, open, dead>>

Cancel(t) ==
    /\ call[t].pc \in Waits /\ call[t].asked < MaxAsked
    /\ call' = [call EXCEPT ![t].hit = TRUE, ![t].req = @ + 1, ![t].asked = @ + 1]
    /\ UNCHANGED <<sub, cleanup, open, dead>>

-----------------------------------------------------------------------------
(* How a wait ends. *)

Over(c, e) == [Exited(c) EXCEPT !.pc = "over", !.out = e]

\* What `_within_deadline` raises for a CancelledError.
Interrupted(c) == IF Expired(c) THEN "FlushTimeoutError" ELSE "CancelledError"

\* `_state()` is asked for somewhere to keep the work (variant with a bug).
HandedRevives(t, work) ==
    /\ cleanup' = [cleanup EXCEPT ![t] = work]
    /\ open' = TRUE /\ UNCHANGED sub

\* Past CLEANUP_GRACE the subscribe is forgotten (variant with a bug).
Forgotten(t, work) == UNCHANGED <<cleanup, sub, open>>

\* `_finish_later()`: the state keeps it; without a state it is cancelled before it runs.
Handed(t, work) ==
    /\ cleanup' = IF open THEN [cleanup EXCEPT ![t] = work] ELSE cleanup
    /\ sub' = IF ~open /\ work = "left" THEN [sub EXCEPT ![t] = "gone"] ELSE sub
    /\ UNCHANGED open

\* The command of a call ends with the error e; a subscription is taken back down.
Fails(t, e) ==
    /\ IF call[t].pc = "publish" THEN /\ call' = [call EXCEPT ![t] = Over(@, e)]
                                      /\ UNCHANGED sub
       ELSE /\ call' = [call EXCEPT ![t] = [Entered(@, "undo") EXCEPT !.out = e]]
            /\ sub' = [sub EXCEPT ![t] = "leaving"]
    /\ UNCHANGED <<cleanup, open, dead>>

\* What a command that returned says is taken for the call's own (variant with a bug).
KeepingNothing(t) ==
    /\ call' = [call EXCEPT ![t] = Over(@, "result")]
    /\ UNCHANGED <<sub, cleanup, open, dead>>

\* The guard takes the request back as it raises (variant with a bug).
KeepingUncancelled(t) ==
    IF call[t].req > call[t].base
    THEN /\ call' = [call EXCEPT ![t] = [Over(@, Interrupted(@)) EXCEPT !.req = IF @ = 0 THEN 0 ELSE @ - 1]]
         /\ UNCHANGED <<sub, cleanup, open, dead>>
    ELSE KeepingNothing(t)

\* The guard takes back the deadline's request, which asyncio does too (variant with a bug).
KeepingTwiceBack(t) ==
    IF call[t].req > call[t].base
    THEN /\ call' = [call EXCEPT ![t] = [Over(@, Interrupted(@)) EXCEPT !.req = @ - 1]]
         /\ UNCHANGED <<sub, cleanup, open, dead>>
    ELSE KeepingNothing(t)

\* A command returns: was the call asked to end meanwhile?
KeepingCancellation(t) ==
    IF call[t].req > call[t].base THEN Fails(t, Interrupted(call[t])) ELSE KeepingNothing(t)

-----------------------------------------------------------------------------
(* A call.  Its turns come when it was asked to end, or when what it waits for is done. *)

\* A call may be part of what a cancelled task still does.
Call(t) ==
    /\ call[t].pc = "idle"
    /\ open' = TRUE
    /\ \E n \in 0..1 :
        \/ /\ call' = [call EXCEPT ![t] = [Entered([NewCall EXCEPT !.req = n], "publish") EXCEPT !.entry = n]]
           /\ UNCHANGED sub
        \/ /\ call' = [call EXCEPT ![t] = [Entered([NewCall EXCEPT !.req = n], "subscribe") EXCEPT !.entry = n]]
           /\ sub' = [sub EXCEPT ![t] = "asked"]
    /\ UNCHANGED <<cleanup, dead>>

Subscribed(t) ==
    /\ call[t].pc = "subscribe" /\ ~call[t].hit /\ sub[t] = "up"
    /\ call' = [call EXCEPT ![t] = Entered(@, "flush")]
    /\ UNCHANGED <<sub, cleanup, open, dead>>

\* The subscribe goes on in its task.
SubscribeEnds(t) ==
    LET e == IF call[t].hit THEN Interrupted(call[t]) ELSE "error"
    IN  /\ call[t].pc = "subscribe" /\ (call[t].hit \/ sub[t] = "failed")
        /\ \/ /\ sub[t] = "asked"
              /\ call' = [call EXCEPT ![t] = [Entered(@, "grace") EXCEPT !.out = e]]
              /\ UNCHANGED sub
           \/ /\ sub[t] = "up"
              /\ call' = [call EXCEPT ![t] = [Entered(@, "undo") EXCEPT !.out = e]]
              /\ sub' = [sub EXCEPT ![t] = "leaving"]
           \/ /\ sub[t] = "failed"
              /\ call' = [call EXCEPT ![t] = Over(@, e)]
              /\ UNCHANGED sub
        /\ UNCHANGED <<cleanup, open, dead>>

\* The subscribe ended within CLEANUP_GRACE.
GraceEnough(t) ==
    /\ call[t].pc = "grace" /\ ~call[t].hit /\ sub[t] # "asked"
    /\ IF sub[t] = "up" THEN /\ call' = [call EXCEPT ![t] = Entered(@, "undo")]
                             /\ sub' = [sub EXCEPT ![t] = "leaving"]
       ELSE /\ call' = [call EXCEPT ![t] = Over(@, @.out)]
            /\ UNCHANGED sub
    /\ UNCHANGED <<cleanup, open, dead>>

Undone(t) ==
    /\ call[t].pc = "undo" /\ ~call[t].hit /\ sub[t] = "gone"
    /\ call' = [call EXCEPT ![t] = Over(@, @.out)]
    /\ UNCHANGED <<sub, cleanup, open, dead>>

\* CLEANUP_GRACE is over: the call ends as it was going to, and a task does the rest.
GraceOver(t) ==
    /\ call[t].pc \in {"grace", "undo"} /\ call[t].hit /\ Expired(call[t])
    /\ call' = [call EXCEPT ![t] = Over(@, @.out)]
    /\ Handed(t, IF call[t].pc = "grace" THEN "await" ELSE "left")
    /\ UNCHANGED dead

\* A second cancellation has nowhere left to wait.
CancelledAgain(t) ==
    /\ call[t].pc \in {"grace", "undo"} /\ call[t].hit /\ ~Expired(call[t])
    /\ call' = [call EXCEPT ![t] = Over(@, "CancelledError")]
    /\ UNCHANGED <<sub, cleanup, open, dead>>

Interrupt(t) ==
    /\ call[t].pc \in InCommand /\ call[t].hit
    /\ Fails(t, Interrupted(call[t]))

\* nats-py discards what is thrown while it waits on its flusher: a publish then returns,
\* a flush goes on to wait for its PONG.
Swallowed(t) ==
    /\ call[t].pc \in {"publish", "flush"} /\ call[t].hit
    /\ IF call[t].pc = "publish" THEN KeepingCancellation(t)
       ELSE /\ call' = [call EXCEPT ![t].pc = "pong", ![t].hit = FALSE]
            /\ UNCHANGED <<sub, cleanup, open, dead>>

Returned(t) ==
    /\ call[t].pc \in InCommand /\ ~call[t].hit
    /\ KeepingCancellation(t)

\* nats-py's own timeout, which counts as the deadline's when that has passed too.
TimesOut(t) ==
    /\ call[t].pc \in {"flush", "pong"} /\ ~call[t].hit
    /\ Fails(t, IF call[t].due THEN "FlushTimeoutError" ELSE "error")

\* Any other error, such as a connection that is closed.
Errs(t) ==
    /\ call[t].pc \in InCommand /\ ~call[t].hit
    /\ Fails(t, "error")

-----------------------------------------------------------------------------
(* Commands that run in tasks of their own, and close(). *)

ComesUp(t) ==
    /\ sub[t] = "asked" /\ t \notin dead
    /\ sub' = [sub EXCEPT ![t] = "up"]
    /\ UNCHANGED <<call, cleanup, open, dead>>

NeverComesUp(t) ==
    /\ sub[t] = "asked"
    /\ sub' = [sub EXCEPT ![t] = "failed"]
    /\ UNCHANGED <<call, cleanup, open, dead>>

Unsubscribed(t) ==
    /\ sub[t] = "leaving"
    /\ sub' = [sub EXCEPT ![t] = "gone"]
    /\ UNCHANGED <<call, cleanup, open, dead>>

\* take_down()
TakeDown(t) ==
    /\ cleanup[t] = "await" /\ sub[t] \in {"up", "failed"}
    /\ IF sub[t] = "up" THEN /\ sub' = [sub EXCEPT ![t] = "leaving"]
                             /\ cleanup' = [cleanup EXCEPT ![t] = "undo"]
       ELSE /\ cleanup' = [cleanup EXCEPT ![t] = "none"]
            /\ UNCHANGED sub
    /\ UNCHANGED <<call, open, dead>>

\* take_down() leaves its unsubscribe to finish later in turn.
CleanupGrace(t) ==
    /\ cleanup[t] = "undo"
    /\ Handed(t, "left")
    /\ UNCHANGED <<call, dead>>

CleanupDone(t) ==
    /\ cleanup[t] \in {"undo", "left"} /\ sub[t] = "gone"
    /\ cleanup' = [cleanup EXCEPT ![t] = "none"]
    /\ UNCHANGED <<call, sub, open, dead>>

\* close() takes the state, cancels what was left to finish later and closes the connection.
Close ==
    /\ open
    /\ open' = FALSE
    /\ dead' = dead \cup {t \in Calls : call[t].pc # "idle"}
    /\ cleanup' = [t \in Calls |-> "none"]
    /\ sub' = [t \in Calls |-> IF cleanup[t] = "await" /\ sub[t] = "asked" THEN "failed"
                               ELSE IF cleanup[t] = "left" THEN "gone" ELSE sub[t]]
    /\ UNCHANGED call

\* Somebody else uses the layer on this loop: the calls are otherwise independent.
State ==
    /\ ~open
    /\ open' = TRUE
    /\ UNCHANGED <<call, sub, cleanup, dead>>

-----------------------------------------------------------------------------
\* The turns of a call that do not wait for the connection.
Turn(t) ==
    \/ Subscribed(t) \/ SubscribeEnds(t) \/ GraceEnough(t) \/ Undone(t) \/ GraceOver(t)
    \/ CancelledAgain(t) \/ Interrupt(t) \/ Swallowed(t)

Command(t) == Returned(t) \/ TimesOut(t) \/ Errs(t)

Background(t) ==
    \/ ComesUp(t) \/ NeverComesUp(t) \/ Unsubscribed(t)
    \/ TakeDown(t) \/ CleanupGrace(t) \/ CleanupDone(t)

Next ==
    \/ \E t \in Calls : Call(t) \/ Timer(t) \/ Cancel(t) \/ Turn(t) \/ Command(t) \/ Background(t)
    \/ Close \/ State

Spec == Init /\ [][Next]_vars

\* The loop runs, and time passes.  Nothing is assumed of the connection.
FairSpec == Spec /\ \A t \in Calls : WF_vars(Turn(t)) /\ WF_vars(Timer(t)) /\ WF_vars(TimesOut(t))

-----------------------------------------------------------------------------
(* What must hold. *)

Ended(t) == call[t].pc = "over"

\* How a call ended tells who ended it, also when the deadline and the caller ask in the same
\* turn and nats-py swallows both: a cancelled one never returns as if nothing had happened
\* (#23), nobody sees a CancelledError that was not asked for, and the deadline never passes
\* unnoticed (#33, #34).
OutcomeTellsWho ==
    \A t \in Calls : Ended(t) =>
        /\ call[t].out = "result" => call[t].asked = 0 /\ ~call[t].rang
        /\ call[t].out = "CancelledError" => call[t].asked > 0
        /\ call[t].out = "FlushTimeoutError" => call[t].rang

\* A call leaves its task with the cancellations it was sent and no other: the timers take
\* back their own, and what nats-py swallowed stays counted.
CountIsKept == \A t \in Calls : Ended(t) => call[t].req = call[t].entry + call[t].asked

\* A call that failed leaves no subscription on a live connection that nobody takes down
\* (#11).  It takes two interruptions, the second within CLEANUP_GRACE of the first, to.
LeftoversAreOwned ==
    \A t \in Calls : Ended(t) /\ call[t].out # "result" /\ t \notin dead =>
        \/ sub[t] \in {"none", "failed", "leaving", "gone"}
        \/ cleanup[t] = "await"
        \/ call[t].asked >= IF call[t].rang THEN 1 ELSE 2

\* What close() took stays closed until somebody begins to use the layer again (#24): no call
\* under way when it was taken, nor the tasks it left behind, makes a state to tidy up in.
TidyingMakesNoState ==
    [][~open /\ open' => \A t \in Calls : call[t].pc # "idle" => UNCHANGED <<call[t], sub[t], cleanup[t]>>]_vars

\* Every call ends, though the connection never takes another command.
CallsEnd == \A t \in Calls : call[t].pc # "idle" ~> Ended(t)
=============================================================================
