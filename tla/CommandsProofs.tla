-------------------------- MODULE CommandsProofs --------------------------
(***************************************************************************)
(* For any number of calls and of cancellations: how a call ended tells    *)
(* who ended it, the count of cancellations comes out right, and nothing   *)
(* is left on a live connection without an owner but by two interruptions. *)
(***************************************************************************)
EXTENDS Commands, TLAPS

Commanding == {"subscribe"} \cup InCommand
CleaningUp == {"grace", "undo"}

\* The requests of a waiting task are those it came with, those of its callers and that of the
\* timer of this wait.
Counted(c) ==
    /\ c.req = c.entry + c.asked + (IF c.due THEN 1 ELSE 0)
    /\ c.entry <= c.base /\ c.base <= c.entry + c.asked
    /\ c.hit => c.req > c.base

\* A command begins before anybody has asked the call to end.
Undisturbed(c) ==
    /\ c.base = c.entry
    /\ c.rang <=> c.due
    /\ c.pc = "subscribe" /\ ~c.hit => c.asked = 0 /\ ~c.due

\* What a call that is over, or on its way out, will raise.
Told(c) ==
    /\ c.out = "CancelledError" => c.asked > 0
    /\ c.out = "FlushTimeoutError" => c.rang
    /\ c.out # "none"

CallOK(c) ==
    /\ c.pc = "idle" => c.req = 0
    /\ c.pc \in Waits => Counted(c)
    /\ c.pc \in Commanding => Undisturbed(c)
    /\ c.pc \in CleaningUp => Told(c) /\ c.out # "result"
    /\ c.pc = "grace" => c.base >= c.entry + (IF c.rang THEN 0 ELSE 1)
    /\ c.pc = "over" => /\ Told(c) /\ c.req = c.entry + c.asked
                        /\ c.out = "result" => c.asked = 0 /\ ~c.rang

Typed ==
    /\ call \in [Calls -> CallRecords]
    /\ sub \in [Calls -> {"none", "asked", "up", "failed", "leaving", "gone"}]
    /\ cleanup \in [Calls -> {"none", "await", "undo", "left"}]
    /\ open \in BOOLEAN /\ dead \subseteq Calls

CallsOK == \A t \in Calls : CallOK(call[t])

\* Where a call waits says how far its subscription is.
SubOK(c, s, w) ==
    /\ c.pc \in {"flush", "pong"} => s = "up"
    /\ c.pc = "undo" => s \in {"leaving", "gone"}
    /\ c.pc \in {"idle", "publish"} => s = "none"
    /\ w # "none" => c.pc = "over"
    /\ w \in {"undo", "left"} => s \in {"leaving", "gone"}

SubsOK == \A t \in Calls : SubOK(call[t], sub[t], cleanup[t])

\* LeftoversAreOwned, of one call.
Owned(c, s, w) ==
    \/ s \in {"none", "failed", "leaving", "gone"}
    \/ w = "await"
    \/ c.asked >= IF c.rang THEN 1 ELSE 2

\* Without a state every connection a call used has been closed.
ClosedIsDead == open \/ \A t \in Calls : call[t].pc # "idle" => t \in dead

\* Work left to finish later is in a state that close() will find.
Listed == \A t \in Calls : cleanup[t] # "none" => open

Inv == Typed /\ CallsOK /\ SubsOK /\ ClosedIsDead /\ LeftoversAreOwned /\ Listed

-----------------------------------------------------------------------------
(* Leaving a wait. *)

\* Only the timer's own request is taken back.
LEMMA ExitedIs ==
  ASSUME NEW c \in CallRecords, Counted(c)
  PROVE  /\ Exited(c) \in CallRecords
         /\ Exited(c).req = c.entry + c.asked
         /\ ~Exited(c).hit /\ ~Exited(c).due
         /\ Exited(c).pc = c.pc /\ Exited(c).entry = c.entry /\ Exited(c).asked = c.asked
         /\ Exited(c).rang = c.rang /\ Exited(c).out = c.out /\ Exited(c).base = c.base
<1> DEFINE n == IF c.due THEN c.req - 1 ELSE c.req
<1>1. n = c.entry + c.asked /\ n \in Nat
  BY CommandsConstants DEF CallRecords, Counted
<1>2. Exited(c) = [c EXCEPT !.req = n, !.due = FALSE, !.hit = FALSE]
  BY DEF Exited
<1> HIDE DEF n
<1> QED
  BY <1>1, <1>2 DEF CallRecords

\* Whatever wait a call leaves, the requests left are its own and its callers'.
LEMMA EnteredIs ==
  ASSUME NEW c \in CallRecords, Counted(c), NEW pc \in Waits
  PROVE  LET d == Entered(c, pc)
         IN  /\ d \in CallRecords
             /\ d.pc = pc /\ d.req = c.entry + c.asked /\ d.base = c.entry + c.asked
             /\ ~d.hit /\ ~d.due
             /\ d.entry = c.entry /\ d.asked = c.asked /\ d.rang = c.rang /\ d.out = c.out
<1> DEFINE x == Exited(c)
<1>1. Entered(c, pc) = [x EXCEPT !.pc = pc, !.base = x.req]
  BY DEF Entered
<1>2. /\ x \in CallRecords /\ x.req = c.entry + c.asked /\ ~x.hit /\ ~x.due
      /\ x.entry = c.entry /\ x.asked = c.asked /\ x.rang = c.rang /\ x.out = c.out
  BY ExitedIs
<1> HIDE DEF x
<1> QED
  BY <1>1, <1>2 DEF CallRecords

\* The same for a call that ends.
LEMMA OverIs ==
  ASSUME NEW c \in CallRecords, Counted(c), NEW e \in Outcomes
  PROVE  LET d == Over(c, e)
         IN  /\ d \in CallRecords
             /\ d.pc = "over" /\ d.req = c.entry + c.asked /\ d.out = e
             /\ d.entry = c.entry /\ d.asked = c.asked /\ d.rang = c.rang
<1> DEFINE x == Exited(c)
<1>1. Over(c, e) = [x EXCEPT !.pc = "over", !.out = e]
  BY DEF Over
<1>2. /\ x \in CallRecords /\ x.req = c.entry + c.asked
      /\ x.entry = c.entry /\ x.asked = c.asked /\ x.rang = c.rang
  BY ExitedIs
<1> HIDE DEF x
<1> QED
  BY <1>1, <1>2 DEF CallRecords

\* A CancelledError that leaves a command is named after who asked for it.
LEMMA InterruptedTells ==
  ASSUME NEW c \in CallRecords, Counted(c), Undisturbed(c), c.req > c.base
  PROVE  LET e == Interrupted(c)
         IN  /\ e \in Outcomes /\ e # "none" /\ e # "result" /\ e # "error"
             /\ e = "CancelledError" => c.asked > 0
             /\ e = "FlushTimeoutError" => c.rang
  BY CommandsConstants DEF CallRecords, Counted, Undisturbed, Interrupted, Expired, Outcomes

-----------------------------------------------------------------------------
(* One call takes a step. *)

\* A step of one call keeps the invariant if what it leaves of that call is in order.
LEMMA Local ==
  ASSUME Inv, NEW t \in Calls, call[t].pc # "idle", open' = open, dead' = dead,
         call' = [call EXCEPT ![t] = call'[t]], call'[t] \in CallRecords,
         sub' = [sub EXCEPT ![t] = sub'[t]],
         sub'[t] \in {"none", "asked", "up", "failed", "leaving", "gone"},
         cleanup' = [cleanup EXCEPT ![t] = cleanup'[t]],
         cleanup'[t] \in {"none", "await", "undo", "left"},
         CallOK(call'[t]), SubOK(call'[t], sub'[t], cleanup'[t]), cleanup'[t] # "none" => open,
         (call'[t].pc = "over" /\ call'[t].out # "result" /\ t \notin dead)
            => Owned(call'[t], sub'[t], cleanup'[t])
  PROVE  Inv'
<1>1. Typed'
  BY DEF Inv, Typed
<1>2. \A u \in Calls \ {t} : call'[u] = call[u] /\ sub'[u] = sub[u] /\ cleanup'[u] = cleanup[u]
  BY DEF Inv, Typed
<1>3. CallsOK'
  <2> SUFFICES ASSUME NEW u \in Calls PROVE CallOK(call'[u])
    BY DEF CallsOK
  <2> QED
    BY <1>2 DEF Inv, CallsOK
<1>4. SubsOK'
  <2> SUFFICES ASSUME NEW u \in Calls PROVE SubOK(call'[u], sub'[u], cleanup'[u])
    BY DEF SubsOK
  <2> QED
    BY <1>2 DEF Inv, SubsOK
<1>5. ClosedIsDead'
  BY <1>2 DEF Inv, ClosedIsDead
<1>6. LeftoversAreOwned'
  <2> SUFFICES ASSUME NEW u \in Calls, call'[u].pc = "over", call'[u].out # "result", u \notin dead
               PROVE  Owned(call'[u], sub'[u], cleanup'[u])
    BY DEF LeftoversAreOwned, Owned, Ended
  <2>1. CASE u = t
    BY <1>2, <2>1
  <2>2. CASE u # t
    BY <1>2, <2>2 DEF Inv, LeftoversAreOwned, Owned, Ended
  <2> QED
    BY <2>1, <2>2
<1>7. Listed'
  BY <1>2 DEF Inv, Listed
<1> QED
  BY <1>1, <1>3, <1>4, <1>5, <1>6, <1>7 DEF Inv

\* What the invariant says of one call.
LEMMA Here ==
  ASSUME Inv, NEW t \in Calls
  PROVE  /\ call[t] \in CallRecords /\ CallOK(call[t]) /\ SubOK(call[t], sub[t], cleanup[t])
         /\ sub[t] \in {"none", "asked", "up", "failed", "leaving", "gone"}
         /\ cleanup[t] \in {"none", "await", "undo", "left"}
         /\ cleanup[t] # "none" => open
         /\ call = [call EXCEPT ![t] = call[t]] /\ sub = [sub EXCEPT ![t] = sub[t]]
         /\ cleanup = [cleanup EXCEPT ![t] = cleanup[t]]
         /\ call[t].pc = "over" /\ call[t].out # "result" /\ t \notin dead
               => Owned(call[t], sub[t], cleanup[t])
         /\ ~open /\ call[t].pc # "idle" => t \in dead
  BY DEF Inv, Typed, CallsOK, SubsOK, LeftoversAreOwned, Listed, ClosedIsDead, Ended, Owned

\* A call that ends without a subscription of its own.
LEMMA Ends ==
  ASSUME Inv, NEW t \in Calls, call[t].pc \in Waits, NEW e \in Outcomes,
         sub[t] \in {"none", "failed", "leaving", "gone"} \/ e = "result"
            \/ call[t].asked >= IF call[t].rang THEN 1 ELSE 2,
         call' = [call EXCEPT ![t] = Over(@, e)], UNCHANGED <<sub, cleanup, open, dead>>,
         e # "none",
         e = "CancelledError" => call[t].asked > 0,
         e = "FlushTimeoutError" => call[t].rang,
         e = "result" => call[t].asked = 0 /\ ~call[t].rang
  PROVE  Inv'
<1> DEFINE c == Over(call[t], e)
<1>1. /\ c \in CallRecords /\ c.pc = "over" /\ c.out = e
      /\ c.req = call[t].entry + call[t].asked
      /\ c.entry = call[t].entry /\ c.asked = call[t].asked /\ c.rang = call[t].rang
  BY Here, OverIs DEF CallOK
<1>2. call' = [call EXCEPT ![t] = c]
  OBVIOUS
<1> HIDE DEF c
<1>3. CallOK(c)
  BY <1>1 DEF CallOK, Told, Waits, InCommand, Commanding, CleaningUp
<1>4. SubOK(c, sub[t], cleanup[t])
  BY <1>1, Here DEF SubOK, Waits, InCommand
<1>5. c.pc = "over" /\ c.out # "result" => Owned(c, sub[t], cleanup[t])
  BY <1>1 DEF Owned
<1>6. call[t].pc # "idle"
  BY DEF Waits, InCommand
<1>7. /\ call'[t] = c /\ call' = [call EXCEPT ![t] = call'[t]]
      /\ sub'[t] = sub[t] /\ sub' = [sub EXCEPT ![t] = sub'[t]]
      /\ cleanup'[t] = cleanup[t] /\ cleanup' = [cleanup EXCEPT ![t] = cleanup'[t]]
  BY <1>2, Here DEF Inv, Typed
<1>8. /\ sub[t] \in {"none", "asked", "up", "failed", "leaving", "gone"}
      /\ cleanup[t] \in {"none", "await", "undo", "left"}
      /\ cleanup[t] # "none" => open
  BY Here
<1> QED
  BY ZenonT(40), <1>1, <1>3, <1>4, <1>5, <1>6, <1>7, <1>8, Local

\* A call that takes its subscription back down before it raises e.
LEMMA Undoes ==
  ASSUME Inv, NEW t \in Calls, call[t].pc \in Waits, NEW e \in Outcomes,
         call' = [call EXCEPT ![t] = [Entered(@, "undo") EXCEPT !.out = e]],
         sub' = [sub EXCEPT ![t] = "leaving"], UNCHANGED <<cleanup, open, dead>>,
         e \notin {"none", "result"},
         e = "CancelledError" => call[t].asked > 0,
         e = "FlushTimeoutError" => call[t].rang
  PROVE  Inv'
<1> DEFINE d == Entered(call[t], "undo")
           c == [d EXCEPT !.out = e]
<1>1. /\ d \in CallRecords /\ d.pc = "undo" /\ ~d.hit /\ ~d.due
      /\ d.req = call[t].entry + call[t].asked /\ d.base = call[t].entry + call[t].asked
      /\ d.entry = call[t].entry /\ d.asked = call[t].asked /\ d.rang = call[t].rang
  BY Here, EnteredIs DEF CallOK, Waits
<1>2. call' = [call EXCEPT ![t] = c]
  OBVIOUS
<1> HIDE DEF d
<1>3. /\ c \in CallRecords /\ c.pc = "undo" /\ ~c.hit /\ ~c.due /\ c.out = e
      /\ c.req = call[t].entry + call[t].asked /\ c.base = call[t].entry + call[t].asked
      /\ c.entry = call[t].entry /\ c.asked = call[t].asked /\ c.rang = call[t].rang
  BY <1>1 DEF CallRecords
<1>4. call[t].entry \in Nat /\ call[t].asked \in Nat
  BY Here, CommandsConstants DEF CallRecords
<1> HIDE DEF c
<1>5. CallOK(c)
  BY <1>3, <1>4 DEF CallOK, Told, Counted, Commanding, CleaningUp, InCommand
<1>6. SubOK(c, "leaving", cleanup[t])
  BY <1>3, Here DEF SubOK, Waits, InCommand
<1>7. call[t].pc # "idle"
  BY DEF Waits, InCommand
<1>8. /\ call'[t] = c /\ call' = [call EXCEPT ![t] = call'[t]]
      /\ sub'[t] = "leaving" /\ sub' = [sub EXCEPT ![t] = sub'[t]]
      /\ cleanup'[t] = cleanup[t] /\ cleanup' = [cleanup EXCEPT ![t] = cleanup'[t]]
  BY <1>2, Here DEF Inv, Typed
<1>9. /\ cleanup[t] \in {"none", "await", "undo", "left"}
      /\ cleanup[t] # "none" => open
  BY Here
<1>10. Owned(c, "leaving", cleanup[t])
  BY DEF Owned
<1> QED
  BY ZenonT(40), <1>3, <1>5, <1>6, <1>7, <1>8, <1>9, <1>10, Local

\* A command of a call that fails with e.
LEMMA FailsKeeps ==
  ASSUME Inv, NEW t \in Calls, call[t].pc \in InCommand, NEW e \in Outcomes, Fails(t, e),
         e \notin {"none", "result"},
         e = "CancelledError" => call[t].asked > 0,
         e = "FlushTimeoutError" => call[t].rang
  PROVE  Inv'
<1>1. call[t].pc \in Waits
  BY DEF Waits
<1>2. CASE call[t].pc = "publish"
  <2>1. sub[t] = "none"
    BY <1>2, Here DEF SubOK
  <2>2. call' = [call EXCEPT ![t] = Over(@, e)] /\ UNCHANGED <<sub, cleanup, open, dead>>
    BY <1>2 DEF Fails
  <2> QED
    BY <1>1, <2>1, <2>2, Ends
<1>3. CASE call[t].pc # "publish"
  <2>1. /\ call' = [call EXCEPT ![t] = [Entered(@, "undo") EXCEPT !.out = e]]
        /\ sub' = [sub EXCEPT ![t] = "leaving"] /\ UNCHANGED <<cleanup, open, dead>>
    BY <1>3 DEF Fails
  <2> QED
    BY <1>1, <2>1, Undoes
<1> QED
  BY <1>2, <1>3

\* A command of a call that returns: the guard sees every request that was made.
LEMMA KeepingKeeps ==
  ASSUME Inv, NEW t \in Calls, call[t].pc \in InCommand, KeepingCancellation(t)
  PROVE  Inv'
<1>1. /\ call[t] \in CallRecords /\ Counted(call[t]) /\ Undisturbed(call[t])
      /\ call[t].pc \in Waits
  BY Here DEF CallOK, Waits, Commanding
<1>2. CASE call[t].req > call[t].base
  BY <1>1, <1>2, InterruptedTells, FailsKeeps DEF KeepingCancellation
<1>3. CASE ~(call[t].req > call[t].base)
  <2>1. call[t].asked = 0 /\ ~call[t].rang
    BY <1>1, <1>3, CommandsConstants DEF Counted, Undisturbed, CallRecords
  <2>2. call' = [call EXCEPT ![t] = Over(@, "result")] /\ UNCHANGED <<sub, cleanup, open, dead>>
    BY <1>3 DEF KeepingCancellation, KeepingNothing
  <2> QED
    BY <1>1, <2>1, <2>2, Ends DEF Outcomes
<1> QED
  BY <1>2, <1>3

LEMMA InterruptKeeps ==
  ASSUME Inv, NEW t \in Calls, Interrupt(t)
  PROVE  Inv'
<1>1. /\ call[t] \in CallRecords /\ Counted(call[t]) /\ Undisturbed(call[t])
      /\ call[t].req > call[t].base
  BY Here DEF CallOK, Waits, Commanding, Interrupt, Counted
<1> QED
  BY <1>1, InterruptedTells, FailsKeeps DEF Interrupt

LEMMA ReturnedKeeps ==
  ASSUME Inv, NEW t \in Calls, Returned(t)
  PROVE  Inv'
  BY KeepingKeeps DEF Returned

LEMMA ErrsKeeps ==
  ASSUME Inv, NEW t \in Calls, Errs(t)
  PROVE  Inv'
  BY FailsKeeps DEF Errs, Outcomes

\* nats-py's own timeout is the deadline's only when that has passed too.
LEMMA TimesOutKeeps ==
  ASSUME Inv, NEW t \in Calls, TimesOut(t)
  PROVE  Inv'
<1>1. Undisturbed(call[t]) /\ call[t].pc \in InCommand
  BY Here DEF CallOK, TimesOut, Commanding, InCommand
<1>2. call[t].due => call[t].rang
  BY <1>1 DEF Undisturbed
<1>3. CASE call[t].due
  BY <1>1, <1>2, <1>3, FailsKeeps DEF TimesOut, Outcomes
<1>4. CASE ~call[t].due
  BY <1>1, <1>4, FailsKeeps DEF TimesOut, Outcomes
<1> QED
  BY <1>3, <1>4

\* A call that goes on to another wait, or only changes how it waits, and leaves nothing behind.
LEMMA GoesOn ==
  ASSUME Inv, NEW t \in Calls, call[t].pc # "idle", UNCHANGED <<cleanup, open, dead>>,
         call' = [call EXCEPT ![t] = call'[t]], call'[t] \in CallRecords, CallOK(call'[t]),
         call'[t].pc \in Waits, call[t].pc \in Waits,
         sub' = [sub EXCEPT ![t] = sub'[t]],
         sub'[t] \in {"none", "asked", "up", "failed", "leaving", "gone"},
         call'[t].pc \in {"flush", "pong"} => sub'[t] = "up",
         call'[t].pc = "undo" => sub'[t] \in {"leaving", "gone"},
         call'[t].pc = "publish" => sub'[t] = "none"
  PROVE  Inv'
<1>1. cleanup[t] = "none"
  BY Here DEF SubOK, Waits, InCommand
<1>2. cleanup'[t] = cleanup[t] /\ cleanup' = [cleanup EXCEPT ![t] = cleanup'[t]]
  BY Here DEF Inv, Typed
<1>3. SubOK(call'[t], sub'[t], cleanup'[t])
  BY <1>1, <1>2 DEF SubOK, Waits, InCommand
<1>4. call'[t].pc # "over"
  BY DEF Waits, InCommand
<1> QED
  BY <1>1, <1>2, <1>3, <1>4, Local

LEMMA TimerKeeps ==
  ASSUME Inv, NEW t \in Calls, Timer(t)
  PROVE  Inv'
<1> DEFINE o == call[t]
           n == o.req + 1
           r == o.rang \/ o.pc \notin {"grace", "undo"}
           c == [o EXCEPT !.due = TRUE, !.hit = TRUE, !.req = n, !.rang = r]
<1>1. /\ o \in CallRecords /\ CallOK(o) /\ SubOK(o, sub[t], cleanup[t])
      /\ sub[t] \in {"none", "asked", "up", "failed", "leaving", "gone"}
  BY Here
<1>2. call' = [call EXCEPT ![t] = c] /\ ~o.due /\ o.pc \in Timed /\ UNCHANGED <<sub, cleanup, open, dead>>
  BY DEF Timer
<1>3. o.pc \in Waits /\ o.pc # "idle"
  BY <1>2 DEF Timed, Waits, InCommand
<1>a. n \in Nat
  BY <1>1 DEF CallRecords
<1>b. r \in BOOLEAN
  OBVIOUS
<1>c. /\ n = o.req + 1
      /\ o.pc \in {"grace", "undo"} => (r <=> o.rang)
      /\ o.pc \notin {"grace", "undo"} => r
  OBVIOUS
<1> HIDE DEF o, n, r
<1>d. c \in CallRecords
  BY <1>1, <1>a, <1>b DEF CallRecords
<1>e. /\ c.pc = o.pc /\ c.entry = o.entry /\ c.asked = o.asked /\ c.req = n
      /\ c.base = o.base /\ c.due = TRUE /\ c.hit = TRUE /\ c.out = o.out /\ c.rang = r
  BY <1>1 DEF CallRecords
<1>4. /\ c \in CallRecords /\ c.pc = o.pc /\ c.entry = o.entry /\ c.asked = o.asked
      /\ c.req = o.req + 1 /\ c.base = o.base /\ c.due /\ c.hit /\ c.out = o.out
      /\ o.pc \in {"grace", "undo"} => (c.rang <=> o.rang)
      /\ o.pc \notin {"grace", "undo"} => c.rang
  BY <1>c, <1>d, <1>e
<1> HIDE DEF c
<1>5. /\ o.entry \in Nat /\ o.asked \in Nat /\ o.base \in Nat /\ o.req \in Nat
  BY <1>1, CommandsConstants DEF CallRecords
<1>6. Counted(c)
  BY <1>1, <1>2, <1>3, <1>4, <1>5 DEF CallOK, Counted
<1>7. CallOK(c)
  BY <1>1, <1>3, <1>4, <1>6 DEF CallOK, Undisturbed, Told, Commanding, CleaningUp, Waits, InCommand
<1>8. call'[t] = c /\ call' = [call EXCEPT ![t] = call'[t]] /\ sub' = [sub EXCEPT ![t] = sub'[t]]
  BY <1>2 DEF Inv, Typed
<1> QED
  BY <1>1, <1>2, <1>3, <1>4, <1>7, <1>8, GoesOn DEF SubOK, o

LEMMA CancelKeeps ==
  ASSUME Inv, NEW t \in Calls, Cancel(t)
  PROVE  Inv'
<1> DEFINE o == call[t]
           n == o.req + 1
           k == o.asked + 1
           c == [o EXCEPT !.hit = TRUE, !.req = n, !.asked = k]
<1>1. /\ o \in CallRecords /\ CallOK(o) /\ SubOK(o, sub[t], cleanup[t])
      /\ sub[t] \in {"none", "asked", "up", "failed", "leaving", "gone"}
  BY Here
<1>2. /\ call' = [call EXCEPT ![t] = c] /\ o.pc \in Waits /\ o.asked < MaxAsked
      /\ UNCHANGED <<sub, cleanup, open, dead>>
  BY DEF Cancel
<1>3. o.pc # "idle"
  BY <1>2 DEF Waits, InCommand
<1>a. n \in Nat /\ k \in 0..MaxAsked /\ n = o.req + 1 /\ k = o.asked + 1
  BY <1>1, <1>2, CommandsConstants DEF CallRecords
<1> HIDE DEF o, n, k
<1>4. /\ c \in CallRecords /\ c.pc = o.pc /\ c.entry = o.entry /\ c.asked = o.asked + 1
      /\ c.req = o.req + 1 /\ c.base = o.base /\ c.due = o.due /\ c.hit /\ c.out = o.out
      /\ c.rang = o.rang
  BY <1>1, <1>a DEF CallRecords
<1> HIDE DEF c
<1>5. /\ o.entry \in Nat /\ o.asked \in Nat /\ o.base \in Nat /\ o.req \in Nat
  BY <1>1, CommandsConstants DEF CallRecords
<1>6. Counted(c)
  BY <1>1, <1>2, <1>4, <1>5 DEF CallOK, Counted
<1>7. CallOK(c)
  BY <1>1, <1>2, <1>4, <1>5, <1>6 DEF CallOK, Undisturbed, Told, Commanding, CleaningUp, Waits, InCommand
<1>8. call'[t] = c /\ call' = [call EXCEPT ![t] = call'[t]] /\ sub' = [sub EXCEPT ![t] = sub'[t]]
  BY <1>2 DEF Inv, Typed
<1> QED
  BY <1>1, <1>2, <1>3, <1>4, <1>7, <1>8, GoesOn DEF SubOK, o

\* A call that enters another wait with the same error to raise, if any.
LEMMA Enters ==
  ASSUME Inv, NEW t \in Calls, call[t].pc \in Waits, NEW pc \in {"flush", "undo"},
         call' = [call EXCEPT ![t] = Entered(@, pc)], UNCHANGED <<cleanup, open, dead>>,
         sub' = [sub EXCEPT ![t] = sub'[t]],
         sub'[t] \in IF pc = "flush" THEN {"up"} ELSE {"leaving", "gone"},
         pc = "flush" => call[t].asked = 0 /\ ~call[t].rang,
         pc = "undo" => Told(call[t]) /\ call[t].out # "result"
  PROVE  Inv'
<1> DEFINE c == Entered(call[t], pc)
<1>1. /\ c \in CallRecords /\ c.pc = pc /\ ~c.hit /\ ~c.due
      /\ c.req = call[t].entry + call[t].asked /\ c.base = call[t].entry + call[t].asked
      /\ c.entry = call[t].entry /\ c.asked = call[t].asked /\ c.rang = call[t].rang
      /\ c.out = call[t].out
  BY Here, EnteredIs DEF CallOK, Waits, InCommand
<1>2. call[t].entry \in Nat /\ call[t].asked \in Nat
  BY Here, CommandsConstants DEF CallRecords
<1>3. call' = [call EXCEPT ![t] = c]
  OBVIOUS
<1> HIDE DEF c
<1>4. Counted(c)
  BY <1>1, <1>2 DEF Counted
<1>5. pc = "flush" => Undisturbed(c)
  BY <1>1, <1>2 DEF Undisturbed
<1>6. CallOK(c)
  BY <1>1, <1>4, <1>5 DEF CallOK, Told, Commanding, CleaningUp, Waits, InCommand
<1>7. call'[t] = c /\ call' = [call EXCEPT ![t] = call'[t]]
  BY <1>3 DEF Inv, Typed
<1>8. call[t].pc # "idle" /\ c.pc \in Waits
  BY <1>1 DEF Waits, InCommand
<1> QED
  BY <1>1, <1>6, <1>7, <1>8, GoesOn

LEMMA SubscribedKeeps ==
  ASSUME Inv, NEW t \in Calls, Subscribed(t)
  PROVE  Inv'
<1>1. call[t].asked = 0 /\ ~call[t].rang /\ call[t].pc \in Waits
  BY Here DEF Subscribed, CallOK, Undisturbed, Commanding, Waits
<1>2. sub'[t] = "up" /\ sub' = [sub EXCEPT ![t] = sub'[t]]
  BY Here DEF Subscribed
<1> QED
  BY <1>1, <1>2, Enters DEF Subscribed

LEMMA SubscribeEndsKeeps ==
  ASSUME Inv, NEW t \in Calls, SubscribeEnds(t)
  PROVE  Inv'
<1> DEFINE o == call[t]
           e == IF o.hit THEN Interrupted(o) ELSE "error"
<1>1. /\ o \in CallRecords /\ Counted(o) /\ Undisturbed(o) /\ o.pc = "subscribe" /\ o.pc \in Waits
  BY Here DEF SubscribeEnds, CallOK, Commanding, Waits
<1>2. /\ e \in Outcomes /\ e \notin {"none", "result"}
      /\ e = "CancelledError" => o.asked > 0
      /\ e = "FlushTimeoutError" => o.rang
  <2>1. CASE o.hit
    <3>1. o.req > o.base
      BY <1>1, <2>1 DEF Counted
    <3> QED
      BY <1>1, <2>1, <3>1, InterruptedTells
  <2>2. CASE ~o.hit
    BY <2>2 DEF Outcomes
  <2> QED
    BY <2>1, <2>2
<1>3. CASE /\ sub[t] = "asked"
           /\ call' = [call EXCEPT ![t] = [Entered(@, "grace") EXCEPT !.out = e]]
           /\ UNCHANGED <<sub, cleanup, open, dead>>
  <2> DEFINE d == Entered(o, "grace")
             c == [d EXCEPT !.out = e]
  <2>1. /\ d \in CallRecords /\ d.pc = "grace" /\ ~d.hit /\ ~d.due
        /\ d.req = o.entry + o.asked /\ d.base = o.entry + o.asked
        /\ d.entry = o.entry /\ d.asked = o.asked /\ d.rang = o.rang
    BY <1>1, EnteredIs DEF Waits
  <2>2. call' = [call EXCEPT ![t] = c]
    BY <1>3
  <2>3. o.entry \in Nat /\ o.asked \in Nat
    BY <1>1, CommandsConstants DEF CallRecords
  <2>4. o.rang \/ o.asked >= 1
    <3>1. o.req > o.base
      BY <1>1, <1>3 DEF SubscribeEnds, Counted
    <3> QED
      BY <1>1, <2>3, <3>1 DEF Counted, Undisturbed
  <2> HIDE DEF d, e, o
  <2>5. /\ c \in CallRecords /\ c.pc = "grace" /\ ~c.hit /\ ~c.due /\ c.out = e
        /\ c.req = o.entry + o.asked /\ c.base = o.entry + o.asked
        /\ c.entry = o.entry /\ c.asked = o.asked /\ c.rang = o.rang
    BY <1>2, <2>1 DEF CallRecords
  <2> HIDE DEF c
  <2>6. Counted(c)
    BY <2>3, <2>5 DEF Counted
  <2>7. c.base >= c.entry + (IF c.rang THEN 0 ELSE 1)
    BY <2>3, <2>4, <2>5
  <2>8. CallOK(c)
    BY <1>2, <2>5, <2>6, <2>7 DEF CallOK, Told, Commanding, CleaningUp, InCommand
  <2>9. call'[t] = c /\ call' = [call EXCEPT ![t] = call'[t]]
    BY <2>2 DEF Inv, Typed
  <2>10. sub'[t] = "asked" /\ sub' = [sub EXCEPT ![t] = sub'[t]]
    BY <1>3, Here
  <2>11. c.pc \in Waits /\ call[t].pc \in Waits /\ call[t].pc # "idle"
    BY <1>1, <2>5 DEF Waits, o
  <2> QED
    BY <1>3, <2>5, <2>8, <2>9, <2>10, <2>11, GoesOn
<1>4. CASE /\ sub[t] = "up"
           /\ call' = [call EXCEPT ![t] = [Entered(@, "undo") EXCEPT !.out = e]]
           /\ sub' = [sub EXCEPT ![t] = "leaving"]
           /\ UNCHANGED <<cleanup, open, dead>>
  BY <1>1, <1>2, <1>4, Undoes
<1>5. CASE /\ sub[t] = "failed"
           /\ call' = [call EXCEPT ![t] = Over(@, e)]
           /\ UNCHANGED <<sub, cleanup, open, dead>>
  BY <1>1, <1>2, <1>5, Ends
<1> QED
  BY <1>3, <1>4, <1>5 DEF SubscribeEnds

LEMMA GraceEnoughKeeps ==
  ASSUME Inv, NEW t \in Calls, GraceEnough(t)
  PROVE  Inv'
<1>1. Told(call[t]) /\ call[t].out # "result" /\ call[t].pc \in Waits /\ call[t].out \in Outcomes
  BY Here DEF GraceEnough, CallOK, CleaningUp, Waits, CallRecords
<1>2. CASE sub[t] = "up"
  <2>1. sub'[t] = "leaving" /\ sub' = [sub EXCEPT ![t] = sub'[t]]
    BY <1>2 DEF GraceEnough, Inv, Typed
  <2> QED
    BY <1>1, <1>2, <2>1, Enters DEF GraceEnough
<1>3. CASE sub[t] # "up"
  <2>1. sub[t] \in {"none", "failed", "leaving", "gone"}
    BY <1>3, Here DEF GraceEnough
  <2>2. call' = [call EXCEPT ![t] = Over(@, call[t].out)] /\ UNCHANGED <<sub, cleanup, open, dead>>
    BY <1>3 DEF GraceEnough
  <2> QED
    BY <1>1, <2>1, <2>2, Ends DEF Told
<1> QED
  BY <1>2, <1>3

LEMMA UndoneKeeps ==
  ASSUME Inv, NEW t \in Calls, Undone(t)
  PROVE  Inv'
<1>1. Told(call[t]) /\ call[t].out # "result" /\ call[t].pc \in Waits /\ call[t].out \in Outcomes
  BY Here DEF Undone, CallOK, CleaningUp, Waits, CallRecords
<1> QED
  BY <1>1, Ends DEF Undone, Told

\* A second cancellation may leave a subscription: then two have interrupted the call.
LEMMA CancelledAgainKeeps ==
  ASSUME Inv, NEW t \in Calls, CancelledAgain(t)
  PROVE  Inv'
<1> DEFINE o == call[t]
<1>1. /\ o \in CallRecords /\ Counted(o) /\ o.pc \in Waits
      /\ o.pc = "grace" => o.base >= o.entry + (IF o.rang THEN 0 ELSE 1)
  BY Here DEF CancelledAgain, CallOK, Waits
<1>2. o.hit /\ ~Expired(o)
  BY DEF CancelledAgain
<1>3. o.entry \in Nat /\ o.asked \in Nat /\ o.base \in Nat /\ o.req \in Nat
  BY <1>1, CommandsConstants DEF CallRecords
<1>4. o.entry + o.asked > o.base
  BY <1>1, <1>2, <1>3 DEF Counted, Expired
<1>5. o.asked > 0
  BY <1>1, <1>3, <1>4 DEF Counted
<1>6. sub[t] \in {"none", "failed", "leaving", "gone"} \/ o.asked >= IF o.rang THEN 1 ELSE 2
  <2>1. CASE o.pc = "undo"
    BY <2>1, Here DEF SubOK
  <2>2. CASE o.pc = "grace"
    BY <2>2, <1>1, <1>3, <1>4
  <2> QED
    BY <2>1, <2>2 DEF CancelledAgain
<1> QED
  BY <1>1, <1>5, <1>6, Ends DEF CancelledAgain, Outcomes

LEMMA GraceOverKeeps ==
  ASSUME Inv, NEW t \in Calls, GraceOver(t)
  PROVE  Inv'
<1> DEFINE o == call[t]
           c == Over(o, o.out)
           w == IF o.pc = "grace" THEN "await" ELSE "left"
<1>1. /\ o \in CallRecords /\ Counted(o) /\ Told(o) /\ o.out # "result" /\ o.out \in Outcomes
      /\ o.pc \in {"grace", "undo"}
  BY Here DEF GraceOver, CallOK, CleaningUp, Waits, CallRecords
<1>2. /\ c \in CallRecords /\ c.pc = "over" /\ c.out = o.out
      /\ c.req = o.entry + o.asked /\ c.entry = o.entry /\ c.asked = o.asked /\ c.rang = o.rang
  BY <1>1, OverIs
<1>3. call' = [call EXCEPT ![t] = c] /\ Handed(t, w) /\ open' = open /\ dead' = dead
  <2>1. call' = [call EXCEPT ![t] = c] /\ Handed(t, w) /\ dead' = dead
    BY DEF GraceOver
  <2> QED
    BY <2>1 DEF Handed
<1> HIDE DEF c
<1>4. CallOK(c)
  BY <1>1, <1>2 DEF CallOK, Told, Waits, InCommand, Commanding, CleaningUp
<1>5. o.pc # "idle" /\ cleanup[t] = "none" /\ (o.pc = "undo" => sub[t] \in {"leaving", "gone"})
  BY <1>1, Here DEF SubOK
<1>6. call'[t] = c /\ call' = [call EXCEPT ![t] = call'[t]]
  BY <1>3 DEF Inv, Typed
<1>7. CASE open
  <2>1. cleanup'[t] = w /\ cleanup' = [cleanup EXCEPT ![t] = cleanup'[t]]
    BY <1>3, <1>7 DEF Handed, Inv, Typed
  <2>2. sub'[t] = sub[t] /\ sub' = [sub EXCEPT ![t] = sub'[t]]
    BY <1>3, <1>7, Here DEF Handed
  <2>3. SubOK(c, sub[t], w)
    BY <1>1, <1>2, <1>5 DEF SubOK
  <2>4. Owned(c, sub[t], w)
    BY <1>1, <1>5 DEF Owned
  <2> QED
    BY <1>2, <1>3, <1>4, <1>5, <1>6, <1>7, <2>1, <2>2, <2>3, <2>4, Here, Local
<1>8. CASE ~open
  <2>1. cleanup'[t] = "none" /\ cleanup' = [cleanup EXCEPT ![t] = cleanup'[t]]
    BY <1>3, <1>5, <1>8, Here DEF Handed
  <2>2. /\ sub'[t] \in {"none", "asked", "up", "failed", "leaving", "gone"}
        /\ sub' = [sub EXCEPT ![t] = sub'[t]]
    BY <1>3, <1>8, Here DEF Handed, Inv, Typed
  <2>3. SubOK(c, sub'[t], "none")
    BY <1>2 DEF SubOK
  <2>4. t \in dead
    BY <1>5, <1>8, Here
  <2> QED
    BY <1>2, <1>3, <1>4, <1>5, <1>6, <1>8, <2>1, <2>2, <2>3, <2>4, Local
<1> QED
  BY <1>7, <1>8

\* A flush whose cancellation is swallowed waits on; a publish returns.
LEMMA SwallowedKeeps ==
  ASSUME Inv, NEW t \in Calls, Swallowed(t)
  PROVE  Inv'
<1>1. CASE call[t].pc = "publish"
  BY <1>1, KeepingKeeps DEF Swallowed, InCommand
<1>2. CASE call[t].pc # "publish"
  <2> DEFINE o == call[t]
             c == [o EXCEPT !.pc = "pong", !.hit = FALSE]
  <2>1. /\ o \in CallRecords /\ o.pc = "flush" /\ Counted(o) /\ Undisturbed(o) /\ sub[t] = "up"
    BY <1>2, Here DEF Swallowed, CallOK, SubOK, Commanding, InCommand, Waits
  <2>2. call' = [call EXCEPT ![t] = c] /\ UNCHANGED <<sub, cleanup, open, dead>>
    BY <1>2 DEF Swallowed
  <2> HIDE DEF o
  <2>3. /\ c \in CallRecords /\ c.pc = "pong" /\ ~c.hit /\ c.due = o.due /\ c.req = o.req
        /\ c.base = o.base /\ c.entry = o.entry /\ c.asked = o.asked /\ c.rang = o.rang
    BY <2>1 DEF CallRecords, Waits, InCommand
  <2> HIDE DEF c
  <2>4. CallOK(c)
    BY <2>1, <2>3 DEF CallOK, Counted, Undisturbed, Commanding, CleaningUp, InCommand
  <2>5. call'[t] = c /\ call' = [call EXCEPT ![t] = call'[t]]
    BY <2>2 DEF Inv, Typed
  <2>6. sub'[t] = "up" /\ sub' = [sub EXCEPT ![t] = sub'[t]]
    BY <2>1, <2>2, Here
  <2>7. c.pc \in Waits /\ call[t].pc \in Waits /\ call[t].pc # "idle"
    BY <2>1, <2>3 DEF Waits, InCommand, o
  <2> QED
    BY <2>2, <2>3, <2>4, <2>5, <2>6, <2>7, GoesOn
<1> QED
  BY <1>1, <1>2

-----------------------------------------------------------------------------
(* What runs beside the calls. *)

\* The subscriptions of calls that are over, and the clean-ups, move on.
LEMMA BackgroundKeeps ==
  ASSUME Inv, NEW t \in Calls, Background(t)
  PROVE  Inv'
<1>1. call' = call /\ open' = open /\ dead' = dead
  BY DEF Background, ComesUp, NeverComesUp, Unsubscribed, TakeDown, CleanupGrace, Handed, CleanupDone
<1>2. call' = [call EXCEPT ![t] = call'[t]] /\ call'[t] = call[t]
  BY <1>1, Here
<1>3. /\ sub' = [sub EXCEPT ![t] = sub'[t]]
      /\ sub'[t] \in {"none", "asked", "up", "failed", "leaving", "gone"}
      /\ cleanup' = [cleanup EXCEPT ![t] = cleanup'[t]]
      /\ cleanup'[t] \in {"none", "await", "undo", "left"}
      /\ cleanup'[t] # "none" => cleanup[t] # "none"
      /\ SubOK(call[t], sub'[t], cleanup'[t])
      /\ Owned(call[t], sub[t], cleanup[t]) => Owned(call[t], sub'[t], cleanup'[t])
  <2> USE Here DEF Inv, Typed
  <2>1. CASE ComesUp(t)
    BY <2>1 DEF ComesUp, SubOK, Owned
  <2>2. CASE NeverComesUp(t)
    BY <2>2 DEF NeverComesUp, SubOK, Owned
  <2>3. CASE Unsubscribed(t)
    BY <2>3 DEF Unsubscribed, SubOK, Owned
  <2>4. CASE TakeDown(t)
    BY <2>4 DEF TakeDown, SubOK, Owned
  <2>5. CASE CleanupGrace(t)
    BY <2>5 DEF CleanupGrace, Handed, SubOK, Owned
  <2>6. CASE CleanupDone(t)
    BY <2>6 DEF CleanupDone, SubOK, Owned
  <2> QED
    BY <2>1, <2>2, <2>3, <2>4, <2>5, <2>6 DEF Background
<1>4. call[t].pc # "idle"
  BY Here DEF Background, ComesUp, NeverComesUp, Unsubscribed, TakeDown, CleanupGrace, CleanupDone, SubOK
<1> QED
  BY <1>1, <1>2, <1>3, <1>4, Here, Local

\* close() and whoever makes a new state touch no call.
LEMMA StateKeeps ==
  ASSUME Inv, State
  PROVE  Inv'
  BY DEF Inv, State, Typed, CallsOK, SubsOK, ClosedIsDead, LeftoversAreOwned, Listed, Ended

LEMMA CloseKeeps ==
  ASSUME Inv, Close
  PROVE  Inv'
<1>1. call' = call /\ open' = FALSE /\ dead' = dead \cup {t \in Calls : call[t].pc # "idle"}
  BY DEF Close
<1>2. \A t \in Calls :
         /\ cleanup'[t] = "none"
         /\ sub'[t] \in {"none", "asked", "up", "failed", "leaving", "gone"}
         /\ SubOK(call[t], sub'[t], "none")
  <2> SUFFICES ASSUME NEW t \in Calls
               PROVE  /\ cleanup'[t] = "none"
                      /\ sub'[t] \in {"none", "asked", "up", "failed", "leaving", "gone"}
                      /\ SubOK(call[t], sub'[t], "none")
    OBVIOUS
  <2>1. /\ cleanup'[t] = "none"
        /\ sub'[t] = IF cleanup[t] = "await" /\ sub[t] = "asked" THEN "failed"
                     ELSE IF cleanup[t] = "left" THEN "gone" ELSE sub[t]
    BY DEF Close
  <2> QED
    BY <2>1, Here DEF SubOK
<1>3. Typed'
  <2>1. cleanup' \in [Calls -> {"none", "await", "undo", "left"}]
    BY DEF Close
  <2>2. sub' \in [Calls -> {"none", "asked", "up", "failed", "leaving", "gone"}]
    BY <1>2 DEF Close
  <2> QED
    BY <1>1, <2>1, <2>2 DEF Inv, Typed
<1>4. CallsOK'
  BY <1>1 DEF Inv, CallsOK
<1>5. SubsOK'
  BY <1>1, <1>2 DEF SubsOK
<1>6. ClosedIsDead' /\ Listed'
  BY <1>1, <1>2 DEF ClosedIsDead, Listed
<1>7. LeftoversAreOwned'
  <2>1. \A t \in Calls : call[t].pc = "over" => t \in dead'
    BY <1>1
  <2> QED
    BY <1>1, <2>1 DEF LeftoversAreOwned, Ended
<1> QED
  BY <1>3, <1>4, <1>5, <1>6, <1>7 DEF Inv

\* A call begins with the requests of the task it runs in.
LEMMA CallKeeps ==
  ASSUME Inv, NEW t \in Calls, Call(t)
  PROVE  Inv'
<1> DEFINE begun(n, pc) == [Entered([NewCall EXCEPT !.req = n], pc) EXCEPT !.entry = n]
<1>1. PICK n \in 0..1 :
        \/ /\ call' = [call EXCEPT ![t] = begun(n, "publish")]
           /\ UNCHANGED sub
        \/ /\ call' = [call EXCEPT ![t] = begun(n, "subscribe")]
           /\ sub' = [sub EXCEPT ![t] = "asked"]
  BY DEF Call
<1>2. call[t].pc = "idle" /\ open' = TRUE /\ cleanup' = cleanup /\ dead' = dead
  BY DEF Call
<1>3. \A pc \in {"publish", "subscribe"} :
         /\ begun(n, pc) \in CallRecords /\ CallOK(begun(n, pc)) /\ begun(n, pc).pc = pc
  <2> SUFFICES ASSUME NEW pc \in {"publish", "subscribe"}
               PROVE  /\ begun(n, pc) \in CallRecords /\ CallOK(begun(n, pc)) /\ begun(n, pc).pc = pc
    OBVIOUS
  <2> DEFINE c == begun(n, pc)
  <2> DEFINE b == [NewCall EXCEPT !.req = n]
             x == Exited(b)
             d == Entered(b, pc)
  <2>1. /\ b \in CallRecords /\ b.req = n /\ b.due = FALSE /\ b.out = "none"
        /\ b.asked = 0 /\ b.rang = FALSE
    <3>1. /\ NewCall \in CallRecords /\ NewCall.due = FALSE /\ NewCall.out = "none"
          /\ NewCall.asked = 0 /\ NewCall.rang = FALSE
      BY CommandsConstants DEF NewCall, CallRecords, Waits, InCommand, Outcomes
    <3>2. n \in Nat
      OBVIOUS
    <3> QED
      BY <3>1, <3>2 DEF CallRecords
  <2> HIDE DEF b
  <2>2. /\ x \in CallRecords /\ x.req = n /\ x.due = FALSE /\ x.hit = FALSE
        /\ x.asked = 0 /\ x.rang = FALSE /\ x.out = "none"
    <3>1. x = [b EXCEPT !.req = n, !.due = FALSE, !.hit = FALSE]
      BY <2>1 DEF Exited
    <3> HIDE DEF x
    <3> QED
      BY <2>1, <3>1 DEF CallRecords
  <2>3. /\ d \in CallRecords /\ d.req = n /\ d.base = n /\ d.due = FALSE /\ d.hit = FALSE
        /\ d.asked = 0 /\ d.rang = FALSE /\ d.out = "none" /\ d.pc = pc
    <3>1. d = [x EXCEPT !.pc = pc, !.base = x.req]
      BY DEF Entered
    <3> HIDE DEF x, d
    <3> QED
      BY <2>2, <3>1 DEF CallRecords, Waits, InCommand
  <2>4. c = [d EXCEPT !.entry = n]
    BY DEF b
  <2> HIDE DEF c, d
  <2>5. /\ c \in CallRecords /\ c.req = n /\ c.base = n /\ c.entry = n /\ c.due = FALSE
        /\ c.hit = FALSE /\ c.asked = 0 /\ c.rang = FALSE /\ c.out = "none" /\ c.pc = pc
    BY <2>3, <2>4 DEF CallRecords
  <2>6. CallOK(c)
    BY <2>5 DEF CallOK, Counted, Undisturbed, Commanding, CleaningUp, Waits, InCommand
  <2> QED
    BY <2>5, <2>6 DEF c
<1> HIDE DEF begun
<1>4. call'[t] \in CallRecords /\ CallOK(call'[t]) /\ call'[t].pc \in {"publish", "subscribe"}
  BY <1>1, <1>3 DEF Inv, Typed
<1>5. \A u \in Calls \ {t} : call'[u] = call[u] /\ sub'[u] = sub[u]
  BY <1>1 DEF Inv, Typed
<1>6. sub[t] = "none" /\ cleanup[t] = "none"
  BY <1>2, Here DEF SubOK
<1>7. call'[t].pc = "publish" => sub'[t] = "none"
  BY <1>1, <1>3, <1>6 DEF Inv, Typed
<1>8. Typed'
  BY <1>1, <1>2, <1>3 DEF Inv, Typed
<1>9. CallsOK'
  <2> SUFFICES ASSUME NEW u \in Calls PROVE CallOK(call'[u])
    BY DEF CallsOK
  <2> QED
    BY <1>4, <1>5, Here
<1>10. SubsOK'
  <2> SUFFICES ASSUME NEW u \in Calls PROVE SubOK(call'[u], sub'[u], cleanup'[u])
    BY DEF SubsOK
  <2>1. CASE u = t
    BY <2>1, <1>2, <1>4, <1>6, <1>7 DEF SubOK
  <2>2. CASE u # t
    BY <2>2, <1>2, <1>5, Here
  <2> QED
    BY <2>1, <2>2
<1>11. ClosedIsDead' /\ Listed'
  BY <1>2 DEF ClosedIsDead, Listed
<1>12. LeftoversAreOwned'
  BY <1>2, <1>4, <1>5 DEF Inv, LeftoversAreOwned, Ended
<1> QED
  BY <1>8, <1>9, <1>10, <1>11, <1>12 DEF Inv

-----------------------------------------------------------------------------
LEMMA InitInv == Init => Inv
<1> SUFFICES ASSUME Init PROVE Inv
  OBVIOUS
<1>1. \A t \in Calls : call[t] = NewCall /\ sub[t] = "none" /\ cleanup[t] = "none"
  BY DEF Init
<1>2. NewCall \in CallRecords /\ CallOK(NewCall)
  BY CommandsConstants DEF NewCall, CallRecords, Waits, InCommand, Outcomes, CallOK, Commanding, CleaningUp
<1>3. Typed
  BY <1>2 DEF Init, Typed
<1>4. CallsOK /\ SubsOK /\ ClosedIsDead /\ LeftoversAreOwned /\ Listed
  BY <1>1, <1>2 DEF CallsOK, SubsOK, SubOK, ClosedIsDead, LeftoversAreOwned, Listed, Ended, NewCall
<1> QED
  BY <1>3, <1>4 DEF Inv

LEMMA NextKeeps == Inv /\ [Next]_vars => Inv'
<1> SUFFICES ASSUME Inv, [Next]_vars PROVE Inv'
  OBVIOUS
<1>1. ASSUME NEW t \in Calls, Turn(t) PROVE Inv'
  BY <1>1, SubscribedKeeps, SubscribeEndsKeeps, GraceEnoughKeeps, UndoneKeeps, GraceOverKeeps,
     CancelledAgainKeeps, InterruptKeeps, SwallowedKeeps DEF Turn
<1>2. ASSUME NEW t \in Calls, Command(t) PROVE Inv'
  BY <1>2, ReturnedKeeps, TimesOutKeeps, ErrsKeeps DEF Command
<1>3. CASE UNCHANGED vars
  BY <1>3 DEF vars, Inv, Typed, CallsOK, SubsOK, ClosedIsDead, LeftoversAreOwned, Listed, Ended
<1> QED
  BY <1>1, <1>2, <1>3, CallKeeps, TimerKeeps, CancelKeeps, BackgroundKeeps, CloseKeeps, StateKeeps DEF Next

LEMMA InvHolds == Spec => []Inv
  BY InitInv, NextKeeps, PTL DEF Spec

\* TypeOK: whatever is asked of a call in whatever order, no more requests are counted on its
\* task than were made, and the timers' own never add up.
THEOREM CommandsTyped == Spec => []TypeOK
<1>1. Inv => TypeOK
  <2> SUFFICES ASSUME Inv, NEW t \in Calls PROVE call[t].req <= 2 + call[t].asked
    BY DEF TypeOK, Inv, Typed
  <2>1. call[t] \in CallRecords /\ CallOK(call[t])
    BY Here
  <2>2. call[t].pc \in {"idle", "over"} \cup Waits /\ call[t].entry \in 0..1 /\ call[t].asked \in Nat
    BY <2>1, CommandsConstants DEF CallRecords
  <2>3. CASE call[t].pc \in Waits
    BY <2>1, <2>2, <2>3 DEF CallOK, Counted
  <2>4. CASE call[t].pc \in {"idle", "over"}
    BY <2>1, <2>2, <2>4 DEF CallOK
  <2> QED
    BY <2>2, <2>3, <2>4
<1> QED
  BY <1>1, InvHolds, PTL

\* OutcomeTellsWho: nobody is told that a call was done when it had been asked to end, and nobody
\* is told it was cancelled, or late, when it was not.
THEOREM OutcomesTell == Spec => []OutcomeTellsWho
<1>1. Inv => OutcomeTellsWho
  BY DEF Inv, CallsOK, CallOK, Told, OutcomeTellsWho, Ended
<1> QED
  BY <1>1, InvHolds, PTL

\* CountIsKept: a call leaves the count of cancellations of its task as its callers made it.
THEOREM CountsAreKept == Spec => []CountIsKept
<1>1. Inv => CountIsKept
  BY DEF Inv, CallsOK, CallOK, CountIsKept, Ended
<1> QED
  BY <1>1, InvHolds, PTL

\* LeftoversAreOwned: a failed call leaves no subscription on a live connection to nobody, short
\* of two interruptions.
THEOREM LeftoversHaveOwners == Spec => []LeftoversAreOwned
<1>1. Inv => LeftoversAreOwned
  BY DEF Inv
<1> QED
  BY <1>1, InvHolds, PTL

\* TidyingMakesNoState: a state comes from a call that begins or from somebody else, and not
\* from a call, or a task it left, whose connection close() has taken.
THEOREM TidyingReopensNothing == Spec => TidyingMakesNoState
<1>1. Inv /\ [Next]_vars =>
         [~open /\ open' => \A t \in Calls : call[t].pc # "idle" => UNCHANGED <<call[t], sub[t], cleanup[t]>>]_vars
  <2> SUFFICES ASSUME Inv, Next, ~open, open', NEW t \in Calls, call[t].pc # "idle"
               PROVE  UNCHANGED <<call[t], sub[t], cleanup[t]>>
    OBVIOUS
  <2>1. ASSUME NEW u \in Calls, Call(u) PROVE UNCHANGED <<call[t], sub[t], cleanup[t]>>
    BY <2>1, t # u DEF Call, Inv, Typed
  <2>2. ASSUME NEW u \in Calls, Timer(u) \/ Cancel(u) PROVE FALSE
    BY <2>2 DEF Timer, Cancel
  <2>3. ASSUME NEW u \in Calls, Turn(u) \/ Command(u) PROVE FALSE
    BY <2>3 DEF Turn, Command, Subscribed, SubscribeEnds, GraceEnough, Undone, GraceOver, Handed,
                CancelledAgain, Interrupt, Swallowed, Returned, TimesOut, Errs,
                KeepingCancellation, KeepingNothing, Fails
  <2>4. ASSUME NEW u \in Calls, Background(u) PROVE FALSE
    BY <2>4 DEF Background, ComesUp, NeverComesUp, Unsubscribed, TakeDown, CleanupGrace, Handed, CleanupDone
  <2> QED
    BY <2>1, <2>2, <2>3, <2>4 DEF Next, Close, State
<1> QED
  BY <1>1, InvHolds, PTL DEF Spec, TidyingMakesNoState
=============================================================================
