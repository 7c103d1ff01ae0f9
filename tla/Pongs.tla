------------------------------- MODULE Pongs -------------------------------
(***************************************************************************)
(* What a flush means.  Commands go to the server in the order they were   *)
(* written and it serves them in that order; a flush writes a PING, puts a *)
(* future on the client's list and waits, and each PONG that comes back is *)
(* for the oldest future on the list (`_process_pong`).  The wait may be    *)
(* cancelled, by its caller or by publish_deadline, and the future stays   *)
(* on the list.  Before that, the layer looks at the nats-py it finds and  *)
(* decides whether to replace that method.                                 *)
(*                                                                         *)
(* The layer relies on it wherever it subscribes: what is recorded after a *)
(* flush is a subscription the server has.                                 *)
(***************************************************************************)
EXTENDS Integers, Sequences

CONSTANTS Flushes,    \* the flushes made
          None,
          MaxWritten  \* bound on the commands written, PINGs included

ASSUME PongsConstants == None \notin Nat

VARIABLES written,  \* commands written on the connection
          served,   \* how many of them the server has served
          pingAt,   \* flush -> which command its PING was
          future,   \* flush -> its future
          pongs,    \* client._pongs
          answers,  \* PONGs on their way back
          reading,  \* the read loop still runs
          installed,\* the nats-py found: its release, its _process_pong
          outcome   \* what patch_process_pong() said

line == <<written, served, pingAt, future, pongs, answers>>
vars == <<line, reading, installed, outcome>>

\* past: is the release later than the last one known to have the defect, if it can be told;
\* code: what the method's names look like; checks: it looks at done() before set_result().
\* Releases past that one have upstream's fix, a build of main may have it before.
Builds == {b \in [past : {"no", "yes", "unknown"}, code : {"defective", "done", "other"}, checks : BOOLEAN] :
              /\ b.past = "yes" \/ b.code = "done" => b.checks
              /\ b.code = "defective" => ~b.checks}

LineOK ==
    /\ written \in Nat /\ served \in 0..written
    /\ pingAt \in [Flushes -> Nat \cup {None}]
    /\ future \in [Flushes -> {"none", "pending", "cancelled", "result"}]
    /\ pongs \in Seq(Flushes)
    /\ answers \in 0..Len(pongs)

PatchOK ==
    /\ reading \in BOOLEAN
    /\ installed \in Builds
    /\ outcome \in {"none", "applied", "not needed", "skipped"}

TypeOK == LineOK /\ PatchOK

Init ==
    /\ written = 0 /\ served = 0 /\ answers = 0
    /\ pingAt = [f \in Flushes |-> None]
    /\ future = [f \in Flushes |-> "none"]
    /\ pongs = <<>>
    /\ reading = TRUE
    /\ installed \in Builds
    /\ outcome = "none"

\* The release alone decides (variant with a bug).
DecidedByRelease(b) == IF b.past = "no" THEN "applied" ELSE "not needed"

\* patch_process_pong()
PatchProcessPong(b) ==
    CASE b.past = "yes" -> "not needed"
      [] b.past # "yes" /\ b.code = "defective" -> "applied"
      [] b.past # "yes" /\ b.code = "done" -> "not needed"
      [] OTHER -> "skipped"

\* apply(), once per process, as the first layer is made.
Apply ==
    /\ outcome = "none"
    /\ outcome' = PatchProcessPong(installed)
    /\ UNCHANGED <<line, reading, installed>>

\* Any other command: SUB, UNSUB, PUB.
Write ==
    /\ outcome # "none"
    /\ written < MaxWritten
    /\ written' = written + 1
    /\ UNCHANGED <<served, pingAt, future, pongs, answers, reading, installed, outcome>>

Flush(f) ==
    /\ outcome # "none"
    /\ future[f] = "none"
    /\ written < MaxWritten
    /\ written' = written + 1
    /\ pingAt' = [pingAt EXCEPT ![f] = written + 1]
    /\ future' = [future EXCEPT ![f] = "pending"]
    /\ pongs' = Append(pongs, f)
    /\ UNCHANGED <<served, answers, reading, installed, outcome>>

\* The future is taken off the list (variant with a bug).
CancelledTakenOff(f) ==
    /\ future[f] = "pending"
    /\ future' = [future EXCEPT ![f] = "cancelled"]
    /\ pongs' = SelectSeq(pongs, LAMBDA g : g # f)
    /\ UNCHANGED <<written, served, pingAt, answers, reading, installed, outcome>>

Cancelled(f) ==
    /\ future[f] = "pending"
    /\ future' = [future EXCEPT ![f] = "cancelled"]
    /\ UNCHANGED <<written, served, pingAt, pongs, answers, reading, installed, outcome>>

\* The server serves the next command; a PING it answers.
Serve ==
    /\ served < written
    /\ served' = served + 1
    /\ answers' = IF \E f \in Flushes : pingAt[f] = served + 1 THEN answers + 1 ELSE answers
    /\ UNCHANGED <<written, pingAt, future, pongs, reading, installed, outcome>>

\* Cancelled futures passed over (variant with a bug).
FirstPending ==
    IF \E i \in DOMAIN pongs : future[pongs[i]] = "pending"
    THEN pongs[CHOOSE i \in DOMAIN pongs : /\ future[pongs[i]] = "pending"
                                           /\ \A j \in 1..(i - 1) : future[pongs[j]] # "pending"]
    ELSE Head(pongs)

\* The newest one gets the answer (variant with a bug).
Newest == pongs[Len(pongs)]

\* The future a PONG is for.
Answered == Head(pongs)

\* set_result() on a future that is done raises, and the read loop ends, unless the method
\* that runs looks at done() first.
SetResult(f) ==
    /\ future' = IF future[f] = "pending" THEN [future EXCEPT ![f] = "result"] ELSE future
    /\ reading' = (future[f] = "pending" \/ outcome = "applied" \/ installed.checks)

ProcessPong ==
    /\ reading
    /\ answers > 0
    /\ pongs # <<>>
    /\ answers' = answers - 1
    /\ pongs' = Tail(pongs)
    /\ SetResult(Answered)
    /\ UNCHANGED <<written, served, pingAt, installed, outcome>>

Next ==
    \/ Apply
    \/ Write
    \/ \E f \in Flushes : Flush(f) \/ Cancelled(f)
    \/ Serve
    \/ ProcessPong

Spec == Init /\ [][Next]_vars

\* The server goes on serving and the read loop, while it runs, goes on reading.
FairSpec == Spec /\ WF_vars(Serve) /\ WF_vars(ProcessPong)

-----------------------------------------------------------------------------
(* What must hold. *)

\* A flush that returned has seen the server serve everything written before it, however
\* many flushes around it were cancelled.
FlushMeansServed == \A f \in Flushes : future[f] = "result" => pingAt[f] <= served

\* A flush whose caller stays is answered: a cancelled one never costs another its PONG.
EveryFlushEnds == \A f \in Flushes : future[f] = "pending" ~> future[f] # "pending" \/ ~reading

\* The read loop ends over a PONG only where the layer has warned that it could not tell
\* whether this nats-py has the defect (#41): whatever the release says and whichever flushes
\* are cancelled, the ones it thinks it has dealt with are dealt with.
DeafOnlyWarned == ~reading => outcome = "skipped"
=============================================================================
