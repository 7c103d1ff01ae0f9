---------------------------- MODULE PongsProofs ----------------------------
(***************************************************************************)
(* A flush that returned is a barrier: for any number of flushes, however  *)
(* many of them are cancelled, and for any length of the run.              *)
(***************************************************************************)
EXTENDS Pongs, TLAPS

\* A flush has a PING from the moment it is made.
PingsAreWritten ==
    \A f \in Flushes : /\ pingAt[f] = None <=> future[f] = "none"
                       /\ pingAt[f] # None => pingAt[f] <= written

\* The list is in the order of the PINGs, and the PONGs on their way are for its front:
\* the entries whose PING the server has served.
AnswersAreForTheFront ==
    /\ \A i \in DOMAIN pongs : /\ pingAt[pongs[i]] # None
                               /\ i <= answers <=> pingAt[pongs[i]] <= served
    /\ \A i, j \in DOMAIN pongs : i < j => pingAt[pongs[i]] < pingAt[pongs[j]]

\* A PING the server has not served yet has its entry on the list.
UnservedAreListed ==
    \A f \in Flushes : pingAt[f] # None /\ pingAt[f] > served => \E i \in DOMAIN pongs : pongs[i] = f

Inv == LineOK /\ PingsAreWritten /\ AnswersAreForTheFront /\ UnservedAreListed /\ FlushMeansServed

\* Once a layer has been made, what it said is what the patch decides for this nats-py; it is
\* made before anything is flushed.
OutcomeIsDecided ==
    /\ outcome # "none" => outcome = PatchProcessPong(installed)
    /\ outcome = "none" => pongs = <<>>

PatchInv == PatchOK /\ OutcomeIsDecided /\ DeafOnlyWarned

\* Initially nothing has been flushed.
LEMMA InitInv == Init => Inv
  BY PongsConstants
     DEF Init, Inv, LineOK, PingsAreWritten, AnswersAreForTheFront, UnservedAreListed, FlushMeansServed

\* A new flush goes to the end of the list with the highest PING so far.
LEMMA FlushKeeps ==
  ASSUME Inv, NEW f \in Flushes, Flush(f)
  PROVE  Inv'
<1> USE PongsConstants DEF Inv, LineOK
<1>1. /\ pingAt[f] = None
      /\ \A i \in DOMAIN pongs : pongs[i] # f
  BY DEF Flush, PingsAreWritten, AnswersAreForTheFront
<1>2. /\ \A i \in DOMAIN pongs : pongs'[i] = pongs[i] /\ pingAt'[pongs[i]] = pingAt[pongs[i]]
      /\ Len(pongs') = Len(pongs) + 1
      /\ DOMAIN pongs' = 1..(Len(pongs) + 1)
      /\ pongs'[Len(pongs) + 1] = f
      /\ pingAt'[f] = written + 1
      /\ pongs' \in Seq(Flushes)
  BY <1>1 DEF Flush
<1>3. LineOK'
  BY <1>2 DEF Flush
<1>4. PingsAreWritten'
  BY DEF Flush, PingsAreWritten
<1>5. AnswersAreForTheFront'
  <2>1. \A i \in DOMAIN pongs : pingAt[pongs[i]] # None /\ pingAt[pongs[i]] <= written
    BY DEF PingsAreWritten, AnswersAreForTheFront
  <2>2. \A i \in DOMAIN pongs' : /\ pingAt'[pongs'[i]] # None
                                 /\ i <= answers' <=> pingAt'[pongs'[i]] <= served'
    BY <1>2, <2>1 DEF Flush, AnswersAreForTheFront
  <2>3. \A i, j \in DOMAIN pongs' : i < j => pingAt'[pongs'[i]] < pingAt'[pongs'[j]]
    BY <1>2, <2>1 DEF Flush, AnswersAreForTheFront
  <2> QED BY <2>2, <2>3 DEF AnswersAreForTheFront
<1>6. UnservedAreListed'
  <2> SUFFICES ASSUME NEW g \in Flushes, pingAt'[g] # None, pingAt'[g] > served'
               PROVE  \E i \in DOMAIN pongs' : pongs'[i] = g
    BY DEF UnservedAreListed
  <2>1. CASE g = f
    BY <2>1, <1>2
  <2>2. CASE g # f
    <3>1. PICK i \in DOMAIN pongs : pongs[i] = g
      BY <2>2 DEF Flush, UnservedAreListed
    <3> QED BY <3>1, <1>2
  <2> QED BY <2>1, <2>2
<1>7. FlushMeansServed'
  BY DEF Flush, FlushMeansServed
<1> QED BY <1>3, <1>4, <1>5, <1>6, <1>7

\* The server answers the PING of the first entry that has no PONG on its way yet.
LEMMA ServeKeeps ==
  ASSUME Inv, Serve
  PROVE  Inv'
<1> USE PongsConstants DEF Inv, LineOK
<1>1. /\ PingsAreWritten' /\ UnservedAreListed' /\ FlushMeansServed'
  BY DEF Serve, PingsAreWritten, UnservedAreListed, FlushMeansServed
<1>2. CASE \E f \in Flushes : pingAt[f] = served + 1
  <2>1. PICK f \in Flushes : pingAt[f] = served + 1
    BY <1>2
  <2>2. PICK k \in DOMAIN pongs : pongs[k] = f
    BY <2>1 DEF UnservedAreListed
  <2>3. \A i \in DOMAIN pongs : /\ i < k => pingAt[pongs[i]] <= served
                                /\ i > k => pingAt[pongs[i]] > served + 1
    BY <2>1, <2>2 DEF AnswersAreForTheFront
  <2>4. k = answers + 1
    <3>1. k > answers
      BY <2>1, <2>2 DEF AnswersAreForTheFront
    <3>2. ASSUME k > answers + 1 PROVE FALSE
      <4>1. answers + 1 \in DOMAIN pongs /\ answers + 1 < k
        BY <3>2
      <4>2. pingAt[pongs[answers + 1]] <= served
        BY <4>1, <2>3
      <4> QED BY <4>1, <4>2 DEF AnswersAreForTheFront
    <3> QED BY <3>1, <3>2
  <2>5. answers' = answers + 1
    BY <1>2 DEF Serve
  <2>6. LineOK'
    BY <2>4, <2>5 DEF Serve
  <2>7. AnswersAreForTheFront'
    BY <2>1, <2>2, <2>3, <2>4, <2>5 DEF Serve, AnswersAreForTheFront
  <2> QED BY <1>1, <2>6, <2>7
<1>3. CASE ~\E f \in Flushes : pingAt[f] = served + 1
  <2>1. answers' = answers
    BY <1>3 DEF Serve
  <2>2. LineOK'
    BY <2>1 DEF Serve
  <2>3. \A i \in DOMAIN pongs : pingAt[pongs[i]] # served + 1
    BY <1>3
  <2>4. AnswersAreForTheFront'
    BY <2>1, <2>3 DEF Serve, AnswersAreForTheFront
  <2> QED BY <1>1, <2>2, <2>4
<1> QED BY <1>2, <1>3

\* A PONG is for a flush whose PING has been served.
LEMMA ProcessPongKeeps ==
  ASSUME Inv, ProcessPong
  PROVE  Inv'
<1> USE PongsConstants DEF Inv, LineOK
<1> DEFINE f == Head(pongs)
<1>1. /\ 1 \in DOMAIN pongs /\ f = pongs[1] /\ f \in Flushes
      /\ pongs' = Tail(pongs) /\ pongs' \in Seq(Flushes)
      /\ Len(pongs') = Len(pongs) - 1
      /\ \A i \in DOMAIN pongs' : i + 1 \in DOMAIN pongs /\ pongs'[i] = pongs[i + 1]
  BY DEF ProcessPong
<1>2. pingAt[f] # None /\ pingAt[f] <= served
  BY SMTT(30), <1>1 DEF ProcessPong, AnswersAreForTheFront
<1>3. LineOK'
  BY <1>1 DEF ProcessPong, SetResult, Answered
<1>4. PingsAreWritten' /\ FlushMeansServed'
  BY <1>1, <1>2 DEF ProcessPong, SetResult, Answered, PingsAreWritten, FlushMeansServed
<1>5. AnswersAreForTheFront'
  <2>1. \A i \in DOMAIN pongs' : /\ pingAt'[pongs'[i]] = pingAt[pongs[i + 1]]
                                 /\ i <= answers' <=> i + 1 <= answers
    BY <1>1 DEF ProcessPong
  <2>2. \A i \in DOMAIN pongs' : /\ pingAt'[pongs'[i]] # None
                                 /\ i <= answers' <=> pingAt'[pongs'[i]] <= served'
    BY <2>1, <1>1 DEF ProcessPong, AnswersAreForTheFront
  <2>3. \A i, j \in DOMAIN pongs' : i < j => pingAt'[pongs'[i]] < pingAt'[pongs'[j]]
    <3> SUFFICES ASSUME NEW i \in DOMAIN pongs', NEW j \in DOMAIN pongs', i < j
                 PROVE  pingAt[pongs[i + 1]] < pingAt[pongs[j + 1]]
      BY <2>1
    <3>1. i + 1 \in DOMAIN pongs /\ j + 1 \in DOMAIN pongs /\ i + 1 < j + 1
      BY <1>1
    <3> QED BY <3>1 DEF AnswersAreForTheFront
  <2> QED BY <2>2, <2>3 DEF AnswersAreForTheFront
<1>6. UnservedAreListed'
  <2> SUFFICES ASSUME NEW g \in Flushes, pingAt[g] # None, pingAt[g] > served
               PROVE  \E i \in DOMAIN pongs' : pongs'[i] = g
    BY DEF UnservedAreListed, ProcessPong
  <2>1. PICK i \in DOMAIN pongs : pongs[i] = g
    BY DEF UnservedAreListed
  <2>2. i # 1
    BY <2>1, <1>1, <1>2
  <2>3. i - 1 \in DOMAIN pongs' /\ pongs'[i - 1] = g
    BY <2>1, <2>2, <1>1
  <2> QED BY <2>3
<1> QED BY <1>3, <1>4, <1>5, <1>6

\* No step breaks the order of the list.
LEMMA NextKeeps == Inv /\ [Next]_vars => Inv'
<1> SUFFICES ASSUME Inv, [Next]_vars PROVE Inv'
  OBVIOUS
<1> USE PongsConstants DEF Inv, LineOK
<1>1. CASE Write
  BY <1>1 DEF Write, PingsAreWritten, AnswersAreForTheFront, UnservedAreListed, FlushMeansServed
<1>2. ASSUME NEW f \in Flushes, Cancelled(f) PROVE Inv'
  BY <1>2 DEF Cancelled, PingsAreWritten, AnswersAreForTheFront, UnservedAreListed, FlushMeansServed
<1>3. CASE UNCHANGED vars
  BY <1>3 DEF vars, PingsAreWritten, AnswersAreForTheFront, UnservedAreListed, FlushMeansServed, line
<1>4. CASE Apply
  BY <1>4 DEF Apply, line, PingsAreWritten, AnswersAreForTheFront, UnservedAreListed, FlushMeansServed
<1> QED BY <1>1, <1>2, <1>3, <1>4, FlushKeeps, ServeKeeps, ProcessPongKeeps DEF Next

\* Initially no layer has been made.
LEMMA InitPatchInv == Init => PatchInv
  BY DEF Init, PatchInv, PatchOK, OutcomeIsDecided, DeafOnlyWarned

\* Only a PONG can end the read loop, and only under a method that does not look at done().
LEMMA PatchKeeps == PatchInv /\ [Next]_vars => PatchInv'
<1> SUFFICES ASSUME PatchInv, [Next]_vars PROVE PatchInv'
  OBVIOUS
<1> USE DEF PatchInv, PatchOK, OutcomeIsDecided, DeafOnlyWarned
<1>1. CASE Apply
  BY <1>1 DEF Apply, line, PatchProcessPong
<1>2. CASE Write \/ Serve
  BY <1>2 DEF Write, Serve
<1>3. ASSUME NEW f \in Flushes, Flush(f) \/ Cancelled(f) PROVE PatchInv'
  BY <1>3 DEF Flush, Cancelled
<1>4. CASE ProcessPong
  <2>1. outcome # "none" /\ UNCHANGED <<installed, outcome>>
    BY <1>4 DEF ProcessPong
  <2>2. installed.checks \/ outcome = "applied" \/ outcome = "skipped"
    BY <2>1 DEF PatchProcessPong, Builds
  <2>3. reading' \in BOOLEAN /\ (~reading' => ~installed.checks /\ outcome # "applied")
    BY <1>4 DEF ProcessPong, SetResult
  <2> QED BY <2>1, <2>2, <2>3
<1>5. CASE UNCHANGED vars
  BY <1>5 DEF vars, line
<1> QED BY <1>1, <1>2, <1>3, <1>4, <1>5 DEF Next

\* A flush that returned has seen the server serve everything written before its PING,
\* whichever flushes were cancelled: the PONG it was given was its own.
THEOREM FlushIsABarrier == Spec => []FlushMeansServed
<1>1. Inv => FlushMeansServed
  BY DEF Inv
<1> QED BY <1>1, InitInv, NextKeeps, PTL DEF Spec

\* Every PONG on its way has an entry to be popped for it, and the rest of the state keeps
\* its type.
THEOREM PongsTyped == Spec => []TypeOK
<1>1. Inv /\ PatchInv => TypeOK
  BY DEF Inv, PatchInv, TypeOK
<1> QED BY <1>1, InitInv, NextKeeps, InitPatchInv, PatchKeeps, PTL DEF Spec

\* Whichever nats-py is found, the read loop ends over a PONG only after a warning.
THEOREM NeverSilentlyDeaf == Spec => []DeafOnlyWarned
<1>1. PatchInv => DeafOnlyWarned
  BY DEF PatchInv
<1> QED BY <1>1, InitPatchInv, PatchKeeps, PTL DEF Spec
=============================================================================
