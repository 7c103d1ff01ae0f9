--------------------------- MODULE DeliveryProofs ---------------------------
(***************************************************************************)
(* For any number of processes, channels, groups and messages, and with    *)
(* subscriptions being replaced at any time: a message to a shared channel *)
(* is filed once, and no frame the layer lets through is too large for the *)
(* server.                                                                 *)
(***************************************************************************)
EXTENDS Delivery, FiniteSetTheorems, TLAPS

Subjects ==
    {PcSubject(p) : p \in Procs} \cup {ChSubject(c) : c \in Plain}
    \cup {GrpSubject(g) : g \in Groups} \cup {GrpChSubject(g, c) : g \in Groups, c \in Plain}

Subscriptions == [proc: Procs, sub: Subjects, old: 0..MaxOld]

SentSoFar == \E n \in 0..MaxSent : sent \in [1..n -> Targets]

Typed ==
    /\ boxes \in [Procs -> SUBSET Channels]
    /\ \A p \in Procs : boxes[p] \subseteq Readable(p)
    /\ members \in [Procs -> [Groups -> SUBSET Channels]]
    /\ subs \subseteq Subscriptions
    /\ copies \subseteq [msg: Messages, to: Subscriptions]
    /\ SentSoFar
    /\ filed \in [Messages \X Procs \X Channels -> Nat]
    /\ due \subseteq Messages \X Channels
    /\ met \subseteq Messages \X Procs \X (1..MaxOld)
    /\ cut = {}
    /\ refused \subseteq Payloads \X BOOLEAN

\* A copy is on its way to a subscription that takes what its message was sent to.
CopiesMatch ==
    \A k \in copies : k.msg \in DOMAIN sent /\ k.to \in subs /\ Matches(k.to.sub, sent[k.msg])

\* The server gives one copy to each queue.
OneCopyPerQueue ==
    \A k, l \in copies :
        k.msg = l.msg /\ k.to.sub = l.to.sub /\ Queued(k.to.sub) => k = l

\* A message is filed for a shared channel when its copy is there, and not before it is sent.
For(k, m, c) == k.msg = m /\ Queued(k.to.sub) /\ k.to.sub.ch = c

NotYetFiled ==
    \A m \in Messages, c \in Plain, p \in Procs :
        (m \notin DOMAIN sent \/ \E k \in copies : For(k, m, c)) => filed[<<m, p, c>>] = 0

LargeRefused == \A r \in refused : WireSize(r[1], r[2]) > MaxPayload

Inv == Typed /\ CopiesMatch /\ OneCopyPerQueue /\ NotYetFiled /\ SharedOnce /\ LargeRefused

-----------------------------------------------------------------------------
(* Frames and subjects. *)

\* The layer counts the bytes nats-py writes.
LEMMA SameSize ==
  ASSUME NEW size \in Payloads, NEW named \in BOOLEAN
  PROVE  FrameSize(size, named) = WireSize(size, named) /\ WireSize(size, named) \in Nat
BY DeliveryConstants DEF FrameSize, WireSize

\* What a message was sent to tells under which subject it comes to a shared channel.
LEMMA SubjectOf ==
  ASSUME NEW x \in Subjects, NEW y \in Subjects, NEW to \in Targets,
         Matches(x, to), Matches(y, to), Queued(x), Queued(y), x.ch = y.ch
  PROVE  x = y
<1>1. \/ \E c \in Plain : x = ChSubject(c)
      \/ \E g \in Groups, c \in Plain : x = GrpChSubject(g, c)
  BY DEF Subjects, Queued, PcSubject, GrpSubject
<1>2. \/ \E c \in Plain : y = ChSubject(c)
      \/ \E g \in Groups, c \in Plain : y = GrpChSubject(g, c)
  BY DEF Subjects, Queued, PcSubject, GrpSubject
<1>3. CASE to \in Groups
  <2>1. to \notin Plain /\ to \notin Specific
    BY <1>3, NamesTellApart DEF Channels
  <2>2. PICK c \in Plain : x = GrpChSubject(to, c)
    BY <1>1, <2>1 DEF Matches, ChSubject, GrpChSubject
  <2>3. PICK d \in Plain : y = GrpChSubject(to, d)
    BY <1>2, <2>1 DEF Matches, ChSubject, GrpChSubject
  <2> QED BY <2>2, <2>3 DEF GrpChSubject
<1>4. CASE to \notin Groups
  <2>1. x.kind # "pc" /\ y.kind # "pc"
    BY DEF Queued
  <2> QED BY <1>4, <2>1 DEF Matches
<1> QED BY <1>3, <1>4

\* A subscription files for a shared channel only if it is one of a queue.
LEMMA FiledForShared ==
  ASSUME Typed, CopiesMatch, NEW k \in copies, NEW c \in Plain, c \in Filed(k.msg, k.to)
  PROVE  For(k, k.msg, c)
<1>1. k.to.sub \in Subjects /\ c \notin Specific
  BY NamesTellApart DEF Typed, Subscriptions
<1>2. CASE \E p \in Procs : k.to.sub = PcSubject(p)
  <2>0. k.to.sub.kind = "pc" /\ \A d : k.to.sub # ChSubject(d)
    BY <1>2 DEF PcSubject, ChSubject
  <2>1. sent[k.msg] \in Specific
    BY <2>0 DEF CopiesMatch, Matches
  <2>2. Filed(k.msg, k.to) = ProcessDeliver(k.to.proc, sent[k.msg])
    BY <1>2 DEF Filed, PcSubject
  <2> QED BY <1>1, <2>1, <2>2 DEF ProcessDeliver
<1>3. CASE \E d \in Plain : k.to.sub = ChSubject(d)
  BY <1>3 DEF Filed, For, Queued, ChSubject
<1>4. CASE \E g \in Groups : k.to.sub = GrpSubject(g)
  BY <1>1, <1>4 DEF Filed, GrpSubject, GroupDeliver
<1>5. CASE \E g \in Groups, d \in Plain : k.to.sub = GrpChSubject(g, d)
  BY <1>5 DEF Filed, For, Queued, GrpChSubject
<1> QED BY <1>1, <1>2, <1>3, <1>4, <1>5 DEF Subjects

-----------------------------------------------------------------------------
(* Subscriptions on their way down. *)

\* What goes down takes a number that no subscription of its kind has.
Moved(k, gone, f) == [msg |-> k.msg, to |-> IF k.to \in gone THEN Numbered(k.to, f[k.to]) ELSE k.to]

LEMMA RetiringMoves ==
  ASSUME Inv, NEW gone \in SUBSET Subscriptions, Retiring(gone)
  PROVE  \E f \in [gone -> 1..MaxOld] :
            /\ \A s \in gone : Numbered(s, f[s]) \notin subs
            /\ subs' = (subs \ gone) \cup {Numbered(s, f[s]) : s \in gone}
            /\ copies' = {Moved(k, gone, f) : k \in copies}
<1> DEFINE f == [s \in gone |-> CHOOSE n \in Unused(s) : TRUE]
<1>1. \A s \in gone : f[s] \in Unused(s)
  BY DEF Retiring
<1>2. f \in [gone -> 1..MaxOld] /\ \A s \in gone : Numbered(s, f[s]) \notin subs
  BY <1>1 DEF Unused
<1>3. \A s \in gone : Numbered(s, f[s]) = Old(s)
  BY DEF Old
<1> HIDE DEF f
<1>4. subs' = (subs \ gone) \cup {Numbered(s, f[s]) : s \in gone}
  BY <1>3 DEF Retiring
<1>5. copies' = {[k EXCEPT !.to = IF @ \in gone THEN Old(@) ELSE @] : k \in copies}
  BY DEF Retiring
<1>6. \A k \in copies : [k EXCEPT !.to = IF @ \in gone THEN Old(@) ELSE @] = Moved(k, gone, f)
  BY <1>3 DEF Moved, Inv, Typed
<1>7. copies' = {Moved(k, gone, f) : k \in copies}
  BY <1>5, <1>6
<1> QED BY <1>2, <1>4, <1>7

\* Copies on their way follow their subscription, and stay as many.
LEMMA RetiringKeeps ==
  ASSUME Inv, NEW gone \in SUBSET Subscriptions, Retiring(gone), sent' = sent, filed' = filed
  PROVE  /\ subs' \subseteq Subscriptions
         /\ copies' \subseteq [msg: Messages, to: Subscriptions]
         /\ CopiesMatch' /\ OneCopyPerQueue' /\ NotYetFiled'
<1>0. PICK f \in [gone -> 1..MaxOld] :
            /\ subs' = (subs \ gone) \cup {Numbered(s, f[s]) : s \in gone}
            /\ copies' = {Moved(k, gone, f) : k \in copies}
  BY RetiringMoves
<1>1. \A s \in gone : Numbered(s, f[s]) \in Subscriptions /\ Numbered(s, f[s]).sub = s.sub
  BY DeliveryConstants DEF Subscriptions, Numbered
<1>2. \A k \in copies : /\ Moved(k, gone, f) \in [msg: Messages, to: Subscriptions]
                        /\ Moved(k, gone, f).msg = k.msg /\ Moved(k, gone, f).to.sub = k.to.sub
                        /\ Moved(k, gone, f).to \in subs'
  BY <1>0, <1>1 DEF Inv, Typed, CopiesMatch, Moved
<1>3. copies' = {Moved(k, gone, f) : k \in copies}
  BY <1>0
<1>4. subs' \subseteq Subscriptions
  BY <1>0, <1>1 DEF Inv, Typed
<1>5. copies' \subseteq [msg: Messages, to: Subscriptions]
  BY <1>2, <1>3
<1>6. CopiesMatch'
  BY <1>2, <1>3 DEF CopiesMatch, Inv, Matches
<1>7. OneCopyPerQueue'
  <2> SUFFICES ASSUME NEW k \in copies', NEW l \in copies',
                      k.msg = l.msg, k.to.sub = l.to.sub, Queued(k.to.sub)
               PROVE  k = l
    BY DEF OneCopyPerQueue
  <2>1. PICK k0 \in copies : k = Moved(k0, gone, f)
    BY <1>3
  <2>2. PICK l0 \in copies : l = Moved(l0, gone, f)
    BY <1>3
  <2> QED BY <2>1, <2>2, <1>2 DEF Inv, OneCopyPerQueue
<1>8. NotYetFiled'
  BY <1>2, <1>3 DEF NotYetFiled, Inv, For
<1> QED BY <1>4, <1>5, <1>6, <1>7, <1>8

\* The tables of a process are no matter of the copies.
LEMMA SubsGrow ==
  ASSUME Inv, subs \subseteq subs', UNCHANGED <<copies, sent, filed>>
  PROVE  CopiesMatch' /\ OneCopyPerQueue' /\ NotYetFiled'
<1>1. CopiesMatch'
  BY DEF Inv, CopiesMatch, Matches
<1>2. OneCopyPerQueue' /\ NotYetFiled'
  BY DEF Inv, OneCopyPerQueue, NotYetFiled, For
<1> QED BY <1>1, <1>2

LEMMA HistoryKept ==
  ASSUME Inv, UNCHANGED history
  PROVE  SharedOnce' /\ LargeRefused' /\ SentSoFar'
BY DEF Inv, Typed, SharedOnce, LargeRefused, SentSoFar, history

-----------------------------------------------------------------------------
(* The tables of a process. *)

LEMMA OwnChannels ==
  ASSUME NEW p \in Procs
  PROVE  Readable(p) \subseteq Channels /\ \A c \in Own(p) : c[1] = p
BY DEF Readable, Own, Channels, Specific

LEMMA MailboxStep ==
  ASSUME Inv, NEW p \in Procs, NEW c \in Channels, Mailbox(p, c)
  PROVE  Inv'
<1>1. BoxSubject(c) \in Subjects
  BY OwnChannels DEF Mailbox, BoxSubject, Readable, Subjects
<1>2. Sub(p, BoxSubject(c)) \in Subscriptions
  BY <1>1, DeliveryConstants DEF Sub, Subscriptions
<1>3. CopiesMatch' /\ OneCopyPerQueue' /\ NotYetFiled'
  BY SubsGrow DEF Mailbox, history
<1>4. SharedOnce' /\ LargeRefused' /\ SentSoFar'
  BY HistoryKept DEF Mailbox
<1>5. Typed'
  BY <1>2, <1>4 DEF Inv, Typed, Mailbox, history
<1> QED BY <1>3, <1>4, <1>5 DEF Inv

LEMMA DiscardedStep ==
  ASSUME Inv, NEW p \in Procs, NEW c \in Channels, Discarded(p, c)
  PROVE  Inv'
<1> DEFINE gone == IF c \in Plain THEN {Sub(p, ChSubject(c))} ELSE {}
<1>1. gone \subseteq Subscriptions
  <2>1. c \in Plain => ChSubject(c) \in Subjects
    BY DEF Subjects
  <2>2. c \in Plain => Sub(p, ChSubject(c)) \in Subscriptions
    BY <2>1, DeliveryConstants DEF Sub, Subscriptions
  <2> QED BY <2>2
<1>2. Retiring(gone) /\ UNCHANGED history
  BY DEF Discarded
<1>3. /\ subs' \subseteq Subscriptions /\ copies' \subseteq [msg: Messages, to: Subscriptions]
      /\ CopiesMatch' /\ OneCopyPerQueue' /\ NotYetFiled'
  BY <1>1, <1>2, RetiringKeeps DEF history
<1>4. SharedOnce' /\ LargeRefused' /\ SentSoFar'
  BY <1>2, HistoryKept
<1>5. Typed'
  BY <1>3, <1>4 DEF Inv, Typed, Discarded, history
<1> QED BY <1>3, <1>4, <1>5 DEF Inv

\* Members of a group are channels of the process.
LEMMA FeedsIs ==
  ASSUME NEW p \in Procs, NEW g \in Groups, NEW c \in Channels
  PROVE  Sub(p, Feeds(g, c)) \in Subscriptions
<1>1. Feeds(g, c) \in Subjects
  BY DEF Feeds, Subjects
<1> QED BY <1>1, DeliveryConstants DEF Sub, Subscriptions

LEMMA GroupAddStep ==
  ASSUME Inv, NEW p \in Procs, NEW g \in Groups, NEW c \in Channels, GroupAdd(p, g, c)
  PROVE  Inv'
<1>1. CopiesMatch' /\ OneCopyPerQueue' /\ NotYetFiled'
  BY SubsGrow DEF GroupAdd, history
<1>2. SharedOnce' /\ LargeRefused' /\ SentSoFar'
  BY HistoryKept DEF GroupAdd
<1>3. members' \in [Procs -> [Groups -> SUBSET Channels]]
  BY DEF Inv, Typed, GroupAdd
<1>4. Typed'
  BY <1>2, <1>3, FeedsIs DEF Inv, Typed, GroupAdd, history
<1> QED BY <1>1, <1>2, <1>4 DEF Inv

LEMMA GroupDiscardStep ==
  ASSUME Inv, NEW p \in Procs, NEW g \in Groups, NEW c \in Channels, GroupDiscard(p, g, c)
  PROVE  Inv'
<1> DEFINE rest == members[p][g] \ {c}
<1> DEFINE gone == IF c \in Specific /\ rest \cap Specific # {} THEN {} ELSE {Sub(p, Feeds(g, c))}
<1>1. gone \subseteq Subscriptions
  BY FeedsIs
<1>2. Retiring(gone) /\ UNCHANGED history
  BY DEF GroupDiscard
<1> HIDE DEF gone
<1>3. /\ subs' \subseteq Subscriptions /\ copies' \subseteq [msg: Messages, to: Subscriptions]
      /\ CopiesMatch' /\ OneCopyPerQueue' /\ NotYetFiled'
  BY <1>1, <1>2, RetiringKeeps DEF history
<1>4. SharedOnce' /\ LargeRefused' /\ SentSoFar'
  BY <1>2, HistoryKept
<1>5. members' \in [Procs -> [Groups -> SUBSET Channels]]
  BY DEF Inv, Typed, GroupDiscard
<1>6. due' \subseteq due /\ boxes' = boxes
  BY DEF GroupDiscard
<1>7. Typed'
  BY <1>2, <1>3, <1>4, <1>5, <1>6 DEF Inv, Typed, history
<1> QED BY <1>3, <1>4, <1>7 DEF Inv

LEMMA FlushStep ==
  ASSUME Inv, NEW p \in Procs, Flush(p)
  PROVE  Inv'
<1>1. Current(p) \subseteq Subscriptions
  BY DEF Current, Inv, Typed
<1>2. Retiring(Current(p)) /\ UNCHANGED history
  BY DEF Flush
<1>3. /\ subs' \subseteq Subscriptions /\ copies' \subseteq [msg: Messages, to: Subscriptions]
      /\ CopiesMatch' /\ OneCopyPerQueue' /\ NotYetFiled'
  BY <1>1, <1>2, RetiringKeeps DEF history
<1>4. SharedOnce' /\ LargeRefused' /\ SentSoFar'
  BY <1>2, HistoryKept
<1>5. members' \in [Procs -> [Groups -> SUBSET Channels]]
  BY DEF Inv, Typed, Flush
<1>6. /\ due' \subseteq due /\ boxes' \in [Procs -> SUBSET Channels]
      /\ \A q \in Procs : boxes'[q] \subseteq Readable(q)
  BY DEF Flush, Inv, Typed
<1>7. Typed'
  BY <1>2, <1>3, <1>4, <1>5, <1>6 DEF Inv, Typed, history
<1> QED BY <1>3, <1>4, <1>7 DEF Inv

LEMMA UnsubscribedStep ==
  ASSUME Inv, NEW s \in subs, Unsubscribed(s)
  PROVE  Inv'
<1>1. copies' \subseteq copies /\ \A k \in copies' : k.to # s
  BY DEF Unsubscribed
<1>2. CopiesMatch'
  BY <1>1 DEF Unsubscribed, Inv, CopiesMatch, Matches, history
<1>3. OneCopyPerQueue' /\ NotYetFiled'
  BY <1>1 DEF Unsubscribed, Inv, OneCopyPerQueue, NotYetFiled, For, history
<1>4. SharedOnce' /\ LargeRefused' /\ SentSoFar'
  BY HistoryKept DEF Unsubscribed
<1>5. Typed'
  BY <1>1, <1>4 DEF Unsubscribed, Inv, Typed, history
<1> QED BY <1>2, <1>3, <1>4, <1>5 DEF Inv

-----------------------------------------------------------------------------
(* Sending. *)

\* The server gives one copy of a message to each queue.
LEMMA OneRouteEach ==
  ASSUME Inv, NEW to \in Targets, NEW r \in Routes(to)
  PROVE  /\ r \subseteq subs /\ \A s \in r : Matches(s.sub, to)
         /\ \A s1, s2 \in r : s1.sub = s2.sub /\ Queued(s1.sub) => s1 = s2
<1> DEFINE matching == {s \in subs : Matches(s.sub, to)}
<1> DEFINE alone == {s \in matching : ~Queued(s.sub)}
<1> DEFINE queues == {s.sub : s \in matching \ alone}
<1>1. PICK pick \in [queues -> matching] :
           (\A x \in queues : pick[x].sub = x) /\ r = alone \cup {pick[x] : x \in queues}
  BY DEF Routes
<1>2. \A x \in queues : pick[x] \in matching
  OBVIOUS
<1>3. \A s \in r : Queued(s.sub) => \E x \in queues : s = pick[x] /\ s.sub = x
  BY <1>1
<1> QED BY <1>1, <1>2, <1>3

LEMMA OwedIs ==
  ASSUME NEW to \in Targets
  PROVE  Owed(to) \subseteq Channels
BY NamesTellApart DEF Owed, Targets

\* The next message has a number of its own.
LEMMA NextMessage ==
  ASSUME NEW n \in 0..MaxSent, DOMAIN sent = 1..n
  PROVE  Cardinality(DOMAIN sent) = n
BY FS_Interval, DeliveryConstants

MetWhen(m, to) == UNION {{<<m, q, n>> : n \in MetBy(q, to)} : q \in Procs}

LEMMA MetWhenIs ==
  ASSUME NEW m \in Messages, NEW to \in Targets
  PROVE  /\ MetWhen(m, to) \subseteq Messages \X Procs \X (1..MaxOld)
         /\ \A k, q, n : <<k, q, n>> \in MetWhen(m, to) <=> k = m /\ q \in Procs /\ n \in MetBy(q, to)
<1>1. \A q : MetBy(q, to) \subseteq 1..MaxOld
  BY DEF MetBy
<1> QED BY <1>1 DEF MetWhen

\* A message that is sent, and what the server does with it.
LEMMA Sent ==
  ASSUME Inv, NEW p \in Procs, NEW to \in Targets, NEW size \in Payloads, Publish(p, to, size)
  PROVE  \E m \in Messages :
            /\ m \notin DOMAIN sent /\ DOMAIN sent' = DOMAIN sent \cup {m}
            /\ sent'[m] = to /\ \A k \in DOMAIN sent : sent'[k] = sent[k]
            /\ SentSoFar'
            /\ \/ UNCHANGED <<copies, met>>
               \/ /\ \E r \in Routes(to) : copies' = copies \cup {[msg |-> m, to |-> s] : s \in r}
                  /\ met' = met \cup MetWhen(m, to)
            /\ due' \subseteq Messages \X Channels
            /\ met' \subseteq Messages \X Procs \X (1..MaxOld)
            /\ cut' = {}
            /\ refused' \subseteq Payloads \X BOOLEAN /\ LargeRefused'
<1> DEFINE m == Cardinality(DOMAIN sent) + 1
<1> DEFINE named == to \in Specific
<1>1. PICK n \in 0..MaxSent : sent \in [1..n -> Targets]
  BY DEF Inv, Typed, SentSoFar
<1>2. m = n + 1 /\ m \in Messages
  BY <1>1, NextMessage DEF Publish
<1>3. sent' = [k \in 1..m |-> IF k = m THEN to ELSE sent[k]]
  BY DEF Publish
<1> HIDE DEF m
<1>4. n + 1 \in 0..MaxSent /\ sent' \in [1..(n + 1) -> Targets]
  BY <1>1, <1>2, <1>3, DeliveryConstants DEF Messages
<1>5. SentSoFar'
  BY <1>4 DEF SentSoFar
<1>6. /\ m \notin DOMAIN sent /\ DOMAIN sent' = DOMAIN sent \cup {m}
      /\ sent'[m] = to /\ \A k \in DOMAIN sent : sent'[k] = sent[k]
  BY <1>1, <1>2, <1>3, DeliveryConstants DEF Messages
<1>7. named \in BOOLEAN /\ FrameSize(size, named) = WireSize(size, named)
  <2>1. named \in BOOLEAN
    OBVIOUS
  <2> HIDE DEF named
  <2> QED BY <2>1, SameSize
<1>8. CASE FrameSize(size, named) > MaxPayload
  <2>1. refused' = refused \cup {<<size, named>>} /\ UNCHANGED <<copies, due, met, cut>>
    BY <1>8 DEF Publish
  <2>2. LargeRefused'
    BY <2>1, <1>7, <1>8 DEF LargeRefused, Inv
  <2>3. /\ due' \subseteq Messages \X Channels /\ met' \subseteq Messages \X Procs \X (1..MaxOld) /\ cut' = {}
        /\ refused' \subseteq Payloads \X BOOLEAN
    <3> HIDE DEF named
    <3> QED BY <2>1, <1>7 DEF Inv, Typed
  <2> QED BY <2>1, <2>2, <2>3, <1>2, <1>5, <1>6
<1>9. CASE ~(FrameSize(size, named) > MaxPayload)
  <2>1. /\ \E r \in Routes(to) : copies' = copies \cup {[msg |-> m, to |-> s] : s \in r}
        /\ due' = due \cup ({m} \X Owed(to))
        /\ met' = met \cup MetWhen(m, to)
        /\ UNCHANGED <<refused, cut>>
    BY <1>7, <1>9 DEF Publish, m, MetWhen
  <2>2. due' \subseteq Messages \X Channels
    BY <2>1, <1>2, OwedIs DEF Inv, Typed
  <2>3. met' \subseteq Messages \X Procs \X (1..MaxOld)
    BY <2>1, <1>2, MetWhenIs DEF Inv, Typed
  <2>4. LargeRefused'
    BY <2>1 DEF LargeRefused, Inv
  <2> QED BY <2>1, <2>2, <2>3, <2>4, <1>2, <1>5, <1>6 DEF Inv, Typed
<1> QED BY <1>8, <1>9

LEMMA PublishStep ==
  ASSUME Inv, NEW p \in Procs, NEW to \in Targets, NEW size \in Payloads, Publish(p, to, size)
  PROVE  Inv'
<1>1. PICK m \in Messages :
            /\ m \notin DOMAIN sent /\ DOMAIN sent' = DOMAIN sent \cup {m}
            /\ sent'[m] = to /\ \A k \in DOMAIN sent : sent'[k] = sent[k]
            /\ SentSoFar'
            /\ \/ UNCHANGED <<copies, met>>
               \/ /\ \E r \in Routes(to) : copies' = copies \cup {[msg |-> m, to |-> s] : s \in r}
                  /\ met' = met \cup MetWhen(m, to)
            /\ due' \subseteq Messages \X Channels
            /\ met' \subseteq Messages \X Procs \X (1..MaxOld)
            /\ cut' = {}
            /\ refused' \subseteq Payloads \X BOOLEAN /\ LargeRefused'
  BY Sent
<1>2. UNCHANGED <<boxes, members, subs, filed>>
  BY DEF Publish
<1>3. PICK r : /\ r \subseteq subs /\ \A s \in r : Matches(s.sub, to)
               /\ \A s1, s2 \in r : s1.sub = s2.sub /\ Queued(s1.sub) => s1 = s2
               /\ copies' = copies \cup {[msg |-> m, to |-> s] : s \in r}
  <2>1. CASE UNCHANGED copies
    <3>1. copies' = copies \cup {[msg |-> m, to |-> s] : s \in {}}
      BY <2>1
    <3>2. /\ {} \subseteq subs /\ \A s \in {} : Matches(s.sub, to)
          /\ \A s1, s2 \in {} : s1.sub = s2.sub /\ Queued(s1.sub) => s1 = s2
      OBVIOUS
    <3> QED BY <3>1, <3>2
  <2>2. CASE \E r \in Routes(to) : copies' = copies \cup {[msg |-> m, to |-> s] : s \in r}
    BY <2>2, OneRouteEach
  <2> QED BY <1>1, <2>1, <2>2
<1>4. \A k \in copies : k.msg # m
  BY <1>1 DEF Inv, CopiesMatch
<1>5. Typed'
  <2>1. copies' \subseteq [msg: Messages, to: Subscriptions]
    BY <1>3 DEF Inv, Typed
  <2> QED BY <2>1, <1>1, <1>2 DEF Inv, Typed
<1>6. CopiesMatch'
  <2> SUFFICES ASSUME NEW k \in copies'
               PROVE  k.msg \in DOMAIN sent' /\ k.to \in subs' /\ Matches(k.to.sub, sent'[k.msg])
    BY DEF CopiesMatch, Matches
  <2>1. CASE k \in copies
    BY <2>1, <1>1, <1>2 DEF Inv, CopiesMatch
  <2>2. CASE \E s \in r : k = [msg |-> m, to |-> s]
    BY <2>2, <1>1, <1>2, <1>3
  <2> QED BY <1>3, <2>1, <2>2
<1>7. OneCopyPerQueue'
  <2> SUFFICES ASSUME NEW k \in copies', NEW l \in copies',
                      k.msg = l.msg, k.to.sub = l.to.sub, Queued(k.to.sub)
               PROVE  k = l
    BY DEF OneCopyPerQueue
  <2>1. CASE k.msg = m
    <3>1. (\E s \in r : k = [msg |-> m, to |-> s]) /\ \E s \in r : l = [msg |-> m, to |-> s]
      BY <2>1, <1>3, <1>4
    <3> QED BY <3>1, <1>3
  <2>2. CASE k.msg # m
    BY <2>2, <1>3 DEF Inv, OneCopyPerQueue
  <2> QED BY <2>1, <2>2
<1>8. NotYetFiled'
  <2>1. \A k \in copies' : k \in copies \/ k.msg = m
    BY <1>3
  <2> QED BY <2>1, <1>1, <1>2 DEF Inv, NotYetFiled, For
<1>9. SharedOnce'
  BY <1>2 DEF Inv, SharedOnce
<1> QED BY <1>1, <1>5, <1>6, <1>7, <1>8, <1>9 DEF Inv

-----------------------------------------------------------------------------
(* Delivering. *)

LEMMA DeliverStep ==
  ASSUME Inv, NEW k \in copies, Deliver(k)
  PROVE  Inv'
<1> DEFINE for == Filed(k.msg, k.to)
<1>1. k \in [msg: Messages, to: Subscriptions] /\ k.msg \in DOMAIN sent
  BY DEF Inv, Typed, CopiesMatch
<1>2. \A c \in Plain : c \in for => For(k, k.msg, c)
  BY FiledForShared DEF Inv
<1>3. /\ copies' = copies \ {k} /\ due' \subseteq due
      /\ UNCHANGED <<boxes, members, subs, sent, met, refused, cut>>
  BY DEF Deliver
<1>4. filed' = [x \in DOMAIN filed |->
                  IF x[1] = k.msg /\ x[2] = k.to.proc /\ x[3] \in for THEN filed[x] + 1 ELSE filed[x]]
  BY DEF Deliver
<1> HIDE DEF for
<1>5. filed' \in [Messages \X Procs \X Channels -> Nat]
  BY <1>4 DEF Inv, Typed
<1>6. \A m \in Messages, p \in Procs, c \in Plain :
         filed'[<<m, p, c>>] = IF m = k.msg /\ p = k.to.proc /\ c \in for
                               THEN filed[<<m, p, c>>] + 1 ELSE filed[<<m, p, c>>]
  BY <1>4 DEF Inv, Typed, Channels
<1>7. Typed'
  BY <1>3, <1>5 DEF Inv, Typed, SentSoFar
<1>8. CopiesMatch' /\ OneCopyPerQueue' /\ LargeRefused'
  BY <1>3 DEF Inv, CopiesMatch, OneCopyPerQueue, LargeRefused, Matches
\* The copy that is filed was the only one for its channel.
<1>9. \A c \in Plain, l \in copies' : c \in for => ~For(l, k.msg, c)
  <2> SUFFICES ASSUME NEW c \in Plain, NEW l \in copies', c \in for, For(l, k.msg, c)
               PROVE  FALSE
    OBVIOUS
  <2>1. l \in copies /\ l # k
    BY <1>3
  <2>2. l.to.sub \in Subjects /\ k.to.sub \in Subjects /\ sent[k.msg] \in Targets
    BY <2>1, <1>1 DEF Inv, Typed, SentSoFar, Subscriptions
  <2>3. Matches(l.to.sub, sent[k.msg]) /\ Matches(k.to.sub, sent[k.msg])
    BY <2>1 DEF Inv, CopiesMatch, For
  <2>4. Queued(k.to.sub) /\ Queued(l.to.sub) /\ k.to.sub.ch = l.to.sub.ch /\ k.msg = l.msg
    BY <1>2 DEF For
  <2>5. k.to.sub = l.to.sub
    BY <2>2, <2>3, <2>4, SubjectOf
  <2> QED BY <2>1, <2>4, <2>5 DEF Inv, OneCopyPerQueue
<1>10. NotYetFiled'
  <2> SUFFICES ASSUME NEW m \in Messages, NEW c \in Plain, NEW p \in Procs,
                      m \notin DOMAIN sent \/ \E l \in copies' : For(l, m, c)
               PROVE  filed'[<<m, p, c>>] = 0
    BY <1>3 DEF NotYetFiled
  <2>1. filed[<<m, p, c>>] = 0
    BY <1>3 DEF Inv, NotYetFiled
  <2>2. ~(m = k.msg /\ c \in for)
    BY <1>1, <1>9
  <2> QED BY <2>1, <2>2, <1>6
<1>11. SharedOnce'
  <2>1. \A m \in Messages, c \in Plain :
           m = k.msg /\ c \in for => \A p \in Procs : filed[<<m, p, c>>] = 0
    BY <1>2 DEF Inv, NotYetFiled
  <2> QED BY <2>1, <1>6 DEF Inv, SharedOnce
<1> QED BY <1>7, <1>8, <1>10, <1>11 DEF Inv

-----------------------------------------------------------------------------
(* Channels of one process. *)

\* The copies of a message for one process, by the number of the subscription.
Copy(m, p, x, n) == [msg |-> m, to |-> [proc |-> p, sub |-> x, old |-> n]]
Coming(m, p, x) == {n \in 0..MaxOld : Copy(m, p, x, n) \in copies}
Pending(m, p, x) == Cardinality(Coming(m, p, x))

Extra(m, p) == {n \in 1..MaxOld : <<m, p, n>> \in met}
Bound(m, p) == 1 + Cardinality(Extra(m, p))

PrefixIsOwn == \A s \in subs : s.sub.kind = "pc" => s.sub.of = s.proc

OwnFiled ==
    \A m \in Messages, c \in Specific, p \in Procs :
        m \notin DOMAIN sent \/ p # c[1] => filed[<<m, p, c>>] = 0

OwnBounded ==
    \A m \in Messages, c \in Specific, x \in Subjects :
        ~Queued(x) => filed[<<m, c[1], c>>] + Pending(m, c[1], x) <= Bound(m, c[1])

OwnInv == PrefixIsOwn /\ OwnFiled /\ OwnBounded

LEMMA OwnerOf ==
  ASSUME NEW c \in Specific
  PROVE  c[1] \in Procs /\ c \in Channels /\ PcSubject(c[1]) \in Subjects /\ ~Queued(PcSubject(c[1]))
<1>1. c[1] \in Procs
  BY DEF Specific, Own
<1> QED BY <1>1 DEF Channels, Subjects, Queued, PcSubject

\* Without a queue, what a message was sent to tells its subject.
LEMMA SubjectAlone ==
  ASSUME NEW x \in Subjects, NEW y \in Subjects, NEW to \in Targets,
         Matches(x, to), Matches(y, to), ~Queued(x), ~Queued(y)
  PROVE  x = y
<1>1. (\E p \in Procs : x = PcSubject(p)) \/ \E g \in Groups : x = GrpSubject(g)
  BY DEF Subjects, Queued, ChSubject, GrpChSubject
<1>2. (\E p \in Procs : y = PcSubject(p)) \/ \E g \in Groups : y = GrpSubject(g)
  BY DEF Subjects, Queued, ChSubject, GrpChSubject
<1>3. x.kind # "ch" /\ y.kind # "ch"
  BY DEF Queued
<1>4. \A c : x # ChSubject(c) /\ y # ChSubject(c)
  BY <1>3 DEF ChSubject
<1>5. CASE to \in Groups
  <2>1. to \notin Specific
    BY <1>5, NamesTellApart DEF Channels
  <2>2. x.kind # "pc" /\ x.of = to /\ y.kind # "pc" /\ y.of = to
    BY <1>4, <2>1 DEF Matches
  <2> QED BY <2>2, <1>1, <1>2 DEF PcSubject, GrpSubject
<1>6. CASE to \notin Groups
  <2>1. x.kind = "pc" /\ x.of = to[1] /\ y.kind = "pc" /\ y.of = to[1]
    BY <1>4, <1>6 DEF Matches
  <2> QED BY <2>1, <1>1, <1>2 DEF PcSubject, GrpSubject
<1> QED BY <1>5, <1>6

\* A subscription files for the channels of its process.
LEMMA FiledForOwn ==
  ASSUME Inv, PrefixIsOwn, NEW k \in copies, NEW c \in Specific, c \in Filed(k.msg, k.to)
  PROVE  c[1] = k.to.proc /\ ~Queued(k.to.sub)
<1>1. /\ k.to \in Subscriptions /\ k.to.sub \in Subjects /\ k.to \in subs
      /\ k.to.proc \in Procs /\ c \notin Plain
  BY NamesTellApart DEF Inv, Typed, CopiesMatch, Subscriptions
<1>2. CASE \E p \in Procs : k.to.sub = PcSubject(p)
  <2>1. k.to.sub.kind = "pc" /\ \A d : k.to.sub # ChSubject(d)
    BY <1>2 DEF PcSubject, ChSubject
  <2>2. k.to.sub.of = sent[k.msg][1]
    BY <2>1 DEF Inv, CopiesMatch, Matches
  <2>3. c = sent[k.msg]
    BY <2>1 DEF Filed, ProcessDeliver
  <2> QED BY <1>1, <2>1, <2>2, <2>3 DEF PrefixIsOwn, Queued
<1>3. CASE \E g \in Groups : k.to.sub = GrpSubject(g)
  <2>1. c \in boxes[k.to.proc]
    BY <1>3 DEF Filed, GrpSubject, GroupDeliver
  <2>2. c \in Own(k.to.proc)
    BY <1>1, <2>1 DEF Inv, Typed, Readable
  <2> QED BY <1>1, <1>3, <2>2, OwnChannels DEF Queued, GrpSubject
<1>4. CASE \E d \in Plain : k.to.sub = ChSubject(d)
  BY <1>1, <1>4 DEF Filed, ChSubject
<1>5. CASE \E g \in Groups, d \in Plain : k.to.sub = GrpChSubject(g, d)
  BY <1>1, <1>5 DEF Filed, GrpChSubject
<1> QED BY <1>1, <1>2, <1>3, <1>4, <1>5 DEF Subjects

\* Sets of numbers are finite, and the larger one has as many.
LEMMA Numbers ==
  ASSUME NEW S \in SUBSET (0..MaxOld), NEW T \in SUBSET S
  PROVE  /\ IsFiniteSet(S) /\ Cardinality(S) \in Nat
         /\ Cardinality(T) \in Nat /\ Cardinality(T) <= Cardinality(S)
<1>1. IsFiniteSet(0..MaxOld)
  BY FS_Interval, DeliveryConstants
<1>2. IsFiniteSet(S)
  BY <1>1, FS_Subset
<1>3. IsFiniteSet(T) /\ Cardinality(T) <= Cardinality(S)
  BY <1>2, FS_Subset
<1> QED BY <1>2, <1>3, FS_CardinalityType

LEMMA Counts ==
  ASSUME Typed, NEW m \in Messages, NEW c \in Specific, NEW x
  PROVE  /\ filed[<<m, c[1], c>>] \in Nat /\ Bound(m, c[1]) \in Nat \ {0}
         /\ Pending(m, c[1], x) \in Nat /\ Pending(m, c[1], x)' \in Nat
<1>1. filed[<<m, c[1], c>>] \in Nat
  BY OwnerOf DEF Typed
<1>2. /\ Coming(m, c[1], x) \in SUBSET (0..MaxOld) /\ Coming(m, c[1], x)' \in SUBSET (0..MaxOld)
      /\ Extra(m, c[1]) \in SUBSET (0..MaxOld)
  BY DeliveryConstants DEF Coming, Extra
<1>3. Cardinality(Coming(m, c[1], x)) \in Nat /\ Cardinality(Extra(m, c[1])) \in Nat
  BY <1>2, Numbers
<1>4. Pending(m, c[1], x)' \in Nat
  <2>1. Cardinality(Coming(m, c[1], x)') \in Nat
    BY <1>2, Numbers
  <2> QED BY <2>1 DEF Pending
<1> QED BY <1>1, <1>3, <1>4 DEF Pending, Bound

\* Fewer numbers, fewer copies.
LEMMA FewerComing ==
  ASSUME NEW m, NEW p, NEW x, Coming(m, p, x)' \subseteq Coming(m, p, x)
  PROVE  Pending(m, p, x)' <= Pending(m, p, x)
<1>1. Coming(m, p, x) \in SUBSET (0..MaxOld) /\ Coming(m, p, x)' \in SUBSET Coming(m, p, x)
  BY DEF Coming
<1>2. Cardinality(Coming(m, p, x)') <= Cardinality(Coming(m, p, x))
  BY <1>1, Numbers
<1> QED BY <1>2 DEF Pending

LEMMA OneFewer ==
  ASSUME NEW m, NEW p, NEW x, NEW n \in Coming(m, p, x),
         Coming(m, p, x)' \subseteq Coming(m, p, x) \ {n}
  PROVE  Pending(m, p, x)' <= Pending(m, p, x) - 1
<1> DEFINE C == Coming(m, p, x)
<1>1. C \in SUBSET (0..MaxOld) /\ C \ {n} \in SUBSET (0..MaxOld)
  BY DEF Coming
<1>2. Coming(m, p, x)' \in SUBSET (C \ {n}) /\ n \in C
  OBVIOUS
<1> HIDE DEF C
<1>3. IsFiniteSet(C)
  BY <1>1, Numbers
<1>4. Cardinality(C \ {n}) = Cardinality(C) - 1
  BY <1>2, <1>3, FS_RemoveElement
<1>5. Cardinality(Coming(m, p, x)') <= Cardinality(C \ {n})
  BY <1>1, <1>2, Numbers
<1> QED BY <1>4, <1>5 DEF Pending, C

\* What only moves copies along, or drops some.
LEMMA OwnKept ==
  ASSUME Typed, OwnInv, UNCHANGED history, PrefixIsOwn',
         \A m \in Messages, p \in Procs, x \in Subjects : Pending(m, p, x)' <= Pending(m, p, x)
  PROVE  OwnInv'
<1>1. OwnFiled'
  BY DEF OwnInv, OwnFiled, history
<1>2. OwnBounded'
  <2> SUFFICES ASSUME NEW m \in Messages, NEW c \in Specific, NEW x \in Subjects, ~Queued(x)
               PROVE  filed'[<<m, c[1], c>>] + Pending(m, c[1], x)' <= Bound(m, c[1])'
    BY DEF OwnBounded
  <2>1. Bound(m, c[1])' = Bound(m, c[1]) /\ filed' = filed
    BY DEF Bound, Extra, history
  <2>2. filed[<<m, c[1], c>>] + Pending(m, c[1], x) <= Bound(m, c[1])
    BY DEF OwnInv, OwnBounded
  <2>3. Pending(m, c[1], x)' <= Pending(m, c[1], x)
    BY OwnerOf
  <2>4. /\ filed[<<m, c[1], c>>] \in Nat /\ Bound(m, c[1]) \in Nat
        /\ Pending(m, c[1], x) \in Nat /\ Pending(m, c[1], x)' \in Nat
    BY Counts
  <2> QED BY <2>1, <2>2, <2>3, <2>4
<1> QED BY <1>1, <1>2 DEF OwnInv

\* A copy keeps coming, under the number its subscription has from now on.
LEMMA RetiringCounts ==
  ASSUME Inv, NEW gone \in SUBSET Subscriptions, Retiring(gone), \A s \in gone : s.old = 0,
         NEW m \in Messages, NEW p \in Procs, NEW x \in Subjects
  PROVE  Pending(m, p, x)' <= Pending(m, p, x)
<1> DEFINE s == Sub(p, x)
<1> DEFINE to(n) == [proc |-> p, sub |-> x, old |-> n]
<1>0. PICK f \in [gone -> 1..MaxOld] :
            /\ \A r \in gone : Numbered(r, f[r]) \notin subs
            /\ copies' = {Moved(k, gone, f) : k \in copies}
  BY RetiringMoves
<1>1. copies \subseteq [msg: Messages, to: Subscriptions] /\ \A k \in copies : k.to \in subs
  BY DEF Inv, Typed, CopiesMatch
<1>2. ASSUME NEW n \in Coming(m, p, x)'
      PROVE  \/ n \in Coming(m, p, x) /\ to(n) \notin gone
             \/ s \in gone /\ n = f[s] /\ 0 \in Coming(m, p, x)
  <2>1. PICK k \in copies : Copy(m, p, x, n) = Moved(k, gone, f)
    BY <1>0, <1>2 DEF Coming
  <2>2. k.msg = m /\ k = [msg |-> k.msg, to |-> k.to] /\ k.to \in Subscriptions
    BY <2>1, <1>1 DEF Moved, Copy
  <2>3. CASE k.to \notin gone
    <3>1. k.to = to(n)
      BY <2>1, <2>3 DEF Moved, Copy
    <3>2. Copy(m, p, x, n) \in copies
      BY <2>2, <3>1 DEF Copy
    <3> QED BY <2>3, <3>1, <3>2, <1>2 DEF Coming
  <2>4. CASE k.to \in gone
    <3>1. Numbered(k.to, f[k.to]) = to(n)
      BY <2>1, <2>4 DEF Moved, Copy
    <3>2. k.to = [proc |-> k.to.proc, sub |-> k.to.sub, old |-> 0]
      BY <2>2, <2>4 DEF Subscriptions
    <3>3. k.to.proc = p /\ k.to.sub = x /\ n = f[k.to]
      BY <2>2, <3>1 DEF Numbered, Subscriptions
    <3>4. k.to = s
      BY <3>2, <3>3 DEF Sub
    <3>5. k = Copy(m, p, x, 0)
      BY <2>2, <3>2, <3>3 DEF Copy
    <3> QED BY <2>4, <3>3, <3>4, <3>5, DeliveryConstants DEF Coming
  <2> QED BY <2>3, <2>4
<1>3. CASE s \notin gone \/ 0 \notin Coming(m, p, x)
  BY <1>2, <1>3, FewerComing
<1>4. CASE s \in gone /\ 0 \in Coming(m, p, x)
  <2> DEFINE C == Coming(m, p, x)
  <2> DEFINE j == f[s]
  <2>1. j \in 1..MaxOld /\ j \notin C
    <3>1. Numbered(s, j) = to(j)
      BY DEF Numbered, Sub
    <3>2. Copy(m, p, x, j) \in copies => to(j) \in subs
      BY <1>1 DEF Copy
    <3> QED BY <1>0, <1>4, <3>1, <3>2 DEF Coming
  <2>2. to(0) = s
    BY DEF Sub
  <2> HIDE DEF s, to, j
  <2>3. Coming(m, p, x)' \subseteq (C \ {0}) \cup {j}
    BY <1>2, <1>4, <2>2 DEF j
  <2>4. C \in SUBSET (0..MaxOld)
    BY DEF Coming
  <2> HIDE DEF C
  <2>5. IsFiniteSet(C) /\ Cardinality(C) \in Nat
    BY <2>4, Numbers
  <2>6. IsFiniteSet(C \ {0}) /\ Cardinality(C \ {0}) = Cardinality(C) - 1
    BY <2>5, <1>4, FS_RemoveElement DEF C
  <2>7. Cardinality((C \ {0}) \cup {j}) = Cardinality(C)
    <3>1. Cardinality((C \ {0}) \cup {j}) = Cardinality(C \ {0}) + 1
      BY <2>1, <2>6, FS_AddElement
    <3> QED BY <3>1, <2>5, <2>6
  <2>8. (C \ {0}) \cup {j} \in SUBSET (0..MaxOld)
    BY <2>1, <2>4
  <2>9. Cardinality(Coming(m, p, x)') <= Cardinality((C \ {0}) \cup {j})
    BY <2>3, <2>8, Numbers
  <2> QED BY <2>7, <2>9 DEF Pending, C
<1> QED BY <1>3, <1>4

LEMMA OwnRetiring ==
  ASSUME Inv, OwnInv, NEW gone \in SUBSET Subscriptions, Retiring(gone), UNCHANGED history,
         \A s \in gone : s.old = 0 /\ (s.sub.kind = "pc" => s.sub.of = s.proc)
  PROVE  OwnInv'
<1>1. PICK f \in [gone -> 1..MaxOld] : subs' = (subs \ gone) \cup {Numbered(s, f[s]) : s \in gone}
  BY RetiringMoves
<1>2. \A s \in gone : Numbered(s, f[s]).sub = s.sub /\ Numbered(s, f[s]).proc = s.proc
  BY DEF Numbered, Subscriptions
<1>3. PrefixIsOwn'
  BY <1>1, <1>2 DEF OwnInv, PrefixIsOwn
<1>4. \A m \in Messages, p \in Procs, x \in Subjects : Pending(m, p, x)' <= Pending(m, p, x)
  BY RetiringCounts
<1> QED BY <1>3, <1>4, OwnKept DEF Inv

LEMMA OwnTables ==
  ASSUME Inv, OwnInv, NEW p \in Procs, Tables(p)
  PROVE  OwnInv'
<1>1. ASSUME NEW s \in Subscriptions, subs' = subs \cup {s}, UNCHANGED <<copies, history>>,
             s.sub.kind = "pc" => s.sub.of = s.proc
      PROVE  OwnInv'
  <2>1. PrefixIsOwn'
    BY <1>1 DEF OwnInv, PrefixIsOwn
  <2>2. \A m \in Messages, q \in Procs, x \in Subjects : Pending(m, q, x)' <= Pending(m, q, x)
    <3>1. \A m, q, x : Coming(m, q, x)' \subseteq Coming(m, q, x)
      BY <1>1 DEF Coming
    <3> QED BY <3>1, FewerComing
  <2> QED BY <1>1, <2>1, <2>2, OwnKept DEF Inv
<1>2. ASSUME NEW c \in Channels, Mailbox(p, c)
      PROVE  OwnInv'
  <2>1. BoxSubject(c) \in Subjects /\ (BoxSubject(c).kind = "pc" => BoxSubject(c).of = p)
    BY <1>2, OwnChannels DEF Mailbox, BoxSubject, Readable, Subjects, ChSubject, PcSubject
  <2>2. Sub(p, BoxSubject(c)) \in Subscriptions
    BY <2>1, DeliveryConstants DEF Sub, Subscriptions
  <2> QED BY <1>1, <1>2, <2>1, <2>2 DEF Mailbox, Sub, history
<1>3. ASSUME NEW c \in Channels, Discarded(p, c)
      PROVE  OwnInv'
  <2>1. c \in Plain => Sub(p, ChSubject(c)) \in Subscriptions /\ Sub(p, ChSubject(c)).sub.kind # "pc"
    <3>1. c \in Plain => ChSubject(c) \in Subjects /\ ChSubject(c).kind # "pc"
      BY DEF Subjects, ChSubject
    <3> QED BY <3>1, DeliveryConstants DEF Sub, Subscriptions
  <2> DEFINE gone == IF c \in Plain THEN {Sub(p, ChSubject(c))} ELSE {}
  <2>2. gone \in SUBSET Subscriptions /\ \A s \in gone : s.sub.kind # "pc" /\ s.old = 0
    BY <2>1 DEF Sub
  <2>3. Retiring(gone) /\ UNCHANGED history
    BY <1>3 DEF Discarded
  <2> HIDE DEF gone
  <2> QED BY <2>2, <2>3, OwnRetiring
<1>4. \A g \in Groups, c \in Channels : Sub(p, Feeds(g, c)).sub.kind # "pc"
  BY DEF Sub, Feeds, GrpSubject, GrpChSubject
<1>5. ASSUME NEW g \in Groups, NEW c \in Channels, GroupAdd(p, g, c)
      PROVE  OwnInv'
  BY <1>1, <1>4, <1>5, FeedsIs DEF GroupAdd, history
<1>6. ASSUME NEW g \in Groups, NEW c \in Channels, GroupDiscard(p, g, c)
      PROVE  OwnInv'
  <2> DEFINE rest == members[p][g] \ {c}
  <2> DEFINE gone == IF c \in Specific /\ rest \cap Specific # {} THEN {} ELSE {Sub(p, Feeds(g, c))}
  <2>1. gone \in SUBSET Subscriptions /\ \A s \in gone : s.sub.kind # "pc" /\ s.old = 0
    BY <1>4, FeedsIs DEF Sub
  <2>2. Retiring(gone) /\ UNCHANGED history
    BY <1>6 DEF GroupDiscard
  <2> HIDE DEF gone
  <2> QED BY <2>1, <2>2, OwnRetiring
<1>7. CASE Flush(p)
  <2>1. Current(p) \subseteq subs /\ Current(p) \in SUBSET Subscriptions
    BY DEF Current, Inv, Typed
  <2>2. Retiring(Current(p)) /\ UNCHANGED history
    BY <1>7 DEF Flush
  <2>3. \A s \in Current(p) : s.old = 0 /\ (s.sub.kind = "pc" => s.sub.of = s.proc)
    BY <2>1 DEF OwnInv, PrefixIsOwn, Current
  <2> QED BY <2>1, <2>2, <2>3, OwnRetiring
<1> QED BY <1>2, <1>3, <1>5, <1>6, <1>7 DEF Tables

LEMMA OwnPublish ==
  ASSUME Inv, OwnInv, Inv',
         NEW p \in Procs, NEW to \in Targets, NEW size \in Payloads, Publish(p, to, size)
  PROVE  OwnInv'
<1>1. PICK m \in Messages :
            /\ m \notin DOMAIN sent /\ DOMAIN sent' = DOMAIN sent \cup {m}
            /\ \/ UNCHANGED <<copies, met>>
               \/ /\ \E r \in Routes(to) : copies' = copies \cup {[msg |-> m, to |-> s] : s \in r}
                  /\ met' = met \cup MetWhen(m, to)
  BY Sent
<1>2. UNCHANGED <<boxes, members, subs, filed>>
  BY DEF Publish
<1>3. PrefixIsOwn' /\ OwnFiled'
  BY <1>1, <1>2 DEF OwnInv, PrefixIsOwn, OwnFiled
<1>4. \A k \in copies : k.msg # m
  BY <1>1 DEF Inv, CopiesMatch
<1>5. ASSUME NEW c \in Specific, NEW x \in Subjects, ~Queued(x)
      PROVE  filed'[<<m, c[1], c>>] + Pending(m, c[1], x)' <= Bound(m, c[1])'
  <2>1. filed'[<<m, c[1], c>>] = 0
    BY <1>1, <1>2, OwnerOf DEF OwnInv, OwnFiled
  <2>2. Coming(m, c[1], x)' \subseteq Extra(m, c[1])' \cup {0}
    <3> SUFFICES ASSUME NEW n \in 1..MaxOld, Copy(m, c[1], x, n) \in copies'
                 PROVE  <<m, c[1], n>> \in met'
      BY DEF Coming, Extra
    <3> DEFINE o == [proc |-> c[1], sub |-> x, old |-> n]
    <3>1. Copy(m, c[1], x, n) \notin copies
      BY <1>4 DEF Copy
    <3>2. PICK r \in Routes(to) : copies' = copies \cup {[msg |-> m, to |-> s] : s \in r}
      BY <1>1, <3>1
    <3>3. o \in r
      BY <3>1, <3>2 DEF Copy
    <3>4. o \in subs /\ Matches(o.sub, to)
      BY <3>3, OneRouteEach
    <3>5. n \in MetBy(c[1], to)
      BY <3>4, <1>5 DEF MetBy
    <3>6. met' = met \cup MetWhen(m, to)
      BY <1>1, <3>1
    <3>7. <<m, c[1], n>> \in MetWhen(m, to)
      BY <3>5, MetWhenIs, OwnerOf
    <3> QED BY <3>6, <3>7
  <2>3. Extra(m, c[1])' \in SUBSET (0..MaxOld) /\ Extra(m, c[1])' \cup {0} \in SUBSET (0..MaxOld)
    BY DeliveryConstants DEF Extra
  <2>4. 0 \notin Extra(m, c[1])'
    BY DeliveryConstants DEF Extra
  <2> DEFINE E == Extra(m, c[1])'
  <2> HIDE DEF E
  <2>5. IsFiniteSet(E) /\ Cardinality(E) \in Nat
    BY <2>3, Numbers DEF E
  <2>6. Cardinality(E \cup {0}) = Cardinality(E) + 1
    BY <2>4, <2>5, FS_AddElement DEF E
  <2>7. Cardinality(Coming(m, c[1], x)') <= Cardinality(E \cup {0})
    BY <2>2, <2>3, Numbers DEF E
  <2>9. Cardinality(Coming(m, c[1], x)') <= 1 + Cardinality(E) /\ Cardinality(Coming(m, c[1], x)') \in Nat
    <3>1. Cardinality(Coming(m, c[1], x)') \in Nat
      BY <2>2, <2>3, Numbers DEF E
    <3> QED BY <3>1, <2>5, <2>6, <2>7
  <2> QED BY <2>1, <2>9 DEF Pending, Bound, E
<1>6. ASSUME NEW n \in Messages, NEW c \in Specific, NEW x \in Subjects, ~Queued(x), n # m
      PROVE  filed'[<<n, c[1], c>>] + Pending(n, c[1], x)' <= Bound(n, c[1])'
  <2>1. \A k : Copy(n, c[1], x, k) \in copies' <=> Copy(n, c[1], x, k) \in copies
    BY <1>1, <1>6 DEF Copy
  <2>2. Coming(n, c[1], x)' = Coming(n, c[1], x)
    BY <2>1 DEF Coming, Copy
  <2>3. Extra(n, c[1])' = Extra(n, c[1])
    BY <1>1, <1>6, MetWhenIs DEF Extra
  <2>4. filed[<<n, c[1], c>>] + Pending(n, c[1], x) <= Bound(n, c[1])
    BY <1>6 DEF OwnInv, OwnBounded
  <2> QED BY <2>2, <2>3, <2>4, <1>2 DEF Pending, Bound
<1>7. OwnBounded'
  BY <1>5, <1>6 DEF OwnBounded
<1> QED BY <1>3, <1>7 DEF OwnInv

LEMMA OwnDeliver ==
  ASSUME Inv, OwnInv, NEW k \in copies, Deliver(k)
  PROVE  OwnInv'
<1> DEFINE for == Filed(k.msg, k.to)
<1>1. /\ k \in [msg: Messages, to: Subscriptions] /\ k.msg \in DOMAIN sent
      /\ k.to.sub \in Subjects /\ Matches(k.to.sub, sent[k.msg]) /\ sent[k.msg] \in Targets
  BY DEF Inv, Typed, CopiesMatch, SentSoFar, Subscriptions
<1>2. \A c \in Specific : c \in for => c[1] = k.to.proc /\ ~Queued(k.to.sub)
  BY FiledForOwn DEF OwnInv
<1>3. /\ copies' = copies \ {k}
      /\ UNCHANGED <<boxes, members, subs, sent, met, refused, cut>>
  BY DEF Deliver
<1>4. filed' = [x \in DOMAIN filed |->
                  IF x[1] = k.msg /\ x[2] = k.to.proc /\ x[3] \in for THEN filed[x] + 1 ELSE filed[x]]
  BY DEF Deliver
<1> HIDE DEF for
<1>5. \A m \in Messages, p \in Procs, c \in Specific :
         filed'[<<m, p, c>>] = IF m = k.msg /\ p = k.to.proc /\ c \in for
                               THEN filed[<<m, p, c>>] + 1 ELSE filed[<<m, p, c>>]
  BY <1>4 DEF Inv, Typed, Channels
<1>6. PrefixIsOwn'
  BY <1>3 DEF OwnInv, PrefixIsOwn
<1>7. OwnFiled'
  <2> SUFFICES ASSUME NEW m \in Messages, NEW c \in Specific, NEW p \in Procs,
                      m \notin DOMAIN sent \/ p # c[1]
               PROVE  filed'[<<m, p, c>>] = 0
    BY <1>3 DEF OwnFiled
  <2>1. filed[<<m, p, c>>] = 0 /\ ~(m = k.msg /\ p = k.to.proc /\ c \in for)
    BY <1>1, <1>2 DEF OwnInv, OwnFiled
  <2> QED BY <2>1, <1>5
<1>8. ASSUME NEW m \in Messages, NEW c \in Specific, NEW x \in Subjects, ~Queued(x)
      PROVE  filed'[<<m, c[1], c>>] + Pending(m, c[1], x)' <= Bound(m, c[1])'
  <2>1. Bound(m, c[1])' = Bound(m, c[1])
    BY <1>3 DEF Bound, Extra
  <2>2. Coming(m, c[1], x)' \subseteq Coming(m, c[1], x)
    BY <1>3 DEF Coming
  <2>3. filed[<<m, c[1], c>>] + Pending(m, c[1], x) <= Bound(m, c[1])
    BY <1>8 DEF OwnInv, OwnBounded
  <2>4. /\ filed[<<m, c[1], c>>] \in Nat /\ Bound(m, c[1]) \in Nat
        /\ Pending(m, c[1], x) \in Nat /\ Pending(m, c[1], x)' \in Nat
    BY Counts DEF Inv
  <2>5. CASE ~(m = k.msg /\ c \in for)
    <3>1. filed'[<<m, c[1], c>>] = filed[<<m, c[1], c>>]
      BY <2>5, <1>5, OwnerOf
    <3>2. Pending(m, c[1], x)' <= Pending(m, c[1], x)
      BY <2>2, FewerComing
    <3> QED BY <3>1, <3>2, <2>1, <2>3, <2>4
  <2>6. CASE m = k.msg /\ c \in for
    <3> DEFINE n == k.to.old
    <3> DEFINE y == k.to.sub
    <3>1. filed'[<<m, c[1], c>>] = filed[<<m, c[1], c>>] + 1
      BY <2>6, <1>2, <1>5, OwnerOf
    <3>2. y \in Subjects /\ ~Queued(y) /\ n \in Coming(m, c[1], y)
      <4>1. k = Copy(m, c[1], y, n)
        BY <1>1, <1>2, <2>6 DEF Copy, Subscriptions
      <4>2. n \in 0..MaxOld
        BY <1>1 DEF Subscriptions
      <4> QED BY <4>1, <4>2, <1>1, <1>2, <2>6 DEF Coming
    <3>3. n \notin Coming(m, c[1], y)'
      BY <1>1, <1>2, <1>3, <2>6 DEF Coming, Copy, Subscriptions
    <3> HIDE DEF n, y
    <3>4. CASE x = y
      <4>1. Coming(m, c[1], x)' \subseteq Coming(m, c[1], x) \ {n} /\ n \in Coming(m, c[1], x)
        BY <2>2, <3>2, <3>3, <3>4
      <4>2. Pending(m, c[1], x)' <= Pending(m, c[1], x) - 1
        BY <4>1, OneFewer
      <4> QED BY <4>2, <3>1, <2>1, <2>3, <2>4
  \* A subject that takes what another one of the process has taken has no copy.
    <3>5. CASE x # y
      <4>1. ~Matches(x, sent[m])
        BY <2>6, <3>2, <3>5, <1>1, <1>8, SubjectAlone DEF y
      <4>2. \A l \in copies : ~(l.msg = m /\ l.to.sub = x)
        BY <4>1 DEF Inv, CopiesMatch
      <4>3. Coming(m, c[1], x)' = {}
        BY <4>2, <1>3 DEF Coming, Copy
      <4>4. Pending(m, c[1], x)' = 0
        BY <4>3, FS_EmptySet DEF Pending
      <4>5. filed[<<m, c[1], c>>] + Pending(m, c[1], y) <= Bound(m, c[1])
        BY <3>2 DEF OwnInv, OwnBounded
      <4>6. Pending(m, c[1], y) # 0 /\ Pending(m, c[1], y) \in Nat
        <5>1. Coming(m, c[1], y) \in SUBSET (0..MaxOld)
          BY DEF Coming
        <5>2. IsFiniteSet(Coming(m, c[1], y)) /\ Cardinality(Coming(m, c[1], y)) \in Nat
          BY <5>1, Numbers
        <5> QED BY <5>2, <3>2, FS_EmptySet DEF Pending
      <4> QED BY <4>4, <4>5, <4>6, <3>1, <2>1, <2>4
    <3> QED BY <3>4, <3>5
  <2> QED BY <2>5, <2>6
<1>9. OwnBounded'
  BY <1>8 DEF OwnBounded
<1> QED BY <1>6, <1>7, <1>9 DEF OwnInv
-----------------------------------------------------------------------------
(* The theorems. *)

LEMMA Starts ==
  ASSUME Init
  PROVE  Inv
<1>1. sent \in [1..0 -> Targets] /\ DOMAIN sent = {}
  BY DEF Init
<1>2. Typed
  <2>1. SentSoFar
    BY <1>1, DeliveryConstants DEF SentSoFar
  <2> QED BY <2>1 DEF Init, Typed
<1>3. SharedOnce
  BY DEF Init, SharedOnce, Channels
<1>4. NotYetFiled
  BY DEF Init, NotYetFiled, Channels
<1>5. CopiesMatch /\ OneCopyPerQueue /\ LargeRefused
  BY DEF Init, CopiesMatch, OneCopyPerQueue, LargeRefused
<1> QED BY <1>2, <1>3, <1>4, <1>5 DEF Inv

LEMMA Steps ==
  ASSUME Inv, [Next]_vars
  PROVE  Inv'
<1>1. CASE \E p \in Procs : Tables(p)
  <2>1. PICK p \in Procs : Tables(p)
    BY <1>1
  <2>2. CASE \E c \in Channels : Mailbox(p, c) \/ Discarded(p, c)
    BY <2>2, MailboxStep, DiscardedStep
  <2>3. CASE \E g \in Groups, c \in Channels : GroupAdd(p, g, c) \/ GroupDiscard(p, g, c)
    BY <2>3, GroupAddStep, GroupDiscardStep
  <2>4. CASE Flush(p)
    BY <2>4, FlushStep
  <2> QED BY <2>1, <2>2, <2>3, <2>4 DEF Tables
<1>2. CASE \E p \in Procs, to \in Targets, size \in Payloads : Send(p, to, size) \/ GroupSend(p, to, size)
  BY <1>2, PublishStep DEF Send, GroupSend
<1>3. CASE \E s \in subs : Unsubscribed(s)
  BY <1>3, UnsubscribedStep
<1>4. CASE \E k \in copies : Deliver(k)
  BY <1>4, DeliverStep
<1>5. CASE UNCHANGED vars
  <2>1. CopiesMatch' /\ OneCopyPerQueue' /\ NotYetFiled'
    BY <1>5, SubsGrow DEF vars
  <2>2. SharedOnce' /\ LargeRefused' /\ SentSoFar'
    BY <1>5, HistoryKept DEF vars, history
  <2>3. Typed'
    BY <1>5, <2>2 DEF vars, Inv, Typed
  <2> QED BY <2>1, <2>2, <2>3 DEF Inv
<1> QED BY <1>1, <1>2, <1>3, <1>4, <1>5 DEF Next

LEMMA InvHolds == Spec => []Inv
BY Starts, Steps, PTL DEF Spec

\* A shared channel is a queue: a message for it, or for a group it is in, is filed once,
\* however many processes there are and whichever subscriptions are being replaced.
THEOREM FiledOnce == Spec => []SharedOnce
<1>1. Inv => SharedOnce
  BY DEF Inv
<1> QED BY <1>1, InvHolds, PTL

\* `_frame_size()` counts what nats-py writes: the server never closes the connection over a
\* frame, and what is refused would not have fitted.
THEOREM FramesFit == Spec => []SizesAgree
<1>1. Inv => SizesAgree
  BY DEF Inv, Typed, SizesAgree, LargeRefused
<1> QED BY <1>1, InvHolds, PTL

\* The tables are typed: a process has mailboxes for its own channels and shared ones, and
\* no copy outlives its subscription.
THEOREM DeliveryTyped == Spec => []TypeOK
<1>1. Inv => TypeOK
  <2> SUFFICES ASSUME Inv PROVE TypeOK
    OBVIOUS
  <2>1. DOMAIN sent \subseteq Messages
    BY DeliveryConstants DEF Inv, Typed, SentSoFar, Messages
  <2>2. \A k \in copies : k.msg \in DOMAIN sent /\ k.to \in subs
    BY DEF Inv, CopiesMatch
  <2>3. \A s \in subs : s.proc \in Procs /\ s.old \in 0..MaxOld
    BY DEF Inv, Typed, Subscriptions
  <2> QED BY <2>1, <2>2, <2>3 DEF Inv, Typed, TypeOK, Readable
<1> QED BY <1>1, InvHolds, PTL

LEMMA OwnStarts ==
  ASSUME Init
  PROVE  OwnInv
<1>1. PrefixIsOwn
  BY DEF Init, PrefixIsOwn
<1>2. OwnFiled
  BY DEF Init, OwnFiled, Channels
<1>3. OwnBounded
  <2> SUFFICES ASSUME NEW m \in Messages, NEW c \in Specific, NEW x \in Subjects
               PROVE  filed[<<m, c[1], c>>] + Pending(m, c[1], x) <= Bound(m, c[1])
    BY DEF OwnBounded
  <2>1. filed[<<m, c[1], c>>] = 0
    BY OwnerOf DEF Init
  <2>2. Coming(m, c[1], x) = {} /\ Extra(m, c[1]) = {}
    BY DEF Init, Coming, Extra
  <2>3. Pending(m, c[1], x) = 0 /\ Bound(m, c[1]) = 1
    BY <2>2, FS_EmptySet DEF Pending, Bound
  <2> QED BY <2>1, <2>3
<1> QED BY <1>1, <1>2, <1>3 DEF OwnInv

LEMMA OwnSteps ==
  ASSUME Inv, OwnInv, Inv', [Next]_vars
  PROVE  OwnInv'
<1>1. CASE \E p \in Procs : Tables(p)
  BY <1>1, OwnTables
<1>2. CASE \E p \in Procs, to \in Targets, size \in Payloads : Send(p, to, size) \/ GroupSend(p, to, size)
  BY <1>2, OwnPublish DEF Send, GroupSend
<1>3. ASSUME copies' \subseteq copies, subs' \subseteq subs, UNCHANGED history
      PROVE  OwnInv'
  <2>1. PrefixIsOwn'
    BY <1>3 DEF OwnInv, PrefixIsOwn
  <2>2. ASSUME NEW m \in Messages, NEW p \in Procs, NEW x \in Subjects
        PROVE  Pending(m, p, x)' <= Pending(m, p, x)
    <3>1. Coming(m, p, x)' \subseteq Coming(m, p, x)
      BY <1>3 DEF Coming
    <3> QED BY <3>1, FewerComing
  <2> QED BY <1>3, <2>1, <2>2, OwnKept DEF Inv
<1>4. CASE \E s \in subs : Unsubscribed(s)
  BY <1>3, <1>4 DEF Unsubscribed
<1>5. CASE \E k \in copies : Deliver(k)
  BY <1>5, OwnDeliver
<1>6. CASE UNCHANGED vars
  BY <1>3, <1>6 DEF vars, history
<1> QED BY <1>1, <1>2, <1>4, <1>5, <1>6 DEF Next

\* A process channel gets a message in its own process only, once; and once more for every
\* subscription of the process that was still on its way down when the message was sent,
\* however many of them flush() and group_discard() had left there.
THEOREM OwnFiledOnce == Spec => []OwnOnce
<1>1. Inv /\ OwnInv => OwnOnce
  <2> SUFFICES ASSUME Inv, OwnInv, NEW m \in Messages, NEW c \in Specific, NEW p \in Procs
               PROVE  filed[<<m, p, c>>] <= IF p = c[1] THEN 1 + Cardinality(Extra(m, p)) ELSE 0
    BY DEF OwnOnce, Extra
  <2>1. CASE p # c[1]
    BY <2>1 DEF OwnInv, OwnFiled
  <2>2. CASE p = c[1]
    <3>1. filed[<<m, c[1], c>>] + Pending(m, c[1], PcSubject(c[1])) <= Bound(m, c[1])
      BY OwnerOf DEF OwnInv, OwnBounded
    <3> QED BY <2>2, <3>1, Counts DEF Inv, Bound
  <2> QED BY <2>1, <2>2
<1>2. Init => Inv /\ OwnInv
  BY Starts, OwnStarts
<1>3. Inv /\ OwnInv /\ [Next]_vars => Inv' /\ OwnInv'
  BY Steps, OwnSteps
<1> QED BY <1>1, <1>2, <1>3, PTL DEF Spec
=============================================================================
