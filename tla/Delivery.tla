------------------------------ MODULE Delivery ------------------------------
(***************************************************************************)
(* From `send()` and `group_send()` to mailboxes, across processes: the    *)
(* subjects messages are published to, the subscriptions and queue groups  *)
(* under which processes hold a share of them, the callbacks that file     *)
(* them, the bound on what may be sent, and the time in which an old       *)
(* subscription and the one that replaces it are both on the server.       *)
(*                                                                         *)
(* One loop in each process.  How its tables come about across awaits is   *)
(* LoopState's; here a call changes them and the subscriptions at once.    *)
(***************************************************************************)
EXTENDS Naturals, FiniteSets

CONSTANTS Procs,
          Workers,     \* those that make no channel of their own (a bound)
          Names,       \* what new_channel() tells the channels of a process apart by
          Bare,        \* the name that a read on the prefix alone uses
          Plain,       \* shared channels
          Groups,
          Payloads,    \* sizes
          NameChars, NameBytes,  \* the length of a process channel's name
          KeyBytes,    \* of the header that carries it
          MaxPayload,
          MaxSent,     \* bound on the messages sent
          MaxOld       \* bound on the subscriptions of one kind on their way down at a time

ASSUME DeliveryConstants ==
    /\ Bare \notin Names /\ Workers \subseteq Procs
    /\ Payloads \subseteq Nat /\ {NameChars, NameBytes, KeyBytes, MaxPayload, MaxSent, MaxOld} \subseteq Nat

VARIABLES boxes,    \* process -> the channels it has a mailbox for
          members,  \* process, group -> channels
          subs,     \* what the server has
          copies,   \* messages on their way to a subscription's callback
          sent,     \* what each message was published to
          filed,    \* history: how often a process filed a message for a channel
          due,      \* history: whom a message must still reach
          met,      \* history: <<m, p, n>>: m also came to old subscription n of p
          refused,  \* history: frames that raised MessageTooLarge
          cut       \* processes whose connection the server closed over a frame

vars == <<boxes, members, subs, copies, sent, filed, due, met, refused, cut>>

Own(p) == {<<p, n>> : n \in IF p \in Workers THEN {} ELSE Names \cup {Bare}}
Specific == UNION {Own(p) : p \in Procs}
Channels == Specific \cup Plain

\* A name tells whose channel it is, and the subject a group from a channel.
ASSUME NamesTellApart == Plain \cap Specific = {} /\ Groups \cap Channels = {}

\* Subjects, and the queue group of a subscription: None for those every process has alone.
PcSubject(p) == [kind |-> "pc", of |-> p, ch |-> p]
ChSubject(c) == [kind |-> "ch", of |-> c, ch |-> c]
GrpSubject(g) == [kind |-> "grp", of |-> g, ch |-> g]
GrpChSubject(g, c) == [kind |-> "grpch", of |-> g, ch |-> c]

Queued(x) == x.kind \in {"ch", "grpch"}

\* Number 0 is the one the tables know; the others are on their way down.
Numbered(s, n) == [s EXCEPT !.old = n]
Sub(p, x) == [proc |-> p, sub |-> x, old |-> 0]
Current(p) == {s \in subs : s.proc = p /\ s.old = 0}

Targets == Channels \cup Groups
Messages == 1..MaxSent

TypeOK ==
    /\ boxes \in [Procs -> SUBSET Channels]
    /\ members \in [Procs -> [Groups -> SUBSET Channels]]
    /\ \A s \in subs : s.proc \in Procs /\ s.old \in 0..MaxOld
    /\ \A c \in copies : c.msg \in DOMAIN sent /\ c.to \in subs
    /\ DOMAIN sent \subseteq Messages
    /\ filed \in [Messages \X Procs \X Channels -> Nat]
    /\ due \subseteq Messages \X Channels
    /\ met \subseteq Messages \X Procs \X (1..MaxOld)
    /\ cut \subseteq Procs
    /\ \A p \in Procs : boxes[p] \subseteq Own(p) \cup Plain

Init ==
    /\ boxes = [p \in Procs |-> {}]
    /\ members = [p \in Procs |-> [g \in Groups |-> {}]]
    /\ subs = {} /\ copies = {}
    /\ sent = [m \in {} |-> {}]
    /\ filed = [x \in Messages \X Procs \X Channels |-> 0]
    /\ due = {} /\ met = {} /\ refused = {} /\ cut = {}

-----------------------------------------------------------------------------
(* The tables of a process, and the subscriptions that follow them. *)

\* Numbers that no subscription of this kind on its way down has.
Unused(s) == {n \in 1..MaxOld : Numbered(s, n) \notin subs}

Old(s) == Numbered(s, CHOOSE n \in Unused(s) : TRUE)

\* Unsubscribes under way, however many before them.  A copy on its way to such a
\* subscription may still be handed over.
Retiring(gone) ==
    /\ \A s \in gone : Unused(s) # {}
    /\ subs' = (subs \ gone) \cup {Old(s) : s \in gone}
    /\ copies' = {[c EXCEPT !.to = IF @ \in gone THEN Old(@) ELSE @] : c \in copies}

history == <<sent, filed, met, refused, cut>>

BoxSubject(c) == IF c \in Plain THEN ChSubject(c) ELSE PcSubject(c[1])

\* Also the channels of other processes (variant with a bug).
ReadsAnything(p) == Channels

\* What a process may read: its own channels, and shared ones.
Readable(p) == Own(p) \cup Plain

\* _mailbox()
Mailbox(p, c) ==
    /\ c \in Readable(p) \ boxes[p]
    /\ boxes' = [boxes EXCEPT ![p] = @ \cup {c}]
    /\ subs' = subs \cup {Sub(p, BoxSubject(c))}
    /\ UNCHANGED <<members, copies, due, history>>

InAGroup(p, c) == \E g \in Groups : c \in members[p][g]

\* A process channel is swept, a plain one released: nothing it was to get is due any more.
Discarded(p, c) ==
    /\ c \in boxes[p] /\ ~InAGroup(p, c)
    /\ boxes' = [boxes EXCEPT ![p] = @ \ {c}]
    /\ due' = {d \in due : d[2] # c}
    /\ Retiring(IF c \in Plain THEN {Sub(p, ChSubject(c))} ELSE {})
    /\ UNCHANGED <<members, history>>

Feeds(g, c) == IF c \in Plain THEN GrpChSubject(g, c) ELSE GrpSubject(g)

GroupAdd(p, g, c) ==
    /\ c \in boxes[p] \ members[p][g]
    /\ members' = [members EXCEPT ![p][g] = @ \cup {c}]
    /\ subs' = subs \cup {Sub(p, Feeds(g, c))}
    /\ UNCHANGED <<boxes, copies, due, history>>

GroupDiscard(p, g, c) ==
    LET rest == members[p][g] \ {c}
    IN  /\ c \in members[p][g]
        /\ members' = [members EXCEPT ![p][g] = rest]
        /\ due' = {d \in due : d[2] # c}
        /\ Retiring(IF c \in Specific /\ rest \cap Specific # {} THEN {} ELSE {Sub(p, Feeds(g, c))})
        /\ UNCHANGED <<boxes, history>>

Flush(p) ==
    /\ boxes[p] # {}
    /\ boxes' = [boxes EXCEPT ![p] = {}]
    /\ members' = [members EXCEPT ![p] = [g \in Groups |-> {}]]
    /\ due' = {d \in due : d[2] \notin boxes[p]}
    /\ Retiring(Current(p))
    /\ UNCHANGED history

\* The unsubscribe has gone through, here and on the server.
Unsubscribed(s) ==
    /\ s \in subs /\ s.old # 0
    /\ subs' = subs \ {s}
    /\ copies' = {c \in copies : c.to # s}
    /\ UNCHANGED <<boxes, members, due, history>>

-----------------------------------------------------------------------------
(* Sending. *)

\* The name counted in characters (variant with a bug).
FrameInChars(size, named) == IF named THEN size + 8 + 2 + 2 + KeyBytes + 2 + NameChars + 2 ELSE size

\* _frame_size()
FrameSize(size, named) == IF named THEN size + 8 + 2 + 2 + KeyBytes + 2 + NameBytes + 2 ELSE size

\* What nats-py writes: NATS/1.0, one "key: value" line, a blank line, the payload.
WireSize(size, named) ==
    LET crlf == 2
        header == (8 + crlf) + (KeyBytes + 2 + NameBytes + crlf) + crlf
    IN  IF named THEN header + size ELSE size

\* The subject a message is published to, as a subscription sees it.
Matches(x, to) ==
    \/ to \in Groups /\ x.kind \in {"grp", "grpch"} /\ x.of = to
    \/ to \in Plain /\ x = ChSubject(to)
    \/ to \in Specific /\ x.kind = "pc" /\ x.of = to[1]

\* The server gives a copy to every subscription without a queue and to one in each queue.
Routes(to) ==
    LET matching == {s \in subs : Matches(s.sub, to)}
        alone == {s \in matching : ~Queued(s.sub)}
        queues == {s.sub : s \in matching \ alone}
    IN  {alone \cup {pick[x] : x \in queues} :
            pick \in {f \in [queues -> matching] : \A x \in queues : f[x].sub = x}}

\* Whom it must reach: a process channel that has a mailbox, and a shared one unless the
\* queue may choose a subscription on its way down.
Owed(to) ==
    LET served(x) == \E s \in subs : s.sub = x /\ \A r \in subs : r.sub = x => r.old = 0
    IN  IF to \in Groups
        THEN {c \in Channels : IF c \in Plain THEN served(GrpChSubject(to, c)) ELSE c \in members[c[1]][to]}
        ELSE {c \in {to} : IF c \in Plain THEN served(ChSubject(c)) ELSE c \in boxes[c[1]]}

\* The old subscriptions of p that get a copy of their own, beside its current one's.
MetBy(p, to) ==
    {n \in 1..MaxOld : \E s \in subs : s.proc = p /\ s.old = n /\ ~Queued(s.sub) /\ Matches(s.sub, to)}

Publish(p, to, size) ==
    LET named == to \in Specific
        m == Cardinality(DOMAIN sent) + 1
    IN  /\ m \in Messages /\ p \notin cut
        /\ sent' = [n \in 1..m |-> IF n = m THEN to ELSE sent[n]]
        /\ IF FrameSize(size, named) > MaxPayload
           THEN /\ refused' = refused \cup {<<size, named>>}
                /\ UNCHANGED <<copies, due, met, cut>>
           ELSE IF WireSize(size, named) > MaxPayload
           THEN /\ cut' = cut \cup {p}
                /\ UNCHANGED <<copies, due, met, refused>>
           ELSE /\ \E r \in Routes(to) : copies' = copies \cup {[msg |-> m, to |-> s] : s \in r}
                /\ due' = due \cup ({m} \X Owed(to))
                /\ met' = met \cup UNION {{<<m, q, n>> : n \in MetBy(q, to)} : q \in Procs}
                /\ UNCHANGED <<refused, cut>>
        /\ UNCHANGED <<boxes, members, subs, filed>>

Send(p, c, size) == c \in Channels /\ Publish(p, c, size)
GroupSend(p, g, size) == g \in Groups /\ Publish(p, g, size)

-----------------------------------------------------------------------------
(* The callbacks: which mailboxes of process p a copy is filed in, and for which channel. *)

\* By the Channel header, or in the mailbox of the prefix.
ProcessDeliver(p, c) == IF {c, <<p, Bare>>} \cap boxes[p] # {} THEN {c} ELSE {}

\* Plain members filed too (variant with a bug).
GroupDeliverAll(p, g) == members[p][g] \cap boxes[p]

\* The loop over the members ends at a plain one (variant with a bug).
GroupDeliverUntilPlain(p, g) ==
    IF members[p][g] \cap Plain = {} THEN members[p][g] \cap boxes[p] ELSE {}

\* Plain members have a subscription of their own.
GroupDeliver(p, g) == members[p][g] \cap boxes[p] \cap Specific

\* An old subscription of a plain channel has an old mailbox, which nobody reads.
Filed(m, s) ==
    CASE s.sub.kind = "pc" -> ProcessDeliver(s.proc, sent[m])
      [] s.sub.kind = "ch" -> IF s.old # 0 THEN {} ELSE {s.sub.ch}
      [] s.sub.kind = "grp" -> GroupDeliver(s.proc, s.sub.of)
      [] s.sub.kind = "grpch" -> {s.sub.ch} \cap boxes[s.proc]

Deliver(c) ==
    LET for == Filed(c.msg, c.to)
    IN  /\ c \in copies
        /\ copies' = copies \ {c}
        /\ filed' = [x \in DOMAIN filed |->
                       IF x[1] = c.msg /\ x[2] = c.to.proc /\ x[3] \in for THEN filed[x] + 1 ELSE filed[x]]
        /\ due' = due \ ({c.msg} \X for)
        /\ UNCHANGED <<boxes, members, subs, sent, met, refused, cut>>

-----------------------------------------------------------------------------
Tables(p) ==
    \/ \E c \in Channels : Mailbox(p, c) \/ Discarded(p, c)
    \/ \E g \in Groups, c \in Channels : GroupAdd(p, g, c) \/ GroupDiscard(p, g, c)
    \/ Flush(p)

Next ==
    \/ \E p \in Procs : Tables(p)
    \/ \E p \in Procs, to \in Targets, size \in Payloads : Send(p, to, size) \/ GroupSend(p, to, size)
    \/ \E s \in subs : Unsubscribed(s)
    \/ \E c \in copies : Deliver(c)

Spec == Init /\ [][Next]_vars

\* nats-py calls a subscription's callback for what came in.
FairSpec == Spec /\ WF_vars(\E c \in copies : Deliver(c))
-----------------------------------------------------------------------------
(* What must hold. *)

\* A shared channel is a queue: a message for it, or for a group it is in, is filed in one
\* mailbox of one process, however many read it or have joined it to the group, and also
\* while subscriptions are being replaced.
SharedOnce ==
    \A m \in Messages, c \in Plain :
        /\ \A p \in Procs : filed[<<m, p, c>>] <= 1
        /\ \A p, q \in Procs : filed[<<m, p, c>>] = 1 /\ filed[<<m, q, c>>] = 1 => p = q

\* A process channel gets a message once, from its group too, and in its own process only;
\* once more for every subscription of its process that flush() or group_discard() was still
\* taking down when the message was sent.
OwnOnce ==
    \A m \in Messages, c \in Specific, p \in Procs :
        filed[<<m, p, c>>] <= IF p = c[1] THEN 1 + Cardinality({n \in 1..MaxOld : <<m, p, n>> \in met}) ELSE 0

\* What a mailbox is owed is filed in it, as long as nobody gives it up meanwhile: a member's
\* place in the group or what other channels share its subscription makes no difference.
Reaches == \A m \in Messages : (\E c \in Channels : <<m, c>> \in due) ~> (\A c \in Channels : <<m, c>> \notin due)

\* The layer refuses exactly the frames over which the server would close the connection,
\* and every channel of the process with it (#39).
SizesAgree == cut = {} /\ \A r \in refused : WireSize(r[1], r[2]) > MaxPayload
=============================================================================
