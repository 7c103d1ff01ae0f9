-------------------------- MODULE ConnectionProofs --------------------------
(***************************************************************************)
(* For any callers, states, clients and subjects: who holds a connection,  *)
(* what the tables hold while it is restored, and what close() and the end *)
(* of the loop leave.                                                      *)
(***************************************************************************)
EXTENDS Connection, FiniteSetTheorems, TLAPS

UpFor(s) == [status |-> "up", socket |-> TRUE, of |-> s]
Opening(s) == [status |-> "opening", socket |-> TRUE, of |-> s]
Cut(s) == [status |-> "closed", socket |-> TRUE, of |-> s]

\* Which arguments a coroutine has, by where it is.
Shaped(t) ==
    LET me == task[t] IN
        /\ me.pc = "idle" => me = Idle
        /\ me.pc \in Connecting \cup {"lock"} <=> me.st # None
        /\ me.pc \in Connecting \cup {"subscribe", "drain", "hard"} => me.k # None
        /\ me.pc \in {"idle", "queued", "lock", "sleep"} => me.k = None
        /\ me.pc \in Closing \cup {"queued", "subscribe"} => me.own # None /\ t \notin StateIds
        /\ me.pc \in {"queued", "subscribe"} => me.want # None
        /\ me.want # None => me.own # None
        /\ t \in StateIds => me.want = None /\ me.own = None /\ me.st \in {None, t}
        /\ t \notin StateIds => me.pc # "sleep"

\* state.lock excludes.
Excludes ==
    \A t, u \in Tasks :
        task[t].pc \in Connecting /\ task[u].pc \in Connecting /\ task[t].st = task[u].st => t = u

\* What was made on this loop has its wrapper in loop.close.
Wrapped(s) == s = None \/ s \in Range(closers)
AllWrapped ==
    loop = "open" =>
        /\ orphaned = 0 /\ last = None
        /\ Wrapped(listed)
        /\ \A k \in ClientIds : Wrapped(client[k].of)
        /\ \A t \in Tasks : Wrapped(task[t].own) /\ Wrapped(task[t].st)
        /\ \A s \in StateIds : task[s] # Idle => Wrapped(s)

\* A client being connected or restored is in nobody else's hands, its state without a usable one.
MakerOK(t) ==
    LET me == task[t]
        k == task[t].k
        s == task[t].st
    IN  me.pc \in Connecting =>
        /\ ~Usable(s)
        /\ me.pc = "connect" => client[k] = Opening(s)
        /\ me.pc = "restore" => client[k] \in {NoClient, UpFor(s)}
        /\ me.pc = "undo" => client[k] \in {NoClient, Cut(s)}
        /\ me.pc # "connect" => Stale(s)
        /\ \A u \in Tasks : u # t => task[u].k # k
        /\ k \notin behind
        /\ \A q \in StateIds : k \notin state[q].cleanups
        /\ \A q \in StateIds : Referred(q) =>
              /\ state[q].client # k
              /\ me.pc = "connect" => \A x \in Subjects : state[q].table[x] # k

\* A call that subscribes does so on the client of the state it keeps to, or on a closed one.
CallerOK(t) ==
    LET me == task[t] IN
        /\ me.pc \in Connecting \cup {"lock"} /\ me.own # None /\ me.own = listed => me.st = listed
        /\ me.pc = "subscribe" /\ me.own = listed /\ client[me.k].status = "up" => state[listed].client = me.k

\* What close() closes is not the client of the state that is listed now.
Elsewhere(k) == listed # None => state[listed].client # k /\ client[k].of # listed
CloserOK(t) ==
    LET me == task[t] IN
        me.pc \in Closing =>
            /\ me.own # listed
            /\ me.k # None => Elsewhere(me.k)
            /\ me.pc = "settle" /\ me.k # None => state[me.own].client = me.k \/ IsClosed(me.k)

CallsOK == \A t \in Tasks : Shaped(t) /\ MakerOK(t) /\ CallerOK(t) /\ CloserOK(t)

\* Only clients that never came up are left to close later, and only with the listed state.
CleanupsOK ==
    loop = "open" => \A s \in StateIds, k \in ClientIds : k \in state[s].cleanups =>
        /\ s = listed /\ client[k].status = "opening" /\ client[k].socket
        /\ k \notin behind
        /\ \A t \in Tasks : task[t].k # k
        /\ \A q \in StateIds : Referred(q) => state[q].client # k

BehindOK == \A k \in behind : Elsewhere(k)

\* Two states have two clients, and the callbacks of each know whose it is.
ClientsApart ==
    \A s \in StateIds : Referred(s) /\ state[s].client # None =>
        /\ client[state[s].client].of \in {s, None}
        /\ \A q \in StateIds : q # s /\ Referred(q) => state[q].client # state[s].client

\* The client of the listed state is open, or lost.
ListedOK ==
    listed # None =>
        IF state[listed].client = None THEN \A x \in Subjects : state[listed].table[x] = None
        ELSE client[state[listed].client] \in {NoClient, UpFor(listed)}

\* A connection of the listed state is held while the loop runs.
OwnHeld ==
    loop = "open" /\ listed # None => \A k \in ClientIds : client[k].status # "closed" /\ client[k].of = listed =>
        \/ state[listed].client = k
        \/ \E t \in Tasks : task[t].k = k /\ task[t].pc \in Connecting
        \/ k \in state[listed].cleanups

\* The server has subscriptions of connections only; a client without one is as good as none.
ServerOK ==
    /\ \A sub \in live : client[sub[1]].socket /\ client[sub[1]].status # "opening"
    /\ \A k \in ClientIds : client[k] = NoClient \/ (client[k].socket /\ client[k].of # None)

\* What the tables hold while t restores them.
RestoringOK(t) ==
    LET k == task[t].k
        table == state[listed].table
    IN  task[t].pc = "restore" /\ listed # None /\ task[t].st = listed /\ client[k].status = "up" =>
        \A x \in Subjects :
            /\ table[x] = k => <<k, x, listed>> \in live
            /\ <<k, x, listed>> \in live => table[x] = k \/ x \in task[t].stale
            /\ x \notin task[t].todo => table[x] \in {None, k}
            /\ x \in task[t].stale => table[x] = None

\* A loop that is closed runs nothing, and one that is still listed has one connection at most.
EndOK ==
    loop = "closed" =>
        /\ \A t \in Tasks : task[t] = Idle
        /\ listed # None =>
              /\ listed = last /\ orphaned = 0 /\ closers # <<>>
              /\ \A k \in ClientIds : client[k].status = "up" /\ client[k].of = listed => state[listed].client = k

Inv ==
    /\ TypeOK
    /\ EndOK /\ Excludes /\ AllWrapped /\ CallsOK
    /\ CleanupsOK /\ BehindOK /\ ClientsApart /\ ListedOK /\ OwnHeld
    /\ RecoveryFollowsLoss
    /\ ServerOK /\ TablesAreLive /\ \A t \in Tasks : RestoringOK(t)
    /\ OrphansAreCounted

-----------------------------------------------------------------------------
(* Types. *)

States == [client: ClientIds \cup {None}, table: [Subjects -> ClientIds \cup {None}], cleanups: SUBSET ClientIds]
Clients == [status: {"opening", "up", "closed"}, socket: BOOLEAN, of: StateIds \cup {None}]
Calls == [pc: Pcs, own: StateIds \cup {None}, st: StateIds \cup {None}, k: ClientIds \cup {None},
          want: Subjects \cup {None}, todo: SUBSET Subjects, stale: SUBSET Subjects]

TablesTyped ==
    /\ loop \in {"open", "closed"}
    /\ listed \in StateIds \cup {None} /\ last \in StateIds \cup {None}
    /\ closers \in Seq(StateIds)
    /\ state \in [StateIds -> States]
    /\ behind \subseteq ClientIds
    /\ orphaned \in Nat
ServerTyped ==
    /\ client \in [ClientIds -> Clients]
    /\ live \subseteq ClientIds \X Subjects \X StateIds
TasksTyped == task \in [Tasks -> Calls]

LEMMA TypeParts == TypeOK <=> TablesTyped /\ ServerTyped /\ TasksTyped
  BY DEF TypeOK, States, Clients, Calls, TablesTyped, ServerTyped, TasksTyped

LEMMA TypePartsNext == TablesTyped' /\ ServerTyped' /\ TasksTyped' => TypeOK'
  BY DEF TypeOK, States, Clients, Calls, TablesTyped, ServerTyped, TasksTyped

\* What a coroutine that is suspended has in its hands.
LEMMA CallFields ==
  ASSUME Inv, NEW t \in Tasks
  PROVE  /\ Shaped(t) /\ task[t] \in Calls
         /\ task[t].own \in StateIds \cup {None} /\ task[t].st \in StateIds \cup {None}
         /\ task[t].k \in ClientIds \cup {None} /\ task[t].want \in Subjects \cup {None}
         /\ task[t].todo \subseteq Subjects /\ task[t].stale \subseteq Subjects
         /\ task[t].pc \in Connecting \cup {"lock"} => task[t].st \in StateIds
         /\ task[t].pc \in Connecting \cup {"subscribe", "drain", "hard"} => task[t].k \in ClientIds
         /\ task[t].pc \in Closing \cup {"queued", "subscribe"} => task[t].own \in StateIds /\ t \notin StateIds
         /\ task[t].pc \in {"queued", "subscribe"} => task[t].want \in Subjects
<1>1. TypeOK /\ Shaped(t)
  BY DEF Inv, CallsOK
<1>2. task[t] \in Calls
  BY <1>1, TypeParts DEF TasksTyped
<1> QED BY <1>1, <1>2 DEF Calls, Shaped

\* What a state and a client hold.
LEMMA StateFields ==
  ASSUME Inv
  PROVE  /\ \A s \in StateIds : /\ state[s] \in States
                               /\ state[s].client \in ClientIds \cup {None}
                               /\ state[s].table \in [Subjects -> ClientIds \cup {None}]
                               /\ state[s].cleanups \subseteq ClientIds
         /\ \A k \in ClientIds : /\ client[k] \in Clients
                                /\ client[k].of \in StateIds \cup {None}
                                /\ client[k].status \in {"opening", "up", "closed"}
                                /\ client[k].socket \in BOOLEAN
  BY DEF Inv, TypeOK, States, Clients

\* What an assignment does to a table, to a state's client and to a client's status.
LEMMA TableSet ==
  ASSUME Inv, NEW s \in StateIds, NEW x \in Subjects, NEW k \in ClientIds \cup {None}
  PROVE  LET new == [state EXCEPT ![s].table[x] = k] IN
         /\ new \in [StateIds -> States]
         /\ new[s].client = state[s].client /\ new[s].cleanups = state[s].cleanups
         /\ new[s].table = [state[s].table EXCEPT ![x] = k]
         /\ \A q \in StateIds : q # s => new[q] = state[q]
<1> DEFINE row == [state[s].table EXCEPT ![x] = k]
           rec == [state[s] EXCEPT !.table = row]
<1>1. state[s] \in States /\ state \in [StateIds -> States]
  BY TypeParts DEF Inv, TablesTyped
<1>2. row \in [Subjects -> ClientIds \cup {None}]
  BY StateFields
<1>3. [state EXCEPT ![s].table[x] = k] = [state EXCEPT ![s] = rec]
  BY <1>1 DEF States
<1> HIDE DEF row
<1>4. /\ rec \in States
      /\ rec.client = state[s].client /\ rec.cleanups = state[s].cleanups /\ rec.table = row
  BY <1>1, <1>2 DEF States
<1> HIDE DEF rec
<1> QED BY <1>1, <1>3, <1>4 DEF row

LEMMA ClientSet ==
  ASSUME Inv, NEW s \in StateIds, NEW k \in ClientIds
  PROVE  LET new == [state EXCEPT ![s].client = k] IN
         /\ new \in [StateIds -> States]
         /\ new[s].client = k /\ new[s].cleanups = state[s].cleanups /\ new[s].table = state[s].table
         /\ \A q \in StateIds : q # s => new[q] = state[q]
<1>1. state[s] \in States /\ state \in [StateIds -> States]
  BY TypeParts DEF Inv, TablesTyped
<1> QED BY <1>1 DEF States

LEMMA CleanupsSet ==
  ASSUME Inv, NEW s \in StateIds, NEW ks \in SUBSET ClientIds
  PROVE  LET new == [state EXCEPT ![s].cleanups = ks] IN
         /\ new \in [StateIds -> States]
         /\ new[s].cleanups = ks /\ new[s].client = state[s].client /\ new[s].table = state[s].table
         /\ \A q \in StateIds : q # s => new[q] = state[q]
<1>1. state[s] \in States /\ state \in [StateIds -> States]
  BY TypeParts DEF Inv, TablesTyped
<1> QED BY <1>1 DEF States

LEMMA StatusSet ==
  ASSUME Inv, NEW k \in ClientIds, NEW what \in {"opening", "up", "closed"}
  PROVE  LET new == [client EXCEPT ![k].status = what] IN
         /\ new \in [ClientIds -> Clients]
         /\ new[k] = [status |-> what, socket |-> client[k].socket, of |-> client[k].of]
         /\ \A j \in ClientIds : j # k => new[j] = client[j]
<1>1. client[k] \in Clients /\ client \in [ClientIds -> Clients]
  BY TypeParts DEF Inv, ServerTyped
<1> QED BY <1>1 DEF Clients

\* What the calls become is a call.
LEMMA CallsTyped ==
  /\ Idle \in Calls
  /\ [Idle EXCEPT !.pc = "sleep"] \in Calls
  /\ \A s, own \in StateIds \cup {None}, want \in Subjects \cup {None} :
        [Idle EXCEPT !.pc = "lock", !.own = own, !.st = s, !.want = want] \in Calls
  /\ \A k \in ClientIds \cup {None}, own \in StateIds \cup {None}, want \in Subjects \cup {None} :
        Given(k, own, want) \in Calls
  BY DEF Idle, Calls, Given, Pcs, Connecting, Closing

LEMMA EnteredTyped ==
  ASSUME TypeOK, NEW s \in StateIds, NEW own \in StateIds \cup {None}, NEW want \in Subjects \cup {None}
  PROVE  Entered(s, own, want) \in Calls
<1>1. state[s].client \in ClientIds \cup {None}
  BY DEF TypeOK
<1> QED BY <1>1, CallsTyped DEF Entered

LEMMA RaisedTyped == \A t \in Tasks : Raised(t) \in Calls
  BY CallsTyped DEF Raised

LEMMA RecoveringTyped ==
  ASSUME TypeOK, NEW s
  PROVE  Recovering(s) \in [Tasks -> Calls]
  BY ZenonT(40), TypeParts DEF TasksTyped, Recovering, Calls, Pcs

LEMMA GoneTyped ==
  ASSUME TypeOK, NEW k
  PROVE  Gone(k) \in [ClientIds -> Clients] /\ LiveWithout(k) \subseteq live
  BY TypeParts DEF ServerTyped, Gone, NoClient, Clients, LiveWithout

\* A state that is asked for, and made if there is none.
LEMMA RegisteredTyped ==
  ASSUME TypeOK, NEW s \in TheState, Registered(s)
  PROVE  /\ s \in StateIds
         /\ listed' \in StateIds \cup {None} /\ closers' \in Seq(StateIds) /\ state' \in [StateIds -> States]
<1>1. s \in StateIds
  BY DEF TheState, Least, FreeStates, TypeOK
<1>2. NewState \in States
  BY DEF NewState, States
<1> QED BY <1>1, <1>2, TypeParts DEF TablesTyped, Registered

LEMMA CallTyped == ASSUME TypeOK, NEW t \in Callers, Call(t) PROVE TypeOK'
<1>1. PICK s \in TheState, want \in Subjects \cup {None} :
        /\ Registered(s)
        /\ task' = [task EXCEPT ![t] = IF want = None THEN Entered(s, s, None)
                                       ELSE [Idle EXCEPT !.pc = "queued", !.own = s, !.want = want]]
  BY DEF Call
<1>2. s \in StateIds
  BY <1>1, RegisteredTyped
<1>3. TasksTyped'
  <2>1. [Idle EXCEPT !.pc = "queued", !.own = s, !.want = want] \in Calls
    BY <1>2 DEF Idle, Calls, Pcs
  <2> QED BY <1>1, <1>2, <2>1, EnteredTyped, TypeParts DEF TasksTyped
<1>4. TablesTyped' /\ ServerTyped'
  BY <1>1, RegisteredTyped, TypeParts DEF Call, TablesTyped, ServerTyped
<1> QED BY <1>3, <1>4, TypePartsNext

LEMMA ResumeTyped == ASSUME TypeOK, NEW t \in Callers, Resume(t) PROVE TypeOK'
<1>1. PICK s \in TheState, own \in {task[t].own} \cup TheState :
        /\ Registered(s)
        /\ task' = [task EXCEPT ![t] = IF own = listed /\ state[own].table[task[t].want] # None THEN Idle
                                       ELSE Entered(s, own, task[t].want)]
  BY DEF Resume
<1>2. s \in StateIds /\ own \in StateIds \cup {None} /\ task[t].want \in Subjects \cup {None}
  BY <1>1, RegisteredTyped DEF TypeOK, Tasks, TheState, Least, FreeStates
<1>3. TasksTyped'
  BY <1>1, <1>2, EnteredTyped, CallsTyped, TypeParts DEF TasksTyped
<1>4. TablesTyped' /\ ServerTyped'
  BY <1>1, RegisteredTyped, TypeParts DEF Resume, TablesTyped, ServerTyped
<1> QED BY <1>3, <1>4, TypePartsNext

\* The steps that leave the tables and the server alone.
LEMMA MovesTyped ==
  ASSUME TypeOK, UNCHANGED <<loop, listed, closers, state, client, live, behind, orphaned, last>>,
         task' \in [Tasks -> Calls]
  PROVE  TypeOK'
  BY TypeParts, TypePartsNext DEF TablesTyped, ServerTyped, TasksTyped

LEMMA LockTakenTyped == ASSUME Inv, NEW t \in Tasks, LockTaken(t) PROVE TypeOK'
<1>1. /\ task[t] \in Calls /\ task[t].st \in StateIds /\ TypeOK
      /\ TablesTyped /\ ServerTyped /\ TasksTyped
  BY CallFields, TypeParts DEF LockTaken, Inv
<1>2. CASE Usable(task[t].st)
  <2>1. task' = [task EXCEPT ![t] = Given(state[task[t].st].client, task[t].own, task[t].want)]
        /\ UNCHANGED client
    BY <1>2 DEF LockTaken
  <2>2. Given(state[task[t].st].client, task[t].own, task[t].want) \in Calls
    BY <1>1, CallFields, StateFields, CallsTyped
  <2> QED BY <1>1, <2>1, <2>2, MovesTyped DEF LockTaken, TasksTyped
<1>3. CASE ~Usable(task[t].st)
  <2>1. PICK k \in ClientIds :
          /\ client' = [client EXCEPT ![k] = [status |-> "opening", socket |-> TRUE, of |-> task[t].st]]
          /\ task' = [task EXCEPT ![t].pc = "connect", ![t].k = k]
    BY <1>3 DEF LockTaken, FreeClients
  <2>2. TasksTyped'
    BY <1>1, <2>1 DEF TasksTyped, Calls, Pcs, Connecting
  <2>3. ServerTyped'
    BY <1>1, <2>1 DEF ServerTyped, Clients, LockTaken
  <2> QED BY <1>1, <2>2, <2>3, TypePartsNext DEF TablesTyped, LockTaken
<1> QED BY <1>2, <1>3

LEMMA ConnectedTyped == ASSUME Inv, NEW t \in Tasks, Connected(t) PROVE TypeOK'
<1>1. /\ task[t] \in Calls /\ task[t].st \in StateIds /\ task[t].k \in ClientIds
      /\ TablesTyped /\ ServerTyped /\ TasksTyped
  BY CallFields, TypeParts DEF Connected, Connecting, Inv
<1>2. ServerTyped'
  BY <1>1, StatusSet DEF Connected, ServerTyped
<1>3. TasksTyped'
  <2>1. Given(task[t].k, task[t].own, task[t].want) \in Calls
    BY <1>1, CallFields, CallsTyped
  <2>2. Subscribed(task[t].st) \subseteq Subjects
    BY DEF Subscribed
  <2>3. [task[t] EXCEPT !.pc = "restore", !.todo = Subscribed(task[t].st), !.stale = {}] \in Calls
    BY <1>1, <2>2 DEF Calls, Pcs, Connecting
  <2>4. \/ task' = [task EXCEPT ![t] = Given(task[t].k, task[t].own, task[t].want)]
        \/ task' = [task EXCEPT ![t] = [task[t] EXCEPT !.pc = "restore", !.todo = Subscribed(task[t].st), !.stale = {}]]
    BY <1>1 DEF Connected, TasksTyped
  <2> QED BY <1>1, <2>1, <2>3, <2>4 DEF TasksTyped
<1>4. TablesTyped'
  <2>1. state' \in [StateIds -> States]
    BY <1>1, ClientSet DEF Connected, TablesTyped
  <2> QED BY <1>1, <2>1 DEF Connected, TablesTyped
<1> QED BY <1>2, <1>3, <1>4, TypePartsNext

LEMMA ConnectFailsTyped == ASSUME Inv, NEW t \in Tasks, ConnectFails(t) PROVE TypeOK'
<1>1. /\ task[t].k \in ClientIds /\ TablesTyped /\ ServerTyped /\ TasksTyped
  BY CallFields, TypeParts DEF ConnectFails, Connecting, Inv
<1>2. ServerTyped' /\ TasksTyped'
  BY <1>1, RaisedTyped DEF ConnectFails, ServerTyped, TasksTyped
<1>3. TablesTyped'
  <2>1. CloseQuietly(task[t].k) \in [StateIds -> States]
    <3>1. CASE listed = None
      BY <1>1, <3>1 DEF CloseQuietly, TablesTyped
    <3>2. CASE listed # None
      <4> DEFINE ks == state[listed].cleanups \cup {task[t].k}
      <4>1. listed \in StateIds /\ ks \in SUBSET ClientIds
        BY <1>1, <3>2, StateFields DEF TablesTyped
      <4>2. CloseQuietly(task[t].k) = [state EXCEPT ![listed].cleanups = ks]
        BY <1>1, <3>2, <4>1 DEF CloseQuietly, TablesTyped
      <4> HIDE DEF ks
      <4>3. [state EXCEPT ![listed].cleanups = ks] \in [StateIds -> States]
        BY <4>1, CleanupsSet
      <4> QED BY <4>2, <4>3
    <3> QED BY <3>1, <3>2
  <2> QED BY <1>1, <2>1 DEF ConnectFails, TablesTyped
<1> QED BY <1>2, <1>3, TypePartsNext

LEMMA ClosedQuietlyTyped == ASSUME Inv, NEW s \in StateIds, NEW k \in ClientIds, ClosedQuietly(s, k) PROVE TypeOK'
<1>1. TypeOK /\ TablesTyped /\ ServerTyped /\ TasksTyped
  BY TypeParts DEF Inv
<1>2. ServerTyped'
  BY <1>1, GoneTyped DEF ClosedQuietly, ServerTyped
<1>3. TablesTyped' /\ TasksTyped'
  BY <1>1, StateFields, CleanupsSet DEF ClosedQuietly, NeverCameUp, TablesTyped, TasksTyped
<1> QED BY <1>2, <1>3, TypePartsNext

LEMMA CloseTimesOutTyped == ASSUME Inv, NEW s \in StateIds, NEW k \in ClientIds, CloseTimesOut(s, k) PROVE TypeOK'
<1>1. TypeOK /\ TablesTyped /\ ServerTyped /\ TasksTyped
  BY TypeParts DEF Inv
<1>2. ServerTyped'
  BY <1>1, StatusSet DEF CloseTimesOut, ServerTyped
<1>3. TablesTyped' /\ TasksTyped'
  BY <1>1, StateFields, CleanupsSet DEF CloseTimesOut, TablesTyped, TasksTyped
<1> QED BY <1>2, <1>3, TypePartsNext

LEMMA RestoreTyped == ASSUME Inv, NEW t \in Tasks, Restore(t) PROVE TypeOK'
<1> DEFINE s == task[t].st
           k == task[t].k
<1>1. /\ s \in StateIds /\ k \in ClientIds /\ task[t] \in Calls
      /\ TablesTyped /\ ServerTyped /\ TasksTyped
  BY CallFields, TypeParts DEF Restore, Connecting, Inv
<1>2. PICK x \in Subjects :
          /\ live' = live \cup {<<k, x, s>>}
          /\ task' = [task EXCEPT ![t].todo = @ \ {x}, ![t].stale = IF StillWanted(s, x) THEN @ ELSE @ \cup {x}]
          /\ state' = IF StillWanted(s, x) THEN [state EXCEPT ![s].table[x] = k] ELSE state
  BY CallFields DEF Restore
<1>3. ServerTyped'
  BY <1>1, <1>2 DEF Restore, ServerTyped
<1>4. TasksTyped'
  BY <1>1, <1>2 DEF TasksTyped, Calls
<1>5. TablesTyped'
  <2>1. state' \in [StateIds -> States]
    BY <1>1, <1>2, TableSet DEF TablesTyped
  <2> QED BY <1>1, <2>1 DEF Restore, TablesTyped
<1> QED BY <1>3, <1>4, <1>5, TypePartsNext

LEMMA RestoredTyped == ASSUME Inv, NEW t \in Tasks, Restored(t) PROVE TypeOK'
<1>1. /\ task[t] \in Calls /\ task[t].st \in StateIds /\ task[t].k \in ClientIds
      /\ TablesTyped /\ ServerTyped /\ TasksTyped
  BY CallFields, TypeParts DEF Restored, Connecting, Inv
<1>2. ServerTyped'
  BY <1>1 DEF Restored, ServerTyped
<1>3. TasksTyped'
  <2>1. Given(task[t].k, task[t].own, task[t].want) \in Calls
    BY <1>1, CallFields, CallsTyped
  <2> QED BY <1>1, <2>1 DEF Restored, TasksTyped
<1>4. TablesTyped'
  BY <1>1, ClientSet DEF Restored, TablesTyped
<1> QED BY <1>2, <1>3, <1>4, TypePartsNext

LEMMA RestoreFailsTyped == ASSUME Inv, NEW t \in Tasks, RestoreFails(t) PROVE TypeOK'
<1>1. TablesTyped /\ ServerTyped /\ TasksTyped
  BY TypeParts DEF Inv
<1>2. ServerTyped'
  BY <1>1, CallFields, StatusSet DEF RestoreFails, Connecting, ServerTyped
<1>3. TasksTyped' /\ TablesTyped'
  BY <1>1 DEF RestoreFails, TasksTyped, TablesTyped, Calls, Pcs, Connecting
<1> QED BY <1>2, <1>3, TypePartsNext

LEMMA UndoneTyped == ASSUME Inv, NEW t \in Tasks, Undone(t) PROVE TypeOK'
<1>1. TypeOK /\ TablesTyped /\ ServerTyped /\ TasksTyped
  BY TypeParts DEF Inv
<1>2. ServerTyped'
  BY <1>1, GoneTyped DEF Undone, ServerTyped
<1>3. TasksTyped'
  BY <1>1, RecoveringTyped, RaisedTyped DEF Undone, TasksTyped
<1>4. TablesTyped'
  BY <1>1 DEF Undone, TablesTyped
<1> QED BY <1>2, <1>3, <1>4, TypePartsNext

LEMMA RecordedTyped == ASSUME Inv, NEW t \in Callers, Recorded(t) PROVE TypeOK'
<1>1. /\ t \in Tasks /\ task[t].own \in StateIds /\ task[t].k \in ClientIds /\ task[t].want \in Subjects
      /\ TablesTyped /\ ServerTyped /\ TasksTyped
  BY CallFields, TypeParts DEF Recorded, Inv, Tasks
<1>2. ServerTyped'
  BY <1>1 DEF Recorded, ServerTyped
<1>3. TasksTyped'
  BY <1>1, CallsTyped DEF Recorded, TasksTyped
<1>4. TablesTyped'
  BY <1>1, TableSet DEF Recorded, TablesTyped
<1> QED BY <1>2, <1>3, <1>4, TypePartsNext

LEMMA DroppedTyped == ASSUME Inv, NEW x \in Subjects, Dropped(x) PROVE TypeOK'
<1>1. /\ listed \in StateIds /\ TablesTyped /\ ServerTyped /\ TasksTyped
  BY TypeParts DEF Dropped, Inv, TablesTyped
<1>2. ServerTyped' /\ TasksTyped'
  BY <1>1 DEF Dropped, ServerTyped, TasksTyped
<1>3. TablesTyped'
  BY <1>1, TableSet DEF Dropped, TablesTyped
<1> QED BY <1>2, <1>3, TypePartsNext

\* The steps that take a client away, and nothing else but tasks.
LEMMA GoesTyped ==
  ASSUME TypeOK, UNCHANGED <<loop, listed, closers, state, orphaned, last>>, behind' \subseteq ClientIds,
         client' \in [ClientIds -> Clients], live' \subseteq live, task' \in [Tasks -> Calls]
  PROVE  TypeOK'
<1>1. TablesTyped /\ ServerTyped
  BY TypeParts
<1>2. TablesTyped' /\ ServerTyped' /\ TasksTyped'
  BY <1>1 DEF TablesTyped, ServerTyped, TasksTyped
<1> QED BY <1>2, TypePartsNext

LEMMA LostTyped == ASSUME Inv, NEW k \in ClientIds, Lost(k) \/ ClosedBehind(k) \/ Collected(k) PROVE TypeOK'
<1>1. TypeOK /\ behind \subseteq ClientIds /\ task \in [Tasks -> Calls]
  BY TypeParts DEF Inv, TablesTyped, TasksTyped
<1> QED BY <1>1, GoneTyped, GoesTyped, RecoveringTyped DEF Lost, ClosedBehind, Collected

LEMMA WakeTyped == ASSUME Inv, NEW s \in StateIds, Wake(s) PROVE TypeOK'
<1>1. TypeOK /\ task \in [Tasks -> Calls] /\ Entered(s, None, None) \in Calls
  BY EnteredTyped, TypeParts DEF Inv, TasksTyped
<1> QED BY <1>1, MovesTyped, CallsTyped DEF Wake

LEMMA CancelledTyped == ASSUME Inv, NEW t \in Tasks, Cancelled(t) \/ UndoCutShort(t) PROVE TypeOK'
<1>1. TypeOK /\ task \in [Tasks -> Calls]
  BY TypeParts DEF Inv, TasksTyped
<1> QED BY <1>1, MovesTyped, CallsTyped DEF Cancelled, UndoCutShort

LEMMA CloseTyped == ASSUME Inv, NEW t \in Closers, Close(t) PROVE TypeOK'
<1>1. /\ t \in Tasks /\ listed \in StateIds /\ TablesTyped /\ ServerTyped /\ TasksTyped
      /\ task[t] \in Calls /\ state[listed].client \in ClientIds \cup {None}
  BY TypeParts, CallFields, StateFields DEF Close, Inv, Tasks, TablesTyped
<1>2. TasksTyped' /\ ServerTyped'
  BY <1>1 DEF Close, TasksTyped, ServerTyped, Calls, Pcs, Closing
<1>3. TablesTyped'
  BY <1>1, CleanupsSet DEF Close, TablesTyped
<1> QED BY <1>2, <1>3, TypePartsNext

LEMMA SettledTyped == ASSUME Inv, NEW t \in Closers, Settled(t) PROVE TypeOK'
<1>1. /\ t \in Tasks /\ TypeOK /\ task \in [Tasks -> Calls] /\ task[t] \in Calls
      /\ state[task[t].own].client \in ClientIds \cup {None}
  BY TypeParts, CallFields, StateFields DEF Settled, Closing, Inv, Tasks, TasksTyped
<1>2. [task[t] EXCEPT !.pc = "drain", !.k = state[task[t].own].client] \in Calls
  BY <1>1 DEF Calls, Pcs, Closing
<1>3. task' \in [Tasks -> Calls]
  BY <1>1, <1>2, CallsTyped DEF Settled
<1> QED BY <1>1, <1>3, MovesTyped DEF Settled

LEMMA DrainTyped == ASSUME Inv, NEW t \in Closers, DrainCloses(t) \/ DrainFails(t) PROVE TypeOK'
<1>1. /\ t \in Tasks /\ TypeOK /\ task \in [Tasks -> Calls] /\ task[t] \in Calls
      /\ task[t].k \in ClientIds /\ behind \subseteq ClientIds
  BY TypeParts, CallFields DEF DrainCloses, DrainFails, Inv, Tasks, TasksTyped, TablesTyped
<1>2. client' \in [ClientIds -> Clients]
  <2>1. client' = [client EXCEPT ![task[t].k].status = "closed"]
    BY DEF DrainCloses, DrainFails
  <2>2. [client EXCEPT ![task[t].k].status = "closed"] \in [ClientIds -> Clients]
    BY <1>1, StatusSet
  <2> QED BY <2>1, <2>2
<1>3. task' \in [Tasks -> Calls]
  BY <1>1 DEF DrainCloses, DrainFails, Calls, Pcs, Closing
<1> QED BY <1>1, <1>2, <1>3, GoesTyped DEF DrainCloses, DrainFails

LEMMA ClosedTyped == ASSUME Inv, NEW t \in Closers, ClosedForGood(t) \/ CloseCancelled(t) PROVE TypeOK'
<1>1. /\ t \in Tasks /\ TypeOK /\ task \in [Tasks -> Calls] /\ client \in [ClientIds -> Clients]
      /\ task[t].k \in ClientIds \cup {None} /\ behind \subseteq ClientIds
  BY TypeParts, CallFields DEF Inv, Tasks, TasksTyped, TablesTyped, ServerTyped
<1>2. client' \in [ClientIds -> Clients] /\ live' \subseteq live
  BY <1>1, GoneTyped DEF ClosedForGood, CloseCancelled
<1>3. task' \in [Tasks -> Calls]
  BY <1>1, CallsTyped DEF ClosedForGood, CloseCancelled
<1>4. behind' \subseteq ClientIds
  BY <1>1 DEF ClosedForGood, CloseCancelled, HardBehind
<1> QED BY <1>1, <1>2, <1>3, <1>4, GoesTyped DEF ClosedForGood, CloseCancelled

LEMMA EndTyped == ASSUME Inv, LoopCloses \/ LoopClosesPastIt \/ ForgetClosedLoops PROVE TypeOK'
<1>1. TypeOK /\ TablesTyped /\ ServerTyped /\ TasksTyped
  BY TypeParts DEF Inv
<1>2. ServerTyped'
  <2>1. Stopped \in [ClientIds -> Clients]
    BY <1>1 DEF Stopped, ServerTyped, Clients
  <2>2. [Stopped EXCEPT ![state[listed].client] = NoClient] \in [ClientIds -> Clients]
    BY <2>1 DEF NoClient, Clients
  <2> QED BY <1>1, <2>1, <2>2, GoneTyped DEF LoopCloses, LoopClosesPastIt, ForgetClosedLoops, ServerTyped
<1>3. TasksTyped'
  BY <1>1, CallsTyped DEF LoopCloses, LoopClosesPastIt, ForgetClosedLoops, TasksTyped
<1>4. TablesTyped'
  <2>1. <<>> \in Seq(StateIds)
    OBVIOUS
  <2>2. CASE LoopCloses
    BY <1>1, <2>1, <2>2 DEF LoopCloses, TablesTyped
  <2>3. CASE LoopClosesPastIt \/ ForgetClosedLoops
    BY <1>1, <2>3 DEF LoopClosesPastIt, ForgetClosedLoops, TablesTyped
  <2> QED BY <2>2, <2>3
<1> QED BY <1>2, <1>3, <1>4, TypePartsNext

\* Every step keeps the types.
LEMMA NextTyped == Inv /\ [Next]_vars => TypeOK'
<1> SUFFICES ASSUME Inv, [Next]_vars PROVE TypeOK'
  OBVIOUS
<1>1. TypeOK
  BY DEF Inv
<1>2. ASSUME NEW t \in Callers, Call(t) \/ Resume(t) \/ Recorded(t) PROVE TypeOK'
  BY <1>1, <1>2, CallTyped, ResumeTyped, RecordedTyped
<1>3. ASSUME NEW t \in Closers, ByCloser(t) PROVE TypeOK'
  BY <1>3, CloseTyped, SettledTyped, DrainTyped, ClosedTyped DEF ByCloser
<1>4. ASSUME NEW t \in Tasks, Connects(t) PROVE TypeOK'
  BY <1>4, LockTakenTyped, ConnectedTyped, ConnectFailsTyped, RestoreTyped, RestoredTyped,
     RestoreFailsTyped, UndoneTyped, CancelledTyped DEF Connects
<1>5. ASSUME Next PROVE TypeOK'
  BY <1>2, <1>3, <1>4, <1>5, WakeTyped, ClosedQuietlyTyped, CloseTimesOutTyped, LostTyped, DroppedTyped, EndTyped DEF Next
<1>6. ASSUME UNCHANGED vars PROVE TypeOK'
  BY <1>1, <1>6 DEF TypeOK, vars
<1> QED BY <1>5, <1>6

-----------------------------------------------------------------------------
(* Steps that make nothing: coroutines move on, and clients go. *)

\* A state that anybody refers to was made on this loop.
LEMMA ReferredIsWrapped ==
  ASSUME Inv, loop = "open", NEW s \in StateIds, Referred(s)
  PROVE  s \in Range(closers)
<1>1. \A t \in Tasks : task[t].pc # "idle" => task[t] # Idle
  BY DEF Idle
<1>2. s \in Tasks /\ s # None
  BY ConnectionConstants DEF Tasks
<1> QED BY <1>1, <1>2 DEF Inv, AllWrapped, Wrapped, Referred

\* Coroutine u comes to ask only for what was referred to, and gets no client in the making.
Refers(u) ==
    /\ \A s \in StateIds : s \in {task'[u].own, task'[u].st} => Referred(s)
    /\ u \in StateIds /\ task'[u].pc # "idle" => Referred(u)
    /\ task'[u].k # None /\ task'[u].k # task[u].k =>
          /\ \A v \in Tasks : task[v].pc \in Connecting => task[v].k # task'[u].k
          /\ \A s \in StateIds : task'[u].k \notin state[s].cleanups

Waits(u) ==
    LET k == task[u].k IN
        /\ task'[u] = task[u]
        /\ task[u].pc \in Connecting =>
              client'[k] = client[k] \/ (task[u].pc # "connect" /\ client'[k] = NoClient)

Moves(u) ==
    LET k == task[u].k IN
        /\ Shaped(u)' /\ CallerOK(u)' /\ CloserOK(u)' /\ Refers(u)
        /\ task'[u].pc \in Connecting =>
              /\ task[u].pc = "restore" /\ task'[u].pc = "undo"
              /\ task'[u].k = k /\ task'[u].st = task[u].st
              /\ client'[k] \in {NoClient, Cut(task[u].st)}
        /\ task[u].pc \in Connecting /\ task'[u].pc \notin Connecting => client'[k].status = "closed"

Retires ==
    /\ loop = "open" /\ UNCHANGED <<loop, listed, closers, orphaned, last>>
    /\ \A s \in StateIds :
          /\ state'[s].client = state[s].client /\ state'[s].table = state[s].table
          /\ state'[s].cleanups \subseteq state[s].cleanups
          /\ \A k \in state[s].cleanups : IF k \in state'[s].cleanups THEN client'[k] = client[k]
                                          ELSE client'[k].status = "closed"
    /\ \A k \in ClientIds :
          \/ client'[k] \in {client[k], NoClient}
          \/ /\ client'[k] = Cut(client[k].of) /\ client[k].socket
             /\ listed # None => state[listed].client # k
    /\ live' \subseteq live /\ \A sub \in live : sub \in live' <=> client'[sub[1]] # NoClient
    /\ \A k \in behind' : k \notin behind =>
          /\ Elsewhere(k)
          /\ \A u \in Tasks : task[u].pc \in Connecting => task[u].k # k
          /\ \A s \in StateIds : k \notin state[s].cleanups
    /\ \A u \in Tasks : Waits(u) \/ Moves(u)

\* Such a step refers to nothing that was not.
LEMMA RetiresRefers ==
  ASSUME Inv, Retires
  PROVE  /\ \A s \in StateIds : Referred(s)' => Referred(s)
         /\ \A u, v \in Tasks : task[v].pc \in Connecting /\ u # v => task'[u].k # task[v].k
         /\ \A u \in Tasks, s \in StateIds : task'[u].k # None => task'[u].k \notin state[s].cleanups
<1>1. \A u \in Tasks : task'[u] = task[u] \/ Refers(u)
  BY DEF Retires, Waits, Moves
<1>2. ASSUME NEW s \in StateIds, Referred(s)' PROVE Referred(s)
  <2>1. s \in Tasks /\ s # None
    BY ConnectionConstants DEF Tasks
  <2> QED BY <1>1, <1>2, <2>1 DEF Refers, Referred, Retires
<1>3. \A v \in Tasks : /\ MakerOK(v)
                       /\ task[v].pc \in Connecting => task[v].k # None
  BY DEF Inv, CallsOK, Shaped
<1>4. ASSUME NEW u \in Tasks, NEW v \in Tasks, task[v].pc \in Connecting, u # v
      PROVE  task'[u].k # task[v].k
  BY <1>1, <1>3, <1>4 DEF Refers, MakerOK
<1>5. ASSUME NEW u \in Tasks, NEW s \in StateIds, task'[u].k # None
      PROVE  task'[u].k \notin state[s].cleanups
  <2>1. \A k \in state[s].cleanups : k \in ClientIds /\ task[u].k # k
    BY StateFields DEF Inv, CleanupsOK, Retires
  <2> QED BY <1>1, <1>5, <2>1 DEF Refers
<1> QED BY <1>2, <1>4, <1>5

\* The invariant survives.
LEMMA RetiresKeeps ==
  ASSUME Inv, TypeOK', Retires, RecoveryFollowsLoss'
  PROVE  Inv'
<1>1. /\ \A s \in StateIds : Referred(s)' => Referred(s)
      /\ \A u, v \in Tasks : task[v].pc \in Connecting /\ u # v => task'[u].k # task[v].k
      /\ \A u \in Tasks, s \in StateIds : task'[u].k # None => task'[u].k \notin state[s].cleanups
  BY RetiresRefers
<1>2. /\ loop = "open" /\ UNCHANGED <<loop, listed, closers, orphaned, last>>
      /\ \A s \in StateIds : /\ state'[s].client = state[s].client /\ state'[s].table = state[s].table
                             /\ state'[s].cleanups \subseteq state[s].cleanups
      /\ listed # None => listed \in StateIds
  BY DEF Retires, Inv, TypeOK
<1>3. \A k \in ClientIds : /\ client'[k].of \in {client[k].of, None}
                           /\ client'[k].socket => client[k].socket /\ client'[k].of = client[k].of
                           /\ client'[k].status = "up" => client'[k] = client[k]
                           /\ IsClosed(k) => IsClosed(k)'
                           /\ client'[k] # client[k] /\ client'[k] # NoClient =>
                                 client'[k].status = "closed" /\ client'[k].socket
  <2>1. SUFFICES ASSUME NEW k \in ClientIds
                 PROVE  /\ client'[k].of \in {client[k].of, None}
                        /\ client'[k].socket => client[k].socket /\ client'[k].of = client[k].of
                        /\ client'[k].status = "up" => client'[k] = client[k]
                        /\ client[k].status = "closed" => client'[k].status = "closed"
                        /\ client'[k] # client[k] /\ client'[k] # NoClient =>
                              client'[k].status = "closed" /\ client'[k].socket
    BY DEF IsClosed
  <2>2. client'[k] = client[k] \/ client'[k] = NoClient \/ (client'[k] = Cut(client[k].of) /\ client[k].socket)
    BY DEF Retires
  <2> QED BY <2>2 DEF NoClient, Cut
<1>4. \A s \in StateIds : ~Usable(s) => ~Usable(s)'
  BY <1>2, <1>3, StateFields DEF Usable
<1>5. Excludes'
  <2>1. \A u \in Tasks : task'[u].pc \in Connecting => task[u].pc \in Connecting /\ task'[u].st = task[u].st
    BY DEF Retires, Waits, Moves, Connecting
  <2> QED BY <2>1 DEF Inv, Excludes
<1>6. AllWrapped'
  <2>1. \A s \in StateIds : Referred(s)' => s \in Range(closers)
    BY <1>1, <1>2, ReferredIsWrapped
  <2>2. \A u \in Tasks : task'[u].own \in StateIds \cup {None} /\ task'[u].st \in StateIds \cup {None}
    BY DEF TypeOK
  <2>3. \A s \in StateIds : task'[s] # Idle => task'[s].pc # "idle"
    <3>1. \A s \in StateIds : s \in Tasks
      BY DEF Tasks
    <3> QED BY <3>1 DEF Retires, Waits, Moves, Shaped, Inv, CallsOK
  <2>4. \A s \in StateIds : task'[s] # Idle => Referred(s)'
    BY <2>3 DEF Referred
  <2>5. \A u \in Tasks, s \in StateIds : s \in {task'[u].own, task'[u].st} => Referred(s)'
    BY DEF Referred
  <2>6. \A u \in Tasks : Wrapped(task[u].own)' /\ Wrapped(task[u].st)'
    BY <1>2, <2>1, <2>2, <2>5 DEF Wrapped
  <2>7. \A s \in StateIds : task'[s] # Idle => Wrapped(s)'
    BY <1>2, <2>1, <2>4 DEF Wrapped
  <2>8. \A k \in ClientIds : Wrapped(client[k].of)'
    BY <1>2, <1>3 DEF Inv, AllWrapped, Wrapped
  <2> QED BY <1>2, <2>6, <2>7, <2>8 DEF Inv, AllWrapped, Wrapped

<1>7. \A k \in ClientIds : Elsewhere(k) => Elsewhere(k)'
  BY <1>2, <1>3, ConnectionConstants DEF Elsewhere
<1>8. CallsOK'
  <2>1. SUFFICES ASSUME NEW u \in Tasks PROVE Shaped(u)' /\ MakerOK(u)' /\ CallerOK(u)' /\ CloserOK(u)'
    BY DEF CallsOK
  <2>2. Shaped(u) /\ MakerOK(u) /\ CallerOK(u) /\ CloserOK(u)
    BY DEF Inv, CallsOK
  <2>3. Waits(u) \/ Moves(u)
    BY DEF Retires
  <2>4. MakerOK(u)'
    <3> DEFINE k == task[u].k
               s == task[u].st
    <3>1. SUFFICES ASSUME task'[u].pc \in Connecting PROVE MakerOK(u)'
      BY DEF MakerOK
    <3>2. /\ task[u].pc \in Connecting /\ task'[u].k = k /\ task'[u].st = s
          /\ task[u].pc = task'[u].pc \/ (task[u].pc = "restore" /\ task'[u].pc = "undo")
      BY <2>3, <3>1 DEF Waits, Moves, Connecting
    <3>3. k \in ClientIds /\ s \in StateIds
      BY <3>2, CallFields
    <3>4. ~Usable(s)' /\ (task'[u].pc # "connect" => Stale(s)')
      BY <1>2, <1>4, <2>2, <3>2, <3>3 DEF MakerOK, Stale
    <3>5. /\ task'[u].pc = "connect" => client'[k] = Opening(s)
          /\ task'[u].pc = "restore" => client'[k] \in {NoClient, UpFor(s)}
          /\ task'[u].pc = "undo" => client'[k] \in {NoClient, Cut(s)}
      BY <2>2, <2>3, <3>1, <3>2 DEF Waits, Moves, MakerOK
    <3>6. \A v \in Tasks : v # u => task'[v].k # k
      BY <1>1, <3>2
    <3>7. k \notin behind' /\ \A q \in StateIds : k \notin state'[q].cleanups
      BY <1>2, <2>2, <3>2 DEF Retires, MakerOK
    <3>8. \A q \in StateIds : Referred(q)' =>
            /\ state'[q].client # k
            /\ task'[u].pc = "connect" => \A x \in Subjects : state'[q].table[x] # k
      BY <1>1, <1>2, <2>2, <3>2 DEF MakerOK
    <3> QED BY <3>2, <3>4, <3>5, <3>6, <3>7, <3>8 DEF MakerOK
  <2>5. ASSUME Waits(u) PROVE Shaped(u)' /\ CallerOK(u)' /\ CloserOK(u)'
    <3>1. task'[u] = task[u]
      BY <2>5 DEF Waits
    <3>2. Shaped(u)'
      BY <2>2, <3>1 DEF Shaped
    <3>3. CallerOK(u)'
      <4>1. task[u].pc = "subscribe" => task[u].k \in ClientIds /\ task[u].own \in StateIds
        BY CallFields
      <4> QED BY <1>2, <1>3, <2>2, <3>1, <4>1 DEF CallerOK
    <3>4. CloserOK(u)'
      <4>1. /\ task[u].k \in ClientIds \cup {None}
            /\ task[u].pc \in Closing => task[u].own \in StateIds
        BY CallFields
      <4>2. ASSUME task[u].pc \in Closing
            PROVE  /\ task'[u].own # listed
                   /\ task'[u].k # None =>
                        /\ listed # None => state'[listed].client # task'[u].k /\ client'[task'[u].k].of # listed
                        /\ task'[u].pc = "settle" => \/ state'[task'[u].own].client = task'[u].k
                                                    \/ client'[task'[u].k].status = "closed"
        <5>1. /\ task[u].own # listed
              /\ task[u].k # None =>
                   /\ listed # None => state[listed].client # task[u].k /\ client[task[u].k].of # listed
                   /\ task[u].pc = "settle" => \/ state[task[u].own].client = task[u].k
                                               \/ client[task[u].k].status = "closed"
          BY <2>2, <4>2 DEF CloserOK, Elsewhere, IsClosed
        <5>2. task[u].k # None => /\ client'[task[u].k].of \in {client[task[u].k].of, None}
                                  /\ client[task[u].k].status = "closed" => client'[task[u].k].status = "closed"
          BY <1>3, <4>1 DEF IsClosed
        <5> QED BY <1>2, <3>1, <4>1, <4>2, <5>1, <5>2
      <4> QED BY <1>2, <3>1, <4>2 DEF CloserOK, Elsewhere, IsClosed
    <3> QED BY <3>2, <3>3, <3>4
  <2> QED BY <2>3, <2>4, <2>5 DEF Moves
<1>9. CleanupsOK'
  <2>1. SUFFICES ASSUME NEW s \in StateIds, NEW k \in ClientIds, k \in state'[s].cleanups
                 PROVE  /\ s = listed' /\ client'[k].status = "opening" /\ client'[k].socket
                        /\ k \notin behind'
                        /\ \A t \in Tasks : task'[t].k # k
                        /\ \A q \in StateIds : Referred(q)' => state'[q].client # k
    BY DEF CleanupsOK
  <2>2. k \in state[s].cleanups /\ client'[k] = client[k]
    BY <1>2, <2>1 DEF Retires
  <2>3. k # None
    BY ConnectionConstants
  <2> QED BY <1>1, <1>2, <2>2, <2>3 DEF Inv, CleanupsOK, Retires
<1>10. BehindOK'
  <2>1. behind' \subseteq ClientIds
    BY DEF TypeOK
  <2> QED BY <1>7, <2>1 DEF Inv, BehindOK, Retires
<1>11. ClientsApart'
  BY <1>1, <1>2, <1>3, StateFields DEF Inv, ClientsApart
<1>12. ListedOK'
  <2>1. listed # None /\ state[listed].client # None =>
          client'[state[listed].client] \in {client[state[listed].client], NoClient}
    BY <1>2, StateFields DEF Retires
  <2> QED BY <1>2, <2>1 DEF Inv, ListedOK
<1>13. OwnHeld'
  <2>1. SUFFICES ASSUME listed # None, NEW k \in ClientIds, client'[k].status # "closed", client'[k].of = listed
                 PROVE  \/ state'[listed].client = k
                        \/ \E t \in Tasks : task'[t].k = k /\ task'[t].pc \in Connecting
                        \/ k \in state'[listed].cleanups
    BY <1>2 DEF OwnHeld
  <2>2. client[k].status # "closed" /\ client[k].of = listed
    <3>1. client'[k] = client[k]
      <4>1. NoClient.status = "closed" /\ Cut(client[k].of).status = "closed"
        BY DEF NoClient, Cut
      <4> QED BY <2>1, <4>1 DEF Retires
    <3> QED BY <2>1, <3>1
  <2>3. CASE state[listed].client = k
    BY <1>2, <2>1, <2>3
  <2>4. CASE k \in state[listed].cleanups
    BY <1>2, <2>1, <2>2, <2>4 DEF Retires
  <2>5. ASSUME NEW t \in Tasks, task[t].k = k, task[t].pc \in Connecting
        PROVE  task'[t].k = k /\ task'[t].pc \in Connecting
    BY <2>1, <2>2, <2>5 DEF Retires, Waits, Moves
  <2> QED BY <1>2, <2>1, <2>2, <2>3, <2>4, <2>5 DEF Inv, OwnHeld
<1>14. ServerOK'
  <2>1. ASSUME NEW sub \in live' PROVE client'[sub[1]].socket /\ client'[sub[1]].status # "opening"
    <3>1. sub \in live /\ sub[1] \in ClientIds /\ client'[sub[1]] # NoClient
      BY <2>1 DEF Retires, Inv, TypeOK
    <3>2. client[sub[1]].socket /\ client[sub[1]].status # "opening"
      BY <3>1 DEF Inv, ServerOK
    <3>3. client'[sub[1]] = client[sub[1]] \/ client'[sub[1]] = Cut(client[sub[1]].of)
      BY <3>1 DEF Retires
    <3> QED BY <3>2, <3>3 DEF Cut
  <2>2. ASSUME NEW k \in ClientIds PROVE client'[k] = NoClient \/ (client'[k].socket /\ client'[k].of # None)
    <3>1. client'[k] = client[k] \/ client'[k] = NoClient \/ (client'[k] = Cut(client[k].of) /\ client[k].socket)
      BY DEF Retires
    <3>2. client[k] = NoClient \/ (client[k].socket /\ client[k].of # None)
      BY DEF Inv, ServerOK
    <3> QED BY <3>1, <3>2 DEF Cut, NoClient
  <2> QED BY <2>1, <2>2 DEF ServerOK
<1>15. TablesAreLive'
  <2>1. SUFFICES ASSUME listed # None, Usable(listed)'
                 PROVE  LET k == state'[listed].client IN
                        /\ \A x \in Subjects : state'[listed].table[x] \in {None, k}
                        /\ \A x \in Subjects : state'[listed].table[x] = k <=> <<k, x, listed>> \in live'
    BY <1>2 DEF TablesAreLive
  <2> DEFINE k == state[listed].client
  <2>2. Usable(listed) /\ k \in ClientIds
    BY <1>2, <1>4, <2>1, StateFields DEF Usable
  <2>3. client'[k] # NoClient
    BY <1>2, <2>1, <2>2 DEF Usable, IsClosed, NoClient
  <2>4. \A x \in Subjects : <<k, x, listed>> \in live' <=> <<k, x, listed>> \in live
    BY <2>3 DEF Retires
  <2>5. /\ \A x \in Subjects : state[listed].table[x] \in {None, k}
        /\ \A x \in Subjects : state[listed].table[x] = k <=> <<k, x, listed>> \in live
    BY <2>1, <2>2 DEF Inv, TablesAreLive
  <2>6. state'[listed].client = k /\ state'[listed].table = state[listed].table
    BY <1>2, <2>1
  <2> HIDE DEF k
  <2> QED BY <2>4, <2>5, <2>6
<1>16. ASSUME NEW t \in Tasks PROVE RestoringOK(t)'
  <2>1. SUFFICES ASSUME task'[t].pc = "restore", listed # None, task'[t].st = listed, client'[task'[t].k].status = "up"
                 PROVE  RestoringOK(t)'
    BY <1>2 DEF RestoringOK
  <2> DEFINE k == task[t].k
  <2>2. task'[t] = task[t]
    BY <2>1 DEF Retires, Waits, Moves, Connecting
  <2>3. k \in ClientIds /\ client'[k] = client[k] /\ client'[k] # NoClient
    BY <1>3, <2>1, <2>2, CallFields DEF Connecting, NoClient
  <2>4. \A x \in Subjects : <<k, x, listed>> \in live' <=> <<k, x, listed>> \in live
    BY <2>3 DEF Retires
  <2>5. state'[listed].table = state[listed].table
    BY <1>2, <2>1
  <2>6. \A x \in Subjects :
            /\ state[listed].table[x] = k => <<k, x, listed>> \in live
            /\ <<k, x, listed>> \in live => state[listed].table[x] = k \/ x \in task[t].stale
            /\ x \notin task[t].todo => state[listed].table[x] \in {None, k}
            /\ x \in task[t].stale => state[listed].table[x] = None
    BY <2>1, <2>2, <2>3 DEF Inv, RestoringOK
  <2> HIDE DEF k
  <2>7. \A x \in Subjects :
            /\ state'[listed].table[x] = k => <<k, x, listed>> \in live'
            /\ <<k, x, listed>> \in live' => state'[listed].table[x] = k \/ x \in task'[t].stale
            /\ x \notin task'[t].todo => state'[listed].table[x] \in {None, k}
            /\ x \in task'[t].stale => state'[listed].table[x] = None
    BY <2>2, <2>4, <2>5, <2>6
  <2> QED BY <1>2, <2>2, <2>7 DEF RestoringOK, k
<1>17. OrphansAreCounted' /\ EndOK'
  BY <1>2 DEF OrphansAreCounted, EndOK
<1> QED BY <1>5, <1>6, <1>8, <1>9, <1>10, <1>11, <1>12, <1>13, <1>14, <1>15, <1>16, <1>17 DEF Inv

\* A coroutine that is done, and a recovery that goes to sleep.
LEMMA IdleMoves ==
  ASSUME NEW u \in Tasks, task'[u] = Idle,
         task[u].pc \in Connecting => client'[task[u].k].status = "closed"
  PROVE  Moves(u)
  BY ConnectionConstants DEF Moves, Shaped, CallerOK, CloserOK, Refers, Idle, Connecting, Closing

LEMMA SleepMoves ==
  ASSUME Inv, NEW u \in StateIds, listed = u, task'[u] = [Idle EXCEPT !.pc = "sleep"],
         task[u].pc \in Connecting => client'[task[u].k].status = "closed"
  PROVE  Moves(u)
<1>1. task'[u].pc = "sleep" /\ task'[u].k = None /\ task'[u].st = None /\ task'[u].own = None /\ task'[u].want = None
  BY DEF Idle
<1>2. Shaped(u)' /\ CallerOK(u)' /\ CloserOK(u)'
  BY <1>1 DEF Shaped, CallerOK, CloserOK, Connecting, Closing
<1>3. Refers(u)
  BY <1>1, ConnectionConstants DEF Refers, Referred
<1> QED BY <1>1, <1>2, <1>3 DEF Moves, Connecting

\* A client that goes takes its subscriptions with it; one that is only marked closed keeps them.
LEMMA GoneKeeps ==
  ASSUME Inv, NEW k \in ClientIds \cup {None}, client' = Gone(k), live' = LiveWithout(k)
  PROVE  /\ \A j \in ClientIds : client'[j] = IF j = k THEN NoClient ELSE client[j]
         /\ live' \subseteq live /\ \A sub \in live : sub \in live' <=> client'[sub[1]] # NoClient
<1>1. client \in [ClientIds -> Clients] /\ live \subseteq ClientIds \X Subjects \X StateIds
  BY TypeParts DEF Inv, ServerTyped
<1>2. \A j \in ClientIds : client'[j] = IF j = k THEN NoClient ELSE client[j]
  BY <1>1 DEF Gone
<1>3. ASSUME NEW sub \in live PROVE sub \in live' <=> client'[sub[1]] # NoClient
  <2>1. sub[1] \in ClientIds /\ client[sub[1]] # NoClient
    BY <1>1 DEF Inv, ServerOK, NoClient
  <2> QED BY <1>2, <2>1 DEF LiveWithout
<1> QED BY <1>2, <1>3 DEF LiveWithout

LEMMA CutKeeps ==
  ASSUME Inv, NEW k \in ClientIds, client' = [client EXCEPT ![k].status = "closed"]
  PROVE  /\ client'[k] = IF client[k].socket THEN Cut(client[k].of) ELSE NoClient
         /\ \A j \in ClientIds : j # k => client'[j] = client[j]
         /\ \A sub \in live : client'[sub[1]] # NoClient
<1>1. /\ client'[k] = [status |-> "closed", socket |-> client[k].socket, of |-> client[k].of]
      /\ \A j \in ClientIds : j # k => client'[j] = client[j]
  BY StatusSet
<1>2. client[k].socket \in BOOLEAN /\ (client[k].socket \/ client[k] = NoClient)
  BY StateFields DEF Inv, ServerOK
<1>3. client'[k] = IF client[k].socket THEN Cut(client[k].of) ELSE NoClient
  BY <1>1, <1>2 DEF Cut, NoClient
<1>4. ASSUME NEW sub \in live PROVE client'[sub[1]] # NoClient
  <2>1. sub[1] \in ClientIds /\ client[sub[1]].socket
    BY DEF Inv, ServerOK, TypeOK
  <2> QED BY <1>1, <2>1 DEF NoClient
<1> QED BY <1>1, <1>3, <1>4

\* A step that neither ends the recovery nor takes the loop's client away.
LEMMA Retired ==
  ASSUME Inv, TypeOK', Retires,
         listed # None => (task'[listed] = Idle <=> task[listed] = Idle) /\ (Usable(listed) => Usable(listed)')
  PROVE  Inv'
<1>1. listed' = listed /\ loop' = loop /\ (listed # None => state'[listed].client = state[listed].client)
  BY DEF Retires, Inv, TypeOK
<1>2. RecoveryFollowsLoss'
  BY <1>1 DEF Inv, RecoveryFollowsLoss
<1> QED BY <1>2, RetiresKeeps

\* Coroutines move on, and nothing else.
LEMMA OnlyMoves ==
  ASSUME Inv, loop = "open", UNCHANGED <<loop, listed, closers, state, client, live, behind, orphaned, last>>,
         \A u \in Tasks : task'[u] = task[u] \/ Moves(u)
  PROVE  Retires /\ (listed # None => (Usable(listed) => Usable(listed)'))
<1>1. \A sub \in live : client[sub[1]] # NoClient
  BY DEF Inv, ServerOK, NoClient
<1>2. \A u \in Tasks : Waits(u) \/ Moves(u)
  BY DEF Waits
<1> QED BY <1>1, <1>2 DEF Retires, Usable, IsClosed

LEMMA CancelledKeeps == ASSUME Inv, NEW t \in Tasks, Cancelled(t) \/ UndoCutShort(t) PROVE Inv'
<1>1. /\ TypeOK' /\ task \in [Tasks -> Calls] /\ (listed # None => listed \in Tasks)
      /\ listed = t => listed \notin StateIds
      /\ listed # None => listed \in StateIds
  BY CancelledTyped, TypeParts DEF Inv, TasksTyped, TypeOK, Tasks, Cancelled, UndoCutShort, MayBeCancelled
<1>2. \A u \in Tasks : task'[u] = IF u = t THEN Idle ELSE task[u]
  BY <1>1 DEF Cancelled, UndoCutShort
<1>3. \A u \in Tasks : task'[u] = task[u] \/ Moves(u)
  <2>1. ASSUME task[t].pc \in Connecting PROVE client'[task[t].k].status = "closed"
    <3>1. task[t].pc = "undo" /\ UNCHANGED client
      BY <2>1 DEF Cancelled, UndoCutShort, Connecting
    <3>2. client[task[t].k] \in {NoClient, Cut(task[t].st)}
      BY <2>1, <3>1 DEF Inv, CallsOK, MakerOK
    <3> QED BY <3>1, <3>2 DEF NoClient, Cut
  <2>2. Moves(t)
    BY <1>2, <2>1, IdleMoves
  <2> QED BY <1>2, <2>2
<1>4. Retires /\ (listed # None => (Usable(listed) => Usable(listed)'))
  BY <1>3, OnlyMoves DEF Cancelled, UndoCutShort, MayBeCancelled
<1>5. listed # None => (task'[listed] = Idle <=> task[listed] = Idle)
  BY <1>1, <1>2
<1> QED BY <1>1, <1>4, <1>5, Retired

LEMMA WakeKeeps == ASSUME Inv, NEW s \in StateIds, Wake(s) PROVE Inv'
<1>1. /\ TypeOK' /\ task \in [Tasks -> Calls] /\ s \in Tasks /\ s # None /\ loop = "open" /\ listed = s
      /\ task[s].pc = "sleep" /\ s \in StateIds
      /\ UNCHANGED <<loop, listed, closers, state, client, live, behind, orphaned, last>>
  BY WakeTyped, TypeParts, ConnectionConstants DEF Inv, TasksTyped, Tasks, Wake, Runs
<1>2. \A u \in Tasks : task'[u] = IF u = s THEN IF Usable(s) THEN Idle ELSE Entered(s, None, None) ELSE task[u]
  BY <1>1 DEF Wake
<1>3. Moves(s)
  <2>1. CASE Usable(s)
    BY <1>1, <1>2, <2>1, IdleMoves DEF Connecting
  <2>2. CASE ~Usable(s)
    <3>1. task'[s] = [Idle EXCEPT !.pc = "lock", !.own = None, !.st = s, !.want = None]
      BY <1>1, <1>2, <2>2 DEF Entered
    <3>2. /\ task'[s].pc = "lock" /\ task'[s].own = None /\ task'[s].st = s /\ task'[s].k = None
          /\ task'[s].want = None
      BY <3>1 DEF Idle
    <3>3. Shaped(s)' /\ CallerOK(s)' /\ CloserOK(s)'
      BY <1>1, <3>2 DEF Shaped, CallerOK, CloserOK, Connecting, Closing
    <3>4. Refers(s)
      BY <1>1, <3>2, ConnectionConstants DEF Refers, Referred
    <3> QED BY <1>1, <3>2, <3>3, <3>4 DEF Moves, Connecting
  <2> QED BY <2>1, <2>2
<1>4. Retires
  BY <1>1, <1>2, <1>3, OnlyMoves
<1>5. RecoveryFollowsLoss'
  <2>1. task[s] # Idle /\ state[s].client # None
    BY <1>1 DEF Idle, Inv, RecoveryFollowsLoss
  <2>2. ~Usable(s) => task'[s].pc = "lock"
    BY <1>1, <1>2 DEF Entered, Idle
  <2>3. Usable(s) <=> Usable(s)'
    BY <1>1 DEF Usable, IsClosed
  <2>4. ~Usable(s) => task'[s] # Idle
    BY <2>2 DEF Idle
  <2> QED BY <1>1, <2>1, <2>3, <2>4 DEF RecoveryFollowsLoss
<1> QED BY <1>1, <1>4, <1>5, RetiresKeeps

\* The client of a state that somebody refers to is nobody's to make, nor left to close later.
LEMMA NotInTheMaking ==
  ASSUME Inv, loop = "open", NEW s \in StateIds, Referred(s), state[s].client # None
  PROVE  /\ \A v \in Tasks : task[v].pc \in Connecting => task[v].k # state[s].client
         /\ \A q \in StateIds : state[s].client \notin state[q].cleanups
<1>1. state[s].client \in ClientIds
  BY StateFields
<1> QED BY <1>1 DEF Inv, CallsOK, MakerOK, CleanupsOK

\* _client() returned the client of st.
LEMMA GivenMoves ==
  ASSUME Inv, loop = "open", NEW u \in Tasks, NEW st \in StateIds, NEW own \in StateIds \cup {None}, NEW want \in Subjects \cup {None},
         task'[u] = Given(state[st].client, own, want), Usable(st), Referred(st), listed' = listed, state' = state,
         client' = client,
         task[u].pc \notin Connecting,
         want # None => /\ u \notin StateIds /\ own # None /\ Referred(own)
                        /\ own = listed => st = listed
  PROVE  Moves(u)
<1>1. CASE want = None
  BY <1>1, IdleMoves DEF Given
<1>2. CASE want # None
  <2> DEFINE k == state[st].client
  <2>1. /\ task'[u].pc = "subscribe" /\ task'[u].own = own /\ task'[u].st = None /\ task'[u].k = k
        /\ task'[u].want = want /\ k # None
    BY <1>2 DEF Given, Idle, Usable
  <2>2. Shaped(u)'
    BY <1>2, <2>1 DEF Shaped, Connecting, Closing
  <2>3. CallerOK(u)' /\ CloserOK(u)'
    BY <1>2, <2>1 DEF CallerOK, CloserOK, Connecting, Closing
  <2>4. Refers(u)
    BY <1>2, <2>1, NotInTheMaking, ConnectionConstants DEF Refers
  <2> QED BY <2>1, <2>2, <2>3, <2>4 DEF Moves, Connecting
<1> QED BY <1>1, <1>2

LEMMA LockTakenUsableKeeps ==
  ASSUME Inv, NEW t \in Tasks, LockTaken(t), Usable(task[t].st)
  PROVE  Inv'
<1> DEFINE s == task[t].st
<1>1. /\ TypeOK' /\ task \in [Tasks -> Calls] /\ s \in StateIds /\ loop = "open" /\ task[t].pc = "lock"
      /\ UNCHANGED <<loop, listed, closers, state, client, live, behind, orphaned, last>>
      /\ \A u \in Tasks : task'[u] = IF u = t THEN Given(state[s].client, task[t].own, task[t].want) ELSE task[u]
  <2>1. TypeOK' /\ task \in [Tasks -> Calls]
    BY LockTakenTyped, TypeParts DEF Inv, TasksTyped
  <2>2. s \in StateIds /\ loop = "open" /\ task[t].pc = "lock"
    BY CallFields DEF LockTaken, Runs
  <2>3. /\ task' = [task EXCEPT ![t] = Given(state[s].client, task[t].own, task[t].want)]
        /\ UNCHANGED <<loop, listed, closers, state, client, live, behind, orphaned, last>>
    BY DEF LockTaken
  <2> QED BY <2>1, <2>2, <2>3
<1>2. /\ Shaped(t) /\ CallerOK(t)
      /\ task[t].own \in StateIds \cup {None} /\ task[t].want \in Subjects \cup {None}
  BY CallFields DEF Inv, CallsOK
<1>3. Moves(t)
  <2>1. Referred(s) /\ \A own \in StateIds : own = task[t].own => Referred(own)
    BY DEF Referred
  <2>2. task[t].want # None => /\ t \notin StateIds /\ task[t].own # None /\ Referred(task[t].own)
                               /\ task[t].own = listed => s = listed
    BY <1>1, <1>2, <2>1 DEF Shaped, CallerOK, Connecting
  <2>3. task[t].pc \notin Connecting
    BY <1>1 DEF Connecting
  <2> QED BY <1>1, <1>2, <2>1, <2>2, <2>3, GivenMoves
<1>4. Retires /\ (listed # None => (Usable(listed) => Usable(listed)'))
  BY <1>1, <1>3, OnlyMoves
<1>5. RecoveryFollowsLoss'
  <2>1. listed # None /\ task'[listed] # task[listed] => t = listed /\ s = listed /\ listed \in StateIds
    BY <1>1, <1>2 DEF Shaped, Inv, TypeOK, Tasks
  <2>2. task[t] # Idle
    BY <1>1 DEF Idle
  <2>3. listed # None => /\ state'[listed].client = state[listed].client
                         /\ Usable(listed) <=> Usable(listed)'
    BY <1>1 DEF Usable, IsClosed
  <2>4. listed # None /\ task'[listed] # Idle => task[listed] # Idle
    BY <1>1, <2>1, <2>2
  <2> QED BY <1>1, <2>1, <2>3, <2>4 DEF Inv, RecoveryFollowsLoss
<1> QED BY <1>1, <1>4, <1>5, RetiresKeeps

\* A client goes away, or is marked closed while it goes.
LEMMA TakesAway ==
  ASSUME Inv, loop = "open", UNCHANGED <<loop, listed, closers, state, orphaned, last>>, behind' \subseteq behind,
         NEW k \in ClientIds \cup {None}, client' = Gone(k), live' = LiveWithout(k),
         \A s \in StateIds : k \notin state[s].cleanups,
         \A u \in Tasks : (task'[u] = task[u] /\ (task[u].pc = "connect" => task[u].k # k)) \/ Moves(u)
  PROVE  Retires /\ (listed # None /\ state[listed].client # k => (Usable(listed) => Usable(listed)'))
<1>1. /\ \A j \in ClientIds : client'[j] = IF j = k THEN NoClient ELSE client[j]
      /\ live' \subseteq live /\ \A sub \in live : sub \in live' <=> client'[sub[1]] # NoClient
  BY GoneKeeps
<1>2. \A u \in Tasks : Waits(u) \/ Moves(u)
  <2>1. \A u \in Tasks : task[u].pc \in Connecting => task[u].k \in ClientIds
    BY CallFields
  <2> QED BY <1>1, <2>1 DEF Waits
<1>3. listed # None /\ state[listed].client # k => (Usable(listed) => Usable(listed)')
  <2>1. listed # None => state[listed].client \in ClientIds \cup {None}
    BY StateFields DEF Inv, TypeOK
  <2> QED BY <1>1, <2>1 DEF Usable, IsClosed
<1>4. Retires
  <2>1. \A s \in StateIds : \A j \in state[s].cleanups : client'[j] = client[j]
    BY <1>1, StateFields
  <2> QED BY <1>1, <1>2, <2>1 DEF Retires
<1> QED BY <1>3, <1>4

LEMMA CutsOff ==
  ASSUME Inv, loop = "open", UNCHANGED <<loop, listed, closers, state, live, behind, orphaned, last>>,
         NEW k \in ClientIds, client' = [client EXCEPT ![k].status = "closed"],
         listed # None => state[listed].client # k,
         \A s \in StateIds : k \notin state[s].cleanups,
         \A u \in Tasks : (task'[u] = task[u] /\ (task[u].pc \in Connecting => task[u].k # k)) \/ Moves(u)
  PROVE  Retires /\ (listed # None => (Usable(listed) => Usable(listed)'))
<1>1. /\ client'[k] = IF client[k].socket THEN Cut(client[k].of) ELSE NoClient
      /\ \A j \in ClientIds : j # k => client'[j] = client[j]
      /\ \A sub \in live : client'[sub[1]] # NoClient
  BY CutKeeps
<1>2. \A u \in Tasks : Waits(u) \/ Moves(u)
  <2>1. \A u \in Tasks : task[u].pc \in Connecting => task[u].k \in ClientIds
    BY CallFields
  <2> QED BY <1>1, <2>1 DEF Waits
<1>3. listed # None => (Usable(listed) => Usable(listed)')
  <2>1. listed # None => state[listed].client \in ClientIds \cup {None}
    BY StateFields DEF Inv, TypeOK
  <2> QED BY <1>1, <2>1 DEF Usable, IsClosed
<1>4. Retires
  <2>1. \A s \in StateIds : \A j \in state[s].cleanups : client'[j] = client[j]
    BY <1>1, StateFields
  <2>2. \A j \in ClientIds : \/ client'[j] \in {client[j], NoClient}
                             \/ /\ client'[j] = Cut(client[j].of) /\ client[j].socket
                                /\ listed # None => state[listed].client # j
    BY <1>1
  <2> QED BY <1>1, <1>2, <2>1, <2>2 DEF Retires
<1> QED BY <1>3, <1>4

\* A clean-up that ends, by closing its client or by giving up on it.
LEMMA CleanupEnds ==
  ASSUME Inv, TypeOK', NEW s \in StateIds, NEW k \in ClientIds, loop = "open", k \in state[s].cleanups,
         state' = [state EXCEPT ![s].cleanups = @ \ {k}],
         client'[k] = NoClient \/ client'[k] = Cut(client[k].of),
         \A j \in ClientIds : j # k => client'[j] = client[j],
         UNCHANGED <<loop, listed, closers, live, task, behind, orphaned, last>>
  PROVE  Inv'
<1>2. /\ s = listed /\ client[k].status = "opening" /\ client[k].socket /\ k \notin behind
      /\ \A t \in Tasks : task[t].k # k
      /\ \A q \in StateIds : Referred(q) => state[q].client # k
      /\ \A q \in StateIds : k \in state[q].cleanups => q = s
  BY DEF Inv, CleanupsOK
<1>3. client'[k].status = "closed"
  BY DEF NoClient, Cut
<1>4. /\ state'[s].cleanups = state[s].cleanups \ {k} /\ state'[s].client = state[s].client
      /\ state'[s].table = state[s].table
      /\ \A q \in StateIds : q # s => state'[q] = state[q]
  <2>1. state[s].cleanups \ {k} \in SUBSET ClientIds
    BY StateFields
  <2> QED BY <2>1, CleanupsSet
<1>5. \A u \in Tasks : Waits(u)
  <2>1. \A u \in Tasks : task[u].pc \in Connecting => task[u].k \in ClientIds
    BY CallFields
  <2> QED BY <1>2, <2>1 DEF Waits
<1>6. \A sub \in live : client'[sub[1]] # NoClient
  <2>1. \A sub \in live : sub[1] \in ClientIds /\ sub[1] # k /\ client[sub[1]] # NoClient
    BY <1>2 DEF Inv, ServerOK, TypeOK, NoClient
  <2> QED BY <2>1
<1>7. \A q \in StateIds : /\ state'[q].client = state[q].client /\ state'[q].table = state[q].table
                          /\ state'[q].cleanups \subseteq state[q].cleanups
                          /\ \A j \in state[q].cleanups : IF j \in state'[q].cleanups THEN client'[j] = client[j]
                                                          ELSE client'[j].status = "closed"
  <2>1. \A q \in StateIds : \A j \in state[q].cleanups : j \in ClientIds
    BY StateFields
  <2>2. SUFFICES ASSUME NEW q \in StateIds
                 PROVE  /\ state'[q].client = state[q].client /\ state'[q].table = state[q].table
                        /\ state'[q].cleanups = state[q].cleanups \ {k}
    BY <1>3, <2>1
  <2> QED BY <1>2, <1>4, <2>1
<1>8. \A j \in ClientIds : \/ client'[j] \in {client[j], NoClient}
                           \/ /\ client'[j] = Cut(client[j].of) /\ client[j].socket
                              /\ listed # None => state[listed].client # j
  <2>1. Referred(s)
    BY <1>2 DEF Referred
  <2> QED BY <1>2, <2>1
<1>9. Retires
  BY <1>5, <1>6, <1>7, <1>8 DEF Retires
<1>10. listed # None => (Usable(listed) => Usable(listed)')
  <2>1. Referred(listed) /\ state[listed].client # k /\ state[listed].client \in ClientIds \cup {None}
    BY <1>2, StateFields DEF Referred
  <2> QED BY <1>2, <1>4, <2>1 DEF Usable, IsClosed
<1> QED BY <1>9, <1>10, Retired

LEMMA ClosedQuietlyKeeps == ASSUME Inv, NEW s \in StateIds, NEW k \in ClientIds, ClosedQuietly(s, k) PROVE Inv'
<1>1. /\ TypeOK' /\ loop = "open" /\ k \in state[s].cleanups /\ client' = Gone(k)
      /\ state' = [state EXCEPT ![s].cleanups = @ \ {k}]
      /\ UNCHANGED <<loop, listed, closers, live, task, behind, orphaned, last>>
  BY ClosedQuietlyTyped DEF ClosedQuietly, NeverCameUp
<1>2. \A j \in ClientIds : client'[j] = IF j = k THEN NoClient ELSE client[j]
  BY <1>1, TypeParts DEF Gone, Inv, ServerTyped
<1> QED BY <1>1, <1>2, CleanupEnds

LEMMA CloseTimesOutKeeps == ASSUME Inv, NEW s \in StateIds, NEW k \in ClientIds, CloseTimesOut(s, k) PROVE Inv'
<1>1. /\ TypeOK' /\ loop = "open" /\ k \in state[s].cleanups
      /\ client' = [client EXCEPT ![k].status = "closed"]
      /\ state' = [state EXCEPT ![s].cleanups = @ \ {k}]
      /\ UNCHANGED <<loop, listed, closers, live, task, behind, orphaned, last>>
  BY CloseTimesOutTyped DEF CloseTimesOut
<1>2. /\ client'[k] = Cut(client[k].of) \/ client'[k] = NoClient
      /\ \A j \in ClientIds : j # k => client'[j] = client[j]
  BY <1>1, CutKeeps
<1> QED BY <1>1, <1>2, CleanupEnds

LEMMA CollectedKeeps == ASSUME Inv, NEW k \in ClientIds, Collected(k) PROVE Inv'
<1>1. /\ TypeOK' /\ loop = "open" /\ client' = Gone(k) /\ live' = LiveWithout(k) /\ task' = task
      /\ UNCHANGED <<loop, listed, closers, state, task, behind, orphaned, last>>
      /\ \A s \in StateIds : k \notin state[s].cleanups
      /\ listed # None => state[listed].client # k
      /\ \A u \in Tasks : task[u].k # k
  BY LostTyped DEF Collected, Held
<1>2. Retires /\ (listed # None => (Usable(listed) => Usable(listed)'))
  BY <1>1, TakesAway
<1> QED BY <1>1, <1>2, Retired

LEMMA ClosedBehindKeeps == ASSUME Inv, NEW k \in ClientIds, ClosedBehind(k) PROVE Inv'
<1>1. /\ TypeOK' /\ loop = "open" /\ client' = Gone(k) /\ live' = LiveWithout(k) /\ task' = task
      /\ UNCHANGED <<loop, listed, closers, state, task, orphaned, last>> /\ behind' \subseteq behind
      /\ k \in behind
  BY LostTyped DEF ClosedBehind
<1>2. /\ \A s \in StateIds : k \notin state[s].cleanups
      /\ listed # None => state[listed].client # k
      /\ \A u \in Tasks : task[u].pc \in Connecting => task[u].k # k
  BY <1>1 DEF Inv, BehindOK, Elsewhere, CleanupsOK, CallsOK, MakerOK
<1>3. \A u \in Tasks : task'[u] = task[u] /\ (task[u].pc = "connect" => task[u].k # k)
  BY <1>1, <1>2 DEF Connecting
<1>4. Retires /\ (listed # None => (Usable(listed) => Usable(listed)'))
  BY <1>1, <1>2, <1>3, TakesAway
<1> QED BY <1>1, <1>4, Retired

\* What close() has in its hands is nobody's to make, and not the loop's client.
LEMMA Taken ==
  ASSUME Inv, loop = "open", NEW t \in Tasks, task[t].pc \in Closing, task[t].k # None
  PROVE  /\ task[t].k \in ClientIds /\ Elsewhere(task[t].k)
         /\ listed # None => state[listed].client # task[t].k
         /\ \A s \in StateIds : task[t].k \notin state[s].cleanups
         /\ \A u \in Tasks : task[u].pc \in Connecting => task[u].k # task[t].k
<1>1. task[t].k \in ClientIds /\ task[t].pc \notin Connecting
  BY CallFields DEF Connecting, Closing
<1> QED BY <1>1 DEF Inv, CallsOK, CloserOK, Elsewhere, CleanupsOK, MakerOK

LEMMA DrainClosesKeeps == ASSUME Inv, NEW t \in Closers, DrainCloses(t) PROVE Inv'
<1> DEFINE k == task[t].k
<1>1. /\ TypeOK' /\ loop = "open" /\ client' = [client EXCEPT ![k].status = "closed"]
      /\ UNCHANGED <<loop, listed, closers, state, live, task, behind, orphaned, last>>
      /\ t \in Tasks /\ task[t].pc = "drain"
  BY DrainTyped DEF DrainCloses, Tasks
<1>2. /\ k \in ClientIds
      /\ listed # None => state[listed].client # k
      /\ \A s \in StateIds : k \notin state[s].cleanups
      /\ \A u \in Tasks : task[u].pc \in Connecting => task[u].k # k
  BY <1>1, Taken, CallFields DEF Closing, Shaped
<1> HIDE DEF k
<1>3. \A u \in Tasks : task'[u] = task[u] /\ (task[u].pc \in Connecting => task[u].k # k)
  BY <1>1, <1>2
<1>4. Retires /\ (listed # None => (Usable(listed) => Usable(listed)'))
  BY <1>1, <1>2, <1>3, CutsOff
<1> QED BY <1>1, <1>4, Retired

LEMMA DrainFailsKeeps == ASSUME Inv, NEW t \in Closers, DrainFails(t) PROVE Inv'
<1> DEFINE k == task[t].k
<1>1. /\ TypeOK' /\ loop = "open" /\ client' = [client EXCEPT ![k].status = "closed"]
      /\ UNCHANGED <<loop, listed, closers, state, live, behind, orphaned, last>>
      /\ task' = [task EXCEPT ![t].pc = "hard"]
      /\ t \in Tasks /\ task[t].pc = "drain" /\ task \in [Tasks -> Calls]
  BY DrainTyped, TypeParts DEF DrainFails, Tasks, Inv, TasksTyped
<1>2. /\ k \in ClientIds /\ t \notin StateIds
      /\ listed # None => state[listed].client # k
      /\ \A s \in StateIds : k \notin state[s].cleanups
      /\ \A u \in Tasks : task[u].pc \in Connecting => task[u].k # k
  BY <1>1, Taken, CallFields DEF Closing, Shaped
<1>3. /\ task'[t].pc = "hard" /\ task'[t].own = task[t].own /\ task'[t].st = task[t].st /\ task'[t].k = k
      /\ task'[t].want = task[t].want
      /\ \A u \in Tasks : u # t => task'[u] = task[u]
  BY <1>1 DEF Calls
<1>4. Moves(t)
  <2>1. Shaped(t) /\ CloserOK(t)
    BY <1>1 DEF Inv, CallsOK
  <2>2. Shaped(t)'
    BY <1>1, <1>2, <1>3, <2>1 DEF Shaped, Connecting, Closing
  <2>3. CallerOK(t)'
    BY <1>3 DEF CallerOK, Connecting
  <2>4. client'[k].of = client[k].of
    BY <1>1, <1>2, StatusSet
  <2>5. CloserOK(t)'
    BY <1>1, <1>3, <2>1, <2>4 DEF CloserOK, Elsewhere, Closing
  <2>6. Refers(t)
    BY <1>1, <1>2, <1>3 DEF Refers, Referred
  <2> QED BY <1>1, <1>3, <2>2, <2>3, <2>5, <2>6 DEF Moves, Connecting
<1> HIDE DEF k
<1>5. \A u \in Tasks : (task'[u] = task[u] /\ (task[u].pc \in Connecting => task[u].k # k)) \/ Moves(u)
  BY <1>1, <1>2, <1>3, <1>4
<1>6. Retires /\ (listed # None => (Usable(listed) => Usable(listed)'))
  BY <1>1, <1>2, <1>5, CutsOff
<1>7. listed # None => task'[listed] = task[listed]
  BY <1>2, <1>3 DEF Inv, TypeOK, Tasks
<1> QED BY <1>1, <1>6, <1>7, Retired

LEMMA ClosedForGoodKeeps ==
  ASSUME Inv, NEW t \in Closers, ClosedForGood(t) \/ (CloseCancelled(t) /\ task[t].pc = "hard")
  PROVE  Inv'
<1> DEFINE k == task[t].k
<1>1. /\ TypeOK' /\ loop = "open" /\ client' = Gone(k) /\ live' = LiveWithout(k)
      /\ UNCHANGED <<loop, listed, closers, state, behind, orphaned, last>>
      /\ task' = [task EXCEPT ![t] = Idle]
      /\ t \in Tasks /\ task[t].pc \in {"drain", "hard"} /\ task \in [Tasks -> Calls]
  BY ClosedTyped, TypeParts DEF ClosedForGood, CloseCancelled, Tasks, Inv, TasksTyped
<1>2. /\ k \in ClientIds /\ t \notin StateIds
      /\ listed # None => state[listed].client # k
      /\ \A s \in StateIds : k \notin state[s].cleanups
      /\ \A u \in Tasks : task[u].pc \in Connecting => task[u].k # k
  BY <1>1, Taken, CallFields DEF Closing, Shaped
<1>3. Moves(t)
  BY <1>1, IdleMoves DEF Connecting
<1> HIDE DEF k
<1>4. \A u \in Tasks : (task'[u] = task[u] /\ (task[u].pc = "connect" => task[u].k # k)) \/ Moves(u)
  BY <1>1, <1>2, <1>3 DEF Connecting
<1>5. Retires /\ (listed # None => (Usable(listed) => Usable(listed)'))
  BY <1>1, <1>2, <1>4, TakesAway
<1>6. listed # None => task'[listed] = task[listed]
  BY <1>1, <1>2 DEF Inv, TypeOK, Tasks
<1> QED BY <1>1, <1>5, <1>6, Retired

LEMMA CloseCancelledKeeps == ASSUME Inv, NEW t \in Closers, CloseCancelled(t), task[t].pc # "hard" PROVE Inv'
<1> DEFINE k == task[t].k
<1>1. /\ TypeOK' /\ loop = "open" /\ behind' = behind \cup HardBehind(k)
      /\ UNCHANGED <<loop, listed, closers, state, client, live, orphaned, last>>
      /\ task' = [task EXCEPT ![t] = Idle]
      /\ t \in Tasks /\ task[t].pc \in Closing /\ task \in [Tasks -> Calls]
  BY ClosedTyped, TypeParts DEF CloseCancelled, Tasks, Inv, TasksTyped
<1>2. t \notin StateIds
  BY <1>1, CallFields
<1>3. Moves(t)
  BY <1>1, IdleMoves DEF Connecting, Closing
<1>4. \A j \in behind' : j \notin behind => /\ Elsewhere(j)
                                            /\ \A u \in Tasks : task[u].pc \in Connecting => task[u].k # j
                                            /\ \A s \in StateIds : j \notin state[s].cleanups
  BY <1>1, Taken DEF HardBehind
<1>5. \A sub \in live : client[sub[1]] # NoClient
  BY DEF Inv, ServerOK, NoClient
<1>6. Retires
  <2>1. \A u \in Tasks : Waits(u) \/ Moves(u)
    BY <1>1, <1>3 DEF Waits
  <2> QED BY <1>1, <1>4, <1>5, <2>1 DEF Retires
<1>7. listed # None => task'[listed] = task[listed] /\ (Usable(listed) => Usable(listed)')
  BY <1>1, <1>2 DEF Inv, TypeOK, Tasks, Usable, IsClosed
<1> QED BY <1>1, <1>6, <1>7, Retired

LEMMA SettledKeeps == ASSUME Inv, NEW t \in Closers, Settled(t) PROVE Inv'
<1> DEFINE s == task[t].own
           k == state[s].client
<1>1. /\ TypeOK' /\ loop = "open" /\ t \in Tasks /\ task[t].pc = "settle" /\ task[t] \in Calls
      /\ task \in [Tasks -> Calls] /\ s \in StateIds /\ t \notin StateIds /\ task[t].st = None /\ s # listed
      /\ UNCHANGED <<loop, listed, closers, state, client, live, behind, orphaned, last>>
      /\ task' = [task EXCEPT ![t] = IF Usable(s) THEN [task[t] EXCEPT !.pc = "drain", !.k = k] ELSE Idle]
  <2>1. TypeOK' /\ task \in [Tasks -> Calls] /\ t \in Tasks
    BY SettledTyped, TypeParts DEF Inv, TasksTyped, Tasks
  <2>2. task[t].pc = "settle" /\ loop = "open"
        /\ UNCHANGED <<loop, listed, closers, state, client, live, behind, orphaned, last>>
        /\ task' = [task EXCEPT ![t] = IF Usable(s) THEN [task[t] EXCEPT !.pc = "drain", !.k = k] ELSE Idle]
    BY DEF Settled
  <2>3. s \in StateIds /\ t \notin StateIds /\ task[t].st = None
    BY <2>1, <2>2, CallFields DEF Closing, Shaped, Connecting
  <2>4. s # listed
    BY <2>1, <2>2 DEF Inv, CallsOK, CloserOK, Closing
  <2> QED BY <2>1, <2>2, <2>3, <2>4
<1>2. Moves(t)
  <2>1. CASE ~Usable(s)
    BY <1>1, <2>1, IdleMoves DEF Connecting
  <2>2. CASE Usable(s)
    <3>1. /\ task'[t].pc = "drain" /\ task'[t].own = s /\ task'[t].st = None /\ task'[t].k = k
          /\ task'[t].want = task[t].want
      BY <1>1, <2>2 DEF Calls
    <3>2. Referred(s) /\ k \in ClientIds /\ k # None
      BY <1>1, <2>2, StateFields DEF Referred, Usable
    <3>3. Shaped(t)'
      BY <1>1, <3>1, <3>2, ConnectionConstants DEF Shaped, Connecting, Closing
    <3>4. CallerOK(t)'
      BY <3>1 DEF CallerOK, Connecting
    <3>5. Elsewhere(k)
      <4>1. listed # None => listed \in StateIds /\ Referred(listed)
        BY DEF Referred, Inv, TypeOK
      <4> QED BY <1>1, <3>2, <4>1, ConnectionConstants DEF Inv, ClientsApart, Elsewhere
    <3>6. CloserOK(t)'
      BY <1>1, <3>1, <3>5 DEF CloserOK, Elsewhere
    <3>7. Refers(t)
      BY <1>1, <3>1, <3>2, NotInTheMaking, ConnectionConstants DEF Refers
    <3> QED BY <1>1, <3>1, <3>3, <3>4, <3>6, <3>7 DEF Moves, Connecting
  <2> QED BY <2>1, <2>2
<1>3. Retires /\ (listed # None => (Usable(listed) => Usable(listed)'))
  BY <1>1, <1>2, OnlyMoves
<1>4. listed # None => task'[listed] = task[listed]
  BY <1>1 DEF Inv, TypeOK, Tasks
<1> QED BY <1>1, <1>3, <1>4, Retired

\* A client being made is nobody else's.
LEMMA InTheMaking ==
  ASSUME Inv, NEW t \in Tasks, task[t].pc \in Connecting
  PROVE  /\ MakerOK(t) /\ task[t].k \in ClientIds /\ task[t].st \in StateIds
         /\ listed # None => state[listed].client # task[t].k
         /\ \A s \in StateIds : task[t].k \notin state[s].cleanups
         /\ \A u \in Tasks : u # t => task[u].k # task[t].k
<1>1. MakerOK(t) /\ task[t].k \in ClientIds /\ task[t].st \in StateIds
  BY CallFields DEF Inv, CallsOK
<1>2. listed # None => listed \in StateIds /\ Referred(listed)
  BY DEF Referred, Inv, TypeOK
<1> QED BY <1>1, <1>2 DEF MakerOK

LEMMA RestoreFailsKeeps == ASSUME Inv, NEW t \in Tasks, RestoreFails(t) PROVE Inv'
<1> DEFINE k == task[t].k
<1>1. /\ TypeOK' /\ loop = "open" /\ client' = [client EXCEPT ![k].status = "closed"]
      /\ UNCHANGED <<loop, listed, closers, state, live, behind, orphaned, last>>
      /\ task' = [task EXCEPT ![t].pc = "undo"]
      /\ task[t].pc = "restore" /\ task \in [Tasks -> Calls]
  BY RestoreFailsTyped, TypeParts DEF RestoreFails, Inv, TasksTyped
<1>2. /\ k \in ClientIds /\ MakerOK(t) /\ Shaped(t) /\ CallerOK(t)
      /\ listed # None => state[listed].client # k
      /\ \A s \in StateIds : k \notin state[s].cleanups
      /\ \A u \in Tasks : u # t => task[u].k # k
  BY <1>1, InTheMaking DEF Connecting, Inv, CallsOK
<1>3. /\ task'[t].pc = "undo" /\ task'[t].own = task[t].own /\ task'[t].st = task[t].st /\ task'[t].k = k
      /\ task'[t].want = task[t].want
      /\ \A u \in Tasks : u # t => task'[u] = task[u]
  BY <1>1 DEF Calls
<1>4. Moves(t)
  <2>1. Shaped(t)'
    BY <1>1, <1>2, <1>3 DEF Shaped, Connecting, Closing
  <2>2. CallerOK(t)' /\ CloserOK(t)'
    BY <1>1, <1>2, <1>3 DEF CallerOK, CloserOK, Connecting, Closing
  <2>3. client'[k] \in {NoClient, Cut(task[t].st)}
    <3>1. client[k] \in {NoClient, UpFor(task[t].st)}
      BY <1>1, <1>2 DEF MakerOK, Connecting
    <3>2. client'[k] = IF client[k].socket THEN Cut(client[k].of) ELSE NoClient
      BY <1>1, <1>2, CutKeeps
    <3> QED BY <3>1, <3>2 DEF UpFor, NoClient
  <2>4. Refers(t)
    <3>1. t \in StateIds => Referred(t)
      BY <1>1 DEF Referred
    <3> QED BY <1>1, <1>2, <1>3, <3>1 DEF Refers, Referred
  <2> QED BY <1>1, <1>3, <2>1, <2>2, <2>3, <2>4 DEF Moves, Connecting
<1> HIDE DEF k
<1>5. \A u \in Tasks : (task'[u] = task[u] /\ (task[u].pc \in Connecting => task[u].k # k)) \/ Moves(u)
  BY <1>2, <1>3, <1>4
<1>6. Retires /\ (listed # None => (Usable(listed) => Usable(listed)'))
  BY <1>1, <1>2, <1>5, CutsOff
<1>7. listed # None => (task'[listed] = Idle <=> task[listed] = Idle)
  <2>1. task[t] # Idle /\ task'[t] # Idle
    BY <1>1, <1>3 DEF Idle
  <2> QED BY <1>3, <2>1 DEF Inv, TypeOK, Tasks
<1> QED BY <1>1, <1>6, <1>7, Retired

\* Which tasks a recovery that is started changes.
LEMMA RecoveringSets ==
  ASSUME Inv, NEW s \in StateIds \cup {None}
  PROVE  \A u \in Tasks : Recovering(s)[u] = IF u = s /\ listed = s /\ task[s] = Idle THEN [Idle EXCEPT !.pc = "sleep"]
                                             ELSE task[u]
<1>1. task \in [Tasks -> Calls]
  BY TypeParts DEF Inv, TasksTyped
<1>2. CASE listed = s /\ task[s] = Idle
  <2>1. Recovering(s) = [task EXCEPT ![s].pc = "sleep"]
    BY <1>2 DEF Recovering
  <2> QED BY <1>1, <1>2, <2>1
<1>3. CASE ~(listed = s /\ task[s] = Idle)
  BY <1>3 DEF Recovering
<1> QED BY <1>2, <1>3

LEMMA UndoneKeeps == ASSUME Inv, NEW t \in Tasks, Undone(t) PROVE Inv'
<1> DEFINE k == task[t].k
           of == client[k].of
           wakes == client[k].socket /\ listed = of /\ task[of] = Idle
<1>1. /\ TypeOK' /\ loop = "open" /\ client' = Gone(k) /\ live' = LiveWithout(k)
      /\ UNCHANGED <<loop, listed, closers, state, behind, orphaned, last>>
      /\ task' = [IF client[k].socket THEN Recovering(of) ELSE task EXCEPT ![t] = Raised(t)]
      /\ task[t].pc = "undo" /\ task \in [Tasks -> Calls]
  BY UndoneTyped, TypeParts DEF Undone, Inv, TasksTyped
<1>2. /\ k \in ClientIds /\ MakerOK(t) /\ of \in StateIds \cup {None}
      /\ listed # None => state[listed].client # k
      /\ \A s \in StateIds : k \notin state[s].cleanups
      /\ \A u \in Tasks : u # t => task[u].k # k
  BY <1>1, InTheMaking, StateFields DEF Connecting
<1>3. /\ task'[t] = Raised(t)
      /\ \A u \in Tasks : u # t => task'[u] = IF u = of /\ wakes THEN [Idle EXCEPT !.pc = "sleep"] ELSE task[u]
  <2>1. CASE client[k].socket
    <3>1. task' = [Recovering(of) EXCEPT ![t] = Raised(t)] /\ Recovering(of) \in [Tasks -> Calls]
      BY <1>1, <2>1, RecoveringTyped DEF Inv
    <3>2. \A u \in Tasks : Recovering(of)[u] = IF u = of /\ listed = of /\ task[of] = Idle
                                               THEN [Idle EXCEPT !.pc = "sleep"] ELSE task[u]
      BY <1>2, RecoveringSets
    <3> QED BY <2>1, <3>1, <3>2
  <2>2. CASE ~client[k].socket
    BY <1>1, <2>2
  <2> QED BY <2>1, <2>2
<1>4. client'[k] = NoClient /\ client'[k].status = "closed"
  <2>1. client'[k] = NoClient
    BY <1>1, <1>2, GoneKeeps
  <2> QED BY <2>1 DEF NoClient
<1>5. Moves(t)
  <2>1. CASE t \in StateIds /\ listed = t
    BY <1>3, <1>4, <2>1, SleepMoves DEF Raised
  <2>2. CASE ~(t \in StateIds /\ listed = t)
    BY <1>3, <1>4, <2>2, IdleMoves DEF Raised
  <2> QED BY <2>1, <2>2
<1>6. wakes => of \in StateIds /\ Moves(of)
  <2>1. SUFFICES ASSUME wakes PROVE of \in StateIds /\ Moves(of)
    OBVIOUS
  <2>2. client[k] = Cut(task[t].st) /\ task[t].st \in StateIds
    BY <1>1, <1>2, <2>1, CallFields DEF MakerOK, Connecting, NoClient
  <2>3. of \in StateIds /\ of \in Tasks /\ of # t
    BY <1>1, <2>1, <2>2 DEF Cut, Tasks, Idle
  <2>4. task'[of] = [Idle EXCEPT !.pc = "sleep"] /\ task[of].pc = "idle"
    BY <1>3, <2>1, <2>3 DEF Idle
  <2> HIDE DEF of
  <2> QED BY <2>1, <2>3, <2>4, SleepMoves DEF Connecting
<1> HIDE DEF wakes
<1>7. \A u \in Tasks : (task'[u] = task[u] /\ (task[u].pc = "connect" => task[u].k # k)) \/ Moves(u)
  BY <1>2, <1>3, <1>5, <1>6
<1>8. Retires /\ (listed # None => (Usable(listed) => Usable(listed)'))
  <2> HIDE DEF k
  <2> QED BY <1>1, <1>2, <1>7, TakesAway
<1>9. RecoveryFollowsLoss'
  <2>1. SUFFICES ASSUME listed # None
                 PROVE  /\ state[listed].client # None /\ ~Usable(listed)' => task'[listed] # Idle
                        /\ task'[listed] # Idle => state[listed].client # None
    BY <1>1 DEF RecoveryFollowsLoss
  <2>2. listed \in StateIds /\ listed \in Tasks
    BY <2>1 DEF Inv, TypeOK, Tasks
  <2>3. /\ state[listed].client # None /\ ~Usable(listed) => task[listed] # Idle
        /\ task[listed] # Idle => state[listed].client # None
    BY <1>1, <2>1 DEF Inv, RecoveryFollowsLoss
  <2>4. task'[listed] # Idle <=> task[listed] # Idle \/ wakes
    <3>1. [Idle EXCEPT !.pc = "sleep"] # Idle /\ task[t] # Idle
      BY <1>1 DEF Idle
    <3>2. wakes => listed = of
      BY DEF wakes
    <3>3. CASE listed = t
      BY <1>3, <2>2, <3>1, <3>3 DEF Raised
    <3>4. CASE listed # t
      BY <1>3, <2>2, <3>1, <3>2, <3>4
    <3> QED BY <3>3, <3>4
  <2>5. wakes => state[listed].client # None
    <3>1. wakes => of = task[t].st
      BY <1>1, <1>2 DEF wakes, MakerOK, Connecting, Cut, NoClient
    <3> QED BY <1>1, <1>2, <3>1 DEF wakes, MakerOK, Connecting, Stale
  <2> QED BY <1>8, <2>1, <2>3, <2>4, <2>5
<1> QED BY <1>1, <1>8, <1>9, RetiresKeeps

LEMMA LostKeeps == ASSUME Inv, NEW k \in ClientIds, Lost(k) PROVE Inv'
<1> DEFINE of == client[k].of
           wakes == listed = of /\ task[of] = Idle
<1>1. /\ TypeOK' /\ loop = "open" /\ client' = Gone(k) /\ live' = LiveWithout(k)
      /\ UNCHANGED <<loop, listed, closers, state, behind, orphaned, last>>
      /\ task' = Recovering(of) /\ client[k].status = "up" /\ client[k].socket
  <2>1. client[k].status = "up"
    BY DEF Lost
  <2>2. client[k].socket
    BY <2>1 DEF Inv, ServerOK, NoClient
  <2> QED BY <2>1, <2>2, LostTyped DEF Lost
<1>2. \A u \in Tasks : task'[u] = IF u = of /\ wakes THEN [Idle EXCEPT !.pc = "sleep"] ELSE task[u]
  BY <1>1, StateFields, RecoveringSets
<1>3. ASSUME wakes PROVE of \in StateIds /\ Moves(of) /\ state[listed].client # None
  <2>1. of \in StateIds
    <3>1. client[k] # NoClient
      BY <1>1 DEF NoClient
    <3>2. of # None
      BY <3>1 DEF Inv, ServerOK
    <3> QED BY <3>2, StateFields
  <2>2. Moves(of)
    <3>1. of \in Tasks
      BY <2>1 DEF Tasks
    <3>2. task'[of] = [Idle EXCEPT !.pc = "sleep"] /\ task[of].pc = "idle"
      BY <1>2, <1>3, <3>1 DEF Idle
    <3> HIDE DEF of
    <3> QED BY <1>3, <2>1, <3>1, <3>2, SleepMoves DEF Connecting
  <2>3. \/ state[listed].client = k
        \/ \E t \in Tasks : task[t].k = k /\ task[t].pc \in Connecting
        \/ k \in state[listed].cleanups
    BY <1>1, <1>3, <2>1, ConnectionConstants DEF Inv, OwnHeld
  <2>4. ASSUME NEW t \in Tasks, task[t].k = k, task[t].pc \in Connecting PROVE state[listed].client # None
    <3>1. client[k] \in {Opening(task[t].st), UpFor(task[t].st), Cut(task[t].st), NoClient} /\ MakerOK(t)
      BY <2>4, InTheMaking DEF MakerOK, Connecting
    <3>2. client[k] = UpFor(task[t].st) /\ task[t].pc # "connect"
      <4>1. client[k] = UpFor(task[t].st)
        BY <1>1, <3>1 DEF Opening, Cut, NoClient
      <4>2. task[t].pc = "connect" => client[k] = Opening(task[t].st)
        BY <2>4, <3>1 DEF MakerOK
      <4> QED BY <4>1, <4>2 DEF Opening, UpFor
    <3>3. task[t].st = listed
      BY <1>3, <3>2 DEF UpFor
    <3> QED BY <2>4, <3>1, <3>2, <3>3 DEF MakerOK, Stale
  <2>5. k \notin state[listed].cleanups
    BY <1>1, <1>3, <2>1 DEF Inv, CleanupsOK
  <2> QED BY <2>1, <2>2, <2>3, <2>4, <2>5, ConnectionConstants
<1>4. \A s \in StateIds : k \notin state[s].cleanups
  BY <1>1 DEF Inv, CleanupsOK
<1>5. \A u \in Tasks : task[u].pc = "connect" => task[u].k # k
  <2>1. ASSUME NEW u \in Tasks, task[u].pc = "connect" PROVE task[u].k # k
    <3>1. client[task[u].k] = Opening(task[u].st)
      BY <2>1, InTheMaking DEF MakerOK, Connecting
    <3> QED BY <1>1, <3>1 DEF Opening
  <2> QED BY <2>1
<1>6. \A u \in Tasks : (task'[u] = task[u] /\ (task[u].pc = "connect" => task[u].k # k)) \/ Moves(u)
  BY <1>2, <1>3, <1>5
<1>7. Retires /\ (listed # None /\ state[listed].client # k => (Usable(listed) => Usable(listed)'))
  BY <1>1, <1>4, <1>6, TakesAway
<1>8. RecoveryFollowsLoss'
  <2>1. SUFFICES ASSUME listed # None
                 PROVE  /\ state[listed].client # None /\ ~Usable(listed)' => task'[listed] # Idle
                        /\ task'[listed] # Idle => state[listed].client # None
    BY <1>1 DEF RecoveryFollowsLoss
  <2>2. listed \in StateIds /\ listed \in Tasks
    BY <2>1 DEF Inv, TypeOK, Tasks
  <2>3. /\ state[listed].client # None /\ ~Usable(listed) => task[listed] # Idle
        /\ task[listed] # Idle => state[listed].client # None
    BY <1>1, <2>1 DEF Inv, RecoveryFollowsLoss
  <2>4. task'[listed] # Idle <=> task[listed] # Idle \/ wakes
    <3>1. [Idle EXCEPT !.pc = "sleep"] # Idle
      BY DEF Idle
    <3> QED BY <1>2, <2>2, <3>1
  <2>5. state[listed].client = k => of = listed
    <3>1. state[listed].client = k => client[k] = UpFor(listed)
      BY <1>1, <2>1, ConnectionConstants DEF Inv, ListedOK, NoClient
    <3> QED BY <3>1 DEF UpFor
  <2>6. state[listed].client = k => task'[listed] # Idle
    BY <2>4, <2>5
  <2> HIDE DEF wakes
  <2> QED BY <1>3, <1>7, <2>1, <2>3, <2>4, <2>6
<1> QED BY <1>1, <1>7, <1>8, RetiresKeeps

\* A coroutine that is no recovery, and neither makes a client nor closes one.
LEMMA CallMoves ==
  ASSUME Inv, loop = "open", NEW u \in Tasks, u \notin StateIds, NEW s \in StateIds, NEW own \in StateIds \cup {None},
         NEW want \in Subjects \cup {None},
         listed = s, listed' = listed, state' = state, client' = client, task[u].pc \notin Connecting,
         want # None => own # None /\ Referred(own),
         \/ task'[u] = Entered(s, own, want)
         \/ want # None /\ task'[u] = [Idle EXCEPT !.pc = "queued", !.own = own, !.want = want]
  PROVE  Moves(u)
<1>1. Referred(s) /\ s # None
  BY ConnectionConstants DEF Referred
<1>2. CASE task'[u] = Entered(s, own, want) /\ Usable(s)
  <2>1. task'[u] = Given(state[s].client, own, want)
    BY <1>2 DEF Entered
  <2> QED BY <1>1, <1>2, <2>1, GivenMoves
<1>3. CASE task'[u] = Entered(s, own, want) /\ ~Usable(s)
  <2>1. /\ task'[u].pc = "lock" /\ task'[u].own = IF want = None THEN None ELSE own
        /\ task'[u].st = s /\ task'[u].k = None /\ task'[u].want = want
    BY <1>3 DEF Entered, Idle
  <2>2. Shaped(u)' /\ CallerOK(u)' /\ CloserOK(u)'
    BY <1>1, <2>1 DEF Shaped, CallerOK, CloserOK, Connecting, Closing
  <2>3. Refers(u)
    BY <1>1, <2>1, ConnectionConstants DEF Refers
  <2> QED BY <2>1, <2>2, <2>3 DEF Moves, Connecting
<1>4. CASE want # None /\ task'[u] = [Idle EXCEPT !.pc = "queued", !.own = own, !.want = want]
  <2>1. /\ task'[u].pc = "queued" /\ task'[u].own = own /\ task'[u].st = None /\ task'[u].k = None
        /\ task'[u].want = want
    BY <1>4 DEF Idle
  <2>2. Shaped(u)' /\ CallerOK(u)' /\ CloserOK(u)'
    BY <1>1, <1>4, <2>1 DEF Shaped, CallerOK, CloserOK, Connecting, Closing
  <2>3. Refers(u)
    BY <1>4, <2>1, ConnectionConstants DEF Refers
  <2> QED BY <2>1, <2>2, <2>3 DEF Moves, Connecting
<1> QED BY <1>2, <1>3, <1>4

\* A caller is no recovery.
LEMMA CallerIs == \A t \in Callers : t \in Tasks /\ t \notin StateIds
  BY RecoveriesAreNoCallers DEF Tasks

\* A call on the state that is there.
LEMMA CallKeepsListed == ASSUME Inv, NEW t \in Callers, Call(t), listed # None PROVE Inv'
<1>1. /\ TypeOK' /\ listed \in StateIds /\ t \in Tasks /\ t \notin StateIds /\ task \in [Tasks -> Calls]
      /\ TheState = {listed} /\ loop = "open" /\ task[t].pc = "idle"
  <2>1. TypeOK' /\ listed \in StateIds /\ task \in [Tasks -> Calls] /\ TheState = {listed}
    BY CallTyped, TypeParts DEF Inv, TablesTyped, TasksTyped, TheState
  <2>2. loop = "open" /\ task[t].pc = "idle"
    BY DEF Call, Idle
  <2> QED BY <2>1, <2>2, CallerIs
<1>2. PICK want \in Subjects \cup {None} :
        /\ UNCHANGED <<loop, listed, closers, state, client, live, behind, orphaned, last>>
        /\ task' = [task EXCEPT ![t] = IF want = None THEN Entered(listed, listed, None)
                                       ELSE [Idle EXCEPT !.pc = "queued", !.own = listed, !.want = want]]
  BY <1>1 DEF Call, Registered
<1>3. Referred(listed) /\ listed # None
  BY <1>1, ConnectionConstants DEF Referred
<1>4. Moves(t)
  <2>1. \/ want = None /\ task'[t] = Entered(listed, listed, None)
        \/ want # None /\ task'[t] = [Idle EXCEPT !.pc = "queued", !.own = listed, !.want = want]
    BY <1>1, <1>2
  <2>2. task[t].pc \notin Connecting
    BY <1>1 DEF Connecting
  <2> QED BY <1>1, <1>2, <1>3, <2>1, <2>2, CallMoves
<1>5. Retires /\ (Usable(listed) => Usable(listed)')
  BY <1>1, <1>2, <1>3, <1>4, OnlyMoves
<1>6. task'[listed] = task[listed]
  BY <1>1, <1>2 DEF Tasks
<1> QED BY <1>1, <1>5, <1>6, Retired

LEMMA ResumeKeepsListed == ASSUME Inv, NEW t \in Callers, Resume(t), listed # None PROVE Inv'
<1>1. /\ TypeOK' /\ listed \in StateIds /\ t \in Tasks /\ t \notin StateIds /\ task \in [Tasks -> Calls]
      /\ TheState = {listed} /\ loop = "open" /\ task[t].pc = "queued"
  BY ResumeTyped, CallerIs, TypeParts DEF Inv, TablesTyped, TasksTyped, TheState, Resume
<1>2. PICK own \in {task[t].own} \cup {listed} :
        /\ UNCHANGED <<loop, listed, closers, state, client, live, behind, orphaned, last>>
        /\ task' = [task EXCEPT ![t] = IF own = listed /\ state[own].table[task[t].want] # None THEN Idle
                                       ELSE Entered(listed, own, task[t].want)]
  BY <1>1 DEF Resume, Registered
<1>3. own \in StateIds /\ Referred(own) /\ own # None /\ task[t].want \in Subjects \cup {None} /\ listed # None
  BY <1>1, <1>2, CallFields, ConnectionConstants DEF Referred
<1>4. Moves(t)
  <2>1. task[t].pc \notin Connecting
    BY <1>1 DEF Connecting
  <2>2. CASE task'[t] = Idle
    BY <1>1, <2>1, <2>2, IdleMoves
  <2>3. CASE task'[t] = Entered(listed, own, task[t].want)
    BY <1>1, <1>2, <1>3, <2>1, <2>3, CallMoves
  <2> QED BY <1>1, <1>2, <2>2, <2>3
<1>5. Retires /\ (Usable(listed) => Usable(listed)')
  BY <1>1, <1>2, <1>3, <1>4, OnlyMoves
<1>6. task'[listed] = task[listed]
  BY <1>1, <1>2 DEF Tasks
<1> QED BY <1>1, <1>5, <1>6, Retired

-----------------------------------------------------------------------------
(* Steps of the call that makes a client. *)

\* t makes, has made or gives up the client k, which is in nobody else's hands.
Makes(t, k) ==
    LET s == task[t].st IN
        /\ loop = "open" /\ UNCHANGED <<loop, listed, closers, behind, orphaned, last>>
        /\ s \in StateIds /\ ~Usable(s)
        /\ k \notin behind
        /\ \A q \in StateIds : k \notin state[q].cleanups /\ (Referred(q) => state[q].client # k)
        /\ \A u \in Tasks : u # t => /\ task'[u] = task[u] /\ task[u].k # k
                                     /\ task[u].pc \in Connecting => task[u].st # s
        /\ \A j \in ClientIds : j # k => client'[j] = client[j]
        /\ client'[k].of = s /\ client'[k].socket
        /\ \A q \in StateIds :
              /\ state'[q].table = state[q].table
              /\ state'[q].client = state[q].client \/ (q = s /\ state'[q].client = k /\ client'[k] = UpFor(s))
              /\ \/ state'[q].cleanups = state[q].cleanups
                 \/ /\ q = listed /\ state'[q].cleanups = state[q].cleanups \cup {k}
                    /\ client'[k].status = "opening" /\ task'[t].k = None
        /\ live' \subseteq live
        /\ \A sub \in live : sub \notin live' => sub[1] = k /\ sub[3] = s
        /\ \A sub \in live' : sub[1] = k => client'[k].status # "opening"
        /\ task[t].pc \in Connecting => task[t].k = k
        /\ task'[t].own \in {task[t].own, None} /\ task'[t].st \in {s, None} /\ task'[t].k \in {k, None}
        /\ task[t].pc # "idle" /\ task'[t].pc \notin Closing
        /\ listed = s => state'[s].client = k \/ (task'[s] = Idle <=> task[s] = Idle)
        /\ listed = s => \/ state'[s].client = k \/ k \in state'[s].cleanups
                         \/ task'[t].k = k /\ task'[t].pc \in Connecting

LEMMA MakesKeeps ==
  ASSUME Inv, TypeOK', NEW t \in Tasks, NEW k \in ClientIds, Makes(t, k),
         Shaped(t)', MakerOK(t)', CallerOK(t)', RestoringOK(t)',
         listed = task[t].st /\ state'[listed].client = k => TablesAreLive'
  PROVE  Inv'
<1> DEFINE s == task[t].st
<1>1. /\ loop = "open" /\ UNCHANGED <<loop, listed, closers, behind, orphaned, last>>
      /\ s \in StateIds /\ ~Usable(s)
      /\ k \notin behind
      /\ \A q \in StateIds : k \notin state[q].cleanups /\ (Referred(q) => state[q].client # k)
      /\ \A u \in Tasks : u # t => /\ task'[u] = task[u] /\ task[u].k # k
                                   /\ task[u].pc \in Connecting => task[u].st # s
      /\ \A j \in ClientIds : j # k => client'[j] = client[j]
      /\ client'[k].of = s /\ client'[k].socket
      /\ live' \subseteq live
  BY DEF Makes
<1>2. \A q \in StateIds :
        /\ state'[q].table = state[q].table
        /\ state'[q].client = state[q].client \/ (q = s /\ state'[q].client = k /\ client'[k] = UpFor(s))
        /\ \/ state'[q].cleanups = state[q].cleanups
           \/ /\ q = listed /\ state'[q].cleanups = state[q].cleanups \cup {k}
              /\ client'[k].status = "opening" /\ task'[t].k = None
  BY DEF Makes
<1>3. /\ \A sub \in live : sub \notin live' => sub[1] = k /\ sub[3] = s
      /\ \A sub \in live' : sub[1] = k => client'[k].status # "opening"
  BY DEF Makes
<1>4. /\ task[t].pc \in Connecting => task[t].k = k
      /\ task'[t].own \in {task[t].own, None} /\ task'[t].st \in {s, None} /\ task'[t].k \in {k, None}
      /\ task[t].pc # "idle" /\ task'[t].pc \notin Closing
      /\ listed = s => state'[s].client = k \/ (task'[s] = Idle <=> task[s] = Idle)
      /\ listed = s => \/ state'[s].client = k \/ k \in state'[s].cleanups
                       \/ task'[t].k = k /\ task'[t].pc \in Connecting
  BY DEF Makes
<1>5. /\ \A u \in Tasks : task[u].own \in StateIds \cup {None} /\ task[u].st \in StateIds \cup {None}
                          /\ task[u].k \in ClientIds \cup {None}
      /\ k # None /\ s # None /\ \A q \in StateIds : q \in Tasks /\ q # None
      /\ listed \in StateIds \cup {None}
  BY <1>1, CallFields, ConnectionConstants DEF Tasks, Inv, TypeOK
<1>6. \A q \in StateIds : Referred(q)' => Referred(q)
  BY <1>1, <1>4, <1>5 DEF Referred
<1>7. \A u \in Tasks : u # t /\ task[u].st # None => state[task[u].st].client # k
  <2>1. \A u \in Tasks : task[u].st # None => Referred(task[u].st)
    BY <1>5 DEF Referred
  <2> QED BY <1>1, <1>5, <2>1
<1> HIDE DEF s
<1>8. \A q \in StateIds : state[q].client # k =>
        (IF state'[q].client = state[q].client THEN Usable(q)' <=> Usable(q) ELSE q = s /\ state'[q].client = k)
  BY <1>1, <1>2, StateFields DEF Usable, IsClosed
<1>9. Excludes'
  <2>1. task'[t].pc \in Connecting => task'[t].st = s
    BY <1>4 DEF Shaped
  <2> QED BY <1>1, <2>1 DEF Inv, Excludes
<1>10. CallsOK'
  <2>1. SUFFICES ASSUME NEW u \in Tasks, u # t PROVE Shaped(u)' /\ MakerOK(u)' /\ CallerOK(u)' /\ CloserOK(u)'
    <3>1. CloserOK(t)'
      BY <1>4 DEF CloserOK
    <3> QED BY <3>1 DEF CallsOK
  <2>2. /\ Shaped(u) /\ MakerOK(u) /\ CallerOK(u) /\ CloserOK(u)
        /\ task'[u] = task[u] /\ task[u].k # k
        /\ \A j \in ClientIds : j # k => client'[j] = client[j]
    BY <1>1, <2>1 DEF Inv, CallsOK
  <2>3. Shaped(u)'
    BY <2>2 DEF Shaped
  <2>4. MakerOK(u)'
    <3>1. SUFFICES ASSUME task[u].pc \in Connecting PROVE MakerOK(u)'
      BY <2>2 DEF MakerOK
    <3>2. task[u].k \in ClientIds /\ task[u].st \in StateIds /\ task[u].st # s /\ task[u].k # None /\ u \in Tasks
      BY <1>1, <2>1, <3>1, CallFields, ConnectionConstants
    <3>3. ~Usable(task[u].st) /\ state[task[u].st].client # k /\ state'[task[u].st].client = state[task[u].st].client
      BY <1>2, <1>5, <1>7, <2>1, <2>2, <3>1, <3>2 DEF MakerOK
    <3>4. \A q \in StateIds : ~Usable(q) /\ state[q].client # k /\ state'[q].client = state[q].client => ~Usable(q)'
      BY <1>8
    <3>5. ~Usable(task[u].st)'
      <4>1. /\ state'[task[u].st].client = None \/ client'[state'[task[u].st].client].status = "closed"
        BY <3>2, <3>3, <3>4 DEF Usable, IsClosed
      <4> QED BY <2>2, <4>1 DEF Usable, IsClosed
    <3>6. /\ \A v \in Tasks : v # u => task'[v].k # task[u].k
          /\ task[u].k \notin behind'
          /\ \A q \in StateIds : task[u].k \notin state'[q].cleanups
      BY <1>1, <1>2, <1>4, <2>1, <2>2, <3>1, <3>2 DEF MakerOK
    <3>7. \A q \in StateIds : Referred(q)' =>
             /\ state'[q].client # task[u].k
             /\ task[u].pc = "connect" => \A x \in Subjects : state'[q].table[x] # task[u].k
      BY <1>2, <1>6, <2>2, <3>1 DEF MakerOK
    <3>8. /\ task[u].pc = "connect" => client'[task[u].k] = Opening(task[u].st)
          /\ task[u].pc = "restore" => client'[task[u].k] \in {NoClient, UpFor(task[u].st)}
          /\ task[u].pc = "undo" => client'[task[u].k] \in {NoClient, Cut(task[u].st)}
          /\ task[u].pc # "connect" => Stale(task[u].st)
      BY <2>2, <3>1, <3>2 DEF MakerOK
    <3>9. task[u].pc # "connect" => state'[task[u].st].client # None
      BY <3>3, <3>8 DEF Stale
    <3> QED BY <2>2, <3>5, <3>6, <3>7, <3>8, <3>9 DEF MakerOK, Stale
  <2>5. CallerOK(u)'
    <3>1. SUFFICES ASSUME task[u].pc = "subscribe", task[u].own = listed, client'[task[u].k].status = "up"
                   PROVE  state'[listed].client = task[u].k
      BY <1>1, <2>2 DEF CallerOK
    <3>2. task[u].k \in ClientIds /\ listed \in StateIds
      BY <3>1, CallFields
    <3>3. client[task[u].k].status = "up" /\ state[listed].client = task[u].k
      BY <2>2, <3>1, <3>2 DEF CallerOK
    <3>4. Usable(listed)
      BY <3>2, <3>3, ConnectionConstants DEF Usable, IsClosed
    <3> QED BY <1>1, <1>2, <3>2, <3>3, <3>4
  <2>6. CloserOK(u)'
    <3>1. SUFFICES ASSUME task[u].pc \in Closing PROVE CloserOK(u)'
      BY <2>2 DEF CloserOK
    <3>2. task[u].own \in StateIds /\ task[u].own # listed
      BY <2>2, <3>1, CallFields DEF CloserOK
    <3>3. SUFFICES ASSUME task[u].k # None
                   PROVE  /\ listed # None => state'[listed].client # task[u].k /\ client'[task[u].k].of # listed
                          /\ task[u].pc = "settle" => \/ state'[task[u].own].client = task[u].k
                                                      \/ client'[task[u].k].status = "closed"
      BY <1>1, <2>2, <3>2 DEF CloserOK, Elsewhere, IsClosed
    <3>4. task[u].k \in ClientIds /\ client'[task[u].k] = client[task[u].k]
      BY <1>5, <2>2, <3>3
    <3>5. /\ listed # None => state[listed].client # task[u].k /\ client[task[u].k].of # listed
          /\ task[u].pc = "settle" => \/ state[task[u].own].client = task[u].k
                                      \/ client[task[u].k].status = "closed"
      BY <2>2, <3>1, <3>3 DEF CloserOK, Elsewhere, IsClosed
    <3>6. state[s].client = task[u].k => client[task[u].k].status = "closed"
      BY <1>1, <3>3 DEF Usable, IsClosed
    <3> QED BY <1>2, <1>5, <2>2, <3>2, <3>4, <3>5, <3>6
  <2> QED BY <2>3, <2>4, <2>5, <2>6

<1>11. AllWrapped'
  <2>1. \A q \in StateIds : Referred(q)' => q \in Range(closers)
    BY <1>1, <1>6, ReferredIsWrapped
  <2>2. \A u \in Tasks : task'[u].own \in StateIds \cup {None} /\ task'[u].st \in StateIds \cup {None}
    BY DEF TypeOK
  <2>3. \A u \in Tasks, q \in StateIds : q \in {task'[u].own, task'[u].st} => Referred(q)'
    BY DEF Referred
  <2>4. \A u \in Tasks : Wrapped(task[u].own)' /\ Wrapped(task[u].st)'
    BY <1>1, <2>1, <2>2, <2>3 DEF Wrapped
  <2>5. \A q \in StateIds : task'[q] # Idle => Wrapped(q)'
    <3>1. \A q \in StateIds : task'[q] # Idle => task'[q].pc # "idle"
      BY <1>5, <1>10 DEF CallsOK, Shaped
    <3> QED BY <1>1, <2>1, <3>1 DEF Wrapped, Referred
  <2>6. \A j \in ClientIds : Wrapped(client[j].of)'
    <3>1. Wrapped(s)
      BY DEF Inv, AllWrapped, Makes, s
    <3> QED BY <1>1, <3>1 DEF Inv, AllWrapped, Wrapped
  <2> QED BY <1>1, <2>4, <2>5, <2>6 DEF Inv, AllWrapped, Wrapped
<1>12. CleanupsOK'
  <2>1. SUFFICES ASSUME NEW q \in StateIds, NEW j \in ClientIds, j \in state'[q].cleanups
                 PROVE  /\ q = listed /\ client'[j].status = "opening" /\ client'[j].socket
                        /\ j \notin behind
                        /\ \A u \in Tasks : task'[u].k # j
                        /\ \A r \in StateIds : Referred(r)' => state'[r].client # j
    BY <1>1 DEF CleanupsOK
  <2>2. CASE j = k
    <3>1. q = listed /\ client'[k].status = "opening" /\ task'[t].k = None
      BY <1>1, <1>2, <2>1, <2>2
    <3>2. client'[k] # UpFor(s)
      BY <3>1 DEF UpFor
    <3> QED BY <1>1, <1>2, <1>5, <1>6, <2>2, <3>1, <3>2
  <2>3. CASE j # k
    <3>1. j \in state[q].cleanups
      BY <1>2, <2>1, <2>3
    <3> QED BY <1>1, <1>2, <1>4, <1>5, <1>6, <2>3, <3>1, ConnectionConstants DEF Inv, CleanupsOK
  <2> QED BY <2>2, <2>3
<1>13. BehindOK'
  <2>1. behind \subseteq ClientIds
    BY DEF Inv, TypeOK
  <2> QED BY <1>1, <1>2, <1>5, <2>1 DEF Inv, BehindOK, Elsewhere
<1>14. ClientsApart'
  <2>1. ASSUME NEW q \in StateIds, Referred(q)', state'[q].client # None
        PROVE  /\ client'[state'[q].client].of \in {q, None}
               /\ \A r \in StateIds : r # q /\ Referred(r)' => state'[r].client # state'[q].client
    <3>1. CASE state'[q].client = k
      BY <1>1, <1>2, <1>6, <2>1, <3>1
    <3>2. CASE state'[q].client # k
      <4>1. state'[q].client = state[q].client /\ state[q].client \in ClientIds
        BY <1>2, <2>1, <3>2, StateFields
      <4> QED BY <1>1, <1>2, <1>6, <2>1, <3>2, <4>1 DEF Inv, ClientsApart
    <3> QED BY <3>1, <3>2
  <2> QED BY <2>1 DEF ClientsApart
<1>15. ListedOK'
  <2>1. SUFFICES ASSUME listed # None
                 PROVE  IF state'[listed].client = None THEN \A x \in Subjects : state'[listed].table[x] = None
                        ELSE client'[state'[listed].client] \in {NoClient, UpFor(listed)}
    BY <1>1 DEF ListedOK
  <2>2. listed \in StateIds /\ Referred(listed) /\ state[listed].client \in ClientIds \cup {None}
    BY <1>5, <2>1, StateFields DEF Referred
  <2>3. CASE state'[listed].client = state[listed].client
    BY <1>1, <1>2, <2>1, <2>2, <2>3 DEF Inv, ListedOK
  <2>4. CASE state'[listed].client # state[listed].client
    BY <1>2, <1>5, <2>2, <2>4
  <2> QED BY <2>3, <2>4
<1>16. OwnHeld'
  <2>1. SUFFICES ASSUME listed # None, NEW j \in ClientIds, client'[j].status # "closed", client'[j].of = listed
                 PROVE  \/ state'[listed].client = j
                        \/ \E u \in Tasks : task'[u].k = j /\ task'[u].pc \in Connecting
                        \/ j \in state'[listed].cleanups
    BY <1>1 DEF OwnHeld
  <2>2. CASE j = k
    BY <1>1, <1>4, <2>1, <2>2
  <2>3. CASE j # k
    <3>1. client'[j] = client[j] /\ listed \in StateIds
      BY <1>1, <1>5, <2>1, <2>3
    <3>2. CASE state[listed].client = j
      <4>1. client[j] = UpFor(listed)
        BY <1>5, <2>1, <3>1, <3>2, ConnectionConstants DEF Inv, ListedOK, NoClient
      <4>2. Usable(listed)
        BY <1>5, <3>2, <4>1, ConnectionConstants DEF Usable, IsClosed, UpFor
      <4> QED BY <1>1, <1>2, <3>1, <3>2, <4>2
    <3>3. CASE j \in state[listed].cleanups
      BY <1>2, <3>1, <3>3
    <3>4. ASSUME NEW u \in Tasks, task[u].k = j, task[u].pc \in Connecting
          PROVE  task'[u].k = j /\ task'[u].pc \in Connecting
      BY <1>1, <1>4, <2>3, <3>4
    <3> QED BY <1>1, <2>1, <3>1, <3>2, <3>3, <3>4 DEF Inv, OwnHeld
  <2> QED BY <2>2, <2>3
<1>17. RecoveryFollowsLoss'
  <2>1. SUFFICES ASSUME listed # None
                 PROVE  /\ state'[listed].client # None /\ ~Usable(listed)' => task'[listed] # Idle
                        /\ task'[listed] # Idle => state'[listed].client # None
    BY <1>1 DEF RecoveryFollowsLoss
  <2>2. listed \in StateIds /\ listed \in Tasks /\ state[listed].client # k
    BY <1>1, <1>5, <2>1 DEF Referred
  <2>3. /\ state[listed].client # None /\ ~Usable(listed) => task[listed] # Idle
        /\ task[listed] # Idle => state[listed].client # None
    BY <1>1, <2>1 DEF Inv, RecoveryFollowsLoss
  <2>4. CASE state'[listed].client = state[listed].client
    <3>1. task'[listed] = Idle <=> task[listed] = Idle
      <4>1. listed = t => s = listed
        BY <1>1, <1>5, <2>2 DEF Inv, CallsOK, Shaped, s
      <4> QED BY <1>1, <1>4, <2>2, <2>4, <4>1
    <3>2. Usable(listed)' <=> Usable(listed)
      BY <1>1, <1>8, <2>2, <2>4
    <3> QED BY <2>3, <2>4, <3>1, <3>2
  <2>5. CASE state'[listed].client # state[listed].client
    <3>1. state'[listed].client = k /\ client'[k] = UpFor(s)
      BY <1>2, <2>2, <2>5
    <3> QED BY <1>1, <1>5, <3>1 DEF Usable, IsClosed, UpFor
  <2> QED BY <2>4, <2>5
<1>18. ServerOK'
  <2>1. ASSUME NEW sub \in live' PROVE client'[sub[1]].socket /\ client'[sub[1]].status # "opening"
    <3>1. sub \in live /\ sub[1] \in ClientIds
      BY <1>1 DEF Inv, TypeOK
    <3> QED BY <1>1, <1>3, <3>1 DEF Inv, ServerOK
  <2>2. ASSUME NEW j \in ClientIds PROVE client'[j] = NoClient \/ (client'[j].socket /\ client'[j].of # None)
    BY <1>1, <1>5 DEF Inv, ServerOK
  <2> QED BY <2>1, <2>2 DEF ServerOK
<1>19. TablesAreLive'
  <2>1. CASE listed = s /\ state'[listed].client = k
    BY <2>1 DEF s
  <2>2. CASE ~(listed = s /\ state'[listed].client = k)
    <3>1. SUFFICES ASSUME listed # None, Usable(listed)'
                   PROVE  LET c == state'[listed].client IN
                          /\ \A x \in Subjects : state'[listed].table[x] \in {None, c}
                          /\ \A x \in Subjects : state'[listed].table[x] = c <=> <<c, x, listed>> \in live'
      BY <1>1 DEF TablesAreLive
    <3>2. listed \in StateIds /\ state[listed].client # k
      BY <1>1, <1>5, <3>1 DEF Referred
    <3>3. state'[listed].client = state[listed].client
      BY <1>2, <2>2, <3>2
    <3>4. Usable(listed) /\ listed # s
      BY <1>1, <1>8, <3>1, <3>2, <3>3
    <3>5. \A x \in Subjects : <<state[listed].client, x, listed>> \in live'
                              <=> <<state[listed].client, x, listed>> \in live
      BY <1>1, <1>3, <3>4
    <3>6. state'[listed].table = state[listed].table
      BY <1>2, <3>2
    <3> QED BY <3>1, <3>3, <3>4, <3>5, <3>6 DEF Inv, TablesAreLive
  <2> QED BY <2>1, <2>2
<1>20. ASSUME NEW u \in Tasks PROVE RestoringOK(u)'
  <2>1. CASE u = t
    BY <2>1
  <2>2. CASE u # t
    <3>1. SUFFICES ASSUME task[u].pc = "restore", listed # None, task[u].st = listed, client'[task[u].k].status = "up"
                   PROVE  RestoringOK(u)'
      BY <1>1, <2>2 DEF RestoringOK
    <3>2. listed # s /\ listed \in StateIds /\ task[u].k \in ClientIds /\ task'[u] = task[u]
      BY <1>1, <1>5, <2>2, <3>1, CallFields DEF Connecting
    <3>3. client'[task[u].k] = client[task[u].k] /\ state'[listed].table = state[listed].table
      BY <1>1, <1>2, <2>2, <3>2
    <3>4. \A x \in Subjects : <<task[u].k, x, listed>> \in live' <=> <<task[u].k, x, listed>> \in live
      BY <1>1, <1>3, <3>2
    <3>5. \A x \in Subjects :
              /\ state[listed].table[x] = task[u].k => <<task[u].k, x, listed>> \in live
              /\ <<task[u].k, x, listed>> \in live => state[listed].table[x] = task[u].k \/ x \in task[u].stale
              /\ x \notin task[u].todo => state[listed].table[x] \in {None, task[u].k}
              /\ x \in task[u].stale => state[listed].table[x] = None
      BY <3>1, <3>3 DEF Inv, RestoringOK
    <3> QED BY <1>1, <3>2, <3>3, <3>4, <3>5 DEF RestoringOK
  <2> QED BY <2>1, <2>2
<1>21. OrphansAreCounted' /\ EndOK'
  BY <1>1 DEF OrphansAreCounted, EndOK
<1> QED BY <1>9, <1>10, <1>11, <1>12, <1>13, <1>14, <1>15, <1>16, <1>17, <1>18, <1>19, <1>20, <1>21 DEF Inv

\* What is known of the other coroutines while t makes a client.
LEMMA Alone ==
  ASSUME Inv, NEW t \in Tasks, task[t].pc \in Connecting
  PROVE  LET s == task[t].st
             k == task[t].k
         IN  /\ s \in StateIds /\ k \in ClientIds /\ k # None /\ s # None /\ ~Usable(s)
             /\ k \notin behind
             /\ \A q \in StateIds : k \notin state[q].cleanups /\ (Referred(q) => state[q].client # k)
             /\ \A u \in Tasks : u # t => task[u].k # k /\ (task[u].pc \in Connecting => task[u].st # s)
<1>1. MakerOK(t) /\ task[t].k \in ClientIds /\ task[t].st \in StateIds
  BY CallFields DEF Inv, CallsOK
<1>2. \A u \in Tasks : u # t => (task[u].pc \in Connecting => task[u].st # task[t].st)
  BY DEF Inv, Excludes
<1> QED BY <1>1, <1>2, ConnectionConstants DEF MakerOK

LEMMA LockTakenConnectsKeeps == ASSUME Inv, NEW t \in Tasks, LockTaken(t), ~Usable(task[t].st) PROVE Inv'
<1> DEFINE s == task[t].st
<1>1. PICK k \in FreeClients :
        /\ client' = [client EXCEPT ![k] = Opening(s)]
        /\ task' = [task EXCEPT ![t].pc = "connect", ![t].k = k]
        /\ loop = "open" /\ UNCHANGED <<loop, listed, closers, state, live, behind, orphaned, last>>
  BY DEF LockTaken, Runs, Opening
<1>2. /\ TypeOK' /\ task \in [Tasks -> Calls] /\ client \in [ClientIds -> Clients] /\ task[t].pc = "lock"
      /\ s \in StateIds /\ s # None /\ ~Usable(s) /\ k \in ClientIds /\ k # None
  <2>1. TypeOK' /\ task \in [Tasks -> Calls] /\ client \in [ClientIds -> Clients]
    BY LockTakenTyped, TypeParts DEF Inv, TasksTyped, ServerTyped
  <2>2. task[t].pc = "lock" /\ k \in ClientIds
    BY DEF LockTaken, FreeClients
  <2>3. s \in StateIds
    BY <2>2, CallFields
  <2> QED BY <2>1, <2>2, <2>3, ConnectionConstants
<1>3. /\ client[k] = NoClient /\ k \notin behind
      /\ \A u \in Tasks : task[u].k # k
      /\ \A q \in StateIds : Referred(q) => state[q].client # k /\ \A x \in Subjects : state[q].table[x] # k
  BY <1>2 DEF FreeClients, Inv, ServerOK
<1>4. \A q \in StateIds : k \notin state[q].cleanups
  BY <1>1, <1>2, <1>3 DEF Inv, CleanupsOK, NoClient
<1>5. /\ client'[k] = Opening(s) /\ \A j \in ClientIds : j # k => client'[j] = client[j]
      /\ task'[t].pc = "connect" /\ task'[t].k = k /\ task'[t].own = task[t].own /\ task'[t].st = s
      /\ task'[t].want = task[t].want
      /\ \A u \in Tasks : u # t => task'[u] = task[u]
  BY <1>1, <1>2 DEF Calls
<1>6. client'[k].of = s /\ client'[k].socket /\ client'[k].status = "opening"
  BY <1>5 DEF Opening
<1>7. /\ \A u \in Tasks : u # t /\ task[u].pc \in Connecting => task[u].st # s
      /\ Shaped(t) /\ CallerOK(t)
  BY DEF LockTaken, LockFree, Inv, CallsOK
<1>8. \A sub \in live : sub[1] # k
  BY <1>3 DEF Inv, ServerOK, NoClient
<1>9. Makes(t, k)
  <2>1. task'[s] = Idle <=> task[s] = Idle
    <3>1. task[t] # Idle /\ task'[t] # Idle /\ s \in Tasks
      BY <1>2, <1>5 DEF Idle, Tasks
    <3> QED BY <1>5, <3>1
  <2>2. \A u \in Tasks : u # t => /\ task'[u] = task[u] /\ task[u].k # k
                                  /\ task[u].pc \in Connecting => task[u].st # s
    BY <1>3, <1>5, <1>7
  <2>3. task'[t].pc \in Connecting /\ task'[t].pc \notin Closing /\ task[t].pc \notin Connecting /\ task[t].pc # "idle"
    BY <1>2, <1>5 DEF Connecting, Closing
  <2> QED BY <1>1, <1>2, <1>3, <1>4, <1>5, <1>6, <1>8, <2>1, <2>2, <2>3 DEF Makes
<1>10. Shaped(t)' /\ CallerOK(t)' /\ RestoringOK(t)'
  BY <1>1, <1>2, <1>5, <1>7 DEF Shaped, CallerOK, RestoringOK, Connecting, Closing
<1>11. MakerOK(t)'
  <2>1. \A q \in StateIds : Referred(q)' => Referred(q)
    <3>1. \A q \in StateIds : q \in Tasks
      BY DEF Tasks
    <3>2. \A u \in Tasks : /\ task'[u].own = task[u].own /\ task'[u].st = task[u].st
                           /\ task'[u].pc # "idle" => task[u].pc # "idle"
      BY <1>2, <1>5
    <3> QED BY <1>1, <3>1, <3>2 DEF Referred
  <2>2. Referred(s)
    BY <1>2 DEF Referred
  <2>3. ~(state'[s].client # None /\ client'[state'[s].client].status # "closed")
    <3>1. state'[s].client = state[s].client /\ state[s].client # k /\ state[s].client \in ClientIds \cup {None}
      BY <1>1, <1>2, <1>3, <2>2, StateFields
    <3>2. state[s].client # None => client'[state[s].client] = client[state[s].client]
      BY <1>5, <3>1
    <3> QED BY <1>2, <3>1, <3>2 DEF Usable, IsClosed
  <2> HIDE DEF s
  <2>4. /\ \A u \in Tasks : u # t => task'[u].k # k
        /\ k \notin behind'
        /\ \A q \in StateIds : k \notin state'[q].cleanups
        /\ \A q \in StateIds : Referred(q)' => state'[q].client # k /\ \A x \in Subjects : state'[q].table[x] # k
    BY <1>1, <1>3, <1>4, <1>5, <2>1
  <2> QED BY <1>5, <2>3, <2>4 DEF MakerOK, Usable, IsClosed
<1>12. ~(listed = s /\ state'[listed].client = k)
  BY <1>1, <1>2, <1>3 DEF Referred
<1> QED BY <1>2, <1>9, <1>10, <1>11, <1>12, MakesKeeps

LEMMA ConnectFailsKeeps == ASSUME Inv, NEW t \in Tasks, ConnectFails(t) PROVE Inv'
<1> DEFINE s == task[t].st
           k == task[t].k
<1>1. /\ TypeOK' /\ task \in [Tasks -> Calls] /\ loop = "open" /\ task[t].pc = "connect"
      /\ task' = [task EXCEPT ![t] = Raised(t)] /\ state' = CloseQuietly(k)
      /\ UNCHANGED <<loop, listed, closers, client, live, behind, orphaned, last>>
  BY ConnectFailsTyped, TypeParts DEF ConnectFails, Inv, TasksTyped
<1>2. /\ s \in StateIds /\ k \in ClientIds /\ k # None /\ s # None /\ ~Usable(s) /\ k \notin behind
      /\ \A q \in StateIds : k \notin state[q].cleanups /\ (Referred(q) => state[q].client # k)
      /\ \A u \in Tasks : u # t => task[u].k # k /\ (task[u].pc \in Connecting => task[u].st # s)
      /\ client[k] = Opening(s)
  <2>1. client[k] = Opening(s)
    BY <1>1 DEF Inv, CallsOK, MakerOK, Connecting
  <2> QED BY <1>1, <2>1, Alone DEF Connecting
<1>3. /\ \A u \in Tasks : u # t => task'[u] = task[u]
      /\ task'[t] = Raised(t)
      /\ task'[t].own = None /\ task'[t].st = None /\ task'[t].k = None /\ task'[t].want = None
      /\ task'[t].pc \in {"idle", "sleep"}
  <2>1. \A u \in Tasks : task'[u] = IF u = t THEN Raised(t) ELSE task[u]
    BY <1>1
  <2>2. /\ Raised(t).own = None /\ Raised(t).st = None /\ Raised(t).k = None /\ Raised(t).want = None
        /\ Raised(t).pc \in {"idle", "sleep"}
    BY DEF Raised, Idle
  <2> QED BY <2>1, <2>2
<1>4. \A q \in StateIds :
        /\ state'[q].table = state[q].table /\ state'[q].client = state[q].client
        /\ state'[q].cleanups = IF q = listed THEN state[q].cleanups \cup {k} ELSE state[q].cleanups
  <2>1. CASE listed = None
    BY <1>1, <2>1, ConnectionConstants DEF CloseQuietly
  <2>2. CASE listed # None
    <3>1. listed \in StateIds /\ state[listed].cleanups \cup {k} \in SUBSET ClientIds
      BY <1>2, <2>2, StateFields DEF Inv, TypeOK
    <3>2. state' = [state EXCEPT ![listed].cleanups = state[listed].cleanups \cup {k}]
      BY <1>1, <2>2 DEF CloseQuietly
    <3> DEFINE new == [state EXCEPT ![listed].cleanups = state[listed].cleanups \cup {k}]
    <3>3. /\ new[listed].cleanups = state[listed].cleanups \cup {k}
          /\ new[listed].client = state[listed].client /\ new[listed].table = state[listed].table
          /\ \A q \in StateIds : q # listed => new[q] = state[q]
      BY <3>1, CleanupsSet
    <3>4. state' = new
      BY <3>2
    <3> HIDE DEF new, k
    <3> QED BY <3>1, <3>3, <3>4
  <2> QED BY <2>1, <2>2
<1>5. client'[k].of = s /\ client'[k].socket /\ client'[k].status = "opening"
  BY <1>1, <1>2 DEF Opening
<1>6. \A sub \in live : sub[1] # k
  BY <1>2 DEF Inv, ServerOK, Opening
<1>7. Shaped(t) /\ t \in Tasks /\ (t \in StateIds /\ listed = t => task'[t].pc = "sleep")
  BY <1>3 DEF Inv, CallsOK, Raised, Idle
<1>8. Makes(t, k)
  <2>1. listed = s => (task'[s] = Idle <=> task[s] = Idle)
    <3>1. s \in Tasks
      BY <1>2 DEF Tasks
    <3>2. s = t /\ listed = s => task'[t] # Idle /\ task[t] # Idle
      BY <1>1, <1>2, <1>7 DEF Idle
    <3> QED BY <1>3, <3>1, <3>2
  <2>2. \A u \in Tasks : u # t => /\ task'[u] = task[u] /\ task[u].k # k
                                  /\ task[u].pc \in Connecting => task[u].st # s
    BY <1>2, <1>3
  <2>3. task'[t].pc \notin Closing /\ task[t].pc # "idle"
    BY <1>1, <1>3 DEF Closing
  <2>4. listed = s => k \in state'[s].cleanups
    BY <1>2, <1>4
  <2>5. \A q \in StateIds :
              /\ state'[q].table = state[q].table
              /\ state'[q].client = state[q].client
              /\ \/ state'[q].cleanups = state[q].cleanups
                 \/ /\ q = listed /\ state'[q].cleanups = state[q].cleanups \cup {k}
                    /\ client'[k].status = "opening" /\ task'[t].k = None
    BY <1>3, <1>4, <1>5
  <2> HIDE DEF k
  <2>6. task[t].k = k
    BY DEF k
  <2> QED BY <1>1, <1>2, <1>3, <1>5, <1>6, <2>1, <2>2, <2>3, <2>4, <2>5, <2>6 DEF Makes
<1>9. Shaped(t)' /\ MakerOK(t)' /\ CallerOK(t)' /\ RestoringOK(t)'
  <2>1. Shaped(t)'
    <3>1. task'[t].pc = "idle" => task'[t] = Idle
      BY <1>3 DEF Raised, Idle
    <3>2. task'[t].pc = "sleep" => t \in StateIds
      BY <1>3 DEF Raised, Idle
    <3> QED BY <1>3, <3>1, <3>2 DEF Shaped, Connecting, Closing
  <2> QED BY <1>3, <2>1 DEF MakerOK, CallerOK, RestoringOK, Connecting
<1>10. ~(listed = s /\ state'[listed].client = k)
  BY <1>2, <1>4 DEF Referred
<1> QED BY <1>1, <1>2, <1>8, <1>9, <1>10, MakesKeeps

\* What _client() returned to the call that connected.
LEMMA GivenFields ==
  ASSUME Inv, NEW t \in Tasks, task[t].pc \in Connecting, task'[t] = Given(task[t].k, task[t].own, task[t].want)
  PROVE  /\ task'[t].own \in {task[t].own, None} /\ task'[t].st = None /\ task'[t].k \in {task[t].k, None}
         /\ task'[t].pc \in {"idle", "subscribe"} /\ Shaped(t)'
         /\ t \in StateIds => task'[t] = Idle
         /\ task'[t].pc = "subscribe" => task'[t].own = task[t].own /\ task'[t].k = task[t].k
         /\ task'[t].pc = "subscribe" /\ task[t].own = listed => task[t].st = listed
<1>1. /\ Shaped(t) /\ CallerOK(t) /\ task[t].k \in ClientIds /\ task[t].k # None
  BY CallFields, ConnectionConstants DEF Inv, CallsOK
<1>2. CASE task[t].want = None
  <2>1. task'[t] = Idle
    BY <1>2 DEF Given
  <2> QED BY <2>1 DEF Shaped, Idle, Connecting, Closing
<1>3. CASE task[t].want # None
  <2>1. /\ task'[t].pc = "subscribe" /\ task'[t].own = task[t].own /\ task'[t].st = None /\ task'[t].k = task[t].k
        /\ task'[t].want = task[t].want
    BY <1>3 DEF Given, Idle
  <2>2. t \notin StateIds /\ task[t].own # None
    BY <1>1, <1>3 DEF Shaped
  <2> QED BY <1>1, <1>3, <2>1, <2>2 DEF Shaped, CallerOK, Connecting, Closing
<1> QED BY <1>2, <1>3

\* The client of t becomes that of its state.
LEMMA BecomesTheClient ==
  ASSUME Inv, TypeOK', NEW t \in Tasks, task[t].pc \in Connecting, loop = "open",
         UNCHANGED <<loop, listed, closers, behind, orphaned, last>>,
         task' = [task EXCEPT ![t] = Given(task[t].k, task[t].own, task[t].want)],
         state' = [state EXCEPT ![task[t].st].client = task[t].k],
         client'[task[t].k] = UpFor(task[t].st),
         \A j \in ClientIds : j # task[t].k => client'[j] = client[j],
         live' \subseteq live,
         \A sub \in live : sub \notin live' => sub[1] = task[t].k /\ sub[3] = task[t].st,
         listed = task[t].st => \A x \in Subjects :
            /\ state[listed].table[x] \in {None, task[t].k}
            /\ state[listed].table[x] = task[t].k <=> <<task[t].k, x, listed>> \in live'
  PROVE  Inv'
<1> DEFINE s == task[t].st
           k == task[t].k
<1>1. /\ s \in StateIds /\ k \in ClientIds /\ k # None /\ s # None /\ ~Usable(s) /\ k \notin behind
      /\ \A q \in StateIds : k \notin state[q].cleanups /\ (Referred(q) => state[q].client # k)
      /\ \A u \in Tasks : u # t => task[u].k # k /\ (task[u].pc \in Connecting => task[u].st # s)
  BY Alone
<1>2. \A q \in StateIds : /\ state'[q].table = state[q].table /\ state'[q].cleanups = state[q].cleanups
                          /\ state'[q].client = IF q = s THEN k ELSE state[q].client
  <2> DEFINE new == [state EXCEPT ![s].client = k]
  <2>1. /\ new[s].client = k /\ new[s].cleanups = state[s].cleanups /\ new[s].table = state[s].table
        /\ \A q \in StateIds : q # s => new[q] = state[q]
    BY <1>1, ClientSet
  <2>2. state' = new
    OBVIOUS
  <2> HIDE DEF new, k, s
  <2> QED BY <1>1, <2>1, <2>2
<1>3. /\ \A u \in Tasks : u # t => task'[u] = task[u]
      /\ task'[t] = Given(k, task[t].own, task[t].want)
  BY TypeParts DEF Inv, TasksTyped
<1>4. /\ task'[t].own \in {task[t].own, None} /\ task'[t].st = None /\ task'[t].k \in {k, None}
      /\ task'[t].pc \in {"idle", "subscribe"} /\ Shaped(t)'
      /\ task'[t].pc = "subscribe" => task'[t].own = task[t].own /\ task'[t].k = k
      /\ task'[t].pc = "subscribe" /\ task[t].own = listed => s = listed
  BY <1>3, GivenFields
<1>5. client'[k].of = s /\ client'[k].socket /\ client'[k].status = "up"
  BY DEF UpFor
<1>6. Makes(t, k)
  <2>1. task[t].pc \in Connecting => task[t].k = k
    OBVIOUS
  <2>2. client'[k] = UpFor(s) /\ \A j \in ClientIds : j # k => client'[j] = client[j]
    OBVIOUS
  <2>3. \A sub \in live : sub \notin live' => sub[1] = k /\ sub[3] = s
    OBVIOUS
  <2>4. task[t].pc # "idle" /\ task'[t].pc \notin Closing /\ task'[t].pc \notin Connecting
    BY <1>4 DEF Closing, Connecting
  <2> HIDE DEF k
  <2> QED BY <1>1, <1>2, <1>3, <1>4, <1>5, <2>1, <2>2, <2>3, <2>4 DEF Makes
<1>7. Shaped(t)' /\ MakerOK(t)' /\ CallerOK(t)' /\ RestoringOK(t)'
  <2>1. MakerOK(t)' /\ RestoringOK(t)'
    BY <1>4 DEF MakerOK, RestoringOK, Connecting
  <2>2. CallerOK(t)'
    <3> HIDE DEF s, k
    <3> QED BY <1>1, <1>2, <1>4 DEF CallerOK, Connecting
  <2> QED BY <1>4, <2>1, <2>2
<1>8. ASSUME listed = s PROVE TablesAreLive'
  <2>1. state'[listed].client = k /\ state'[listed].table = state[listed].table
    BY <1>1, <1>2, <1>8
  <2>2. \A x \in Subjects : /\ state[listed].table[x] \in {None, k}
                            /\ state[listed].table[x] = k <=> <<k, x, listed>> \in live'
    BY <1>8
  <2>3. listed' = listed
    OBVIOUS
  <2>4. /\ \A x \in Subjects : state'[listed'].table[x] \in {None, state'[listed'].client}
        /\ \A x \in Subjects : state'[listed'].table[x] = state'[listed'].client
                               <=> <<state'[listed'].client, x, listed'>> \in live'
    <3> HIDE DEF k
    <3>1. SUFFICES ASSUME NEW x \in Subjects
                   PROVE  /\ state'[listed].table[x] \in {None, state'[listed].client}
                          /\ state'[listed].table[x] = state'[listed].client
                                <=> <<state'[listed].client, x, listed>> \in live'
      BY <2>3
    <3>2. state[listed].table[x] \in {None, k} /\ (state[listed].table[x] = k <=> <<k, x, listed>> \in live')
      BY <2>2
    <3> QED BY <2>1, <3>2
  <2> QED BY <2>4 DEF TablesAreLive
<1> QED BY <1>1, <1>6, <1>7, <1>8, MakesKeeps

LEMMA ConnectedKeeps == ASSUME Inv, NEW t \in Tasks, Connected(t) PROVE Inv'
<1> DEFINE s == task[t].st
           k == task[t].k
<1>1. /\ TypeOK' /\ task \in [Tasks -> Calls] /\ loop = "open" /\ task[t].pc = "connect" /\ task[t].pc \in Connecting
      /\ client' = [client EXCEPT ![k].status = "up"]
      /\ UNCHANGED <<loop, listed, closers, live, behind, orphaned, last>>
  BY ConnectedTyped, TypeParts DEF Connected, Runs, Inv, TasksTyped, Connecting
<1>2. /\ s \in StateIds /\ k \in ClientIds /\ k # None /\ s # None /\ ~Usable(s) /\ k \notin behind
      /\ \A q \in StateIds : k \notin state[q].cleanups /\ (Referred(q) => state[q].client # k)
      /\ \A u \in Tasks : u # t => task[u].k # k /\ (task[u].pc \in Connecting => task[u].st # s)
  BY <1>1, Alone
<1>3. client[k] = Opening(s) /\ \A q \in StateIds : Referred(q) => \A x \in Subjects : state[q].table[x] # k
  BY <1>1 DEF Inv, CallsOK, MakerOK
<1>4. client'[k] = UpFor(s) /\ \A j \in ClientIds : j # k => client'[j] = client[j]
  <2>1. /\ client'[k] = [status |-> "up", socket |-> client[k].socket, of |-> client[k].of]
        /\ \A j \in ClientIds : j # k => client'[j] = client[j]
    BY ZenonT(40), <1>1, <1>2, StatusSet
  <2> QED BY <1>3, <2>1 DEF UpFor, Opening
<1>5. \A sub \in live : sub[1] # k
  BY <1>2, <1>3 DEF Inv, ServerOK, Opening
<1>6. Referred(s)
  BY <1>2 DEF Referred
<1>7. CASE ~Stale(s)
  <2>1. /\ task' = [task EXCEPT ![t] = Given(k, task[t].own, task[t].want)]
        /\ state' = [state EXCEPT ![s].client = k]
    BY <1>7 DEF Connected
  <2>2. ASSUME listed = s
        PROVE  \A x \in Subjects : /\ state[listed].table[x] \in {None, k}
                                   /\ state[listed].table[x] = k <=> <<k, x, listed>> \in live'
    <3>1. \A x \in Subjects : state[listed].table[x] = None
      BY <1>2, <1>7, <2>2 DEF Inv, ListedOK, Stale
    <3> HIDE DEF k
    <3> QED BY <1>1, <1>2, <1>5, <3>1
  <2>3. live' \subseteq live /\ \A sub \in live : sub \notin live' => sub[1] = k /\ sub[3] = s
    BY <1>1
  <2> QED BY <1>1, <1>4, <2>1, <2>2, <2>3, BecomesTheClient
<1>8. CASE Stale(s)
  <2>1. /\ task' = [task EXCEPT ![t].pc = "restore", ![t].todo = Subscribed(s), ![t].stale = {}]
        /\ state' = state
    BY <1>8 DEF Connected
  <2>2. /\ \A u \in Tasks : u # t => task'[u] = task[u]
        /\ task'[t].pc = "restore" /\ task'[t].own = task[t].own /\ task'[t].st = s /\ task'[t].k = k
        /\ task'[t].want = task[t].want /\ task'[t].todo = Subscribed(s) /\ task'[t].stale = {}
    BY <1>1, <2>1 DEF Calls
  <2>3. client'[k].of = s /\ client'[k].socket /\ client'[k].status = "up"
    BY <1>4 DEF UpFor
  <2>4. Shaped(t) /\ CallerOK(t)
    BY DEF Inv, CallsOK
  <2>5. Makes(t, k)
    <3>1. task'[s] = Idle <=> task[s] = Idle
      <4>1. s \in Tasks /\ task[t] # Idle /\ task'[t] # Idle
        BY <1>1, <1>2, <2>2 DEF Tasks, Idle
      <4> QED BY <2>2, <4>1
    <3>2. task[t].k = k /\ task[t].pc # "idle" /\ task'[t].pc \notin Closing /\ task'[t].pc \in Connecting
      BY <1>1, <2>2 DEF Closing, Connecting
    <3> HIDE DEF k
    <3> QED BY <1>1, <1>2, <1>4, <1>5, <2>1, <2>2, <2>3, <3>1, <3>2 DEF Makes
  <2>6. Shaped(t)' /\ CallerOK(t)'
    BY <1>1, <2>2, <2>4 DEF Shaped, CallerOK, Connecting, Closing
  <2>7. MakerOK(t)'
    <3>1. \A q \in StateIds : Referred(q)' => Referred(q)
      <4>1. \A q \in StateIds : q \in Tasks
        BY DEF Tasks
      <4>2. \A u \in Tasks : /\ task'[u].own = task[u].own /\ task'[u].st = task[u].st
                             /\ task'[u].pc # "idle" => task[u].pc # "idle"
        BY <1>1, <2>2
      <4> QED BY <1>1, <4>1, <4>2 DEF Referred
    <3>2. ~(state'[s].client # None /\ client'[state'[s].client].status # "closed")
      <4>1. state'[s].client = state[s].client /\ state[s].client # k /\ state[s].client \in ClientIds \cup {None}
        BY <1>2, <1>6, <2>1, StateFields
      <4>2. state[s].client # None => client'[state[s].client] = client[state[s].client]
        BY <1>4, <4>1
      <4> QED BY <1>2, <4>1, <4>2 DEF Usable, IsClosed
    <3>3. state'[s].client # None
      BY <1>8, <2>1 DEF Stale
    <3> HIDE DEF s, k
    <3>4. /\ \A u \in Tasks : u # t => task'[u].k # k
          /\ k \notin behind'
          /\ \A q \in StateIds : k \notin state'[q].cleanups /\ (Referred(q)' => state'[q].client # k)
      BY <1>1, <1>2, <2>1, <2>2, <3>1
    <3> QED BY <1>4, <2>2, <3>2, <3>3, <3>4 DEF MakerOK, Usable, IsClosed, Stale
  <2>8. RestoringOK(t)'
    <3>1. ASSUME s = listed, NEW x \in Subjects
          PROVE  /\ state[listed].table[x] # k /\ <<k, x, listed>> \notin live'
                 /\ x \notin Subscribed(s) => state[listed].table[x] = None
      <4>1. <<k, x, listed>>[1] = k
        OBVIOUS
      <4>2. state[listed].table[x] # k
        BY <1>2, <1>3, <1>6, <3>1
      <4>3. <<k, x, listed>> \notin live'
        BY <1>1, <1>5, <4>1
      <4> QED BY <3>1, <4>2, <4>3 DEF Subscribed
    <3> HIDE DEF s, k
    <3> QED BY <1>1, <2>1, <2>2, <3>1 DEF RestoringOK
  <2>9. ~(listed = s /\ state'[listed].client = k)
    BY <1>2, <1>6, <2>1
  <2> QED BY <1>1, <1>2, <2>5, <2>6, <2>7, <2>8, <2>9, MakesKeeps
<1> QED BY <1>7, <1>8

LEMMA RestoredKeeps == ASSUME Inv, NEW t \in Tasks, Restored(t) PROVE Inv'
<1> DEFINE s == task[t].st
           k == task[t].k
<1>1. /\ TypeOK' /\ loop = "open" /\ task[t].pc = "restore" /\ task[t].pc \in Connecting
      /\ client[k].status = "up" /\ task[t].todo = {} /\ live' = live \ TakenDown(t)
      /\ state' = [state EXCEPT ![s].client = k]
      /\ task' = [task EXCEPT ![t] = Given(k, task[t].own, task[t].want)]
      /\ UNCHANGED <<loop, listed, closers, client, behind, orphaned, last>>
  BY RestoredTyped DEF Restored, Runs, Connecting
<1>2. client[k] = UpFor(s)
  BY <1>1 DEF Inv, CallsOK, MakerOK, NoClient
<1>3. \A sub \in live : sub \notin live' => sub[1] = k /\ sub[3] = s
  BY <1>1 DEF TakenDown
<1>4. ASSUME listed = s
      PROVE  \A x \in Subjects : /\ state[listed].table[x] \in {None, k}
                                 /\ state[listed].table[x] = k <=> <<k, x, listed>> \in live'
  <2>1. s # None /\ k # None
    BY <1>1, Alone
  <2>2. \A x \in Subjects :
            /\ state[listed].table[x] = k => <<k, x, listed>> \in live
            /\ <<k, x, listed>> \in live => state[listed].table[x] = k \/ x \in task[t].stale
            /\ state[listed].table[x] \in {None, k}
            /\ x \in task[t].stale => state[listed].table[x] = None
    BY <1>1, <1>4, <2>1 DEF Inv, RestoringOK
  <2>3. \A x \in Subjects : <<k, x, listed>> \in live' <=> <<k, x, listed>> \in live /\ x \notin task[t].stale
    BY <1>1, <1>4 DEF TakenDown
  <2> HIDE DEF k, s
  <2> QED BY <2>1, <2>2, <2>3
<1>5. client'[k] = UpFor(s) /\ \A j \in ClientIds : client'[j] = client[j]
  BY <1>1, <1>2
<1>6. live' \subseteq live
  BY <1>1
<1> QED BY <1>1, <1>3, <1>4, <1>5, <1>6, BecomesTheClient

-----------------------------------------------------------------------------
(* Steps that write the tables and subscribe. *)

Writes ==
    /\ loop = "open" /\ UNCHANGED <<loop, listed, closers, client, behind, orphaned, last>>
    /\ \A q \in StateIds : state'[q].client = state[q].client /\ state'[q].cleanups = state[q].cleanups
    /\ \A u \in Tasks :
          \/ task'[u] = task[u]
          \/ task'[u] = Idle /\ task[u].pc = "subscribe"
          \/ /\ task[u].pc = "restore" /\ task'[u].pc = "restore" /\ task'[u].own = task[u].own
             /\ task'[u].st = task[u].st /\ task'[u].k = task[u].k /\ task'[u].want = task[u].want
    /\ \A u \in Tasks : task[u].pc = "connect" =>
          \A q \in StateIds : Referred(q) => \A x \in Subjects : state'[q].table[x] # task[u].k

LEMMA WritesKeeps ==
  ASSUME Inv, TypeOK', Writes, ListedOK', ServerOK', TablesAreLive', \A u \in Tasks : RestoringOK(u)'
  PROVE  Inv'
<1>1. /\ loop = "open" /\ UNCHANGED <<loop, listed, closers, client, behind, orphaned, last>>
      /\ \A q \in StateIds : state'[q].client = state[q].client /\ state'[q].cleanups = state[q].cleanups
      /\ \A q \in StateIds : q \in Tasks /\ q # None
      /\ \A j \in ClientIds : j # None
      /\ listed \in StateIds \cup {None}
  BY ConnectionConstants DEF Writes, Tasks, Inv, TypeOK
<1>2. \A u \in Tasks :
        \/ task'[u] = task[u]
        \/ /\ task'[u] = Idle /\ task[u].pc = "subscribe" /\ u \notin StateIds
           /\ task'[u].pc = "idle" /\ task'[u].own = None /\ task'[u].st = None /\ task'[u].k = None
        \/ /\ task[u].pc = "restore" /\ task'[u].pc = "restore" /\ task'[u].own = task[u].own
           /\ task'[u].st = task[u].st /\ task'[u].k = task[u].k /\ task'[u].want = task[u].want
  <2>1. SUFFICES ASSUME NEW u \in Tasks, task'[u] = Idle, task[u].pc = "subscribe"
                 PROVE  /\ u \notin StateIds
                        /\ task'[u].pc = "idle" /\ task'[u].own = None /\ task'[u].st = None /\ task'[u].k = None
    BY DEF Writes
  <2>2. u \notin StateIds
    BY <2>1, CallFields
  <2> QED BY <2>1, <2>2 DEF Idle
<1>3. \A q \in StateIds : Referred(q)' => Referred(q)
  BY <1>1, <1>2 DEF Referred
<1>4. \A q \in StateIds : Usable(q)' <=> Usable(q)
  BY <1>1 DEF Usable, IsClosed
<1>5. \A u \in Tasks : task'[u].pc \in Connecting => task'[u].pc = task[u].pc /\ task'[u].st = task[u].st
  BY <1>2 DEF Connecting
<1>6. Excludes'
  BY <1>5 DEF Inv, Excludes
<1>7. CallsOK'
  <2>1. SUFFICES ASSUME NEW u \in Tasks PROVE Shaped(u)' /\ MakerOK(u)' /\ CallerOK(u)' /\ CloserOK(u)'
    BY DEF CallsOK
  <2>2. Shaped(u) /\ MakerOK(u) /\ CallerOK(u) /\ CloserOK(u)
    BY DEF Inv, CallsOK
  <2>3. Shaped(u)'
    <3>1. CASE task'[u] = task[u]
      BY <2>2, <3>1 DEF Shaped
    <3>2. CASE task'[u] = Idle
      BY <3>2 DEF Shaped, Idle, Connecting, Closing
    <3>3. CASE /\ task[u].pc = "restore" /\ task'[u].pc = "restore" /\ task'[u].own = task[u].own
               /\ task'[u].st = task[u].st /\ task'[u].k = task[u].k /\ task'[u].want = task[u].want
      BY <2>2, <3>3 DEF Shaped, Connecting, Closing
    <3> QED BY <1>2, <3>1, <3>2, <3>3
  <2>4. MakerOK(u)'
    <3>1. SUFFICES ASSUME task'[u].pc \in Connecting PROVE MakerOK(u)'
      BY DEF MakerOK
    <3>2. /\ task'[u].pc = task[u].pc /\ task'[u].st = task[u].st /\ task'[u].k = task[u].k
          /\ task[u].k \in ClientIds /\ task[u].st \in StateIds /\ task[u].pc \in Connecting
      <4>1. task'[u].pc = task[u].pc /\ task'[u].st = task[u].st /\ task'[u].k = task[u].k
        BY <1>2, <3>1 DEF Connecting
      <4> QED BY <3>1, <4>1, CallFields
    <3>3. \A v \in Tasks : v # u => task'[v].k # task[u].k
      BY <1>1, <1>2, <2>2, <3>2 DEF MakerOK
    <3>4. \A q \in StateIds : Referred(q)' => /\ state'[q].client # task[u].k
                                              /\ task[u].pc = "connect" => \A x \in Subjects : state'[q].table[x] # task[u].k
      <4>1. \A q \in StateIds : Referred(q) => state[q].client # task[u].k
        BY <2>2, <3>2 DEF MakerOK
      <4>2. task[u].pc = "connect" => \A q \in StateIds : Referred(q) => \A x \in Subjects : state'[q].table[x] # task[u].k
        BY DEF Writes
      <4> QED BY <1>1, <1>3, <4>1, <4>2
    <3>5. /\ task[u].pc = "connect" => client'[task[u].k] = Opening(task[u].st)
          /\ task[u].pc = "restore" => client'[task[u].k] \in {NoClient, UpFor(task[u].st)}
          /\ task[u].pc = "undo" => client'[task[u].k] \in {NoClient, Cut(task[u].st)}
          /\ task[u].pc # "connect" => state'[task[u].st].client # None
          /\ task[u].k \notin behind'
          /\ \A q \in StateIds : task[u].k \notin state'[q].cleanups
      BY <1>1, <2>2, <3>2 DEF MakerOK, Stale
    <3>6. ~(state'[task[u].st].client # None /\ client'[state'[task[u].st].client].status # "closed")
      BY <1>1, <2>2, <3>2 DEF MakerOK, Usable, IsClosed
    <3> QED BY <3>2, <3>3, <3>4, <3>5, <3>6 DEF MakerOK, Usable, IsClosed, Stale
  <2>5. CallerOK(u)'
    <3>1. task'[u].pc = "subscribe" => task'[u] = task[u] /\ task[u].own \in StateIds
      BY <1>2, CallFields
    <3> QED BY <1>1, <1>2, <2>2, <3>1 DEF CallerOK, Connecting
  <2>6. CloserOK(u)'
    <3>1. SUFFICES ASSUME task'[u].pc \in Closing PROVE CloserOK(u)'
      BY DEF CloserOK
    <3>2. task'[u] = task[u]
      BY <1>2, <3>1 DEF Closing
    <3>3. task[u].own \in StateIds
      BY <3>1, <3>2, CallFields
    <3> QED BY <1>1, <2>2, <3>2, <3>3 DEF CloserOK, Elsewhere, IsClosed
  <2> QED BY <2>3, <2>4, <2>5, <2>6
<1>8. AllWrapped'
  <2>1. \A q \in StateIds : Referred(q)' => q \in Range(closers)
    BY <1>1, <1>3, ReferredIsWrapped
  <2>2. \A u \in Tasks : task'[u].own \in StateIds \cup {None} /\ task'[u].st \in StateIds \cup {None}
    BY DEF TypeOK
  <2>3. \A u \in Tasks, q \in StateIds : q \in {task'[u].own, task'[u].st} => Referred(q)'
    BY DEF Referred
  <2>4. \A u \in Tasks : Wrapped(task[u].own)' /\ Wrapped(task[u].st)'
    BY <1>1, <2>1, <2>2, <2>3 DEF Wrapped
  <2>5. \A q \in StateIds : task'[q] # Idle => Wrapped(q)'
    <3>1. \A q \in StateIds : task'[q] # Idle => task'[q].pc # "idle"
      BY <1>1, <1>7 DEF CallsOK, Shaped
    <3> QED BY <1>1, <2>1, <3>1 DEF Wrapped, Referred
  <2> QED BY <1>1, <2>4, <2>5 DEF Inv, AllWrapped, Wrapped
<1>9. CleanupsOK' /\ BehindOK' /\ ClientsApart' /\ OwnHeld'
  <2>1. CleanupsOK'
    BY <1>1, <1>2, <1>3 DEF Inv, CleanupsOK
  <2>2. BehindOK'
    BY <1>1 DEF Inv, BehindOK, Elsewhere
  <2>3. ClientsApart'
    BY <1>1, <1>3 DEF Inv, ClientsApart
  <2>4. OwnHeld'
    <3>1. \A u \in Tasks : task[u].pc \in Connecting => task'[u].pc \in Connecting /\ task'[u].k = task[u].k
      BY <1>2 DEF Connecting
    <3> QED BY <1>1, <3>1 DEF Inv, OwnHeld
  <2> QED BY <2>1, <2>2, <2>3, <2>4
<1>10. RecoveryFollowsLoss'
  <2>1. listed # None => (task'[listed] # Idle <=> task[listed] # Idle)
    BY <1>1, <1>2 DEF Idle
  <2> QED BY <1>1, <1>4, <2>1 DEF Inv, RecoveryFollowsLoss
<1>11. OrphansAreCounted' /\ EndOK'
  BY <1>1 DEF OrphansAreCounted, EndOK
<1> QED BY <1>6, <1>7, <1>8, <1>9, <1>10, <1>11 DEF Inv

LEMMA RestoreKeeps == ASSUME Inv, NEW t \in Tasks, Restore(t) PROVE Inv'
<1> DEFINE s == task[t].st
           k == task[t].k
<1>1. /\ TypeOK' /\ task \in [Tasks -> Calls] /\ loop = "open" /\ task[t].pc = "restore" /\ client[k].status = "up"
      /\ UNCHANGED <<loop, listed, closers, client, behind, orphaned, last>>
      /\ task[t].todo \subseteq Subjects /\ task[t].stale \subseteq Subjects
      /\ live \subseteq ClientIds \X Subjects \X StateIds
  BY RestoreTyped, TypeParts, CallFields DEF Restore, Runs, Inv, TasksTyped, ServerTyped
<1>2. PICK x \in task[t].todo :
        /\ live' = live \cup {<<k, x, s>>}
        /\ task' = [task EXCEPT ![t].todo = task[t].todo \ {x},
                                ![t].stale = IF StillWanted(s, x) THEN task[t].stale ELSE task[t].stale \cup {x}]
        /\ state' = IF StillWanted(s, x) THEN [state EXCEPT ![s].table[x] = k] ELSE state
  BY <1>1 DEF Restore, Calls
<1>3. /\ s \in StateIds /\ k \in ClientIds /\ k # None /\ s # None /\ ~Usable(s)
      /\ \A u \in Tasks : u # t => task[u].k # k /\ (task[u].pc \in Connecting => task[u].st # s)
      /\ client[k] = UpFor(s) /\ state[s].client # None
  <2>1. MakerOK(t) /\ task[t].pc \in Connecting
    BY <1>1 DEF Inv, CallsOK, Connecting
  <2>2. client[k] = UpFor(s) /\ state[s].client # None
    BY <1>1, <2>1 DEF MakerOK, NoClient, Stale
  <2> QED BY <2>1, <2>2, Alone
<1>4. /\ \A u \in Tasks : u # t => task'[u] = task[u]
      /\ task'[t].pc = "restore" /\ task'[t].own = task[t].own /\ task'[t].st = s /\ task'[t].k = k
      /\ task'[t].want = task[t].want /\ task'[t].todo = task[t].todo \ {x}
      /\ task'[t].stale = IF StillWanted(s, x) THEN task[t].stale ELSE task[t].stale \cup {x}
  BY <1>1, <1>2 DEF Calls
<1>5. /\ \A q \in StateIds : state'[q].client = state[q].client /\ state'[q].cleanups = state[q].cleanups
      /\ \A q \in StateIds : q # s => state'[q].table = state[q].table
      /\ \A y \in Subjects : state'[s].table[y] = IF y = x /\ StillWanted(s, x) THEN k ELSE state[s].table[y]
  <2>1. CASE StillWanted(s, x)
    <3> DEFINE new == [state EXCEPT ![s].table[x] = k]
    <3>1. /\ new \in [StateIds -> States]
          /\ new[s].client = state[s].client /\ new[s].cleanups = state[s].cleanups
          /\ new[s].table = [state[s].table EXCEPT ![x] = k]
          /\ \A q \in StateIds : q # s => new[q] = state[q]
      <4>1. s \in StateIds /\ x \in Subjects /\ k \in ClientIds \cup {None}
        BY <1>1, <1>2, <1>3
      <4> HIDE DEF s, k
      <4> QED BY <4>1, TableSet
    <3>2. state' = new
      BY <1>2, <2>1
    <3>3. \A y \in Subjects : new[s].table[y] = IF y = x THEN k ELSE state[s].table[y]
      BY <1>1, <1>3, <3>1, StateFields
    <3> HIDE DEF new, s, k
    <3> QED BY <1>3, <2>1, <3>1, <3>2, <3>3
  <2>2. CASE ~StillWanted(s, x)
    BY <1>2, <2>2
  <2> QED BY <2>1, <2>2
<1> HIDE DEF s, k
<1>6. \A y \in Subjects, q \in StateIds, j \in ClientIds :
        <<j, y, q>> \in live' <=> <<j, y, q>> \in live \/ (j = k /\ y = x /\ q = s)
  BY <1>2
<1>7. Writes
  <2>1. \A u \in Tasks : task[u].pc = "connect" =>
          \A q \in StateIds : Referred(q) => \A y \in Subjects : state'[q].table[y] # task[u].k
    <3>1. \A u \in Tasks : task[u].pc = "connect" =>
            /\ u # t /\ task[u].k # k
            /\ \A q \in StateIds : Referred(q) => \A y \in Subjects : state[q].table[y] # task[u].k
      <4>1. \A u \in Tasks : MakerOK(u)
        BY DEF Inv, CallsOK
      <4> QED BY <1>1, <1>3, <4>1 DEF MakerOK, Connecting
    <3> QED BY <1>5, <3>1
  <2> QED BY <1>1, <1>4, <1>5, <2>1 DEF Writes, s, k
<1>8. ListedOK'
  <2>1. SUFFICES ASSUME listed # None
                 PROVE  IF state'[listed].client = None THEN \A y \in Subjects : state'[listed].table[y] = None
                        ELSE client[state'[listed].client] \in {NoClient, UpFor(listed)}
    BY <1>1 DEF ListedOK
  <2>2. listed \in StateIds /\ state'[listed].client = state[listed].client
    BY <1>5, <2>1 DEF Inv, TypeOK
  <2>3. state[listed].client = None => state'[listed].table = state[listed].table
    BY <1>3, <1>5, <2>2
  <2> QED BY <2>1, <2>2, <2>3 DEF Inv, ListedOK
<1>9. ServerOK'
  BY <1>1, <1>2, <1>3 DEF Inv, ServerOK, UpFor
<1>10. TablesAreLive'
  <2>1. SUFFICES ASSUME listed # None, Usable(listed)'
                 PROVE  LET c == state'[listed].client IN
                        /\ \A y \in Subjects : state'[listed].table[y] \in {None, c}
                        /\ \A y \in Subjects : state'[listed].table[y] = c <=> <<c, y, listed>> \in live'
    BY <1>1 DEF TablesAreLive
  <2>2. listed \in StateIds /\ Usable(listed) /\ listed # s /\ state[listed].client \in ClientIds
    BY <1>1, <1>3, <1>5, <2>1, StateFields DEF Inv, TypeOK, Usable, IsClosed
  <2>3. /\ \A y \in Subjects : state[listed].table[y] \in {None, state[listed].client}
        /\ \A y \in Subjects : state[listed].table[y] = state[listed].client
                               <=> <<state[listed].client, y, listed>> \in live
    BY <2>1, <2>2 DEF Inv, TablesAreLive
  <2>4. state'[listed].client = state[listed].client /\ state'[listed].table = state[listed].table
    BY <1>5, <2>2
  <2> QED BY <1>6, <2>2, <2>3, <2>4
<1>11. ASSUME NEW u \in Tasks PROVE RestoringOK(u)'
  <2>1. SUFFICES ASSUME task'[u].pc = "restore", listed # None, task'[u].st = listed, client[task'[u].k].status = "up"
                 PROVE  \A y \in Subjects :
                          /\ state'[listed].table[y] = task'[u].k => <<task'[u].k, y, listed>> \in live'
                          /\ <<task'[u].k, y, listed>> \in live' => state'[listed].table[y] = task'[u].k \/ y \in task'[u].stale
                          /\ y \notin task'[u].todo => state'[listed].table[y] \in {None, task'[u].k}
                          /\ y \in task'[u].stale => state'[listed].table[y] = None
    BY <1>1 DEF RestoringOK
  <2>2. /\ task[u].pc = "restore" /\ task[u].st = listed /\ task[u].k = task'[u].k /\ task[u].k \in ClientIds
        /\ listed \in StateIds
    <3>1. task[u].pc = "restore" /\ task[u].st = listed /\ task[u].k = task'[u].k
      BY <1>1, <1>4, <2>1 DEF s, k
    <3> QED BY <2>1, <3>1, CallFields DEF Connecting
  <2>3. \A y \in Subjects :
          /\ state[listed].table[y] = task[u].k => <<task[u].k, y, listed>> \in live
          /\ <<task[u].k, y, listed>> \in live => state[listed].table[y] = task[u].k \/ y \in task[u].stale
          /\ y \notin task[u].todo => state[listed].table[y] \in {None, task[u].k}
          /\ y \in task[u].stale => state[listed].table[y] = None
    BY <2>1, <2>2 DEF Inv, RestoringOK
  <2>4. CASE u # t
    <3>1. listed # s /\ task'[u] = task[u]
      BY <1>3, <1>4, <2>2, <2>4 DEF Connecting
    <3> QED BY <1>5, <1>6, <2>2, <2>3, <3>1
  <2>5. CASE u = t
    <3>1. listed = s /\ task[t].k = k
      BY <2>2, <2>5 DEF s, k
    <3>2. StillWanted(s, x) <=> state[listed].table[x] # None
      BY <3>1 DEF StillWanted
    <3>3. \A y \in Subjects : y # x =>
            /\ state'[listed].table[y] = state[listed].table[y]
            /\ <<k, y, listed>> \in live' <=> <<k, y, listed>> \in live
            /\ y \in task'[t].todo <=> y \in task[t].todo
            /\ y \in task'[t].stale <=> y \in task[t].stale
      BY <1>3, <1>4, <1>5, <1>6, <3>1
    <3>4. /\ state'[listed].table[x] = IF StillWanted(s, x) THEN k ELSE None
          /\ <<k, x, listed>> \in live'
          /\ x \in task'[t].stale <=> ~StillWanted(s, x)
      <4>1. x \in Subjects
        BY <1>1
      <4>2. state'[listed].table[x] = IF StillWanted(s, x) THEN k ELSE None
        BY <1>5, <3>1, <3>2, <4>1
      <4>3. <<k, x, listed>> \in live'
        BY <1>3, <1>6, <3>1, <4>1
      <4>4. x \in task[t].stale => ~StillWanted(s, x)
        BY <2>3, <2>5, <3>2, <4>1
      <4> QED BY <1>4, <4>2, <4>3, <4>4
    <3> QED BY <1>3, <1>4, <2>2, <2>3, <2>5, <3>1, <3>3, <3>4
  <2> QED BY <2>4, <2>5
<1> QED BY <1>1, <1>7, <1>8, <1>9, <1>10, <1>11, WritesKeeps

\* One entry of a table is written, with its subscription.
LEMMA EntryKeeps ==
  ASSUME Inv, TypeOK', NEW s \in StateIds, NEW x \in Subjects, NEW j \in ClientIds \cup {None},
         loop = "open", UNCHANGED <<loop, listed, closers, client, behind, orphaned, last>>,
         state' = [state EXCEPT ![s].table[x] = j],
         \A u \in Tasks : task'[u] = task[u] \/ (task'[u] = Idle /\ task[u].pc = "subscribe"),
         j # None => \A u \in Tasks : task[u].pc = "connect" => task[u].k # j,
         j # None /\ s = listed => state[s].client = j /\ Usable(s),
         ServerOK',
         \A y \in Subjects, q \in StateIds, i \in ClientIds :
            ~(q = s /\ y = x) => (<<i, y, q>> \in live' <=> <<i, y, q>> \in live),
         \A i \in ClientIds : s = listed /\ (i = j \/ i = state[s].table[x]) =>
            (<<i, x, s>> \in live' <=> i = j),
         \A i \in ClientIds : s = listed /\ i # j /\ i # state[s].table[x] =>
            (<<i, x, s>> \in live' <=> <<i, x, s>> \in live)
  PROVE  Inv'
<1>1. /\ \A q \in StateIds : state'[q].client = state[q].client /\ state'[q].cleanups = state[q].cleanups
      /\ \A q \in StateIds : q # s => state'[q].table = state[q].table
      /\ \A y \in Subjects : state'[s].table[y] = IF y = x THEN j ELSE state[s].table[y]
  <2> DEFINE new == [state EXCEPT ![s].table[x] = j]
  <2>1. /\ new \in [StateIds -> States]
        /\ new[s].client = state[s].client /\ new[s].cleanups = state[s].cleanups
        /\ new[s].table = [state[s].table EXCEPT ![x] = j]
        /\ \A q \in StateIds : q # s => new[q] = state[q]
    BY TableSet
  <2>2. state' = new
    OBVIOUS
  <2>3. \A y \in Subjects : new[s].table[y] = IF y = x THEN j ELSE state[s].table[y]
    BY <2>1, StateFields
  <2> HIDE DEF new
  <2> QED BY <2>1, <2>2, <2>3
<1>2. listed \in StateIds \cup {None} /\ s # None /\ \A k \in ClientIds : k # None
  BY ConnectionConstants DEF Inv, TypeOK
<1>3. Writes
  <2>1. \A u \in Tasks : task[u].pc = "connect" =>
          \A q \in StateIds : Referred(q) => \A y \in Subjects : state'[q].table[y] # task[u].k
    <3>1. \A u \in Tasks : task[u].pc = "connect" =>
            /\ task[u].k \in ClientIds
            /\ \A q \in StateIds : Referred(q) => \A y \in Subjects : state[q].table[y] # task[u].k
      <4>1. \A u \in Tasks : MakerOK(u)
        BY DEF Inv, CallsOK
      <4> QED BY <4>1, CallFields DEF MakerOK, Connecting
    <3> QED BY <1>1, <1>2, <3>1
  <2> QED BY <1>1, <2>1 DEF Writes
<1>4. ListedOK'
  <2>1. SUFFICES ASSUME listed # None
                 PROVE  IF state'[listed].client = None THEN \A y \in Subjects : state'[listed].table[y] = None
                        ELSE client[state'[listed].client] \in {NoClient, UpFor(listed)}
    BY DEF ListedOK
  <2> QED BY <1>1, <1>2, <2>1 DEF Inv, ListedOK
<1>5. TablesAreLive'
  <2>1. SUFFICES ASSUME listed # None, Usable(listed)'
                 PROVE  LET c == state'[listed].client IN
                        /\ \A y \in Subjects : state'[listed].table[y] \in {None, c}
                        /\ \A y \in Subjects : state'[listed].table[y] = c <=> <<c, y, listed>> \in live'
    BY DEF TablesAreLive
  <2>2. /\ listed \in StateIds /\ Usable(listed) /\ state[listed].client \in ClientIds
        /\ state'[listed].client = state[listed].client
    BY <1>1, <1>2, <2>1, StateFields DEF Usable, IsClosed
  <2>3. /\ \A y \in Subjects : state[listed].table[y] \in {None, state[listed].client}
        /\ \A y \in Subjects : state[listed].table[y] = state[listed].client
                               <=> <<state[listed].client, y, listed>> \in live
    BY <2>1, <2>2 DEF Inv, TablesAreLive
  <2>4. CASE listed # s
    <3>1. state'[listed].table = state[listed].table
      BY <1>1, <2>2, <2>4
    <3>2. \A y \in Subjects : <<state[listed].client, y, listed>> \in live' <=> <<state[listed].client, y, listed>> \in live
      BY <2>2, <2>4
    <3> QED BY <2>2, <2>3, <3>1, <3>2
  <2>5. CASE listed = s
    <3> DEFINE c == state[s].client
    <3>1. \A y \in Subjects : y # x => /\ state'[s].table[y] = state[s].table[y]
                                       /\ <<c, y, s>> \in live' <=> <<c, y, s>> \in live
      BY <1>1, <2>2, <2>5
    <3>2. state'[s].table[x] = j /\ j \in {None, c}
      BY <1>1, <2>5
    <3>3. <<c, x, s>> \in live' <=> c = j
      <4>1. c \in ClientIds /\ c # None
        BY <1>2, <2>2, <2>5
      <4>2. state[s].table[x] \in {None, c} /\ (state[s].table[x] = c <=> <<c, x, s>> \in live)
        BY <2>3, <2>5
      <4> HIDE DEF c
      <4> QED BY <2>5, <3>2, <4>1, <4>2
    <3> HIDE DEF c
    <3>4. \A y \in Subjects : state[s].table[y] \in {None, c} /\ (state[s].table[y] = c <=> <<c, y, s>> \in live)
      BY <2>3, <2>5 DEF c
    <3>5. \A y \in Subjects : state'[s].table[y] \in {None, c} /\ (state'[s].table[y] = c <=> <<c, y, s>> \in live')
      <4> SUFFICES ASSUME NEW y \in Subjects
                   PROVE  state'[s].table[y] \in {None, c} /\ (state'[s].table[y] = c <=> <<c, y, s>> \in live')
        OBVIOUS
      <4>1. CASE y = x
        BY <3>2, <3>3, <4>1
      <4>2. CASE y # x
        BY <3>1, <3>4, <4>2
      <4> QED BY <4>1, <4>2
    <3> QED BY <2>2, <2>5, <3>5 DEF c
  <2> QED BY <2>4, <2>5
<1>6. ASSUME NEW u \in Tasks PROVE RestoringOK(u)'
  <2>1. SUFFICES ASSUME task'[u].pc = "restore", listed # None, task'[u].st = listed, client[task'[u].k].status = "up"
                 PROVE  \A y \in Subjects :
                          /\ state'[listed].table[y] = task'[u].k => <<task'[u].k, y, listed>> \in live'
                          /\ <<task'[u].k, y, listed>> \in live' => state'[listed].table[y] = task'[u].k \/ y \in task'[u].stale
                          /\ y \notin task'[u].todo => state'[listed].table[y] \in {None, task'[u].k}
                          /\ y \in task'[u].stale => state'[listed].table[y] = None
    BY DEF RestoringOK
  <2>2. task'[u] = task[u]
    BY <2>1 DEF Idle
  <2> DEFINE k == task[u].k
  <2>3. k \in ClientIds /\ listed \in StateIds /\ ~Usable(listed) /\ k # None
    <3>1. task[u].pc \in Connecting
      BY <2>1, <2>2 DEF Connecting
    <3> QED BY <1>2, <2>1, <2>2, <3>1, Alone
  <2>4. \A y \in Subjects :
          /\ state[listed].table[y] = k => <<k, y, listed>> \in live
          /\ <<k, y, listed>> \in live => state[listed].table[y] = k \/ y \in task[u].stale
          /\ y \notin task[u].todo => state[listed].table[y] \in {None, k}
          /\ y \in task[u].stale => state[listed].table[y] = None
    BY <2>1, <2>2 DEF Inv, RestoringOK
  <2> HIDE DEF k
  <2>5. SUFFICES ASSUME NEW y \in Subjects
                 PROVE  /\ state'[listed].table[y] = k => <<k, y, listed>> \in live'
                        /\ <<k, y, listed>> \in live' => state'[listed].table[y] = k \/ y \in task[u].stale
                        /\ y \notin task[u].todo => state'[listed].table[y] \in {None, k}
                        /\ y \in task[u].stale => state'[listed].table[y] = None
    BY <2>2 DEF k
  <2>6. CASE ~(listed = s /\ y = x)
    <3>1. state'[listed].table[y] = state[listed].table[y]
      BY <1>1, <2>3, <2>6
    <3>2. <<k, y, listed>> \in live' <=> <<k, y, listed>> \in live
      BY <2>3, <2>6
    <3> QED BY <2>4, <3>1, <3>2
  <2>7. CASE listed = s /\ y = x
    <3>1. j = None
      BY <2>3, <2>7
    <3>2. state'[listed].table[x] = None
      BY <1>1, <2>7, <3>1
    <3>3. <<k, x, s>> \in live' => <<k, x, s>> \in live /\ k # state[s].table[x]
      BY <2>3, <2>7, <3>1
    <3> QED BY <2>3, <2>4, <2>7, <3>2, <3>3
  <2> QED BY <2>6, <2>7
<1> QED BY <1>3, <1>4, <1>5, <1>6, WritesKeeps

LEMMA RecordedKeeps == ASSUME Inv, NEW t \in Callers, Recorded(t) PROVE Inv'
<1> DEFINE s == task[t].own
           k == task[t].k
           x == task[t].want
<1>1. /\ TypeOK' /\ task \in [Tasks -> Calls] /\ loop = "open" /\ task[t].pc = "subscribe" /\ client[k].status = "up"
      /\ state' = [state EXCEPT ![s].table[x] = k] /\ live' = live \cup {<<k, x, s>>}
      /\ task' = [task EXCEPT ![t] = Idle]
      /\ UNCHANGED <<loop, listed, closers, client, behind, orphaned, last>>
      /\ t \in Tasks
  BY RecordedTyped, CallerIs, TypeParts DEF Recorded, Inv, TasksTyped
<1>2. s \in StateIds /\ k \in ClientIds /\ x \in Subjects /\ k # None
  BY <1>1, CallFields, ConnectionConstants DEF Shaped
<1>3. \A u \in Tasks : task'[u] = task[u] \/ (task'[u] = Idle /\ task[u].pc = "subscribe")
  BY <1>1
<1>4. \A u \in Tasks : task[u].pc = "connect" => task[u].k # k
  <2>1. \A u \in Tasks : MakerOK(u)
    BY DEF Inv, CallsOK
  <2> QED BY <1>1, <2>1 DEF MakerOK, Connecting
<1>5. s = listed => state[s].client = k /\ Usable(s)
  BY <1>1, <1>2 DEF Inv, CallsOK, CallerOK, Usable, IsClosed
<1>6. client[k].socket
  BY <1>1, <1>2 DEF Inv, ServerOK, NoClient
<1> HIDE DEF s, k, x
<1>7. ServerOK'
  BY <1>1, <1>6 DEF Inv, ServerOK
<1>8. \A y \in Subjects, q \in StateIds, i \in ClientIds :
        <<i, y, q>> \in live' <=> <<i, y, q>> \in live \/ (i = k /\ y = x /\ q = s)
  BY <1>1
<1>9. s = listed /\ state[s].table[x] # None =>
        <<state[s].table[x], x, s>> \in live /\ state[s].table[x] = k
  <2>1. s # None
    BY <1>2, ConnectionConstants
  <2> QED BY <1>2, <1>5, <2>1 DEF Inv, TablesAreLive
<1>10. /\ \A y \in Subjects, q \in StateIds, i \in ClientIds :
            ~(q = s /\ y = x) => (<<i, y, q>> \in live' <=> <<i, y, q>> \in live)
       /\ \A i \in ClientIds : s = listed /\ (i = k \/ i = state[s].table[x]) => (<<i, x, s>> \in live' <=> i = k)
       /\ \A i \in ClientIds : s = listed /\ i # k /\ i # state[s].table[x] =>
            (<<i, x, s>> \in live' <=> <<i, x, s>> \in live)
  <2>1. \A i \in ClientIds : i # None
    BY ConnectionConstants
  <2> QED BY <1>2, <1>8, <1>9, <2>1
<1>11. /\ TypeOK' /\ s \in StateIds /\ x \in Subjects /\ k \in ClientIds \cup {None} /\ loop = "open"
       /\ UNCHANGED <<loop, listed, closers, client, behind, orphaned, last>>
       /\ state' = [state EXCEPT ![s].table[x] = k]
       /\ k # None => \A u \in Tasks : task[u].pc = "connect" => task[u].k # k
       /\ k # None /\ s = listed => state[s].client = k /\ Usable(s)
  BY <1>1, <1>2, <1>4, <1>5
<1> QED BY <1>3, <1>7, <1>10, <1>11, EntryKeeps

LEMMA DroppedKeeps == ASSUME Inv, NEW x \in Subjects, Dropped(x) PROVE Inv'
<1> DEFINE j == state[listed].table[x]
<1>1. /\ TypeOK' /\ loop = "open" /\ listed \in StateIds /\ j # None
      /\ live' = live \ {<<j, x, listed>>} /\ state' = [state EXCEPT ![listed].table[x] = None]
      /\ UNCHANGED <<loop, listed, closers, client, task, behind, orphaned, last>>
  BY DroppedTyped DEF Dropped, Inv, TypeOK
<1>2. ServerOK'
  BY <1>1 DEF Inv, ServerOK
<1> HIDE DEF j
<1>3. \A y \in Subjects, q \in StateIds, i \in ClientIds :
        <<i, y, q>> \in live' <=> <<i, y, q>> \in live /\ ~(i = j /\ y = x /\ q = listed)
  BY <1>1
<1>4. \A i \in ClientIds : i # None
  BY ConnectionConstants
<1>5. /\ \A y \in Subjects, q \in StateIds, i \in ClientIds :
            ~(q = listed /\ y = x) => (<<i, y, q>> \in live' <=> <<i, y, q>> \in live)
      /\ \A i \in ClientIds : listed = listed /\ (i = None \/ i = state[listed].table[x]) =>
            (<<i, x, listed>> \in live' <=> i = None)
      /\ \A i \in ClientIds : listed = listed /\ i # None /\ i # state[listed].table[x] =>
            (<<i, x, listed>> \in live' <=> <<i, x, listed>> \in live)
  BY <1>1, <1>3, <1>4 DEF j
<1>6. /\ TypeOK' /\ listed \in StateIds /\ None \in ClientIds \cup {None} /\ loop = "open"
      /\ UNCHANGED <<loop, listed, closers, client, behind, orphaned, last>>
      /\ state' = [state EXCEPT ![listed].table[x] = None]
      /\ \A u \in Tasks : task'[u] = task[u] \/ (task'[u] = Idle /\ task[u].pc = "subscribe")
      /\ None # None => \A u \in Tasks : task[u].pc = "connect" => task[u].k # None
      /\ None # None /\ listed = listed => state[listed].client = None /\ Usable(listed)
  BY <1>1
<1> QED BY <1>2, <1>5, <1>6, EntryKeeps

-----------------------------------------------------------------------------
(* A state is made, taken by close(), and the loop ends. *)

LEMMA OneLeast == \A s, q \in Least(FreeStates) : s = q
<1>1. \A s, q \in Nat : s <= q /\ q <= s => s = q
  OBVIOUS
<1> QED BY <1>1, RecoveriesAreNoCallers DEF Least, FreeStates

\* A state that was never made is nobody's.
LEMMA FreshState ==
  ASSUME Inv, loop = "open", NEW s \in FreeStates
  PROVE  /\ s \in StateIds /\ s # None /\ s \in Tasks /\ ~Referred(s) /\ task[s] = Idle
         /\ \A k \in ClientIds : client[k].of # s
         /\ \A u \in Tasks : task[u].own # s /\ task[u].st # s
<1>1. s \in StateIds /\ s \notin Range(closers) /\ s # None /\ s \in Tasks
  BY ConnectionConstants DEF FreeStates, Tasks
<1>2. ~Referred(s)
  BY <1>1, ReferredIsWrapped
<1>3. task[s] = Idle
  BY <1>1, <1>2 DEF Referred, Inv, CallsOK, Shaped
<1>4. \A k \in ClientIds : client[k].of # s
  BY <1>1 DEF Inv, AllWrapped, Wrapped
<1> QED BY <1>1, <1>2, <1>3, <1>4 DEF Referred

\* A call makes the state of its loop.
LEMMA MadeKeeps ==
  ASSUME Inv, TypeOK', loop = "open", listed = None, NEW s \in FreeStates, Registered(s),
         NEW t \in Callers, task[t].pc \in {"idle", "queued"}, NEW own, own \in {task[t].own, s, None},
         NEW want \in Subjects \cup {None}, want # None => own # None,
         \/ task' = [task EXCEPT ![t] = [Idle EXCEPT !.pc = "lock", !.own = own, !.st = s, !.want = want]]
         \/ /\ want # None
            /\ task' = [task EXCEPT ![t] = [Idle EXCEPT !.pc = "queued", !.own = own, !.want = want]],
         UNCHANGED <<loop, client, live, behind, orphaned, last>>
  PROVE  Inv'
<1>1. /\ s \in StateIds /\ s # None /\ s \in Tasks /\ ~Referred(s) /\ task[s] = Idle
      /\ \A k \in ClientIds : client[k].of # s
      /\ \A u \in Tasks : task[u].own # s /\ task[u].st # s
      /\ t \in Tasks /\ t \notin StateIds /\ t # s
  BY FreshState, CallerIs
<1>2. /\ listed' = s /\ closers' = <<s>> \o closers
      /\ \A q \in StateIds : state'[q] = IF Referred(q) THEN state[q] ELSE NewState
  BY <1>1 DEF Registered
<1>3. Range(closers') = Range(closers) \cup {s}
  <2>1. closers \in Seq(StateIds) /\ <<s>> \o closers \in Seq(StateIds)
    BY <1>1 DEF Inv, TypeOK
  <2>2. \A i \in 1 .. Len(closers) : (<<s>> \o closers)[i + 1] = closers[i]
    BY <1>1, <2>1
  <2>3. (<<s>> \o closers)[1] = s /\ Len(<<s>> \o closers) = Len(closers) + 1
    BY <1>1, <2>1
  <2>4. \A i \in 1 .. Len(<<s>> \o closers) : (<<s>> \o closers)[i] \in Range(closers) \cup {s}
    <3>1. TAKE i \in 1 .. Len(<<s>> \o closers)
    <3>2. CASE i = 1
      BY <2>3, <3>2
    <3>3. CASE i # 1
      <4>1. i - 1 \in 1 .. Len(closers) /\ i = (i - 1) + 1
        BY <2>1, <2>3, <3>3
      <4>2. (<<s>> \o closers)[i] = closers[i - 1]
        BY <2>2, <4>1
      <4> QED BY <2>1, <4>1, <4>2 DEF Range
    <3> QED BY <3>2, <3>3
  <2>5. Range(closers) \cup {s} \subseteq Range(<<s>> \o closers)
    <3>1. \A i \in 1 .. Len(closers) : closers[i] \in Range(<<s>> \o closers)
      BY <2>1, <2>2, <2>3 DEF Range
    <3>2. s \in Range(<<s>> \o closers)
      BY <2>1, <2>3 DEF Range
    <3> QED BY <2>1, <3>1, <3>2 DEF Range
  <2>6. Range(<<s>> \o closers) \subseteq Range(closers) \cup {s}
    BY <2>1, <2>4 DEF Range
  <2> QED BY <1>2, <2>5, <2>6
<1>4. /\ \A u \in Tasks : u # t => task'[u] = task[u]
      /\ task'[t].pc \in {"lock", "queued"} /\ task'[t].own = own /\ task'[t].k = None /\ task'[t].want = want
      /\ task'[t].pc = "lock" => task'[t].st = s
      /\ task'[t].pc = "queued" => task'[t].st = None /\ want # None
  <2>1. task \in [Tasks -> Calls]
    BY TypeParts DEF Inv, TasksTyped
  <2>2. \/ task'[t] = [Idle EXCEPT !.pc = "lock", !.own = own, !.st = s, !.want = want]
        \/ want # None /\ task'[t] = [Idle EXCEPT !.pc = "queued", !.own = own, !.want = want]
    BY <1>1, <2>1
  <2>3. /\ task'[t].pc \in {"lock", "queued"} /\ task'[t].own = own /\ task'[t].k = None /\ task'[t].want = want
        /\ task'[t].pc = "lock" => task'[t].st = s
        /\ task'[t].pc = "queued" => task'[t].st = None /\ want # None
    BY <2>2 DEF Idle
  <2> QED BY <1>1, <2>1, <2>3
<1>5. /\ NewState.client = None /\ NewState.cleanups = {} /\ \A x \in Subjects : NewState.table[x] = None
      /\ \A k \in ClientIds : k # None
      /\ \A q \in StateIds : q \in Tasks /\ q # None
  BY ConnectionConstants DEF NewState, Tasks
<1>6. \A q \in StateIds : Referred(q)' => Referred(q) \/ q = s
  BY SMTT(30), <1>1, <1>2, <1>4, <1>5 DEF Referred
<1>7. \A q \in StateIds, k \in ClientIds : k \notin state'[q].cleanups
  BY <1>2, <1>5 DEF Inv, CleanupsOK
<1>8. \A q \in StateIds : Referred(q) => state'[q] = state[q] /\ q # s
  BY <1>1, <1>2
<1>9. state'[s].client = None /\ \A x \in Subjects : state'[s].table[x] = None
  BY <1>1, <1>2, <1>5
<1>10. Excludes'
  BY <1>4 DEF Inv, Excludes, Connecting
<1>11. CallsOK'
  <2>1. SUFFICES ASSUME NEW u \in Tasks PROVE Shaped(u)' /\ MakerOK(u)' /\ CallerOK(u)' /\ CloserOK(u)'
    BY DEF CallsOK
  <2>2. CASE u = t
    <3>1. Shaped(t)'
      BY <1>1, <1>4 DEF Shaped, Connecting, Closing
    <3>2. MakerOK(t)' /\ CloserOK(t)'
      BY <1>4 DEF MakerOK, CloserOK, Connecting, Closing
    <3>3. CallerOK(t)'
      BY <1>2, <1>4 DEF CallerOK, Connecting
    <3> QED BY <2>2, <3>1, <3>2, <3>3
  <2>3. CASE u # t
    <3>1. Shaped(u) /\ MakerOK(u) /\ CallerOK(u) /\ CloserOK(u) /\ task'[u] = task[u]
      BY <1>4, <2>3 DEF Inv, CallsOK
    <3>2. Shaped(u)'
      BY <3>1 DEF Shaped
    <3>3. MakerOK(u)'
      <4>1. SUFFICES ASSUME task[u].pc \in Connecting PROVE MakerOK(u)'
        BY <3>1 DEF MakerOK
      <4>2. task[u].k \in ClientIds /\ task[u].st \in StateIds /\ Referred(task[u].st)
        BY <4>1, CallFields DEF Referred
      <4>3. state'[task[u].st] = state[task[u].st]
        BY <1>8, <4>2
      <4>4. \A v \in Tasks : v # u => task'[v].k # task[u].k
        BY <1>4, <1>5, <3>1, <4>1, <4>2 DEF MakerOK
      <4>5. \A q \in StateIds : Referred(q)' => /\ state'[q].client # task[u].k
                                                /\ task[u].pc = "connect" => \A x \in Subjects : state'[q].table[x] # task[u].k
        BY <1>5, <1>6, <1>8, <1>9, <3>1, <4>1, <4>2 DEF MakerOK
      <4>6. /\ ~(state'[task[u].st].client # None /\ client'[state'[task[u].st].client].status # "closed")
            /\ task[u].pc # "connect" => state'[task[u].st].client # None
        BY <3>1, <4>1, <4>3 DEF MakerOK, Usable, IsClosed, Stale
      <4> QED BY <1>7, <3>1, <4>1, <4>2, <4>4, <4>5, <4>6 DEF MakerOK, Usable, IsClosed, Stale
    <3>4. CallerOK(u)'
      BY <1>1, <1>2, <3>1 DEF CallerOK
    <3>5. CloserOK(u)'
      <4>1. SUFFICES ASSUME task[u].pc \in Closing PROVE CloserOK(u)'
        BY <3>1 DEF CloserOK
      <4>2. task[u].own \in StateIds /\ Referred(task[u].own) /\ task[u].k \in ClientIds \cup {None} /\ task[u].own # s
        BY <1>1, <4>1, CallFields DEF Referred
      <4>3. task[u].k # None => state'[s].client # task[u].k /\ client[task[u].k].of # s
        BY <1>1, <1>9, <4>2
      <4>4. state'[task[u].own] = state[task[u].own]
        BY <1>8, <4>2
      <4> QED BY <1>2, <3>1, <4>2, <4>3, <4>4 DEF CloserOK, Elsewhere, IsClosed
    <3> QED BY <3>2, <3>3, <3>4, <3>5
  <2> QED BY <2>2, <2>3
<1>12. AllWrapped'
  <2>1. \A q \in StateIds : Referred(q)' => q \in Range(closers')
    BY <1>3, <1>6, ReferredIsWrapped
  <2>2. \A u \in Tasks : task'[u].own \in StateIds \cup {None} /\ task'[u].st \in StateIds \cup {None}
    BY DEF TypeOK
  <2>3. \A u \in Tasks, q \in StateIds : q \in {task'[u].own, task'[u].st} => Referred(q)'
    BY DEF Referred
  <2>4. \A u \in Tasks : Wrapped(task[u].own)' /\ Wrapped(task[u].st)'
    BY <2>1, <2>2, <2>3 DEF Wrapped
  <2>5. \A q \in StateIds : task'[q] # Idle => Wrapped(q)'
    <3>1. \A q \in StateIds : task'[q] # Idle => task'[q].pc # "idle"
      BY <1>5, <1>11 DEF CallsOK, Shaped
    <3> QED BY <2>1, <3>1 DEF Wrapped, Referred
  <2>6. \A k \in ClientIds : Wrapped(client[k].of)'
    BY <1>3 DEF Inv, AllWrapped, Wrapped
  <2>7. Wrapped(listed)' /\ orphaned' = 0 /\ last' = None
    BY <1>2, <1>3 DEF Inv, AllWrapped, Wrapped
  <2> QED BY <2>4, <2>5, <2>6, <2>7 DEF AllWrapped
<1>13. CleanupsOK' /\ BehindOK' /\ ListedOK' /\ OwnHeld'
  <2>1. CleanupsOK'
    BY <1>7 DEF CleanupsOK
  <2>2. BehindOK'
    <3>1. behind \subseteq ClientIds
      BY DEF Inv, TypeOK
    <3> QED BY <1>1, <1>2, <1>5, <1>9, <3>1 DEF BehindOK, Elsewhere
  <2>3. ListedOK'
    BY <1>2, <1>9 DEF ListedOK
  <2>4. OwnHeld'
    BY <1>1, <1>2 DEF OwnHeld
  <2> QED BY <2>1, <2>2, <2>3, <2>4
<1>14. ClientsApart'
  <2>1. SUFFICES ASSUME NEW q \in StateIds, Referred(q)', state'[q].client # None
                 PROVE  /\ client[state'[q].client].of \in {q, None}
                        /\ \A r \in StateIds : r # q /\ Referred(r)' => state'[r].client # state'[q].client
    BY DEF ClientsApart
  <2>2. Referred(q) /\ state'[q] = state[q]
    BY <1>6, <1>8, <1>9, <2>1
  <2> QED BY <1>6, <1>8, <1>9, <2>1, <2>2 DEF Inv, ClientsApart
<1>15. RecoveryFollowsLoss' /\ TablesAreLive'
  <2>1. task'[s] = Idle
    BY <1>1, <1>4
  <2> QED BY <1>2, <1>9, <2>1 DEF RecoveryFollowsLoss, TablesAreLive, Usable
<1>16. ServerOK'
  BY DEF Inv, ServerOK
<1>17. \A u \in Tasks : RestoringOK(u)'
  <2>1. \A u \in Tasks : task'[u].pc = "restore" => task'[u].st # s
    BY <1>1, <1>4
  <2> QED BY <1>2, <2>1 DEF RestoringOK
<1>18. OrphansAreCounted' /\ EndOK'
  BY DEF OrphansAreCounted, EndOK
<1> QED BY <1>10, <1>11, <1>12, <1>13, <1>14, <1>15, <1>16, <1>17, <1>18 DEF Inv

LEMMA CallKeeps == ASSUME Inv, NEW t \in Callers, Call(t) PROVE Inv'
<1>1. CASE listed # None
  BY <1>1, CallKeepsListed
<1>2. CASE listed = None
  <2>1. PICK s \in TheState, want \in Subjects \cup {None} :
          /\ Registered(s)
          /\ task' = [task EXCEPT ![t] = IF want = None THEN Entered(s, s, None)
                                         ELSE [Idle EXCEPT !.pc = "queued", !.own = s, !.want = want]]
    BY DEF Call
  <2>2. s \in FreeStates /\ s # None /\ loop = "open" /\ task[t].pc = "idle"
        /\ UNCHANGED <<loop, client, live, behind, orphaned, last>>
    BY <1>2, ConnectionConstants DEF TheState, Least, FreeStates, Call, Idle
  <2>3. TypeOK'
    BY CallTyped DEF Inv
  <2>4. CASE want = None
    <3>1. task' = [task EXCEPT ![t] = [Idle EXCEPT !.pc = "lock", !.own = None, !.st = s, !.want = None]]
      BY <1>2, <2>1, <2>2, <2>4 DEF Entered
    <3> QED BY <1>2, <2>1, <2>2, <2>3, <3>1, MadeKeeps
  <2>5. CASE want # None
    <3>1. task' = [task EXCEPT ![t] = [Idle EXCEPT !.pc = "queued", !.own = s, !.want = want]]
      BY <2>1, <2>5
    <3> QED BY <1>2, <2>1, <2>2, <2>3, <2>5, <3>1, MadeKeeps
  <2> QED BY <2>4, <2>5
<1> QED BY <1>1, <1>2

LEMMA ResumeKeeps == ASSUME Inv, NEW t \in Callers, Resume(t) PROVE Inv'
<1>1. CASE listed # None
  BY <1>1, ResumeKeepsListed
<1>2. CASE listed = None
  <2>1. PICK s \in TheState, own \in {task[t].own} \cup TheState :
          /\ Registered(s)
          /\ task' = [task EXCEPT ![t] = IF own = listed /\ state[own].table[task[t].want] # None THEN Idle
                                         ELSE Entered(s, own, task[t].want)]
    BY DEF Resume
  <2>2. /\ s \in FreeStates /\ s # None /\ loop = "open" /\ task[t].pc = "queued" /\ own \in {task[t].own, s}
        /\ UNCHANGED <<loop, client, live, behind, orphaned, last>>
    BY <1>2, <2>1, OneLeast, ConnectionConstants DEF TheState, Least, FreeStates, Resume
  <2>3. TypeOK'
    BY ResumeTyped DEF Inv
  <2>4. own # None /\ task[t].want \in Subjects \cup {None} /\ task[t].want # None
    BY <2>2, CallerIs, CallFields, ConnectionConstants DEF Shaped
  <2>5. task' = [task EXCEPT ![t] = [Idle EXCEPT !.pc = "lock", !.own = own, !.st = s, !.want = task[t].want]]
    BY <1>2, <2>1, <2>2, <2>4 DEF Entered
  <2> QED BY ZenonT(40), <1>2, <2>1, <2>2, <2>3, <2>4, <2>5, MadeKeeps
<1> QED BY <1>1, <1>2

-----------------------------------------------------------------------------
(* close() takes the state, and the end of the loop. *)

LEMMA CloseKeeps == ASSUME Inv, NEW t \in Closers, Close(t) PROVE Inv'
<1> DEFINE l == listed
           k == state[l].client
           new == [state EXCEPT ![l].cleanups = {}]
<1>1. /\ TypeOK' /\ loop = "open" /\ loop' = loop /\ l \in StateIds /\ l # None /\ listed' = None
      /\ t \in Tasks /\ t \notin StateIds /\ task[t] = Idle
      /\ UNCHANGED <<closers, client, live, behind, orphaned, last>>
      /\ state' = new
  BY CloseTyped, RecoveriesAreNoCallers DEF Close, Inv, TypeOK, Tasks
<1>2. /\ state'[l].cleanups = {}
      /\ \A s \in StateIds : state'[s].client = state[s].client /\ state'[s].table = state[s].table
      /\ \A s \in StateIds : s # l => state'[s] = state[s]
  <2>1. l \in StateIds /\ {} \in SUBSET ClientIds
    BY <1>1
  <2>2. /\ new[l].cleanups = {} /\ new[l].client = state[l].client /\ new[l].table = state[l].table
        /\ \A q \in StateIds : q # l => new[q] = state[q]
    BY <2>1, CleanupsSet
  <2>3. state' = new
    BY <1>1
  <2> HIDE DEF new
  <2> QED BY <2>2, <2>3
<1>3. /\ \A u \in Tasks : u # t => task'[u] = task[u]
      /\ task'[t].pc = "settle" /\ task'[t].own = l /\ task'[t].k = k
      /\ task'[t].st = None /\ task'[t].want = None
  <2>1. task \in [Tasks -> Calls] /\ task' = [task EXCEPT ![t].pc = "settle", ![t].own = l, ![t].k = k]
    BY TypeParts DEF Inv, TasksTyped, Close
  <2> QED BY <1>1, <2>1 DEF Idle
<1> HIDE DEF new, k, l
<1>4. Referred(l)
  BY DEF Referred, l
<1>5. \A s \in StateIds : Referred(s)' => Referred(s)
  <2>1. \A s \in StateIds : s # None /\ s \in Tasks /\ s # t
    BY <1>1, ConnectionConstants DEF Tasks
  <2> QED BY <1>1, <1>3, <1>4, <2>1 DEF Referred
<1>6. \A s \in StateIds : state'[s].cleanups = {}
  BY <1>1, <1>2, StateFields DEF Inv, CleanupsOK, l
<1>7. \A s \in StateIds : Usable(s)' <=> Usable(s)
  BY <1>1, <1>2 DEF Usable, IsClosed
<1>8. CallsOK'
  <2>1. Shaped(t)' /\ MakerOK(t)' /\ CallerOK(t)' /\ CloserOK(t)'
    <3>1. Shaped(t)'
      BY <1>1, <1>3, ConnectionConstants DEF Shaped, Connecting, Closing
    <3>2. MakerOK(t)' /\ CallerOK(t)'
      BY <1>3 DEF MakerOK, CallerOK, Connecting
    <3>3. CloserOK(t)'
      BY <1>1, <1>2, <1>3 DEF CloserOK, Elsewhere, k
    <3> QED BY <3>1, <3>2, <3>3
  <2>2. ASSUME NEW u \in Tasks, u # t PROVE Shaped(u)' /\ MakerOK(u)' /\ CallerOK(u)' /\ CloserOK(u)'
    <3>1. task'[u] = task[u] /\ Shaped(u) /\ MakerOK(u) /\ CloserOK(u)
      BY <1>3, <2>2 DEF Inv, CallsOK
    <3>2. Shaped(u)'
      BY <3>1 DEF Shaped
    <3>3. MakerOK(u)'
      <4> SUFFICES ASSUME task[u].pc \in Connecting PROVE MakerOK(u)'
        BY <3>1 DEF MakerOK
      <4>1. task[u].st \in StateIds /\ task[u].k # k /\ task[u].k # None
        BY <1>1, <1>4, Alone DEF k
      <4>2. \A v \in Tasks : v # u => task'[v].k # task[u].k
        BY <1>3, <3>1, <4>1 DEF MakerOK
      <4> QED BY <1>1, <1>2, <1>5, <1>6, <1>7, <3>1, <4>1, <4>2 DEF MakerOK, Stale
    <3>4. task[u].pc \in Closing \cup {"subscribe"} => task[u].own # None
      BY <3>1 DEF Shaped
    <3>5. CallerOK(u)'
      BY <1>1, <3>1, <3>4 DEF CallerOK
    <3>6. task[u].pc \in Closing => task[u].own \in StateIds
      BY CallFields
    <3>7. CloserOK(u)'
      BY <1>1, <1>2, <3>1, <3>4, <3>6 DEF CloserOK, Elsewhere, IsClosed
    <3> QED BY <3>2, <3>3, <3>5, <3>7
  <2> QED BY <2>1, <2>2 DEF CallsOK
<1>9. Excludes'
  BY <1>3 DEF Inv, Excludes, Connecting
<1>10. AllWrapped'
  <2>1. Wrapped(l) /\ AllWrapped
    BY <1>1 DEF Inv, AllWrapped, l
  <2>2. \A s \in StateIds : s \in Tasks /\ s # t
    BY <1>1 DEF Tasks
  <2> QED BY <1>1, <1>3, <2>1, <2>2 DEF AllWrapped, Wrapped
<1>11. CleanupsOK' /\ BehindOK'
  BY <1>1, <1>6 DEF CleanupsOK, BehindOK, Elsewhere
<1>12. ClientsApart'
  BY <1>1, <1>2, <1>5 DEF Inv, ClientsApart
<1>13. ListedOK' /\ OwnHeld' /\ RecoveryFollowsLoss' /\ TablesAreLive'
  BY <1>1 DEF ListedOK, OwnHeld, RecoveryFollowsLoss, TablesAreLive
<1>14. ServerOK' /\ (\A u \in Tasks : RestoringOK(u)') /\ OrphansAreCounted' /\ EndOK'
  BY <1>1 DEF Inv, ServerOK, RestoringOK, OrphansAreCounted, EndOK
<1> QED BY <1>1, <1>8, <1>9, <1>10, <1>11, <1>12, <1>13, <1>14 DEF Inv

\* The steps that close the loop, or come after, leave nothing running; what they mark closed
\* is not the client of the state that stays listed.
LEMMA EndKeeps ==
  ASSUME Inv, TypeOK', EndOK', loop' = "closed", UNCHANGED <<state, behind>>, ServerOK', OrphansAreCounted',
         \A t \in Tasks : task'[t] = Idle,
         listed' # None =>
            /\ listed' = listed /\ UNCHANGED live
            /\ \A k \in ClientIds : client'[k] = client[k] \/ (client'[k] = Cut(client[k].of) /\ state[listed].client # k)
  PROVE  Inv'
<1>1. \A t \in Tasks : /\ t \in StateIds => t # None
                       /\ task'[t].pc = "idle" /\ task'[t].own = None /\ task'[t].st = None
  BY ConnectionConstants DEF Idle
<1>2. listed' # None => /\ listed \in StateIds /\ state[listed].client \in ClientIds \cup {None}
                        /\ \A k \in ClientIds : client'[k].of = client[k].of
  BY StateFields DEF Inv, TypeOK, Cut
<1>3. Excludes' /\ AllWrapped' /\ CleanupsOK' /\ OwnHeld'
  BY <1>1 DEF Excludes, AllWrapped, Connecting, CleanupsOK, OwnHeld
<1>4. CallsOK'
  <2>1. ASSUME NEW t \in Tasks PROVE Shaped(t)' /\ MakerOK(t)' /\ CallerOK(t)' /\ CloserOK(t)'
    <3>1. Shaped(t)'
      BY DEF Shaped, Idle, Connecting, Closing
    <3>2. MakerOK(t)' /\ CallerOK(t)' /\ CloserOK(t)'
      BY <1>1 DEF MakerOK, CallerOK, CloserOK, Connecting, Closing
    <3> QED BY <3>1, <3>2
  <2> QED BY <2>1 DEF CallsOK
<1>5. BehindOK'
  <2>1. behind \subseteq ClientIds
    BY DEF Inv, TypeOK
  <2> QED BY <1>2, <2>1 DEF Inv, BehindOK, Elsewhere
<1>6. ClientsApart'
  <2>1. \A s \in StateIds : Referred(s)' => listed' = s
    BY <1>1, ConnectionConstants DEF Referred, Tasks
  <2>2. CASE listed' = None
    BY <2>1, <2>2, ConnectionConstants DEF ClientsApart
  <2>3. CASE listed' # None
    <3>1. Referred(listed)
      BY <2>3 DEF Referred
    <3>2. state[listed].client # None => client[state[listed].client].of \in {listed, None}
      BY <1>2, <2>3, <3>1 DEF Inv, ClientsApart
    <3> QED BY <1>2, <2>1, <2>3, <3>2 DEF ClientsApart
  <2> QED BY <2>2, <2>3
<1>7. ListedOK' /\ TablesAreLive'
  <2>1. CASE listed' = None
    BY <2>1 DEF ListedOK, TablesAreLive
  <2>2. CASE listed' # None
    <3>1. state[listed].client # None => client'[state[listed].client] = client[state[listed].client]
      BY <1>2, <2>2
    <3> QED BY <2>2, <3>1 DEF Inv, ListedOK, TablesAreLive, Usable, IsClosed
  <2> QED BY <2>1, <2>2
<1>8. RecoveryFollowsLoss' /\ \A t \in Tasks : RestoringOK(t)'
  BY <1>1 DEF RecoveryFollowsLoss, RestoringOK
<1> QED BY <1>3, <1>4, <1>5, <1>6, <1>7, <1>8 DEF Inv

\* What stays up when the calls have ended and a recovery's restore is stopped.
Halted(k) ==
    /\ Stopped[k] = Cut(client[k].of) /\ client[k].socket
    /\ listed # None => state[listed].client # k

LEMMA StoppedSets ==
  ASSUME Inv, loop = "open", CallsEnded
  PROVE  /\ \A k \in ClientIds : Stopped[k] = client[k] \/ Halted(k)
         /\ listed # None => \A k \in ClientIds : Stopped[k].status = "up" /\ Stopped[k].of = listed =>
                                                  state[listed].client = k
<1>1. client \in [ClientIds -> Clients] /\ StateIds \subseteq Tasks /\ (listed # None => listed \in StateIds)
  BY TypeParts DEF Inv, ServerTyped, TypeOK, Tasks
<1>2. ASSUME NEW k \in ClientIds
      PROVE  Stopped[k] = client[k] \/ Halted(k)
  <2>1. CASE \E s \in StateIds : task[s].pc = "restore" /\ task[s].k = k
    <3>1. PICK s \in StateIds : task[s].pc = "restore" /\ task[s].k = k
      BY <2>1
    <3>2. Stopped[k] = [status |-> "closed", socket |-> client[k].socket, of |-> client[k].of]
      <4>1. Stopped[k] = [client[k] EXCEPT !.status = "closed"] /\ client[k] \in Clients
        BY <1>1, <2>1 DEF Stopped
      <4> QED BY <4>1 DEF Clients
    <3>3. MakerOK(s)
      BY <1>1 DEF Inv, CallsOK
    <3>4. client[k] \in {NoClient, UpFor(task[s].st)}
      BY <3>1, <3>3 DEF MakerOK, Connecting
    <3>5. listed # None => state[listed].client # k
      BY <1>1, <3>1, <3>3 DEF MakerOK, Connecting, Referred
    <3>6. CASE client[k] = NoClient
      BY <3>2, <3>6 DEF NoClient
    <3>7. CASE client[k] = UpFor(task[s].st)
      <4>1. Stopped[k] = Cut(client[k].of) /\ client[k].socket
        BY <3>2, <3>7 DEF UpFor, Cut
      <4> QED BY <3>5, <4>1 DEF Halted
    <3> QED BY <3>4, <3>6, <3>7
  <2>2. CASE ~\E s \in StateIds : task[s].pc = "restore" /\ task[s].k = k
    BY <2>2 DEF Stopped
  <2> QED BY <2>1, <2>2 DEF Halted
<1>3. ASSUME listed # None, NEW k \in ClientIds, Stopped[k].status = "up", Stopped[k].of = listed
      PROVE  state[listed].client = k
  <2>1. Stopped[k] = client[k]
    <3>1. Stopped[k] # Cut(client[k].of)
      BY <1>3 DEF Cut
    <3> QED BY <1>2, <3>1 DEF Halted
  <2>2. \/ state[listed].client = k
        \/ \E t \in Tasks : task[t].k = k /\ task[t].pc \in Connecting
        \/ k \in state[listed].cleanups
    BY <1>3, <2>1 DEF Inv, OwnHeld
  <2>3. k \notin state[listed].cleanups
    BY <1>1, <1>3, <2>1 DEF Inv, CleanupsOK
  <2>4. ASSUME NEW t \in Tasks, task[t].k = k, task[t].pc \in Connecting PROVE FALSE
    <3>1. t \in StateIds
      BY <2>4 DEF CallsEnded, Idle, Connecting
    <3>2. client[k] = UpFor(task[t].st) /\ task[t].pc = "restore"
      <4>1. MakerOK(t)
        BY DEF Inv, CallsOK
      <4>2. /\ task[t].pc = "connect" => client[k] = Opening(task[t].st)
            /\ task[t].pc = "restore" => client[k] \in {NoClient, UpFor(task[t].st)}
            /\ task[t].pc = "undo" => client[k] \in {NoClient, Cut(task[t].st)}
        BY <2>4, <4>1 DEF MakerOK
      <4> QED BY <1>3, <2>1, <2>4, <4>2 DEF Connecting, Opening, Cut, NoClient
    <3>3. Stopped[k] = [client[k] EXCEPT !.status = "closed"]
      BY <2>4, <3>1, <3>2 DEF Stopped
    <3> QED BY <1>3, <3>2, <3>3 DEF UpFor
  <2> QED BY <2>2, <2>3, <2>4
<1> QED BY <1>2, <1>3

LEMMA StoppedServes ==
  ASSUME Inv, loop = "open", CallsEnded, NEW k \in ClientIds \cup {None},
         \A j \in ClientIds : client'[j] = IF j = k THEN NoClient ELSE Stopped[j],
         live' \subseteq live, \A sub \in live' : sub[1] # k
  PROVE  ServerOK'
<1>1. \A sub \in live : sub[1] \in ClientIds
  BY DEF Inv, TypeOK
<1>2. \A j \in ClientIds : Stopped[j] = client[j] \/ (Stopped[j] = Cut(client[j].of) /\ client[j].socket)
  BY StoppedSets DEF Halted
<1>3. /\ \A sub \in live : client[sub[1]].socket /\ client[sub[1]].status # "opening"
      /\ \A j \in ClientIds : client[j] = NoClient \/ (client[j].socket /\ client[j].of # None)
  BY DEF Inv, ServerOK
<1>4. ASSUME NEW sub \in live' PROVE client'[sub[1]].socket /\ client'[sub[1]].status # "opening"
  <2>1. sub \in live /\ sub[1] \in ClientIds /\ client'[sub[1]] = Stopped[sub[1]]
    BY <1>1, <1>4
  <2>2. client[sub[1]].socket /\ client[sub[1]].status # "opening"
    BY <1>3, <2>1
  <2>3. CASE Stopped[sub[1]] = client[sub[1]]
    BY <2>1, <2>2, <2>3
  <2>4. CASE Stopped[sub[1]] = Cut(client[sub[1]].of)
    BY <2>1, <2>4 DEF Cut
  <2> QED BY <1>2, <2>1, <2>3, <2>4
<1>5. ASSUME NEW j \in ClientIds PROVE client'[j] = NoClient \/ (client'[j].socket /\ client'[j].of # None)
  <2>1. client'[j] = NoClient \/ client'[j] = Stopped[j]
    OBVIOUS
  <2>2. CASE Stopped[j] = client[j]
    BY <1>3, <2>1, <2>2
  <2>3. CASE Stopped[j] = Cut(client[j].of) /\ client[j].socket
    BY <1>3, <2>1, <2>3 DEF Cut, NoClient
  <2> QED BY <1>2, <2>2, <2>3
<1> QED BY <1>4, <1>5 DEF ServerOK

LEMMA LoopClosesKeeps == ASSUME Inv, LoopCloses PROVE Inv'
<1> DEFINE k == IF listed = None THEN None ELSE state[listed].client
<1>1. /\ TypeOK' /\ loop = "open" /\ CallsEnded /\ loop' = "closed" /\ last' = listed /\ listed' = None
      /\ orphaned' = 0 /\ UNCHANGED <<state, behind>> /\ task' = [t \in Tasks |-> Idle]
      /\ IF k # None THEN /\ client' = [Stopped EXCEPT ![k] = NoClient]
                          /\ live' = LiveWithout(k)
         ELSE client' = Stopped /\ UNCHANGED live
      /\ k \in ClientIds \cup {None}
  <2>1. /\ TypeOK' /\ (listed # None => listed \in Range(closers)) /\ orphaned = 0
        /\ (listed = None => listed \notin Released)
    BY EndTyped, ConnectionConstants DEF Inv, AllWrapped, Wrapped, LoopCloses, Released, TypeOK, Range
  <2>2. k \in ClientIds \cup {None}
    BY StateFields DEF Inv, TypeOK
  <2> QED BY <2>1, <2>2 DEF LoopCloses, Released
<1>2. \A j \in ClientIds : client'[j] = IF j = k THEN NoClient ELSE Stopped[j]
  <2>1. Stopped = [j \in ClientIds |-> Stopped[j]]
    BY DEF Stopped
  <2> HIDE DEF k
  <2> QED BY <1>1, <2>1, ConnectionConstants
<1>3. ServerOK'
  <2>1. live' \subseteq live /\ \A sub \in live' : sub[1] # k
    BY <1>1, ConnectionConstants DEF LiveWithout, Inv, TypeOK
  <2> HIDE DEF k
  <2> QED BY <1>1, <1>2, <2>1, StoppedServes
<1>4. OrphansAreCounted'
  <2>1. {j \in ClientIds : client'[j].status = "up" /\ client'[j].of = last' /\ last' # None} = {}
    <3> SUFFICES ASSUME NEW j \in ClientIds, client'[j].status = "up", client'[j].of = listed, listed # None PROVE FALSE
      BY <1>1
    <3>1. j # k /\ client'[j] = Stopped[j]
      BY <1>2 DEF NoClient
    <3> QED BY <1>1, <3>1, StoppedSets
  <2> QED BY <1>1, <2>1, FS_EmptySet DEF OrphansAreCounted
<1>5. EndOK'
  BY <1>1 DEF EndOK
<1> QED BY <1>1, <1>3, <1>4, <1>5, EndKeeps

LEMMA LoopClosesPastItKeeps == ASSUME Inv, LoopClosesPastIt PROVE Inv'
<1>1. /\ TypeOK' /\ loop = "open" /\ CallsEnded /\ loop' = "closed" /\ last' = listed /\ orphaned = 0
      /\ UNCHANGED <<listed, closers, state, live, behind, orphaned>> /\ client' = Stopped
      /\ task' = [t \in Tasks |-> Idle]
      /\ listed # None => closers # <<>>
  <2>1. TypeOK' /\ orphaned = 0 /\ (listed # None => listed \in Range(closers))
    BY EndTyped DEF Inv, AllWrapped, Wrapped, LoopClosesPastIt
  <2>2. listed # None => closers # <<>>
    BY <2>1 DEF Range
  <2> QED BY <2>1, <2>2 DEF LoopClosesPastIt
<1>2. ServerOK'
  <2>1. \A sub \in live : sub[1] # None
    BY ConnectionConstants DEF Inv, TypeOK
  <2> QED BY <1>1, <2>1, StoppedServes, ConnectionConstants
<1>3. EndOK'
  BY <1>1, StoppedSets DEF EndOK
<1>4. OrphansAreCounted'
  <2>1. CASE listed # None
    BY <1>1, <2>1 DEF OrphansAreCounted
  <2>2. CASE listed = None
    <3>1. {k \in ClientIds : client'[k].status = "up" /\ client'[k].of = last' /\ last' # None} = {}
      BY <1>1, <2>2
    <3> QED BY <1>1, <2>2, <3>1, FS_EmptySet DEF OrphansAreCounted
  <2> QED BY <2>1, <2>2
<1>5. listed # None =>
         \A k \in ClientIds :
            client'[k] = client[k] \/ (client'[k] = Cut(client[k].of) /\ state[listed].client # k)
  BY <1>1, StoppedSets DEF Halted
<1> QED BY <1>1, <1>2, <1>3, <1>4, <1>5, EndKeeps

LEMMA ForgetKeeps == ASSUME Inv, ForgetClosedLoops PROVE Inv'
<1> DEFINE l == listed
           k == state[l].client
           left == {j \in ClientIds : client[j].status = "up" /\ client[j].of = last /\ last # None}
<1>1. /\ TypeOK' /\ EndOK /\ loop = "closed" /\ l # None /\ l \in StateIds /\ last = l /\ closers # <<>>
      /\ listed' = None /\ orphaned' = IF Usable(l) THEN 1 ELSE 0
      /\ UNCHANGED <<loop, closers, state, client, live, task, behind, last>>
  BY EndTyped DEF Inv, EndOK, ForgetClosedLoops, TypeOK
<1>2. k \in ClientIds \cup {None} /\ (k # None => client[k] \in {NoClient, UpFor(l)})
  BY <1>1, StateFields DEF Inv, ListedOK
<1>3. \A j \in left : j = k
  BY <1>1 DEF EndOK
<1>4. Cardinality(left) = orphaned'
  <2>1. CASE Usable(l)
    <3>1. k \in ClientIds /\ client[k] = UpFor(l)
      BY <1>2, <2>1 DEF Usable, IsClosed, NoClient
    <3>2. left = {k}
      BY <1>1, <1>3, <3>1 DEF UpFor
    <3> QED BY <1>1, <2>1, <3>2, FS_Singleton
  <2>2. CASE ~Usable(l)
    <3>1. left = {}
      <4> SUFFICES ASSUME NEW j \in left PROVE FALSE
        OBVIOUS
      <4>1. j = k /\ j \in ClientIds /\ client[j].status = "up"
        BY <1>3
      <4> QED BY <1>2, <2>2, <4>1, ConnectionConstants DEF Usable, IsClosed, NoClient, UpFor
    <3> QED BY <1>1, <2>2, <3>1, FS_EmptySet
  <2> QED BY <2>1, <2>2
<1>5. OrphansAreCounted'
  BY <1>1, <1>4 DEF OrphansAreCounted
<1>6. ServerOK' /\ EndOK' /\ \A t \in Tasks : task'[t] = Idle
  BY <1>1 DEF Inv, ServerOK, EndOK
<1> QED BY <1>1, <1>5, <1>6, EndKeeps

-----------------------------------------------------------------------------
(* The invariant. *)

LEMMA InitInv == Init => Inv
<1> SUFFICES ASSUME Init PROVE Inv
  OBVIOUS
<1>1. TypeOK
  <2>1. NewState \in States /\ NoClient \in Clients
    BY DEF NewState, States, NoClient, Clients
  <2>2. Idle \in Calls
    BY CallsTyped
  <2>3. <<>> \in Seq(StateIds)
    OBVIOUS
  <2> QED BY <2>1, <2>2, <2>3, TypeParts DEF Init, TablesTyped, ServerTyped, TasksTyped
<1>2. /\ \A t \in Tasks : task[t] = Idle
      /\ \A s \in StateIds : s \in Tasks /\ state[s].cleanups = {}
      /\ \A k \in ClientIds : client[k] = NoClient
  BY DEF Init, NewState, Tasks
<1>3. Excludes /\ AllWrapped
  BY <1>2 DEF Init, Excludes, AllWrapped, Wrapped, Idle, NoClient, Connecting
<1>4. CallsOK
  <2>1. \A t \in Tasks : Shaped(t)
    BY <1>2 DEF Shaped, Idle, Connecting, Closing
  <2>2. \A t \in Tasks : MakerOK(t) /\ CallerOK(t) /\ CloserOK(t)
    BY <1>2 DEF MakerOK, CallerOK, CloserOK, Idle, Connecting, Closing
  <2> QED BY <2>1, <2>2 DEF CallsOK
<1>5. CleanupsOK /\ BehindOK
  BY <1>2 DEF Init, CleanupsOK, BehindOK
<1>6. ClientsApart
  BY DEF Init, ClientsApart, NewState
<1>7. ListedOK /\ OwnHeld /\ RecoveryFollowsLoss /\ TablesAreLive
  BY DEF Init, ListedOK, OwnHeld, RecoveryFollowsLoss, TablesAreLive
<1>8. ServerOK
  BY <1>2 DEF Init, ServerOK
<1>9. (\A t \in Tasks : RestoringOK(t)) /\ OrphansAreCounted
  BY DEF Init, RestoringOK, OrphansAreCounted
<1>10. EndOK
  BY DEF Init, EndOK
<1> QED BY <1>1, <1>3, <1>4, <1>5, <1>6, <1>7, <1>8, <1>9, <1>10 DEF Inv

LEMMA StutterKeeps == ASSUME Inv, UNCHANGED vars PROVE Inv'
<1>1. UNCHANGED <<loop, listed, closers, state, client, live, task, behind, orphaned, last>>
  BY DEF vars
<1>2. TypeOK' /\ Excludes' /\ AllWrapped'
  BY <1>1 DEF Inv, TypeOK, Excludes, AllWrapped, Wrapped
<1>3. CallsOK' /\ CleanupsOK' /\ BehindOK' /\ ClientsApart'
  <2>1. CallsOK'
    BY <1>1 DEF Inv, CallsOK, Shaped, MakerOK, CallerOK, CloserOK, Elsewhere, Usable, IsClosed, Stale, Referred
  <2>2. CleanupsOK' /\ BehindOK' /\ ClientsApart'
    BY <1>1 DEF Inv, CleanupsOK, BehindOK, ClientsApart, Elsewhere, Referred
  <2> QED BY <2>1, <2>2
<1>4. ListedOK' /\ OwnHeld' /\ RecoveryFollowsLoss' /\ TablesAreLive'
  BY <1>1 DEF Inv, ListedOK, OwnHeld, RecoveryFollowsLoss, TablesAreLive, Usable, IsClosed
<1>5. ServerOK' /\ (\A t \in Tasks : RestoringOK(t))' /\ OrphansAreCounted' /\ EndOK'
  BY <1>1 DEF Inv, ServerOK, RestoringOK, OrphansAreCounted, EndOK
<1> QED BY <1>1, <1>2, <1>3, <1>4, <1>5 DEF Inv

LEMMA NextKeeps == Inv /\ [Next]_vars => Inv'
<1> SUFFICES ASSUME Inv, [Next]_vars PROVE Inv'
  OBVIOUS
<1>1. ASSUME NEW t \in Callers, Call(t) \/ Resume(t) \/ Recorded(t) PROVE Inv'
  BY <1>1, CallKeeps, ResumeKeeps, RecordedKeeps
<1>2. ASSUME NEW t \in Closers, ByCloser(t) PROVE Inv'
  <2>1. CASE Close(t) \/ Settled(t) \/ DrainCloses(t) \/ DrainFails(t)
    BY <2>1, CloseKeeps, SettledKeeps, DrainClosesKeeps, DrainFailsKeeps
  <2>2. CASE ClosedForGood(t)
    BY <2>2, ClosedForGoodKeeps
  <2>3. CASE CloseCancelled(t)
    BY <2>3, ClosedForGoodKeeps, CloseCancelledKeeps
  <2> QED BY <1>2, <2>1, <2>2, <2>3 DEF ByCloser
<1>3. ASSUME NEW t \in Tasks, Connects(t) PROVE Inv'
  <2>1. CASE LockTaken(t)
    BY <2>1, LockTakenUsableKeeps, LockTakenConnectsKeeps
  <2>2. CASE Connected(t) \/ ConnectFails(t) \/ Restore(t) \/ Restored(t)
    BY <2>2, ConnectedKeeps, ConnectFailsKeeps, RestoreKeeps, RestoredKeeps
  <2>3. CASE RestoreFails(t) \/ Undone(t) \/ UndoCutShort(t) \/ Cancelled(t)
    BY <2>3, RestoreFailsKeeps, UndoneKeeps, CancelledKeeps
  <2> QED BY <1>3, <2>1, <2>2, <2>3 DEF Connects
<1>4. ASSUME NEW s \in StateIds, Wake(s) PROVE Inv'
  BY <1>4, WakeKeeps
<1>5. ASSUME NEW s \in StateIds, NEW k \in ClientIds, ClosedQuietly(s, k) \/ CloseTimesOut(s, k) PROVE Inv'
  BY <1>5, ClosedQuietlyKeeps, CloseTimesOutKeeps
<1>6. ASSUME NEW k \in ClientIds, Lost(k) \/ ClosedBehind(k) \/ Collected(k) PROVE Inv'
  BY <1>6, LostKeeps, ClosedBehindKeeps, CollectedKeeps
<1>7. ASSUME NEW x \in Subjects, Dropped(x) PROVE Inv'
  BY <1>7, DroppedKeeps
<1>8. ASSUME LoopCloses \/ LoopClosesPastIt \/ ForgetClosedLoops PROVE Inv'
  BY <1>8, LoopClosesKeeps, LoopClosesPastItKeeps, ForgetKeeps
<1>9. ASSUME UNCHANGED vars PROVE Inv'
  BY <1>9, StutterKeeps
<1> QED BY <1>1, <1>2, <1>3, <1>4, <1>5, <1>6, <1>7, <1>8, <1>9 DEF Next

LEMMA Invariance == Spec => []Inv
  BY InitInv, NextKeeps, PTL DEF Spec

-----------------------------------------------------------------------------
(* What it shows. *)

\* The connection's state keeps the shape the code gives it.
THEOREM Typed == Spec => []TypeOK
<1>1. Inv => TypeOK
  BY DEF Inv
<1> QED BY <1>1, Invariance, PTL

\* While the loop runs, a connection opened for its state that nobody has begun to close is
\* the state's, in the hands of the call that makes it, or listed to be closed (#27), whichever
\* connects and restores of _client() failed, were cancelled or raced.
THEOREM OpenOnesAreHeld == Spec => []ListedIsHeld
<1>1. Inv => ListedIsHeld
  <2> SUFFICES ASSUME Inv, loop = "open", listed # None, NEW k \in ClientIds,
                      client[k].status # "closed", client[k].of = listed
               PROVE  Held(k)
    BY DEF ListedIsHeld
  <2>1. listed \in StateIds
    BY DEF Inv, TypeOK
  <2> QED BY <2>1 DEF Inv, OwnHeld, Held
<1> QED BY <1>1, Invariance, PTL

\* While the loop's client is open the server has what the tables of the loop's state hold,
\* and nothing else made for them, however subscribing, giving up and _resubscribe() fell.
THEOREM ServerHasTheTables == Spec => []TablesAreLive
<1>1. Inv => TablesAreLive
  BY DEF Inv
<1> QED BY <1>1, Invariance, PTL

\* closed_cb starts a recovery for a client that the state had, and for no other.
THEOREM RecoversWhatWasLost == Spec => []RecoveryFollowsLoss
<1>1. Inv => RecoveryFollowsLoss
  BY DEF Inv
<1> QED BY <1>1, Invariance, PTL

\* loop.close() leaves no connection of the loop's state that came up and that
\* _orphaned_connections does not come to count, whatever clean-ups end with the loop.
THEOREM CountsWhatWasMissed == Spec => []OrphansAreCounted
<1>1. Inv => OrphansAreCounted
  BY DEF Inv
<1> QED BY <1>1, Invariance, PTL

Adds(s, x) ==
    state'[s].table[x] # None => \/ state[s].table[x] # None
                                 \/ \E t \in Callers : task[t].own = s /\ task[t].want = x

\* An assignment to one entry of a table.
WithEntry(q, y, k) == [state EXCEPT ![q].table[y] = k]

LEMMA OneEntry ==
  ASSUME Inv, NEW q \in StateIds, NEW y \in Subjects, NEW k \in ClientIds \cup {None},
         state' = WithEntry(q, y, k),
         NEW s \in StateIds, NEW x \in Subjects
  PROVE  state'[s].table[x] = IF s = q /\ x = y THEN k ELSE state[s].table[x]
<1> DEFINE new == [state EXCEPT ![q].table[y] = k]
<1>1. /\ new \in [StateIds -> States]
      /\ new[q].client = state[q].client /\ new[q].cleanups = state[q].cleanups
      /\ new[q].table = [state[q].table EXCEPT ![y] = k]
      /\ \A p \in StateIds : p # q => new[p] = state[p]
  BY TableSet
<1>2. state' = new
  BY DEF WithEntry
<1>3. state[q].table \in [Subjects -> ClientIds \cup {None}]
  BY StateFields
<1> HIDE DEF new
<1> QED BY <1>1, <1>2, <1>3

LEMMA OnlyCallsAdd ==
  ASSUME Inv, Next, NEW s \in StateIds, NEW x \in Subjects
  PROVE  Adds(s, x)
<1> USE DEF Adds
<1>1. ASSUME UNCHANGED state PROVE Adds(s, x)
  BY <1>1
<1>2. ASSUME NEW q \in StateIds, NEW new, new[q].table = state[q].table, state' = new,
             \A p \in StateIds : p # q => new[p] = state[p]
      PROVE  Adds(s, x)
  BY <1>2
<1>3. ASSUME NEW q, Registered(q) PROVE Adds(s, x)
  BY <1>3 DEF Registered, NewState
<1>4. ASSUME NEW t \in Callers, Call(t) \/ Resume(t) PROVE Adds(s, x)
  BY <1>3, <1>4 DEF Call, Resume
<1>5. ASSUME NEW t \in Callers, Recorded(t) PROVE Adds(s, x)
  <2>1. task[t].own \in StateIds /\ task[t].want \in Subjects /\ task[t].k \in ClientIds \cup {None}
    <3>1. task[t].pc = "subscribe" /\ t \in Tasks
      BY <1>5 DEF Recorded, Tasks
    <3> QED BY <3>1, CallFields DEF Shaped
  <2>2. state' = WithEntry(task[t].own, task[t].want, task[t].k)
    BY <1>5 DEF Recorded, WithEntry
  <2>3. state'[s].table[x] = IF s = task[t].own /\ x = task[t].want THEN task[t].k ELSE state[s].table[x]
    BY <2>1, <2>2, OneEntry
  <2> QED BY <2>3
<1>6. ASSUME NEW t \in Tasks, Connects(t) PROVE Adds(s, x)
  <2>1. CASE Connected(t) \/ Restored(t)
    <3> DEFINE q == task[t].st
               k == task[t].k
               new == [state EXCEPT ![q].client = k]
    <3>1. q \in StateIds /\ k \in ClientIds /\ (state' = state \/ state' = new)
      BY <2>1, CallFields DEF Connected, Restored, Connecting
    <3>2. new[q].table = state[q].table /\ \A p \in StateIds : p # q => new[p] = state[p]
      BY <3>1, ClientSet
    <3> HIDE DEF new
    <3> QED BY <1>1, <1>2, <3>1, <3>2
  <2>2. CASE ConnectFails(t)
    <3> DEFINE ks == state[listed].cleanups \cup {task[t].k}
               new == [state EXCEPT ![listed].cleanups = ks]
    <3>1. CASE listed = None
      BY <1>1, <2>2, <3>1 DEF ConnectFails, CloseQuietly
    <3>2. CASE listed # None
      <4>1. listed \in StateIds /\ ks \in SUBSET ClientIds /\ state' = new
        BY <2>2, <3>2, CallFields, StateFields DEF ConnectFails, CloseQuietly, Connecting, Inv, TypeOK
      <4> HIDE DEF ks
      <4>2. new[listed].table = state[listed].table /\ \A p \in StateIds : p # listed => new[p] = state[p]
        BY <4>1, CleanupsSet
      <4> HIDE DEF new
      <4> QED BY <1>2, <4>1, <4>2
    <3> QED BY <3>1, <3>2
  <2>3. CASE Restore(t)
    <3> DEFINE q == task[t].st
               k == task[t].k
    <3>1. q \in StateIds /\ k \in ClientIds
      BY <2>3, CallFields DEF Restore, Connecting
    <3>2. PICK y \in task[t].todo :
             state' = IF StillWanted(q, y) THEN [state EXCEPT ![q].table[y] = k] ELSE state
      BY <2>3 DEF Restore
    <3>3. CASE ~StillWanted(q, y)
      BY <1>1, <3>2, <3>3
    <3>4. CASE StillWanted(q, y)
      <4>1. y \in Subjects /\ k \in ClientIds \cup {None} /\ state[q].table[y] # None
        BY <3>1, <3>2, <3>4, CallFields DEF StillWanted
      <4>2. state' = WithEntry(q, y, k)
        BY <3>2, <3>4 DEF WithEntry
      <4>3. state'[s].table[x] = IF s = q /\ x = y THEN k ELSE state[s].table[x]
        BY <3>1, <4>1, <4>2, OneEntry
      <4> QED BY <4>1, <4>3
    <3> QED BY <3>3, <3>4
  <2>4. CASE LockTaken(t) \/ RestoreFails(t) \/ Undone(t) \/ UndoCutShort(t) \/ Cancelled(t)
    BY <1>1, <2>4 DEF LockTaken, RestoreFails, Undone, UndoCutShort, Cancelled
  <2> QED BY <1>6, <2>1, <2>2, <2>3, <2>4 DEF Connects
<1>7. ASSUME NEW t \in Closers, ByCloser(t) PROVE Adds(s, x)
  <2>1. CASE Close(t)
    <3> DEFINE new == [state EXCEPT ![listed].cleanups = {}]
    <3>1. listed \in StateIds /\ {} \in SUBSET ClientIds /\ state' = new
      BY <2>1 DEF Close, Inv, TypeOK
    <3>2. new[listed].table = state[listed].table /\ \A p \in StateIds : p # listed => new[p] = state[p]
      BY <3>1, CleanupsSet
    <3> HIDE DEF new
    <3> QED BY <1>2, <3>1, <3>2
  <2>2. CASE ~Close(t)
    BY <1>1, <1>7, <2>2 DEF ByCloser, Settled, DrainCloses, ClosedForGood, DrainFails, CloseCancelled
  <2> QED BY <2>1, <2>2
<1>8. ASSUME NEW q \in StateIds, NEW k \in ClientIds, ClosedQuietly(q, k) \/ CloseTimesOut(q, k) PROVE Adds(s, x)
  <2> DEFINE ks == state[q].cleanups \ {k}
             new == [state EXCEPT ![q].cleanups = ks]
  <2>1. ks \in SUBSET ClientIds /\ state' = new
    BY <1>8, StateFields DEF ClosedQuietly, CloseTimesOut
  <2> HIDE DEF ks
  <2>2. new[q].table = state[q].table /\ \A p \in StateIds : p # q => new[p] = state[p]
    BY <2>1, CleanupsSet
  <2> HIDE DEF new
  <2> QED BY <1>2, <2>1, <2>2
<1>9. ASSUME NEW y \in Subjects, Dropped(y) PROVE Adds(s, x)
  <2>1. listed \in StateIds /\ None \in ClientIds \cup {None}
    BY <1>9 DEF Dropped, Inv, TypeOK
  <2>2. state' = WithEntry(listed, y, None)
    BY <1>9 DEF Dropped, WithEntry
  <2>3. state'[s].table[x] = IF s = listed /\ x = y THEN None ELSE state[s].table[x]
    BY <2>1, <2>2, OneEntry
  <2> QED BY <2>3
<1>10. ASSUME NEW k \in ClientIds, Lost(k) \/ ClosedBehind(k) \/ Collected(k) PROVE Adds(s, x)
  BY <1>1, <1>10 DEF Lost, ClosedBehind, Collected
<1>11. ASSUME NEW q \in StateIds, Wake(q) PROVE Adds(s, x)
  BY <1>1, <1>11 DEF Wake
<1>12. ASSUME LoopCloses \/ LoopClosesPastIt \/ ForgetClosedLoops PROVE Adds(s, x)
  BY <1>1, <1>12 DEF LoopCloses, LoopClosesPastIt, ForgetClosedLoops
<1> HIDE DEF Adds
<1> QED BY <1>4, <1>5, <1>6, <1>7, <1>8, <1>9, <1>10, <1>11, <1>12 DEF Next

\* Only a call that subscribes adds to a table: _resubscribe() puts back nothing that flush(),
\* group_discard() or a cancelled read took out while it waited for the server.
THEOREM NothingComesBack == Spec => GivenUpStaysGivenUp
<1>1. Inv /\ [Next]_vars =>
        [\A s \in StateIds, x \in Subjects :
           state'[s].table[x] # None => \/ state[s].table[x] # None
                                        \/ \E t \in Callers : task[t].own = s /\ task[t].want = x]_vars
  BY OnlyCallsAdd DEF Adds
<1> QED BY <1>1, Invariance, PTL DEF Spec, GivenUpStaysGivenUp

LetsGo(t) == task[t].k # None => client'[task[t].k].status = "closed" \/ task[t].k \in behind'

LEMMA EndsByLettingGo ==
  ASSUME Inv, Next, NEW t \in Closers, task[t].pc \in Closing, task'[t] = Idle
  PROVE  LetsGo(t)
<1> DEFINE k == task[t].k
<1>1. /\ t \in Tasks /\ t \notin StateIds /\ task[t].pc \notin {"idle", "queued", "lock", "subscribe", "sleep"}
      /\ task[t].pc \notin Connecting /\ task[t] # Idle /\ task'[t] # task[t]
      /\ task \in [Tasks -> Calls] /\ client \in [ClientIds -> Clients]
      /\ (k # None => k \in ClientIds)
  BY RecoveriesAreNoCallers, TypeParts, CallFields
  DEF Tasks, Closing, Connecting, Idle, Inv, TasksTyped, ServerTyped
<1>2. \A u \in Callers : ~Call(u) /\ ~Resume(u) /\ ~Recorded(u)
  BY <1>1 DEF Call, Resume, Recorded, Idle
<1>3. \A u \in Tasks : ~Connects(u)
  <2>1. ASSUME NEW u \in Tasks, Undone(u) PROVE FALSE
    BY <1>1, <2>1 DEF Undone, Recovering, Connecting
  <2>2. ASSUME NEW u \in Tasks, LockTaken(u) \/ Connected(u) \/ ConnectFails(u) PROVE FALSE
    BY <1>1, <2>2 DEF LockTaken, Connected, ConnectFails, Connecting
  <2>3. ASSUME NEW u \in Tasks, Restore(u) \/ Restored(u) \/ RestoreFails(u) PROVE FALSE
    BY <1>1, <2>3 DEF Restore, Restored, RestoreFails, Connecting
  <2>4. ASSUME NEW u \in Tasks, UndoCutShort(u) \/ Cancelled(u) PROVE FALSE
    BY <1>1, <2>4 DEF UndoCutShort, Cancelled, Connecting
  <2> QED BY <2>1, <2>2, <2>3, <2>4 DEF Connects
<1>4. \A s \in StateIds : ~Wake(s)
  BY <1>1 DEF Wake
<1>5. ~\E s \in StateIds, j \in ClientIds : ClosedQuietly(s, j) \/ CloseTimesOut(s, j)
  BY <1>1 DEF ClosedQuietly, CloseTimesOut, NeverCameUp
<1>6. \A j \in ClientIds : ~(Lost(j) \/ ClosedBehind(j) \/ Collected(j))
  BY <1>1 DEF Lost, ClosedBehind, Collected, Recovering
<1>7. (\A x \in Subjects : ~Dropped(x)) /\ ~LoopCloses /\ ~LoopClosesPastIt /\ ~ForgetClosedLoops
  BY <1>1 DEF Dropped, CallsEnded, LoopCloses, LoopClosesPastIt, ForgetClosedLoops
<1>8. PICK u \in Closers : ByCloser(u)
  BY <1>2, <1>3, <1>4, <1>5, <1>6, <1>7 DEF Next
<1>9. u = t /\ ~Close(u) /\ ~DrainCloses(u) /\ ~DrainFails(u)
  <2>1. ~Close(u) /\ ~DrainCloses(u)
    BY <1>1 DEF Close, DrainCloses, Idle
  <2>2. u = t
    BY <1>1, <1>8, <2>1 DEF ByCloser, Settled, ClosedForGood, DrainFails, CloseCancelled
  <2>3. ~DrainFails(t)
    <3> SUFFICES ASSUME DrainFails(t) PROVE FALSE
      OBVIOUS
    <3>1. task'[t].pc = "hard"
      BY <1>1 DEF DrainFails, Calls
    <3> QED BY <3>1 DEF Idle
  <2> QED BY <2>1, <2>2, <2>3
<1>10. ASSUME client' = Gone(k) PROVE LetsGo(t)
  BY <1>1, <1>10 DEF LetsGo, Gone, NoClient
<1>11. CASE Settled(t)
  <2>1. /\ task[t].pc = "settle" /\ UNCHANGED client
        /\ task' = [task EXCEPT ![t] = IF Usable(task[t].own)
                                       THEN [task[t] EXCEPT !.pc = "drain", !.k = state[task[t].own].client]
                                       ELSE Idle]
    BY <1>11 DEF Settled
  <2>2. ~Usable(task[t].own)
    <3> SUFFICES ASSUME Usable(task[t].own) PROVE FALSE
      OBVIOUS
    <3>1. task'[t].pc = "drain"
      BY ZenonT(40), <1>1, <2>1 DEF Calls
    <3> QED BY <3>1 DEF Idle
  <2>3. k # None => state[task[t].own].client = k \/ IsClosed(k)
    BY <1>1, <2>1 DEF Inv, CallsOK, CloserOK
  <2> QED BY <1>1, <2>1, <2>2, <2>3 DEF LetsGo, Usable, IsClosed
<1>12. CASE ClosedForGood(t)
  BY <1>10, <1>12 DEF ClosedForGood
<1>13. CASE CloseCancelled(t)
  <2>1. CASE task[t].pc = "hard"
    BY <1>10, <1>13, <2>1 DEF CloseCancelled
  <2>2. CASE task[t].pc # "hard"
    BY <1>13, <2>2 DEF CloseCancelled, HardBehind, LetsGo, IsClosed
  <2> QED BY <2>1, <2>2
<1> QED BY <1>8, <1>9, <1>11, <1>12, <1>13 DEF ByCloser

\* A close() that ends, by itself, by an error or by its caller's cancellation, leaves the
\* client it took closed, or in the hands of the task that closes it behind (#37).
THEOREM ClosesWhatItTook == Spec => CloseLetsGo
<1>1. Inv /\ [Next]_vars =>
        [\A t \in Closers : task[t].pc \in Closing /\ task'[t] = Idle =>
           LET k == task[t].k IN k # None => client'[k].status = "closed" \/ k \in behind']_vars
  BY EndsByLettingGo DEF LetsGo
<1> QED BY <1>1, Invariance, PTL DEF Spec, CloseLetsGo

=============================================================================
