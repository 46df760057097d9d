---------------------------- MODULE Calls_proofs ----------------------------
(***************************************************************************)
(* Proofs about Calls, for any number of accounts, devices and calls: its  *)
(* types, that a call has one outcome, that none is forgotten, that its    *)
(* invite reaches every socket of the callee, and that it implements       *)
(* CallOutcomes.                                                           *)
(***************************************************************************)
EXTENDS Calls, TLAPS

\* A frame or a block under way names another account, and a task owes records
\* only while it is writing them (a frame's handler one at most).
TaskInv ==
    /\ \A d \in Devices : hand[d].pc # "idle" => hand[d].to \in Users \ {UserOf[d]}
    /\ \A u \in Users : blk[u].pc # "idle" => blk[u].to \in Users \ {u}
    /\ \A d \in Devices : owed[Handler(d)] # {} => hand[d].pc = "record"
    /\ \A d \in Devices : owed[Socket(d)] # {} => sock[d].pc = "record"
    /\ \A d \in Devices : \A e, f \in owed[Handler(d)] : e = f

\* Calls not yet numbered have no outcome.
FreshInv == \A i \in Ids : i > calls => outcome[i] = << >>

\* A ringing call has no outcome yet, and rings for one pair.
RingInv ==
    /\ \A k \in Keys : Live(k) => rings[k].id <= calls /\ outcome[rings[k].id] = << >>
    /\ \A k, l \in Keys : Live(k) /\ rings[k].id = rings[l].id => k = l

\* A call whose record is owed has no outcome yet, rings no more, and is owed by
\* one task only.
OwedInv ==
    /\ \A t \in Tasks : \A e \in owed[t] : e.id <= calls /\ outcome[e.id] = << >>
    /\ \A t \in Tasks : \A e \in owed[t] : \A k \in Keys : rings[k].id # e.id
    /\ \A t, s \in Tasks : \A e \in owed[t], f \in owed[s] : e.id = f.id => t = s /\ e = f

Ledger == FreshInv /\ RingInv /\ OwedInv /\ OneOutcome /\ NoCallForgotten

IInv == TypeOK /\ TaskInv /\ Ledger

-----------------------------------------------------------------------------
(* Types *)

USE DEF hub, blocking, history

\* Handlers, sockets and the sweeper are three different kinds of task.
LEMMA TaskTypes ==
    /\ Sweeper \in Tasks
    /\ \A d \in Devices : Handler(d) \in Tasks /\ Socket(d) \in Tasks
    /\ \A d, c \in Devices : Handler(d) # Socket(c) /\ Handler(d) # Sweeper /\ Socket(d) # Sweeper
    /\ \A d, c \in Devices : Handler(d) = Handler(c) => d = c
    /\ \A d, c \in Devices : Socket(d) = Socket(c) => d = c
  BY DEF Handler, Socket, Sweeper, Tasks

\* Removing rings leaves a ring table.
LEMMA RemovedTypes ==
    ASSUME NEW K, rings \in [Keys -> Ring]
    PROVE  Removed(K) \in [Keys -> Ring]
  BY CallsConstants DEF Removed, NoRing, Ring

\* What is taken out of the table is a set of entries.
LEMMA EntriesTypes ==
    ASSUME NEW K \in SUBSET Keys, \A k \in K : Live(k), rings \in [Keys -> Ring]
    PROVE  EntriesOf(K) \in SUBSET Entry
<1> SUFFICES ASSUME NEW k \in K
             PROVE  [key |-> k, id |-> rings[k].id] \in Entry
  BY DEF EntriesOf
<1>1. rings[k].id \in 0..MaxCalls /\ rings[k].id # 0
  BY DEF Ring, Live
<1>2. rings[k].id \in Ids
  BY <1>1, CallsConstants DEF Ids
<1>. QED
  BY <1>2 DEF Entry

\* The keys each operation of calls.rs removes are those of live rings.
LEMMA KeysRemoved ==
    /\ \A a, b \in Users : a # b =>
           EndedEitherWay(a, b) \in SUBSET Keys /\ \A k \in EndedEitherWay(a, b) : Live(k)
    /\ \A u : DropFor(u) \in SUBSET Keys /\ \A k \in DropFor(u) : Live(k)
    /\ \A u : IncomingFor(u) \in SUBSET Keys /\ \A k \in IncomingFor(u) : Live(k)
    /\ Expired \in SUBSET Keys /\ \A k \in Expired : Live(k)
  BY DEF EndedEitherWay, DropFor, IncomingFor, Expired, Keys

\* A handler that returns or goes on keeps its type.
LEMMA IdleIsHandler == Idle \in [pc : HandPC, to : Users \cup {None}, kind : Kinds]
  BY DEF Idle, HandPC, Kinds

Handlers == [Devices -> [pc : HandPC, to : Users \cup {None}, kind : Kinds]]

\* A handler that returns is idle; the others stay as they are.
LEMMA ReturnTypes ==
    ASSUME NEW d \in Devices, hand \in Handlers, Return(d)
    PROVE  /\ hand' \in Handlers
           /\ hand'[d].pc = "idle" /\ \A c \in Devices \ {d} : hand'[c] = hand[c]
  BY IdleIsHandler DEF Return, Handlers, Idle

\* A handler that goes on keeps whom it is about.
LEMMA GotoTypes ==
    ASSUME NEW d \in Devices, NEW p \in HandPC, hand \in Handlers, Goto(d, p)
    PROVE  /\ hand' \in Handlers
           /\ hand'[d].pc = p /\ hand'[d].to = hand[d].to
           /\ \A c \in Devices \ {d} : hand'[c] = hand[c]
  BY DEF Goto, Handlers

\* The histories of settled rings have their type.
Histories == [Ids -> Seq({"answered", "missed", "cut", "lost"})]

\* Settling a set of rings keeps the type of the histories, ...
LEMMA SettledTypes ==
    ASSUME NEW K, NEW w \in {"answered", "missed", "cut", "lost"}, outcome \in Histories
    PROVE  Settled(K, w) \in Histories
  BY DEF Settled, Histories

\* ... and so does settling one call.
LEMMA AppendTypes ==
    ASSUME NEW i \in Ids, NEW w \in {"answered", "missed", "cut", "lost"}, outcome \in Histories
    PROVE  [outcome EXCEPT ![i] = Append(@, w)] \in Histories
  BY DEF Histories

\* The initial hub is empty.
LEMMA InitTypes == Init => TypeOK /\ TaskInv
<1> SUFFICES ASSUME Init PROVE TypeOK /\ TaskInv
  OBVIOUS
<1>1. TypeOK
  BY CallsConstants, IdleIsHandler DEF Init, TypeOK, Off, SockPC, NoRing, Ring, BlkPC
<1>2. TaskInv
  BY TaskTypes DEF Init, TaskInv, Idle
<1>. QED
  BY <1>1, <1>2

\* A socket that only moves on keeps its type.
Sockets == [Devices -> [pc : SockPC, todo : SUBSET Entry]]

\* One socket that moves on leaves the others as they are.
LEMMA SocketTypes ==
    ASSUME NEW d \in Devices, NEW p \in SockPC, sock \in Sockets,
           sock' = [sock EXCEPT ![d].pc = p]
    PROVE  /\ sock' \in Sockets
           /\ sock'[d].pc = p /\ \A c \in Devices \ {d} : sock'[c] = sock[c]
  BY DEF Sockets

\* What a record leaves behind has its type.
LEMMA RecordTypes ==
    ASSUME NEW t \in Tasks, NEW e \in owed[t], owed \in [Tasks -> SUBSET Entry],
           outcome \in Histories, RecordMissed(e)
    PROVE  outcome' \in Histories
<1>1. e.id \in Ids
  BY DEF Entry
<1>2. PICK w \in {"missed", "lost"} : outcome' = [outcome EXCEPT ![e.id] = Append(@, w)]
  BY DEF RecordMissed
<1>. QED
  BY <1>1, <1>2, AppendTypes

\* A task that gives back an entry or takes new ones keeps the type of owed.
LEMMA OwedTypes ==
    ASSUME NEW t \in Tasks, NEW E \in SUBSET Entry, owed \in [Tasks -> SUBSET Entry],
           owed' = [owed EXCEPT ![t] = E]
    PROVE  /\ owed' \in [Tasks -> SUBSET Entry]
           /\ owed'[t] = E /\ \A s \in Tasks \ {t} : owed'[s] = owed[s]
  OBVIOUS

\* The socket tasks keep the types.
LEMMA SocketStepTypes ==
    ASSUME TypeOK, TaskInv, NEW d \in Devices, SocketStep(d) \/ Connect(d) \/ Disconnect(d)
    PROVE  TypeOK' /\ TaskInv'
<1> USE CallsConstants, TaskTypes
<1>1. CASE Connect(d)
  <2>1. sock' \in Sockets /\ \A c \in Devices \ {d} : sock'[c] = sock[c]
    BY <1>1, SocketTypes DEF Connect, TypeOK, Sockets, SockPC
  <2>2. sock[d].pc = "off"
    BY <1>1 DEF Connect, Off
  <2>. QED
    BY SMTT(20), <1>1, <2>1, <2>2 DEF Connect, TypeOK, TaskInv, Sockets
<1>2. CASE Disconnect(d)
  <2>1. sock' \in Sockets /\ \A c \in Devices \ {d} : sock'[c] = sock[c]
    BY <1>2, SocketTypes DEF Disconnect, TypeOK, Sockets, SockPC
  <2>. QED
    BY ZenonT(40), <1>2, <2>1 DEF Disconnect, TypeOK, TaskInv, Sockets
<1>3. CASE ReplaySnapshot(d)
  <2>1. EntriesOf(IncomingFor(UserOf[d])) \in SUBSET Entry
    BY EntriesTypes, KeysRemoved DEF TypeOK
  <2>2. sock' \in Sockets /\ \A c \in Devices \ {d} : sock'[c] = sock[c]
    BY <1>3, <2>1 DEF ReplaySnapshot, TypeOK, Sockets, SockPC
  <2>. QED
    BY <1>3, <2>2 DEF ReplaySnapshot, TypeOK, TaskInv, Sockets
<1>4. ASSUME NEW e \in sock[d].todo, ReplayInvite(d, e)
      PROVE  TypeOK' /\ TaskInv'
  <2>1. e.key \in Keys /\ e.id \in Ids
    BY DEF TypeOK, Entry
  <2>2. sock' \in Sockets /\ \A c \in Devices \ {d} : sock'[c] = sock[c]
    BY <1>4 DEF ReplayInvite, TypeOK, Sockets, SockPC
  <2>3. voice' \in SUBSET Pairs
    BY <1>4, <2>1 DEF ReplayInvite, TypeOK, Pairs
  <2>. QED
    BY <1>4, <2>1, <2>2, <2>3 DEF ReplayInvite, TypeOK, TaskInv, Sockets
<1>5. CASE LeaveVoice(d)
  <2>1. sock' \in Sockets /\ \A c \in Devices \ {d} : sock'[c] = sock[c]
    BY <1>5, SocketTypes DEF LeaveVoice, TypeOK, Sockets, SockPC
  <2>. QED
    BY <1>5, <2>1 DEF LeaveVoice, TypeOK, TaskInv, Sockets
<1>6. CASE LeaveRings(d)
  <2> DEFINE K == DropFor(UserOf[d])
  <2>0. K \in SUBSET Keys /\ \A k \in K : Live(k)
    BY KeysRemoved
  <2>1. /\ EntriesOf(K) \in SUBSET Entry
        /\ K = {} => EntriesOf(K) = {}
    <3>1. EntriesOf(K) \in SUBSET Entry
      BY <2>0, EntriesTypes DEF TypeOK
    <3>2. K = {} => EntriesOf(K) = {}
      BY DEF EntriesOf
    <3>. QED
      BY <3>1, <3>2
  <2>2. /\ sock' \in Sockets /\ \A c \in Devices \ {d} : sock'[c] = sock[c]
        /\ K # {} => sock'[d].pc = "record"
    BY <1>6, SocketTypes DEF LeaveRings, TypeOK, Sockets, SockPC
  <2>3. /\ owed' \in [Tasks -> SUBSET Entry]
        /\ owed'[Socket(d)] = EntriesOf(K)
        /\ \A s \in Tasks \ {Socket(d)} : owed'[s] = owed[s]
    BY <1>6, <2>1, OwedTypes DEF LeaveRings, TypeOK
  <2>4. rings' \in [Keys -> Ring]
    BY <1>6, RemovedTypes DEF LeaveRings, TypeOK
  <2>5. TypeOK'
    BY <1>6, <2>2, <2>3, <2>4 DEF LeaveRings, TypeOK, Sockets
  <2>6. TaskInv'
    BY <1>6, <2>1, <2>2, <2>3 DEF LeaveRings, TaskInv
  <2>. QED
    BY <2>5, <2>6
<1>7. ASSUME NEW e \in owed[Socket(d)], LeaveRecord(d, e)
      PROVE  TypeOK' /\ TaskInv'
  <2>1. /\ sock' \in Sockets /\ \A c \in Devices \ {d} : sock'[c] = sock[c]
        /\ owed[Socket(d)] # {e} => sock'[d].pc = "record"
    BY <1>7, SocketTypes DEF LeaveRecord, TypeOK, Sockets, SockPC
  <2>2. /\ owed' \in [Tasks -> SUBSET Entry]
        /\ owed'[Socket(d)] = owed[Socket(d)] \ {e}
        /\ \A s \in Tasks \ {Socket(d)} : owed'[s] = owed[s]
    BY <1>7, OwedTypes DEF LeaveRecord, TypeOK
  <2>3. outcome' \in Histories
    BY <1>7, RecordTypes DEF LeaveRecord, TypeOK, Histories
  <2>4. TypeOK'
    BY <1>7, <2>1, <2>2, <2>3 DEF LeaveRecord, TypeOK, Sockets, Histories
  <2>5. TaskInv'
    BY <1>7, <2>1, <2>2 DEF LeaveRecord, TaskInv
  <2>. QED
    BY <2>4, <2>5
<1>. QED
  BY <1>1, <1>2, <1>3, <1>4, <1>5, <1>6, <1>7 DEF SocketStep

\* What a handler about to act may rely on: the peer, and the two keys.
LEMMA PeerTypes ==
    ASSUME TypeOK, TaskInv, NEW d \in Devices, hand[d].pc # "idle"
    PROVE  /\ UserOf[d] \in Users /\ hand[d].to \in Users /\ UserOf[d] # hand[d].to
           /\ <<UserOf[d], hand[d].to>> \in Keys /\ <<hand[d].to, UserOf[d]>> \in Keys
           /\ Pair(UserOf[d], hand[d].to) \in Pairs
<1>1. UserOf[d] \in Users /\ hand[d].to \in Users /\ UserOf[d] # hand[d].to
  BY CallsConstants DEF TaskInv
<1>2. <<UserOf[d], hand[d].to>> \in Keys /\ <<hand[d].to, UserOf[d]>> \in Keys
  BY <1>1 DEF Keys
<1>. QED
  BY <1>1, <1>2 DEF Pairs, Pair

\* A handler that does not record and changes nothing but itself, the voice
\* pairs, the offers and the rings keeps what tasks rely on.
LEMMA HandlerMoves ==
    ASSUME TypeOK, TaskInv, NEW d \in Devices, hand[d].pc # "record",
           \A c \in Devices \ {d} : hand'[c] = hand[c],
           hand'[d].pc # "idle" => hand'[d].to \in Users \ {UserOf[d]},
           UNCHANGED <<sock, blk, owed>>
    PROVE  TaskInv'
  BY TaskTypes DEF TaskInv

\* The frame handlers that touch no ring and owe nothing keep the types.
LEMMA SignalStepTypes ==
    ASSUME TypeOK, TaskInv, NEW d \in Devices,
           \/ \E to \in Users, kind \in {"invite", "accept", "end"} : Signal(d, to, kind)
           \/ SignalRoute(d) \/ PushAccepted(d) \/ PushRefused(d) \/ SignalReachable(d)
           \/ SignalVoice(d) \/ RelayInvite(d) \/ AbortPush(d)
    PROVE  TypeOK' /\ TaskInv'
<1> USE CallsConstants, TaskTypes
<1>h. hand \in Handlers
  BY DEF TypeOK, Handlers
<1>1. ASSUME NEW to \in Users, NEW kind \in {"invite", "accept", "end"}, Signal(d, to, kind)
      PROVE  TypeOK' /\ TaskInv'
  <2>1. /\ hand' \in Handlers /\ \A c \in Devices \ {d} : hand'[c] = hand[c]
        /\ hand'[d].to \in Users \ {UserOf[d]}
    BY <1>1, <1>h DEF Signal, Handlers, HandPC, Kinds
  <2>2. hand[d].pc = "idle"
    BY <1>1 DEF Signal, Idle
  <2>. QED
    BY <1>1, <2>1, <2>2 DEF Signal, TypeOK, TaskInv, Handlers
<1>2. CASE SignalRoute(d)
  <2>1. PICK p \in HandPC : Goto(d, p)
    BY <1>2 DEF SignalRoute, HandPC
  <2>8. /\ hand' \in Handlers /\ \A c \in Devices \ {d} : hand'[c] = hand[c]
        /\ hand'[d].to = hand[d].to
    BY <1>h, <2>1, GotoTypes
  <2>9. hand[d].pc \notin {"idle", "record"} /\ hand[d].to \in Users \ {UserOf[d]}
    BY <1>2, PeerTypes DEF SignalRoute
  <2>10. TypeOK'
    BY <1>2, <2>8 DEF SignalRoute, TypeOK, Handlers
  <2>11. TaskInv'
    BY <1>2, <2>8, <2>9, HandlerMoves DEF SignalRoute
  <2>. QED
    BY <2>10, <2>11
<1>3. CASE PushAccepted(d)
  <2>1. /\ hand' \in Handlers /\ \A c \in Devices \ {d} : hand'[c] = hand[c]
        /\ hand'[d].to = hand[d].to
    BY ZenonT(40), <1>3, <1>h DEF PushAccepted, Handlers, HandPC, Kinds
  <2>. QED
    BY <1>3, <2>1 DEF PushAccepted, TypeOK, TaskInv, Handlers
<1>4. CASE PushRefused(d)
  <2>1. "retry" \in HandPC /\ Goto(d, "retry")
    BY <1>4 DEF PushRefused, HandPC
  <2>8. /\ hand' \in Handlers /\ \A c \in Devices \ {d} : hand'[c] = hand[c]
        /\ hand'[d].to = hand[d].to
    BY <1>h, <2>1, GotoTypes
  <2>9. hand[d].pc \notin {"idle", "record"} /\ hand[d].to \in Users \ {UserOf[d]}
    BY <1>4, PeerTypes DEF PushRefused
  <2>10. TypeOK'
    BY <1>4, <2>8 DEF PushRefused, TypeOK, Handlers
  <2>11. TaskInv'
    BY <1>4, <2>8, <2>9, HandlerMoves DEF PushRefused
  <2>. QED
    BY <2>10, <2>11
<1>5. CASE SignalReachable(d)
  <2>1. "voice" \in HandPC /\ Goto(d, "voice")
    BY <1>5 DEF SignalReachable, HandPC
  <2>8. /\ hand' \in Handlers /\ \A c \in Devices \ {d} : hand'[c] = hand[c]
        /\ hand'[d].to = hand[d].to
    BY <1>h, <2>1, GotoTypes
  <2>9. hand[d].pc \notin {"idle", "record"} /\ hand[d].to \in Users \ {UserOf[d]}
    BY <1>5, PeerTypes DEF SignalReachable
  <2>10. TypeOK'
    BY <1>5, <2>8 DEF SignalReachable, TypeOK, Handlers
  <2>11. TaskInv'
    BY <1>5, <2>8, <2>9, HandlerMoves DEF SignalReachable
  <2>. QED
    BY <2>10, <2>11
<1>6. CASE SignalVoice(d)
  <2>1. "ring" \in HandPC /\ Goto(d, "ring")
    BY <1>6 DEF SignalVoice, HandPC
  <2>2. voice' \in SUBSET Pairs
    <3>1. Pair(UserOf[d], hand[d].to) \in Pairs
      BY <1>6, PeerTypes DEF SignalVoice
    <3>. QED
      BY <1>6, <3>1 DEF SignalVoice, TypeOK
  <2>8. /\ hand' \in Handlers /\ \A c \in Devices \ {d} : hand'[c] = hand[c]
        /\ hand'[d].to = hand[d].to
    BY <1>h, <2>1, GotoTypes
  <2>9. hand[d].pc \notin {"idle", "record"} /\ hand[d].to \in Users \ {UserOf[d]}
    BY <1>6, PeerTypes DEF SignalVoice
  <2>10. TypeOK'
    BY <1>6, <2>2, <2>8 DEF SignalVoice, TypeOK, Handlers
  <2>11. TaskInv'
    BY <1>6, <2>8, <2>9, HandlerMoves DEF SignalVoice
  <2>. QED
    BY <2>10, <2>11
<1>7. CASE RelayInvite(d)
  <2>1. Return(d)
    BY <1>7 DEF RelayInvite
  <2>2. offered' \in SUBSET (Devices \X Ids)
    <3> DEFINE k == <<UserOf[d], hand[d].to>>
    <3>1. k \in Keys
      BY <1>7, PeerTypes DEF RelayInvite
    <3>2. rings[k].id # 0 => rings[k].id \in Ids
      BY <3>1 DEF TypeOK, Ring, Ids
    <3>. QED
      BY <1>7, <3>2 DEF RelayInvite, TypeOK, Registered
  <2>8. /\ hand' \in Handlers /\ \A c \in Devices \ {d} : hand'[c] = hand[c]
        /\ hand'[d].pc = "idle"
    BY <1>h, <2>1, ReturnTypes
  <2>9. hand[d].pc # "record"
    BY <1>7 DEF RelayInvite
  <2>10. TypeOK'
    BY <1>7, <2>2, <2>8 DEF RelayInvite, TypeOK, Handlers
  <2>11. TaskInv'
    BY <1>7, <2>8, <2>9, HandlerMoves DEF RelayInvite
  <2>. QED
    BY <2>10, <2>11
<1>8. CASE AbortPush(d)
  <2>1. Return(d)
    BY <1>8 DEF AbortPush
  <2>8. /\ hand' \in Handlers /\ \A c \in Devices \ {d} : hand'[c] = hand[c]
        /\ hand'[d].pc = "idle"
    BY <1>h, <2>1, ReturnTypes
  <2>9. hand[d].pc # "record"
    BY <1>8 DEF AbortPush
  <2>10. TypeOK'
    BY <1>8, <2>8 DEF AbortPush, TypeOK, Handlers
  <2>11. TaskInv'
    BY <1>8, <2>8, <2>9, HandlerMoves DEF AbortPush
  <2>. QED
    BY <2>10, <2>11
<1>. QED
  BY <1>1, <1>2, <1>3, <1>4, <1>5, <1>6, <1>7, <1>8

\* The frame handlers that start, take or record a call keep the types.
LEMMA RingStepTypes ==
    ASSUME TypeOK, TaskInv, NEW d \in Devices,
           \/ SignalUnreachable(d) \/ RingStart(d) \/ RingAnswered(d) \/ RingEnded(d)
           \/ \E e \in owed[Handler(d)] : SignalRecord(d, e) \/ AbortRecord(d, e)
    PROVE  TypeOK' /\ TaskInv'
<1> USE CallsConstants, TaskTypes
<1>h. hand \in Handlers
  BY DEF TypeOK, Handlers
<1>1. CASE SignalUnreachable(d)
  <2> DEFINE e == [key |-> <<UserOf[d], hand[d].to>>, id |-> calls + 1]
  <2>1. "record" \in HandPC /\ Goto(d, "record")
    BY <1>1 DEF SignalUnreachable, HandPC
  <2>2. calls' \in 0..MaxCalls /\ calls + 1 \in Ids
    BY <1>1 DEF SignalUnreachable, TypeOK, Ids
  <2>3. {e} \in SUBSET Entry
    <3>1. <<UserOf[d], hand[d].to>> \in Keys
      BY <1>1, PeerTypes DEF SignalUnreachable
    <3>. QED
      BY <2>2, <3>1 DEF Entry
  <2>4. /\ owed' \in [Tasks -> SUBSET Entry]
        /\ owed'[Handler(d)] = {e} /\ \A s \in Tasks \ {Handler(d)} : owed'[s] = owed[s]
    BY <1>1, <2>3, OwedTypes DEF SignalUnreachable, TypeOK
  <2> HIDE DEF e
  <2>5. TypeOK'
    BY <1>1, <1>h, <2>1, <2>2, <2>4, GotoTypes DEF SignalUnreachable, TypeOK, Handlers
  <2>6. TaskInv'
    BY <1>1, <1>h, <2>1, <2>4, GotoTypes DEF SignalUnreachable, TaskInv
  <2>. QED
    BY <2>5, <2>6
<1>2. CASE RingStart(d)
  <2> DEFINE k == <<UserOf[d], hand[d].to>>
  <2>1. k \in Keys
    BY <1>2, PeerTypes DEF RingStart
  <2>2. /\ hand' \in Handlers /\ \A c \in Devices \ {d} : hand'[c] = hand[c]
        /\ hand'[d].pc # "idle" => hand'[d].to = hand[d].to
    <3>1. CASE hand[d].kind = "quiet"
      BY <1>2, <1>h, <3>1, ReturnTypes DEF RingStart
    <3>2. CASE hand[d].kind # "quiet"
      <4>1. "relay" \in HandPC /\ Goto(d, "relay")
        BY <1>2, <3>2 DEF RingStart, HandPC
      <4>. QED
        BY <1>h, <4>1, GotoTypes
    <3>. QED
      BY <3>1, <3>2
  <2>3. rings' \in [Keys -> Ring] /\ calls' \in 0..MaxCalls
    <3>1. CASE Live(k)
      BY <1>2, <3>1 DEF RingStart, Start, TypeOK
    <3>2. CASE ~Live(k)
      BY <1>2, <2>1, <3>2 DEF RingStart, Start, TypeOK, Ring
    <3>. QED
      BY <3>1, <3>2
  <2>4. TypeOK'
    BY <1>2, <2>2, <2>3 DEF RingStart, TypeOK, Handlers
  <2>5. TaskInv'
    BY <1>2, <2>2 DEF RingStart, TaskInv
  <2>. QED
    BY <2>4, <2>5
<1>3. CASE RingAnswered(d)
  <2>1. Return(d)
    BY <1>3 DEF RingAnswered
  <2>2. rings' \in [Keys -> Ring]
    BY <1>3, RemovedTypes DEF RingAnswered, TypeOK
  <2>3. outcome' \in Histories
    BY <1>3, SettledTypes DEF RingAnswered, TypeOK, Histories
  <2>4. /\ hand' \in Handlers /\ \A c \in Devices \ {d} : hand'[c] = hand[c]
        /\ hand'[d].pc = "idle"
    BY <1>h, <2>1, ReturnTypes
  <2>5. TypeOK'
    BY <1>3, <2>2, <2>3, <2>4 DEF RingAnswered, TypeOK, Handlers, Histories
  <2>6. TaskInv'
    BY <1>3, <2>4, HandlerMoves DEF RingAnswered
  <2>. QED
    BY <2>5, <2>6
<1>4. CASE RingEnded(d)
  <2> DEFINE K == EndedEitherWay(UserOf[d], hand[d].to)
  <2>1. K \in SUBSET Keys /\ \A k \in K : Live(k)
    BY <1>4, KeysRemoved, PeerTypes DEF RingEnded
  <2>2. EntriesOf(K) \in SUBSET Entry
    BY <2>1, EntriesTypes DEF TypeOK
  <2>3. /\ K = {} => EntriesOf(K) = {}
        /\ \A e, f \in EntriesOf(K) : e = f
    BY DEF EntriesOf, EndedEitherWay
  <2>4. /\ owed' \in [Tasks -> SUBSET Entry]
        /\ owed'[Handler(d)] = EntriesOf(K)
        /\ \A s \in Tasks \ {Handler(d)} : owed'[s] = owed[s]
    BY <1>4, <2>2, OwedTypes DEF RingEnded, TypeOK
  <2>5. rings' \in [Keys -> Ring]
    BY <1>4, RemovedTypes DEF RingEnded, TypeOK
  <2>6. /\ hand' \in Handlers /\ \A c \in Devices \ {d} : hand'[c] = hand[c]
        /\ hand'[d].pc # "idle" => hand'[d].to = hand[d].to
        /\ K # {} => hand'[d].pc = "record"
    <3>1. CASE K = {}
      BY <1>4, <1>h, <3>1, ReturnTypes DEF RingEnded
    <3>2. CASE K # {}
      <4>1. "record" \in HandPC /\ Goto(d, "record")
        BY <1>4, <3>2 DEF RingEnded, HandPC
      <4>. QED
        BY <1>h, <3>2, <4>1, GotoTypes
    <3>. QED
      BY <3>1, <3>2
  <2> HIDE DEF K
  <2>7. TypeOK'
    BY <1>4, <2>4, <2>5, <2>6 DEF RingEnded, TypeOK, Handlers
  <2>8. TaskInv'
    BY <1>4, <2>3, <2>4, <2>6 DEF RingEnded, TaskInv
  <2>. QED
    BY <2>7, <2>8
<1>5. ASSUME NEW e \in owed[Handler(d)], SignalRecord(d, e) \/ AbortRecord(d, e)
      PROVE  TypeOK' /\ TaskInv'
  <2>1. Return(d)
    BY <1>5 DEF SignalRecord, AbortRecord
  <2>2. /\ owed' \in [Tasks -> SUBSET Entry]
        /\ owed'[Handler(d)] = owed[Handler(d)] \ {e}
        /\ \A s \in Tasks \ {Handler(d)} : owed'[s] = owed[s]
    BY SMTT(20), <1>5, OwedTypes DEF SignalRecord, AbortRecord, TypeOK
  <2>3. outcome' \in Histories
    <3>1. e.id \in Ids
      BY DEF TypeOK, Entry
    <3>2. CASE SignalRecord(d, e)
      BY <3>2, RecordTypes DEF SignalRecord, TypeOK, Histories
    <3>3. CASE AbortRecord(d, e)
      BY <3>1, <3>3, AppendTypes DEF AbortRecord, TypeOK, Histories
    <3>. QED
      BY <1>5, <3>2, <3>3
  <2>4. TypeOK'
    BY <1>5, <1>h, <2>1, <2>2, <2>3, ReturnTypes
    DEF SignalRecord, AbortRecord, TypeOK, Handlers, Histories
  <2>5. TaskInv'
    BY <1>5, <1>h, <2>1, <2>2, ReturnTypes DEF SignalRecord, AbortRecord, TaskInv
  <2>. QED
    BY <2>4, <2>5
<1>. QED
  BY <1>1, <1>2, <1>3, <1>4, <1>5

\* The sweeper, the block handler and the clock keep the types.
LEMMA OtherStepTypes ==
    ASSUME TypeOK, TaskInv,
           \/ SweeperStep \/ Tick
           \/ \E u \in Users : BlockVoice(u) \/ BlockRing(u)
           \/ \E u, v \in Users : BlockInsert(u, v) \/ Unblock(u, v)
    PROVE  TypeOK' /\ TaskInv'
<1> USE CallsConstants, TaskTypes
<1>1. CASE SweepCollect
  <2>1. EntriesOf(Expired) \in SUBSET Entry
    BY EntriesTypes, KeysRemoved DEF TypeOK
  <2>2. /\ owed' \in [Tasks -> SUBSET Entry]
        /\ \A s \in Tasks \ {Sweeper} : owed'[s] = owed[s]
    BY <1>1, <2>1, OwedTypes DEF SweepCollect, TypeOK
  <2>3. rings' \in [Keys -> Ring]
    BY <1>1, RemovedTypes DEF SweepCollect, TypeOK
  <2>. QED
    BY <1>1, <2>2, <2>3 DEF SweepCollect, TypeOK, TaskInv
<1>2. ASSUME NEW e \in owed[Sweeper], SweepClose(e)
      PROVE  TypeOK' /\ TaskInv'
  <2>1. e.id \in 0..MaxCalls
    BY DEF TypeOK, Entry, Ids
  <2>. QED
    BY <1>2, <2>1 DEF SweepClose, TypeOK, TaskInv
<1>3. ASSUME NEW e \in owed[Sweeper], SweepRecord(e)
      PROVE  TypeOK' /\ TaskInv'
  <2>1. /\ owed' \in [Tasks -> SUBSET Entry]
        /\ \A s \in Tasks \ {Sweeper} : owed'[s] = owed[s]
    BY <1>3, OwedTypes DEF SweepRecord, TypeOK
  <2>2. outcome' \in Histories
    BY <1>3, RecordTypes DEF SweepRecord, TypeOK, Histories
  <2>. QED
    BY <1>3, <2>1, <2>2 DEF SweepRecord, TypeOK, TaskInv, Histories
<1>4. CASE Tick
  <2>1. rings' \in [Keys -> Ring]
    <3> SUFFICES ASSUME NEW k \in Keys PROVE rings'[k] \in Ring
      BY <1>4 DEF Tick
    <3>1. rings[k] \in Ring
      BY DEF TypeOK
    <3>2. rings'[k] \in {rings[k], [rings[k] EXCEPT !.age = @ + 1]}
          /\ (rings[k].age >= Timeout => rings'[k] = rings[k])
      BY <1>4, <3>1 DEF Tick, Ring
    <3>. QED
      BY <3>1, <3>2 DEF Ring
  <2>. QED
    BY <1>4, <2>1 DEF Tick, TypeOK, TaskInv
<1>5. ASSUME NEW u \in Users, BlockVoice(u)
      PROVE  TypeOK' /\ TaskInv'
  BY <1>5 DEF BlockVoice, TypeOK, TaskInv, BlkPC
<1>6. ASSUME NEW u \in Users, BlockRing(u)
      PROVE  TypeOK' /\ TaskInv'
  <2>1. rings' \in [Keys -> Ring]
    BY <1>6, RemovedTypes DEF BlockRing, TypeOK
  <2>2. outcome' \in Histories
    BY <1>6, SettledTypes DEF BlockRing, TypeOK, Histories
  <2>. QED
    BY <1>6, <2>1, <2>2 DEF BlockRing, TypeOK, TaskInv, BlkPC, Histories
<1>7. ASSUME NEW u \in Users, NEW v \in Users, BlockInsert(u, v)
      PROVE  TypeOK' /\ TaskInv'
  <2>1. blocks' \in SUBSET Keys
    BY <1>7 DEF BlockInsert, TypeOK, Keys
  <2>. QED
    BY <1>7, <2>1 DEF BlockInsert, TypeOK, TaskInv, BlkPC
<1>8. ASSUME NEW u \in Users, NEW v \in Users, Unblock(u, v)
      PROVE  TypeOK' /\ TaskInv'
  BY <1>8 DEF Unblock, TypeOK, TaskInv
<1>. QED
  BY <1>1, <1>2, <1>3, <1>4, <1>5, <1>6, <1>7, <1>8 DEF SweeperStep

\* Every step keeps the types and what the tasks rely on.
LEMMA StepTypes == TypeOK /\ TaskInv /\ [Next]_vars => TypeOK' /\ TaskInv'
<1> SUFFICES ASSUME TypeOK, TaskInv, [Next]_vars
             PROVE  TypeOK' /\ TaskInv'
  OBVIOUS
<1>1. CASE UNCHANGED vars
  BY <1>1 DEF vars, TypeOK, TaskInv
<1>2. CASE Next
  BY <1>2, SocketStepTypes, SignalStepTypes, RingStepTypes, OtherStepTypes
  DEF Next, HandlerStep, ClientStep
<1>. QED
  BY <1>1, <1>2

\* Types of the whole specification: the hub's tables stay keyed by pairs of
\* different accounts, and only numbered calls are ever rung, owed or recorded.
THEOREM TypeCorrect == Spec => []TypeOK
<1>1. TypeOK /\ TaskInv /\ [Next]_vars => (TypeOK /\ TaskInv)'
  BY StepTypes
<1>. QED
  BY <1>1, InitTypes, PTL DEF Spec

-----------------------------------------------------------------------------
(* The ledger of calls *)

\* An empty history gets its first entry.
LEMMA FirstOutcome ==
    ASSUME NEW w \in {"answered", "missed", "cut", "lost"}
    PROVE  Len(Append(<< >>, w)) = 1 /\ Append(<< >>, w) # << >>
  OBVIOUS

\* A step that changes no ring's call, no debt, no count and no outcome.
LEMMA LedgerIdle ==
    ASSUME Ledger, \A k \in Keys : rings'[k].id = rings[k].id,
           UNCHANGED <<owed, calls, outcome>>
    PROVE  Ledger'
  BY DEF Ledger, FreshInv, RingInv, OwedInv, OneOutcome, NoCallForgotten, Live

\* A task takes live rings out of the table and owes their records.
LEMMA LedgerTake ==
    ASSUME TypeOK, Ledger, NEW t \in Tasks, NEW K \in SUBSET Keys, \A k \in K : Live(k),
           owed[t] = {}, rings' = Removed(K), owed' = [owed EXCEPT ![t] = EntriesOf(K)],
           UNCHANGED <<calls, outcome>>
    PROVE  Ledger'
<1>1. /\ \A k \in K : rings'[k].id = 0
      /\ \A k \in Keys \ K : rings'[k] = rings[k]
  BY DEF Removed, NoRing
<1>2. /\ owed'[t] = EntriesOf(K) /\ \A s \in Tasks \ {t} : owed'[s] = owed[s]
      /\ \A e \in EntriesOf(K) : e.key \in K /\ e.id = rings[e.key].id /\ e.id # 0
                                  /\ e = [key |-> e.key, id |-> rings[e.key].id]
  BY DEF TypeOK, EntriesOf, Live
<1>3. FreshInv' /\ OneOutcome'
  BY DEF Ledger, FreshInv, OneOutcome
<1>4. RingInv'
  BY <1>1 DEF Ledger, RingInv, Live
<1>5. OwedInv'
  <2>1. \A s \in Tasks : \A e \in owed'[s] : e.id <= calls' /\ outcome'[e.id] = << >>
    BY <1>2 DEF Ledger, OwedInv, RingInv
  <2>2. \A s \in Tasks : \A e \in owed'[s] : \A k \in Keys : rings'[k].id # e.id
    <3> SUFFICES ASSUME NEW s \in Tasks, NEW e \in owed'[s], NEW k \in Keys
                 PROVE  rings'[k].id # e.id
      OBVIOUS
    <3>1. CASE s = t
      <4>1. e.key \in K /\ e.id = rings[e.key].id /\ e.id # 0
        BY <1>2, <3>1
      <4>2. k # e.key => rings[k].id # e.id
        BY <4>1 DEF Ledger, RingInv
      <4>. QED
        BY <1>1, <4>1, <4>2
    <3>2. CASE s # t
      <4>1. e \in owed[s] /\ e.id # 0
        BY <1>2, <3>2 DEF TypeOK, Entry, Ids
      <4>2. rings[k].id # e.id
        BY <4>1 DEF Ledger, OwedInv
      <4>. QED
        BY <1>1, <4>1, <4>2
    <3>. QED
      BY <3>1, <3>2
  <2>3. \A s, r \in Tasks : \A e \in owed'[s], f \in owed'[r] : e.id = f.id => s = r /\ e = f
    BY <1>2 DEF Ledger, OwedInv, RingInv
  <2>. QED
    BY <2>1, <2>2, <2>3 DEF OwedInv
<1>6. NoCallForgotten'
  <2> SUFFICES ASSUME NEW i \in 1..calls, outcome[i] = << >>,
                      ~\E k \in Keys : rings'[k].id = i
               PROVE  \E s \in Tasks : \E e \in owed'[s] : e.id = i
    BY DEF NoCallForgotten
  <2>1. CASE \E k \in Keys : rings[k].id = i
    <3>1. PICK k \in Keys : rings[k].id = i
      BY <2>1
    <3>2. k \in K
      BY <1>1, <3>1
    <3>3. [key |-> k, id |-> i] \in owed'[t]
      BY <1>2, <3>1, <3>2 DEF EntriesOf
    <3>. QED
      BY <3>3
  <2>2. CASE \E s \in Tasks : \E e \in owed[s] : e.id = i
    BY <1>2, <2>2
  <2>. QED
    BY <2>1, <2>2 DEF Ledger, NoCallForgotten
<1>. QED
  BY <1>3, <1>4, <1>5, <1>6 DEF Ledger

\* A task writes one of its records, or loses it.
LEMMA LedgerRecord ==
    ASSUME TypeOK, Ledger, NEW t \in Tasks, NEW e \in owed[t],
           NEW w \in {"answered", "missed", "cut", "lost"},
           outcome' = [outcome EXCEPT ![e.id] = Append(@, w)],
           owed' = [owed EXCEPT ![t] = @ \ {e}],
           UNCHANGED <<rings, calls>>
    PROVE  Ledger'
<1>1. e.id \in Ids /\ outcome[e.id] = << >> /\ e.id <= calls
  BY DEF TypeOK, Entry, Ledger, OwedInv
<1>2. /\ Len(outcome'[e.id]) = 1 /\ outcome'[e.id] # << >>
      /\ \A i \in Ids \ {e.id} : outcome'[i] = outcome[i]
  BY <1>1, FirstOutcome DEF TypeOK
<1>3. owed'[t] = owed[t] \ {e} /\ \A s \in Tasks \ {t} : owed'[s] = owed[s]
  BY DEF TypeOK
<1>3a. \A s \in Tasks : \A f \in owed'[s] : f \in owed[s] /\ f.id # e.id /\ f.id \in Ids
  BY <1>3 DEF TypeOK, Entry, Ledger, OwedInv
<1>4. FreshInv'
  BY <1>1, <1>2 DEF Ledger, FreshInv, TypeOK, Ids
<1>5. OneOutcome'
  BY <1>2 DEF Ledger, OneOutcome
<1>6. RingInv'
  <2>1. ASSUME NEW k \in Keys, Live(k)
        PROVE  rings[k].id \in Ids /\ rings[k].id # e.id
    BY <2>1 DEF TypeOK, Ring, Ids, Live, Ledger, OwedInv
  <2>. QED
    BY <1>2, <2>1 DEF Ledger, RingInv, Live
<1>7. OwedInv'
  <2>1. \A s \in Tasks : \A f \in owed'[s] : f.id <= calls' /\ outcome'[f.id] = << >>
    BY <1>2, <1>3a DEF Ledger, OwedInv
  <2>2. \A s \in Tasks : \A f \in owed'[s] : \A k \in Keys : rings'[k].id # f.id
    BY <1>3a DEF Ledger, OwedInv
  <2>3. \A s, r \in Tasks : \A f \in owed'[s], g \in owed'[r] : f.id = g.id => s = r /\ f = g
    BY <1>3a DEF Ledger, OwedInv
  <2>. QED
    BY <2>1, <2>2, <2>3 DEF OwedInv
<1>8. NoCallForgotten'
  BY <1>2, <1>3 DEF Ledger, NoCallForgotten, TypeOK, Ids
<1>. QED
  BY <1>4, <1>5, <1>6, <1>7, <1>8 DEF Ledger

\* A ring comes to an outcome on the spot: answered, or cut by a block.
LEMMA LedgerSettle ==
    ASSUME TypeOK, Ledger, NEW K \in SUBSET Keys, \A k \in K : Live(k),
           NEW w \in {"answered", "missed", "cut", "lost"},
           rings' = Removed(K), outcome' = Settled(K, w), UNCHANGED <<owed, calls>>
    PROVE  Ledger'
<1> DEFINE Hit(i) == \E k \in K : rings[k].id = i
<1>1. /\ \A k \in K : rings'[k].id = 0
      /\ \A k \in Keys \ K : rings'[k] = rings[k]
  BY DEF Removed, NoRing
<1>2. ASSUME NEW i \in Ids, Hit(i)
      PROVE  i <= calls /\ Len(outcome'[i]) = 1 /\ outcome'[i] # << >>
  <2>1. PICK k \in K : rings[k].id = i
    BY <1>2
  <2>2. i <= calls /\ outcome[i] = << >>
    BY <2>1 DEF Ledger, RingInv
  <2>3. outcome'[i] = Append(outcome[i], w)
    BY <1>2 DEF Settled
  <2>. QED
    BY <2>2, <2>3, FirstOutcome
<1>3. ASSUME NEW i \in Ids, ~Hit(i)
      PROVE  outcome'[i] = outcome[i]
  BY <1>3 DEF Settled
<1> HIDE DEF Hit
<1>4. FreshInv'
  BY <1>2, <1>3 DEF Ledger, FreshInv, TypeOK, Ids
<1>5. OneOutcome'
  <2> SUFFICES ASSUME NEW i \in Ids PROVE Len(outcome'[i]) <= 1
    BY DEF OneOutcome
  <2>1. CASE Hit(i)
    <3>1. Len(outcome'[i]) = 1
      BY <1>2, <2>1, Zenon
    <3>. QED
      BY <3>1
  <2>2. CASE ~Hit(i)
    BY <1>3, <2>2 DEF Ledger, OneOutcome
  <2>. QED
    BY <2>1, <2>2
<1>6. RingInv'
  <2>1. ASSUME NEW k \in Keys, rings'[k].id # 0
        PROVE  k \notin K /\ rings'[k] = rings[k] /\ rings[k].id \in Ids /\ ~Hit(rings[k].id)
    <3>1. k \notin K /\ rings'[k] = rings[k]
      BY <1>1, <2>1
    <3>2. rings[k].id \in Ids
      BY <2>1, <3>1 DEF TypeOK, Ring, Ids
    <3>3. ~Hit(rings[k].id)
      BY <3>1, <2>1 DEF Hit, Ledger, RingInv, Live
    <3>. QED
      BY <3>1, <3>2, <3>3
  <2>. QED
    BY <1>1, <1>3, <2>1 DEF Ledger, RingInv, Live
<1>7. OwedInv'
  <2>1. ASSUME NEW t \in Tasks, NEW e \in owed[t]
        PROVE  e.id \in Ids /\ ~Hit(e.id) /\ \A k \in Keys : rings'[k].id # e.id
    <3>1. e.id \in Ids /\ e.id # 0
      BY DEF TypeOK, Entry, Ids
    <3>2. \A k \in Keys : rings[k].id # e.id
      BY DEF Ledger, OwedInv
    <3>. QED
      BY <1>1, <3>1, <3>2 DEF Hit
  <2>. QED
    BY <1>3, <2>1 DEF Ledger, OwedInv
<1>8. NoCallForgotten'
  <2> SUFFICES ASSUME NEW i \in 1..calls, outcome'[i] = << >>
               PROVE  \/ \E k \in Keys : rings'[k].id = i
                      \/ \E t \in Tasks : \E e \in owed[t] : e.id = i
    BY DEF NoCallForgotten
  <2>1. i \in Ids
    BY CallsConstants DEF TypeOK, Ids
  <2>2. ~Hit(i) /\ outcome[i] = << >>
    BY <1>2, <1>3, <2>1
  <2>3. ASSUME NEW k \in Keys, rings[k].id = i
        PROVE  rings'[k].id = i
    BY <1>1, <2>2, <2>3 DEF Hit
  <2>. QED
    BY <2>2, <2>3 DEF Ledger, NoCallForgotten
<1>. QED
  BY <1>4, <1>5, <1>6, <1>7, <1>8 DEF Ledger

\* A call is numbered and starts to ring.
LEMMA LedgerStart ==
    ASSUME TypeOK, Ledger, NEW k \in Keys, ~Live(k), calls < MaxCalls,
           rings' = Start(k), calls' = calls + 1, UNCHANGED <<owed, outcome>>
    PROVE  Ledger'
<1>1. /\ rings'[k].id = calls + 1
      /\ \A l \in Keys \ {k} : rings'[l] = rings[l]
  BY DEF Start, TypeOK
<1>2. calls \in Nat /\ calls + 1 \in Ids /\ outcome[calls + 1] = << >>
  BY CallsConstants DEF TypeOK, Ids, Ledger, FreshInv
<1>3. FreshInv' /\ OneOutcome'
  BY <1>2 DEF Ledger, FreshInv, OneOutcome, Ids
<1>4. \A l \in Keys \ {k} : rings[l].id # calls + 1
  <2> SUFFICES ASSUME NEW l \in Keys \ {k}, rings[l].id = calls + 1
               PROVE  FALSE
    OBVIOUS
  <2>1. Live(l)
    BY <1>2 DEF Live
  <2>. QED
    BY <1>2, <2>1 DEF Ledger, RingInv
<1>5. RingInv'
  <2>1. \A l \in Keys : rings'[l].id # 0 => rings'[l].id <= calls' /\ outcome[rings'[l].id] = << >>
    <3> SUFFICES ASSUME NEW l \in Keys, rings'[l].id # 0
                 PROVE  rings'[l].id <= calls + 1 /\ outcome[rings'[l].id] = << >>
      OBVIOUS
    <3>1. CASE l = k
      BY <1>1, <1>2, <3>1
    <3>2. CASE l # k
      <4>1. rings'[l] = rings[l] /\ Live(l)
        BY <1>1, <3>2 DEF Live
      <4>2. rings[l].id <= calls /\ outcome[rings[l].id] = << >> /\ rings[l].id \in Nat
        BY <4>1 DEF Ledger, RingInv, TypeOK, Ring
      <4>. QED
        BY <1>2, <4>1, <4>2
    <3>. QED
      BY <3>1, <3>2
  <2>2. \A l, m \in Keys : rings'[l].id # 0 /\ rings'[l].id = rings'[m].id => l = m
    BY <1>1, <1>4 DEF Ledger, RingInv, Live
  <2>. QED
    BY <2>1, <2>2 DEF RingInv, Live
<1>6. OwedInv'
  <2>1. ASSUME NEW t \in Tasks, NEW e \in owed[t]
        PROVE  e.id <= calls + 1 /\ e.id # calls + 1
    BY <1>2 DEF Ledger, OwedInv, TypeOK, Entry, Ids
  <2>. QED
    BY <1>1, <2>1 DEF Ledger, OwedInv
<1>7. NoCallForgotten'
  <2> SUFFICES ASSUME NEW i \in 1..(calls + 1), outcome[i] = << >>
               PROVE  \/ \E l \in Keys : rings'[l].id = i
                      \/ \E t \in Tasks : \E e \in owed[t] : e.id = i
    BY DEF NoCallForgotten
  <2>1. CASE i = calls + 1
    BY <1>1, <2>1
  <2>2. CASE i # calls + 1
    <3>1. i \in 1..calls /\ i # 0
      BY <1>2, <2>2
    <3>2. ASSUME NEW l \in Keys, rings[l].id = i
          PROVE  rings'[l].id = i
      BY <1>1, <3>1, <3>2 DEF Live
    <3>. QED
      BY <3>1, <3>2 DEF Ledger, NoCallForgotten
  <2>. QED
    BY <2>1, <2>2
<1>. QED
  BY <1>3, <1>5, <1>6, <1>7 DEF Ledger

\* A call is numbered that nobody can be rung for: its record is owed at once.
LEMMA LedgerUnreachable ==
    ASSUME TypeOK, Ledger, NEW t \in Tasks, NEW k \in Keys, owed[t] = {}, calls < MaxCalls,
           owed' = [owed EXCEPT ![t] = {[key |-> k, id |-> calls + 1]}],
           calls' = calls + 1, UNCHANGED <<rings, outcome>>
    PROVE  Ledger'
<1> DEFINE e == [key |-> k, id |-> calls + 1]
<1>1. owed'[t] = {e} /\ \A s \in Tasks \ {t} : owed'[s] = owed[s]
  BY DEF TypeOK
<1>2. calls \in Nat /\ calls + 1 \in Ids /\ outcome[calls + 1] = << >>
  BY CallsConstants DEF TypeOK, Ids, Ledger, FreshInv
<1>e. e.id = calls + 1
  OBVIOUS
<1> HIDE DEF e
<1>3. FreshInv' /\ OneOutcome'
  BY <1>2 DEF Ledger, FreshInv, OneOutcome, Ids
<1>4. \A l \in Keys : rings[l].id <= calls /\ rings[l].id \in Nat
  BY <1>2 DEF Ledger, RingInv, Live, TypeOK, Ring
<1>5. RingInv'
  BY <1>2, <1>4 DEF Ledger, RingInv, Live
<1>6. \A s \in Tasks : \A f \in owed[s] : f.id <= calls /\ f.id \in Nat
  BY DEF Ledger, OwedInv, TypeOK, Entry, Ids
<1>7. OwedInv'
  <2>1. \A s \in Tasks : \A f \in owed'[s] : f.id <= calls' /\ outcome'[f.id] = << >>
    BY <1>1, <1>2, <1>e, <1>6 DEF Ledger, OwedInv
  <2>2. \A s \in Tasks : \A f \in owed'[s] : \A l \in Keys : rings'[l].id # f.id
    BY <1>1, <1>2, <1>e, <1>4 DEF Ledger, OwedInv
  <2>3. \A s, r \in Tasks : \A f \in owed'[s], g \in owed'[r] : f.id = g.id => s = r /\ f = g
    BY <1>1, <1>2, <1>e, <1>6 DEF Ledger, OwedInv
  <2>. QED
    BY <2>1, <2>2, <2>3 DEF OwedInv
<1>8. NoCallForgotten'
  <2> SUFFICES ASSUME NEW i \in 1..(calls + 1), outcome[i] = << >>
               PROVE  \/ \E l \in Keys : rings[l].id = i
                      \/ \E s \in Tasks : \E f \in owed'[s] : f.id = i
    BY DEF NoCallForgotten
  <2>1. CASE i = calls + 1
    BY <1>1, <1>e, <2>1
  <2>2. CASE i # calls + 1
    <3>1. i \in 1..calls
      BY <1>2, <2>2
    <3>. QED
      BY <1>1, <3>1 DEF Ledger, NoCallForgotten
  <2>. QED
    BY <2>1, <2>2
<1>. QED
  BY <1>3, <1>5, <1>7, <1>8 DEF Ledger

-----------------------------------------------------------------------------
(* The inductive invariant *)

\* record_missed_call settles a call the task owed.
LEMMA LedgerMissed ==
    ASSUME TypeOK, Ledger, NEW t \in Tasks, NEW e \in owed[t], RecordMissed(e),
           owed' = [owed EXCEPT ![t] = @ \ {e}], UNCHANGED <<rings, calls>>
    PROVE  Ledger'
<1>1. PICK w \in {"missed", "lost"} : outcome' = [outcome EXCEPT ![e.id] = Append(@, w)]
  BY DEF RecordMissed
<1>. QED
  BY <1>1, LedgerRecord

\* The frame handlers keep the ledger.
LEMMA HandlerLedger ==
    ASSUME IInv, NEW d \in Devices, HandlerStep(d)
    PROVE  Ledger'
<1> USE TaskTypes DEF IInv
<1>1. CASE SignalRoute(d) \/ PushAccepted(d) \/ PushRefused(d) \/ SignalReachable(d)
  BY <1>1, LedgerIdle DEF SignalRoute, PushAccepted, PushRefused, SignalReachable
<1>2. CASE SignalVoice(d) \/ RelayInvite(d) \/ AbortPush(d)
  BY <1>2, LedgerIdle DEF SignalVoice, RelayInvite, AbortPush
<1>3. CASE SignalUnreachable(d)
  <2>1. <<UserOf[d], hand[d].to>> \in Keys
    BY <1>3, PeerTypes DEF SignalUnreachable
  <2>2. owed[Handler(d)] = {}
    BY <1>3 DEF SignalUnreachable, TaskInv
  <2>. QED
    BY <1>3, <2>1, <2>2, LedgerUnreachable DEF SignalUnreachable
<1>4. CASE RingStart(d)
  <2> DEFINE k == <<UserOf[d], hand[d].to>>
  <2>1. k \in Keys
    BY <1>4, PeerTypes DEF RingStart
  <2>2. CASE Live(k)
    BY <1>4, <2>2, LedgerIdle DEF RingStart, Start
  <2>3. CASE ~Live(k)
    BY <1>4, <2>1, <2>3, LedgerStart DEF RingStart
  <2>. QED
    BY <2>2, <2>3
<1>5. CASE RingAnswered(d)
  <2> DEFINE K == {k \in {<<hand[d].to, UserOf[d]>>} : Live(k)}
  <2>1. K \in SUBSET Keys /\ \A k \in K : Live(k)
    BY <1>5, PeerTypes DEF RingAnswered
  <2>2. rings' = Removed(K) /\ outcome' = Settled(K, "answered") /\ UNCHANGED <<owed, calls>>
    BY <1>5 DEF RingAnswered
  <2> HIDE DEF K
  <2>. QED
    BY <2>1, <2>2, LedgerSettle
<1>6. CASE RingEnded(d)
  <2> DEFINE K == EndedEitherWay(UserOf[d], hand[d].to)
  <2>1. K \in SUBSET Keys /\ \A k \in K : Live(k)
    BY <1>6, KeysRemoved, PeerTypes DEF RingEnded
  <2>2. owed[Handler(d)] = {}
    BY <1>6 DEF RingEnded, TaskInv
  <2>3. /\ rings' = Removed(K) /\ owed' = [owed EXCEPT ![Handler(d)] = EntriesOf(K)]
        /\ UNCHANGED <<calls, outcome>>
    BY <1>6 DEF RingEnded
  <2> HIDE DEF K
  <2>. QED
    BY <2>1, <2>2, <2>3, LedgerTake
<1>7. ASSUME NEW e \in owed[Handler(d)], SignalRecord(d, e)
      PROVE  Ledger'
  BY <1>7, LedgerMissed DEF SignalRecord
<1>8. ASSUME NEW e \in owed[Handler(d)], AbortRecord(d, e)
      PROVE  Ledger'
  BY <1>8, LedgerRecord DEF AbortRecord
<1>. QED
  BY <1>1, <1>2, <1>3, <1>4, <1>5, <1>6, <1>7, <1>8 DEF HandlerStep

\* The socket tasks keep the ledger.
LEMMA SocketLedger ==
    ASSUME IInv, NEW d \in Devices, SocketStep(d)
    PROVE  Ledger'
<1> USE TaskTypes DEF IInv
<1>1. CASE ReplaySnapshot(d) \/ LeaveVoice(d)
  BY <1>1, LedgerIdle DEF ReplaySnapshot, LeaveVoice
<1>2. ASSUME NEW e \in sock[d].todo, ReplayInvite(d, e)
      PROVE  Ledger'
  BY <1>2, LedgerIdle DEF ReplayInvite
<1>3. CASE LeaveRings(d)
  <2> DEFINE K == DropFor(UserOf[d])
  <2>1. K \in SUBSET Keys /\ \A k \in K : Live(k)
    BY KeysRemoved
  <2>2. owed[Socket(d)] = {}
    BY <1>3 DEF LeaveRings, TaskInv
  <2>3. /\ rings' = Removed(K) /\ owed' = [owed EXCEPT ![Socket(d)] = EntriesOf(K)]
        /\ UNCHANGED <<calls, outcome>>
    BY <1>3 DEF LeaveRings
  <2> HIDE DEF K
  <2>. QED
    BY <2>1, <2>2, <2>3, LedgerTake
<1>4. ASSUME NEW e \in owed[Socket(d)], LeaveRecord(d, e)
      PROVE  Ledger'
  BY <1>4, LedgerMissed DEF LeaveRecord
<1>. QED
  BY <1>1, <1>2, <1>3, <1>4 DEF SocketStep

\* The sweeper, the block handlers, the clients and the clock keep the ledger.
LEMMA OtherLedger ==
    ASSUME IInv,
           \/ SweeperStep \/ Tick \/ ClientStep
           \/ \E u \in Users : BlockVoice(u) \/ BlockRing(u)
    PROVE  Ledger'
<1> USE TaskTypes DEF IInv
<1>1. CASE SweepCollect
  BY <1>1, KeysRemoved, LedgerTake DEF SweepCollect
<1>2. ASSUME NEW e \in owed[Sweeper], SweepClose(e)
      PROVE  Ledger'
  BY <1>2, LedgerIdle DEF SweepClose
<1>3. ASSUME NEW e \in owed[Sweeper], SweepRecord(e)
      PROVE  Ledger'
  BY <1>3, LedgerMissed DEF SweepRecord
<1>4. CASE Tick
  <2>1. \A k \in Keys : rings'[k].id = rings[k].id
    <3> SUFFICES ASSUME NEW k \in Keys PROVE rings'[k].id = rings[k].id
      OBVIOUS
    <3>1. rings[k] \in Ring
      BY DEF TypeOK
    <3>. QED
      BY <1>4, <3>1 DEF Tick, Ring
  <2>. QED
    BY <1>4, <2>1, LedgerIdle DEF Tick
<1>5. CASE ClientStep
  BY <1>5, LedgerIdle DEF ClientStep, Connect, Disconnect, Signal, BlockInsert, Unblock
<1>6. ASSUME NEW u \in Users, BlockVoice(u)
      PROVE  Ledger'
  BY <1>6, LedgerIdle DEF BlockVoice
<1>7. ASSUME NEW u \in Users, BlockRing(u)
      PROVE  Ledger'
  <2> DEFINE K == EndedEitherWay(u, blk[u].to)
  <2>1. blk[u].to \in Users /\ blk[u].to # u
    BY <1>7 DEF BlockRing, TaskInv
  <2>2. K \in SUBSET Keys /\ \A k \in K : Live(k)
    BY <2>1, KeysRemoved
  <2>3. rings' = Removed(K) /\ outcome' = Settled(K, "cut") /\ UNCHANGED <<owed, calls>>
    BY <1>7 DEF BlockRing
  <2> HIDE DEF K
  <2>. QED
    BY <2>2, <2>3, LedgerSettle
<1>. QED
  BY <1>1, <1>2, <1>3, <1>4, <1>5, <1>6, <1>7 DEF SweeperStep

\* The invariant holds at the start and is kept by every step.
THEOREM Invariance == Spec => []IInv
<1>1. Init => IInv
  <2> SUFFICES ASSUME Init PROVE Ledger
    BY InitTypes DEF IInv
  <2>1. \A k \in Keys : rings[k].id = 0
    BY DEF Init, NoRing
  <2>2. calls = 0 /\ (\A i \in Ids : outcome[i] = << >>) /\ \A t \in Tasks : owed[t] = {}
    BY DEF Init
  <2>3. FreshInv /\ RingInv /\ OwedInv
    BY <2>1, <2>2 DEF FreshInv, RingInv, OwedInv, Live
  <2>4. OneOutcome /\ NoCallForgotten
    BY <2>2 DEF OneOutcome, NoCallForgotten
  <2>. QED
    BY <2>3, <2>4 DEF Ledger
<1>2. IInv /\ [Next]_vars => IInv'
  <2> SUFFICES ASSUME IInv, [Next]_vars PROVE Ledger'
    BY StepTypes DEF IInv
  <2>1. CASE UNCHANGED vars
    BY <2>1, LedgerIdle DEF vars, IInv
  <2>2. CASE Next
    BY <2>2, HandlerLedger, SocketLedger, OtherLedger DEF Next
  <2>. QED
    BY <2>1, <2>2
<1>. QED
  BY <1>1, <1>2, PTL DEF Spec

\* However accept, end, hang-up, teardown, timeout and block race for a ring,
\* only one of them decides it: no call is both answered and missed, and none is
\* recorded twice.
THEOREM SingleOutcome == Spec => []OneOutcome
<1>1. IInv => OneOutcome
  BY DEF IInv, Ledger
<1>. QED
  BY <1>1, Invariance, PTL

\* A call that has no outcome yet is still in the ring table or in the hands of
\* a task that owes its record: no handler drops one.
THEOREM CallsAccounted == Spec => []NoCallForgotten
<1>1. IInv => NoCallForgotten
  BY DEF IInv, Ledger
<1>. QED
  BY <1>1, Invariance, PTL

-----------------------------------------------------------------------------
(* Whom the invite of a call reaches *)

\* A handler has put the call of key k into the table and not relayed its invite yet.
Relaying(k) == \E c \in Devices : UserOf[c] = k[1] /\ hand[c].pc = "relay" /\ hand[c].to = k[2]

\* Device d has been sent the invite of the call of key k, or it is on its way.
Told(k, d) ==
    \/ <<d, rings[k].id>> \in offered
    \/ sock[d].pc = "replay" /\ [key |-> k, id |-> rings[k].id] \in sock[d].todo
    \/ Relaying(k)

\* Whoever has taken the snapshot of its rings is told of every call that rings; and no
\* invite is left to a later replay.
ReachInv ==
    /\ \A k \in Keys, d \in Devices :
           (Live(k) /\ UserOf[d] = k[2] /\ sock[d].pc \in {"replay", "up"}) => Told(k, d)
    /\ \A d \in Devices : hand[d].kind # "quiet"

\* A step that starts no ring, ends no relaying and lets no socket past its snapshot.
LEMMA ReachKept ==
    ASSUME ReachInv,
           \A k \in Keys : Live(k)' => rings'[k].id = rings[k].id,
           \A d \in Devices : hand[d].pc = "relay" => hand'[d] = hand[d],
           \A d \in Devices : hand'[d].kind # "quiet",
           \A d \in Devices : sock'[d].pc \in {"replay", "up"} =>
               sock'[d] = sock[d] /\ \A i : <<d, i>> \in offered => <<d, i>> \in offered'
    PROVE  ReachInv'
<1>1. ASSUME NEW k \in Keys, NEW d \in Devices,
             Live(k)', UserOf[d] = k[2], sock'[d].pc \in {"replay", "up"}
      PROVE  Told(k, d)'
  <2>1. Live(k) /\ rings'[k].id = rings[k].id /\ sock'[d] = sock[d]
    BY <1>1 DEF Live
  <2>2. Told(k, d)
    BY <1>1, <2>1 DEF ReachInv
  <2>3. Relaying(k) => Relaying(k)'
    BY DEF Relaying
  <2>. QED
    BY <1>1, <2>1, <2>2, <2>3 DEF Told
<1>. QED
  BY <1>1 DEF ReachInv

\* The steps of a device's connection.
LEMMA ReachSocket ==
    ASSUME TypeOK, ReachInv, NEW d \in Devices, SocketStep(d) \/ Connect(d) \/ Disconnect(d)
    PROVE  ReachInv'
<1>0. sock \in Sockets /\ rings \in [Keys -> Ring]
  BY DEF TypeOK, Sockets
<1>1. hand' = hand /\ \A k \in Keys : Live(k)' => rings'[k].id = rings[k].id
  BY <1>0 DEF SocketStep, Connect, Disconnect, ReplaySnapshot, ReplayInvite, LeaveVoice, LeaveRings,
              LeaveRecord, Removed, NoRing, Live
<1>2. CASE \/ Connect(d) \/ Disconnect(d) \/ LeaveVoice(d) \/ LeaveRings(d)
           \/ \E e \in owed[Socket(d)] : LeaveRecord(d, e)
  <2>1. /\ sock'[d].pc \notin {"replay", "up"}
        /\ \A c \in Devices \ {d} : sock'[c] = sock[c]
    BY <1>0, <1>2 DEF Connect, Disconnect, LeaveVoice, LeaveRings, LeaveRecord, Sockets
  <2>2. \A c \in Devices \ {d} : \A i : <<c, i>> \in offered => <<c, i>> \in offered'
    BY <1>2 DEF Connect, Disconnect, LeaveVoice, LeaveRings, LeaveRecord
  <2>. QED
    BY <1>1, <2>1, <2>2, ReachKept DEF ReachInv
<1>3. CASE ReplaySnapshot(d)
  <2>1. /\ sock'[d] = [pc |-> IF EntriesOf(IncomingFor(UserOf[d])) = {} THEN "up" ELSE "replay",
                       todo |-> EntriesOf(IncomingFor(UserOf[d]))]
        /\ \A c \in Devices \ {d} : sock'[c] = sock[c]
        /\ UNCHANGED <<rings, hand, offered>>
    BY <1>0, <1>3 DEF ReplaySnapshot, Sockets
  <2>2. ASSUME NEW k \in Keys, Live(k), UserOf[d] = k[2]
        PROVE  [key |-> k, id |-> rings[k].id] \in EntriesOf(IncomingFor(UserOf[d]))
    BY <2>2 DEF EntriesOf, IncomingFor
  <2>3. ASSUME NEW k \in Keys, NEW c \in Devices, Live(k)', UserOf[c] = k[2],
               sock'[c].pc \in {"replay", "up"}
        PROVE  Told(k, c)'
    <3>1. CASE c = d
      BY <2>1, <2>2, <2>3, <3>1 DEF Told, Live
    <3>2. CASE c # d
      BY <2>1, <2>3, <3>2 DEF ReachInv, Told, Relaying, Live
    <3>. QED
      BY <3>1, <3>2
  <2>. QED
    BY <2>1, <2>3 DEF ReachInv
<1>4. ASSUME NEW e \in sock[d].todo, ReplayInvite(d, e)
      PROVE  ReachInv'
  <2>1. /\ sock[d].pc = "replay"
        /\ sock'[d].pc \in {"replay", "up"} /\ sock'[d].todo = sock[d].todo \ {e}
        /\ sock'[d].pc = "up" => sock[d].todo \ {e} = {}
        /\ \A c \in Devices \ {d} : sock'[c] = sock[c]
        /\ UNCHANGED <<rings, hand>> /\ offered' = offered \cup {<<d, e.id>>}
    BY <1>0, <1>4 DEF ReplayInvite, Sockets
  <2>2. ASSUME NEW k \in Keys, NEW c \in Devices, Live(k)', UserOf[c] = k[2],
               sock'[c].pc \in {"replay", "up"}
        PROVE  Told(k, c)'
    <3>1. Told(k, c) /\ (Relaying(k) => Relaying(k)')
      BY <2>1, <2>2 DEF ReachInv, Live, Relaying
    <3>2. CASE c = d
      <4>1. CASE e = [key |-> k, id |-> rings[k].id]
        BY <2>1, <3>2, <4>1 DEF Told
      <4>2. CASE e # [key |-> k, id |-> rings[k].id]
        BY <2>1, <3>1, <3>2, <4>2 DEF Told
      <4>. QED
        BY <4>1, <4>2
    <3>3. CASE c # d
      BY <2>1, <3>1, <3>3 DEF Told
    <3>. QED
      BY <3>2, <3>3
  <2>. QED
    BY <2>1, <2>2 DEF ReachInv
<1>. QED
  BY <1>2, <1>3, <1>4 DEF SocketStep

\* The steps of a frame's handler, without push.
LEMMA ReachHandler ==
    ASSUME ~PushService, TypeOK, TaskInv, ReachInv, NEW d \in Devices,
           \/ HandlerStep(d)
           \/ \E to \in Users, kind \in {"invite", "accept", "end"} : Signal(d, to, kind)
    PROVE  ReachInv'
<1>0. hand \in Handlers /\ rings \in [Keys -> Ring] /\ sock \in Sockets
  BY DEF TypeOK, Handlers, Sockets
<1>1. CASE RingStart(d)
  <2> DEFINE k0 == <<UserOf[d], hand[d].to>>
  <2>1. hand[d].kind # "quiet"
    BY DEF ReachInv
  <2>2. /\ hand'[d] = [hand[d] EXCEPT !.pc = "relay"] /\ \A c \in Devices \ {d} : hand'[c] = hand[c]
        /\ UNCHANGED <<sock, offered>> /\ hand[d].pc = "ring"
    BY <1>0, <1>1, <2>1 DEF RingStart, Goto, Handlers
  <2>3. \A k \in Keys \ {k0} : rings'[k] = rings[k]
    BY <1>0, <1>1 DEF RingStart, Start
  <2>4. UserOf[d] = k0[1] /\ hand'[d].pc = "relay" /\ hand'[d].to = k0[2]
    BY <1>0, <2>2 DEF Handlers
  <2>5. ASSUME NEW k \in Keys, NEW c \in Devices, Live(k)', UserOf[c] = k[2],
               sock'[c].pc \in {"replay", "up"}
        PROVE  Told(k, c)'
    <3>1. CASE k = k0
      BY <2>4, <3>1 DEF Told, Relaying
    <3>2. CASE k # k0
      <4>1. Told(k, c) /\ rings'[k] = rings[k]
        BY <2>2, <2>3, <2>5, <3>2 DEF ReachInv, Live
      <4>2. Relaying(k) => Relaying(k)'
        BY <2>2 DEF Relaying
      <4>. QED
        BY <2>2, <4>1, <4>2 DEF Told
    <3>. QED
      BY <3>1, <3>2
  <2>6. \A c \in Devices : hand'[c].kind # "quiet"
    BY <1>0, <2>1, <2>2 DEF ReachInv, Handlers
  <2>. QED
    BY <2>5, <2>6 DEF ReachInv
<1>2. CASE RelayInvite(d)
  <2> DEFINE k0 == <<UserOf[d], hand[d].to>>
  <2>1. /\ hand'[d] = Idle /\ \A c \in Devices \ {d} : hand'[c] = hand[c]
        /\ UNCHANGED <<sock, rings>> /\ offered \subseteq offered'
    BY <1>0, <1>2 DEF RelayInvite, Return, Handlers
  <2>2. ASSUME NEW k \in Keys, NEW c \in Devices, Live(k)', UserOf[c] = k[2],
               sock'[c].pc \in {"replay", "up"}
        PROVE  Told(k, c)'
    <3>1. CASE k = k0
      <4>1. c \in Registered(hand[d].to) /\ rings[k0].id # 0
        BY <2>1, <2>2, <3>1 DEF Registered, Live
      <4>2. <<c, rings[k0].id>> \in offered'
        BY <1>2, <4>1 DEF RelayInvite
      <4>. QED
        BY <2>1, <3>1, <4>2 DEF Told
    <3>2. CASE k # k0
      <4>1. Told(k, c)
        BY <2>1, <2>2 DEF ReachInv, Live
      <4>2. Relaying(k) => Relaying(k)'
        <5>1. k = <<k[1], k[2]>>
          BY DEF Keys
        <5>. QED
          BY <2>1, <3>2, <5>1 DEF Relaying
      <4>. QED
        BY <2>1, <4>1, <4>2 DEF Told
    <3>. QED
      BY <3>1, <3>2
  <2>3. \A c \in Devices : hand'[c].kind # "quiet"
    BY <2>1 DEF ReachInv, Idle
  <2>. QED
    BY <2>2, <2>3 DEF ReachInv
<1>3. CASE ~RingStart(d) /\ ~RelayInvite(d)
  <2>1. UNCHANGED <<sock, offered>>
    BY <1>3 DEF HandlerStep, Signal, SignalRoute, PushAccepted, PushRefused, SignalReachable,
         SignalUnreachable, SignalVoice, RingAnswered, RingEnded, SignalRecord, AbortPush, AbortRecord
  <2>2. \A k \in Keys : Live(k)' => rings'[k].id = rings[k].id
    BY <1>0, <1>3 DEF HandlerStep, Signal, SignalRoute, PushAccepted, PushRefused, SignalReachable,
         SignalUnreachable, SignalVoice, RingAnswered, RingEnded, SignalRecord, AbortPush, AbortRecord,
         Removed, NoRing, Live
  <2>3. hand[d].pc # "relay"
    BY <1>3 DEF HandlerStep, Signal, SignalRoute, PushAccepted, PushRefused, SignalReachable,
         SignalUnreachable, SignalVoice, RingAnswered, RingEnded, SignalRecord, AbortPush, AbortRecord, Idle
  <2>4. /\ hand'[d].kind # "quiet"
        /\ \A c \in Devices \ {d} : hand'[c] = hand[c]
    <3>1. CASE \E to \in Users, kind \in {"invite", "accept", "end"} : Signal(d, to, kind)
      BY <1>0, <3>1 DEF Signal, Handlers
    <3>2. CASE Return(d)
      BY <1>0, <3>2 DEF Return, Idle, Handlers
    <3>3. CASE \E p : Goto(d, p)
      BY <1>0, <3>3 DEF Goto, Handlers, ReachInv
    <3>4. CASE HandlerStep(d)
      <4>1. Return(d) \/ \E p : Goto(d, p)
        BY <1>3, <3>4 DEF HandlerStep, SignalRoute, PushAccepted, PushRefused, SignalReachable,
             SignalUnreachable, SignalVoice, RingAnswered, RingEnded, SignalRecord, AbortPush, AbortRecord
      <4>. QED
        BY <3>2, <3>3, <4>1
    <3>. QED
      BY <3>1, <3>4
  <2>. QED
    BY <2>1, <2>2, <2>3, <2>4, ReachKept DEF ReachInv
<1>. QED
  BY <1>1, <1>2, <1>3

\* InviteReachesSockets, where no push can wake a phone (the run calls_wakeup shows what
\* happens when one can): however the connecting of a device races with the caller's
\* invite, the replay or the relay brings it the call.
THEOREM InvitesReach ==
    ASSUME ~PushService
    PROVE  Spec => []InviteReachesSockets
<1>1. Init => ReachInv
  BY DEF Init, ReachInv, Off, Idle
<1>2. TypeOK /\ TaskInv /\ ReachInv /\ [Next]_vars => ReachInv'
  <2> SUFFICES ASSUME TypeOK, TaskInv, ReachInv, [Next]_vars PROVE ReachInv'
    OBVIOUS
  <2>0. rings \in [Keys -> Ring]
    BY DEF TypeOK
  <2>1. CASE \/ \E u \in Users : BlockVoice(u) \/ BlockRing(u)
             \/ \E u, v \in Users : BlockInsert(u, v) \/ Unblock(u, v)
             \/ SweeperStep
             \/ UNCHANGED vars
    <3>1. UNCHANGED <<sock, hand, offered>>
      BY <2>1 DEF BlockVoice, BlockRing, BlockInsert, Unblock, SweeperStep, SweepCollect, SweepClose,
           SweepRecord, vars
    <3>2. \A k \in Keys : Live(k)' => rings'[k].id = rings[k].id
      <4>1. rings' = rings \/ \E K : rings' = Removed(K)
        BY <2>1 DEF BlockVoice, BlockRing, BlockInsert, Unblock, SweeperStep, SweepCollect,
             SweepClose, SweepRecord, vars
      <4>. QED
        BY <2>0, <4>1 DEF Removed, NoRing, Live
    <3>. QED
      BY <3>1, <3>2, ReachKept DEF ReachInv
  <2>2. CASE Tick
    <3>1. \A k \in Keys : rings'[k].id = rings[k].id
      BY <2>0, <2>2 DEF Tick, Ring
    <3>. QED
      BY <2>2, <3>1, ReachKept DEF Tick, ReachInv
  <2>. QED
    BY <2>1, <2>2, ReachSocket, ReachHandler DEF Next, ClientStep
<1>3. ReachInv => InviteReachesSockets
  BY DEF ReachInv, Told, Relaying, InviteReachesSockets
<1>4. TypeOK /\ TaskInv /\ [Next]_vars => (TypeOK /\ TaskInv)'
  BY StepTypes
<1>. QED
  BY <1>1, <1>2, <1>3, <1>4, InitTypes, PTL DEF Spec

-----------------------------------------------------------------------------
(* Calls implements CallOutcomes *)

\* The stages of the calls, as CallOutcomes sees them.
Stages == [i \in Ids |-> StageOf(i)]

\* Where a call is decides its stage.
LEMMA StageFacts ==
    ASSUME NEW i \in Ids
    PROVE  /\ outcome[i] = << >> /\ InTable(i) => StageOf(i) = "ringing"
           /\ outcome[i] = << >> /\ ~InTable(i) /\ IsOwed(i) => StageOf(i) = "owed"
           /\ outcome[i] = << >> /\ ~InTable(i) /\ ~IsOwed(i) => StageOf(i) = "new"
  BY DEF StageOf

\* A first outcome is the stage from then on.
LEMMA StageOutcome ==
    ASSUME NEW i \in Ids, NEW w \in {"answered", "missed", "cut", "lost"},
           outcome'[i] = Append(<< >>, w)
    PROVE  StageOf(i)' = w
<1>1. outcome'[i] # << >> /\ outcome'[i][Len(outcome'[i])] = w
  OBVIOUS
<1>. QED
  BY <1>1 DEF StageOf

\* A call that stays where it was keeps its stage.
LEMMA StageKept ==
    ASSUME NEW i \in Ids, outcome'[i] = outcome[i],
           InTable(i)' <=> InTable(i), IsOwed(i)' <=> IsOwed(i)
    PROVE  StageOf(i)' = StageOf(i)
  BY DEF StageOf

\* The calls of S moved to s, and only they.
LEMMA MoveIs ==
    ASSUME NEW S, NEW s, \A i \in Ids : StageOf(i)' = IF i \in S THEN s ELSE StageOf(i)
    PROVE  Promise!Move(S, s)
  BY DEF Promise!Move

\* A step that changes no ring's call, no debt and no outcome.
LEMMA StageIdle ==
    ASSUME \A k \in Keys : rings'[k].id = rings[k].id, UNCHANGED <<owed, outcome>>
    PROVE  UNCHANGED Stages
<1>1. \A i \in Ids : (InTable(i)' <=> InTable(i)) /\ (IsOwed(i)' <=> IsOwed(i)) /\ outcome'[i] = outcome[i]
  BY DEF InTable, IsOwed
<1>2. \A i \in Ids : StageOf(i)' = StageOf(i)
  BY <1>1, StageKept
<1>. QED
  BY <1>2 DEF Stages

\* Live rings are taken out of the table, and their records owed.
LEMMA StageTake ==
    ASSUME TypeOK, Ledger, NEW t \in Tasks, NEW K \in SUBSET Keys, \A k \in K : Live(k),
           owed[t] = {}, rings' = Removed(K), owed' = [owed EXCEPT ![t] = EntriesOf(K)],
           UNCHANGED <<calls, outcome>>
    PROVE  Promise!Next
<1>0. PICK S : S = {rings[k].id : k \in K}
  OBVIOUS
<1>1. /\ \A k \in K : rings'[k].id = 0
      /\ \A k \in Keys \ K : rings'[k] = rings[k]
  BY DEF Removed, NoRing
<1>2. /\ owed'[t] = EntriesOf(K) /\ \A s \in Tasks \ {t} : owed'[s] = owed[s]
  BY DEF TypeOK
<1>3. ASSUME NEW i \in S
      PROVE  i \in Ids /\ StageOf(i) = "ringing" /\ StageOf(i)' = "owed"
  <2>1. PICK k \in K : rings[k].id = i
    BY <1>0, <1>3
  <2>2. i \in Ids /\ i # 0
    BY <2>1 DEF TypeOK, Ring, Ids, Live
  <2>3. outcome[i] = << >> /\ InTable(i)
    BY <2>1 DEF Ledger, RingInv, InTable
  <2>4. ASSUME NEW l \in Keys PROVE rings'[l].id # i
    BY <1>1, <2>1, <2>2 DEF Ledger, RingInv
  <2>5. [key |-> k, id |-> i] \in owed'[t]
    BY <1>2, <2>1 DEF EntriesOf
  <2>6. ~InTable(i)' /\ IsOwed(i)'
    BY <2>4, <2>5 DEF InTable, IsOwed
  <2>7. outcome'[i] = << >>
    BY <2>3
  <2>8. StageOf(i) = "ringing"
    BY <2>2, <2>3, StageFacts
  <2>9. StageOf(i)' = "owed"
    BY <2>6, <2>7 DEF StageOf
  <2>. QED
    BY <2>2, <2>8, <2>9
<1>4. ASSUME NEW i \in Ids, i \notin S
      PROVE  StageOf(i)' = StageOf(i)
  <2>0. i # 0
    BY DEF Ids
  <2>1. InTable(i)' <=> InTable(i)
    BY <1>0, <1>1, <1>4, <2>0 DEF InTable
  <2>2. ASSUME NEW e \in EntriesOf(K) PROVE e.id # i
    BY <1>0, <1>4 DEF EntriesOf
  <2>3. IsOwed(i)' <=> IsOwed(i)
    BY <1>2, <2>2 DEF IsOwed
  <2>. QED
    BY <2>1, <2>3, StageKept
<1>5. S \in SUBSET Ids /\ \A i \in S : StageOf(i) = "ringing"
  BY <1>3
<1>6. \A i \in Ids : StageOf(i)' = IF i \in S THEN "owed" ELSE StageOf(i)
  BY <1>3, <1>4
<1>7. Promise!GiveUp(S)
  <2>1. Promise!Move(S, "owed")
    BY <1>6, MoveIs
  <2>. QED
    BY <1>5, <2>1 DEF Promise!GiveUp
<1>. QED
  BY <1>5, <1>7 DEF Promise!Next

\* A task writes one of its records, or loses it.
LEMMA StageRecord ==
    ASSUME TypeOK, Ledger, NEW t \in Tasks, NEW e \in owed[t], NEW w \in {"missed", "lost"},
           outcome' = [outcome EXCEPT ![e.id] = Append(@, w)],
           owed' = [owed EXCEPT ![t] = @ \ {e}],
           UNCHANGED <<rings, calls>>
    PROVE  Promise!Next
<1>1. e.id \in Ids /\ outcome[e.id] = << >> /\ \A k \in Keys : rings[k].id # e.id
  BY DEF TypeOK, Entry, Ledger, OwedInv
<1>2. /\ outcome'[e.id] = Append(<< >>, w)
      /\ \A i \in Ids \ {e.id} : outcome'[i] = outcome[i]
  BY <1>1 DEF TypeOK
<1>3. owed'[t] = owed[t] \ {e} /\ \A s \in Tasks \ {t} : owed'[s] = owed[s]
  BY DEF TypeOK
<1>4. StageOf(e.id) = "owed"
  BY <1>1, StageFacts DEF InTable, IsOwed
<1>5. StageOf(e.id)' = w
  BY <1>1, <1>2 DEF StageOf
<1>6. ASSUME NEW i \in Ids, i # e.id
      PROVE  StageOf(i)' = StageOf(i)
  <2>1. InTable(i)' <=> InTable(i)
    BY DEF InTable
  <2>2. IsOwed(i)' <=> IsOwed(i)
    BY <1>3, <1>6 DEF IsOwed
  <2>. QED
    BY <1>2, <1>6, <2>1, <2>2, StageKept
<1>7. \A i \in Ids : StageOf(i)' = IF i \in {e.id} THEN w ELSE StageOf(i)
  BY <1>5, <1>6
<1>8. Promise!Record(e.id, w)
  <2>1. Promise!Move({e.id}, w)
    BY <1>7, MoveIs
  <2>. QED
    BY <1>1, <1>4, <2>1 DEF Promise!Record
<1>. QED
  BY <1>1, <1>8 DEF Promise!Next

\* A ring comes to an outcome on the spot.
LEMMA StageSettle ==
    ASSUME TypeOK, Ledger, NEW K \in SUBSET Keys, \A k \in K : Live(k), \A k, l \in K : k = l,
           NEW w \in {"answered", "cut"},
           rings' = Removed(K), outcome' = Settled(K, w), UNCHANGED <<owed, calls>>
    PROVE  Promise!Next \/ UNCHANGED Stages
<1>1. /\ \A k \in K : rings'[k].id = 0
      /\ \A k \in Keys \ K : rings'[k] = rings[k]
  BY DEF Removed, NoRing
<1>2. CASE K = {}
  <2>1. \A k \in Keys : rings'[k] = rings[k]
    BY <1>1, <1>2
  <2>2. outcome' = outcome
    BY <1>2 DEF Settled, TypeOK
  <2>. QED
    BY <2>1, <2>2, StageIdle
<1>3. ASSUME NEW k \in K
      PROVE  Promise!Next
  <2>0. PICK n : n = rings[k].id /\ K = {k}
    BY <1>3
  <2>1. n \in Ids /\ n # 0 /\ outcome[n] = << >> /\ InTable(n)
    BY <2>0 DEF TypeOK, Ring, Ids, Live, Ledger, RingInv, InTable
  <2>2. StageOf(n) = "ringing"
    BY <2>1, StageFacts
  <2>3. /\ outcome'[n] = Append(<< >>, w)
        /\ \A i \in Ids \ {n} : outcome'[i] = outcome[i]
    BY <2>0, <2>1 DEF Settled
  <2>4. StageOf(n)' = w
    BY <2>1, <2>3 DEF StageOf
  <2>5. ASSUME NEW i \in Ids, i # n
        PROVE  StageOf(i)' = StageOf(i)
    <3>0. i # 0
      BY DEF Ids
    <3>1. InTable(i)' <=> InTable(i)
      BY <1>1, <2>0, <2>5, <3>0 DEF InTable
    <3>2. IsOwed(i)' <=> IsOwed(i)
      BY DEF IsOwed
    <3>. QED
      BY <2>3, <2>5, <3>1, <3>2, StageKept
  <2>6. \A i \in Ids : StageOf(i)' = IF i \in {n} THEN w ELSE StageOf(i)
    BY <2>4, <2>5
  <2>7. Promise!Decide(n, w)
    <3>1. Promise!Move({n}, w)
      BY <2>6, MoveIs
    <3>. QED
      BY <2>1, <2>2, <3>1 DEF Promise!Decide
  <2>. QED
    BY <2>1, <2>7 DEF Promise!Next
<1>. QED
  BY <1>2, <1>3

\* The calls up to the counter are those that have left the first stage.
LEMMA StageNew ==
    ASSUME TypeOK, Ledger, NEW i \in Ids
    PROVE  (StageOf(i) = "new") <=> i > calls
<1>1. CASE i > calls
  <2>1. outcome[i] = << >>
    BY <1>1 DEF Ledger, FreshInv
  <2>2. ~InTable(i)
    <3> SUFFICES ASSUME NEW k \in Keys, rings[k].id = i PROVE FALSE
      BY DEF InTable
    <3>1. Live(k)
      BY DEF Live, Ids
    <3>. QED
      BY <1>1, <3>1 DEF Ledger, RingInv, TypeOK, Ids
  <2>3. ~IsOwed(i)
    BY <1>1 DEF IsOwed, Ledger, OwedInv, TypeOK, Ids
  <2>. QED
    BY <1>1, <2>1, <2>2, <2>3, StageFacts
<1>2. CASE ~(i > calls)
  <2>1. i \in 1 .. calls
    BY <1>2 DEF TypeOK, Ids
  <2>2. outcome[i] # << >> \/ InTable(i) \/ IsOwed(i)
    BY <2>1 DEF Ledger, NoCallForgotten, InTable, IsOwed
  <2>3. outcome[i] # << >> => StageOf(i) # "new"
    <3> SUFFICES ASSUME outcome[i] # << >> PROVE StageOf(i) # "new"
      OBVIOUS
    <3>1. outcome[i] \in Seq({"answered", "missed", "cut", "lost"})
      BY DEF TypeOK
    <3>2. outcome[i][Len(outcome[i])] \in {"answered", "missed", "cut", "lost"}
      BY <3>1
    <3>. QED
      BY <3>2 DEF StageOf
  <2>. QED
    BY <1>2, <2>2, <2>3, StageFacts
<1>. QED
  BY <1>1, <1>2

\* A call is numbered: it begins to ring, or its record is owed at once.
LEMMA StageBegin ==
    ASSUME TypeOK, Ledger, NEW n, n = calls + 1, calls < MaxCalls, outcome' = outcome,
           NEW s \in {"ringing", "owed"},
           \A i \in Ids \ {n} : (InTable(i)' <=> InTable(i)) /\ (IsOwed(i)' <=> IsOwed(i)),
           s = "ringing" => InTable(n)',
           s = "owed" => ~InTable(n)' /\ IsOwed(n)'
    PROVE  Promise!Next
<1>1. n \in Ids /\ calls \in Nat
  BY CallsConstants DEF TypeOK, Ids
<1>2. StageOf(n) = "new" /\ \A j \in Ids : j < n => StageOf(j) # "new"
  BY <1>1, StageNew DEF Ids
<1>3. outcome[n] = << >>
  BY <1>1 DEF Ledger, FreshInv
<1>4. StageOf(n)' = s
  BY <1>3 DEF StageOf
<1>5. \A i \in Ids \ {n} : StageOf(i)' = StageOf(i)
  BY StageKept
<1>6. \A i \in Ids : StageOf(i)' = IF i \in {n} THEN s ELSE StageOf(i)
  BY <1>4, <1>5
<1>7. Promise!Begin(n, s)
  <2>1. Promise!Move({n}, s)
    BY <1>6, MoveIs
  <2>. QED
    BY <1>1, <1>2, <2>1 DEF Promise!Begin
<1>. QED
  BY <1>1, <1>7 DEF Promise!Next

\* record_missed_call, or the loss of its record, is the last stage of a call.
LEMMA StageMissed ==
    ASSUME TypeOK, Ledger, NEW t \in Tasks, NEW e \in owed[t], RecordMissed(e),
           owed' = [owed EXCEPT ![t] = @ \ {e}], UNCHANGED <<rings, calls>>
    PROVE  Promise!Next
<1>1. PICK w \in {"missed", "lost"} : outcome' = [outcome EXCEPT ![e.id] = Append(@, w)]
  BY DEF RecordMissed
<1>. QED
  BY <1>1, StageRecord

\* The frame handlers take a call from stage to stage.
LEMMA HandlerStages ==
    ASSUME IInv, NEW d \in Devices, HandlerStep(d)
    PROVE  Promise!Next \/ UNCHANGED Stages
<1> USE TaskTypes DEF IInv
<1>1. CASE SignalRoute(d) \/ PushAccepted(d) \/ PushRefused(d) \/ SignalReachable(d)
  BY <1>1, StageIdle DEF SignalRoute, PushAccepted, PushRefused, SignalReachable
<1>2. CASE SignalVoice(d) \/ RelayInvite(d) \/ AbortPush(d)
  BY <1>2, StageIdle DEF SignalVoice, RelayInvite, AbortPush
<1>3. CASE SignalUnreachable(d)
  <2>1. PICK n : n = calls + 1
    OBVIOUS
  <2>2. n \in Ids /\ calls < MaxCalls /\ rings' = rings /\ outcome' = outcome
    BY <1>3, <2>1, CallsConstants DEF SignalUnreachable, TypeOK, Ids
  <2>3. PICK e : e.id = n /\ owed' = [owed EXCEPT ![Handler(d)] = {e}]
    BY <1>3, <2>1 DEF SignalUnreachable
  <2>4. owed[Handler(d)] = {}
    BY <1>3 DEF SignalUnreachable, TaskInv
  <2>5. owed'[Handler(d)] = {e} /\ \A s \in Tasks \ {Handler(d)} : owed'[s] = owed[s]
    BY <2>3 DEF TypeOK
  <2>6. IsOwed(n)' /\ \A i \in Ids \ {n} : IsOwed(i)' <=> IsOwed(i)
    BY <2>3, <2>4, <2>5 DEF IsOwed
  <2>7. \A i : InTable(i)' <=> InTable(i)
    BY <2>2 DEF InTable
  <2>8. ~InTable(n)
    BY <2>1, <2>2 DEF InTable, Ledger, RingInv, Live, TypeOK, Ids
  <2>. QED
    BY <2>1, <2>2, <2>6, <2>7, <2>8, StageBegin
<1>4. CASE RingStart(d)
  <2> DEFINE k == <<UserOf[d], hand[d].to>>
  <2>1. k \in Keys
    BY <1>4, PeerTypes DEF RingStart
  <2>2. CASE Live(k)
    BY <1>4, <2>2, StageIdle DEF RingStart, Start
  <2>3. CASE ~Live(k)
    <3>1. PICK n, l : n = calls + 1 /\ l = k /\ l \in Keys
      BY <2>1
    <3>2. n \in Ids /\ calls < MaxCalls /\ owed' = owed /\ outcome' = outcome
      BY <1>4, <2>3, <3>1, CallsConstants DEF RingStart, TypeOK, Ids
    <3>3. rings' = [rings EXCEPT ![l] = [id |-> n, age |-> 0]]
      BY <1>4, <2>3, <3>1 DEF RingStart, Start
    <3>4. rings'[l].id = n /\ \A m \in Keys \ {l} : rings'[m] = rings[m]
      BY <3>1, <3>3 DEF TypeOK
    <3>5. InTable(n)'
      BY <3>1, <3>4 DEF InTable
    <3>6. \A i \in Ids \ {n} : InTable(i)' <=> InTable(i)
      <4>1. rings[l].id = 0
        BY <2>3, <3>1 DEF Live
      <4>2. \A i \in Ids : i # 0
        BY DEF Ids
      <4>. QED
        BY <3>1, <3>4, <4>1, <4>2 DEF InTable
    <3>7. \A i : IsOwed(i)' <=> IsOwed(i)
      BY <3>2 DEF IsOwed
    <3>. QED
      BY <3>1, <3>2, <3>5, <3>6, <3>7, StageBegin
  <2>. QED
    BY <2>2, <2>3
<1>5. CASE RingAnswered(d)
  <2> DEFINE K == {k \in {<<hand[d].to, UserOf[d]>>} : Live(k)}
  <2>1. K \in SUBSET Keys /\ (\A k \in K : Live(k)) /\ \A k, l \in K : k = l
    BY <1>5, PeerTypes DEF RingAnswered
  <2>2. rings' = Removed(K) /\ outcome' = Settled(K, "answered") /\ UNCHANGED <<owed, calls>>
    BY <1>5 DEF RingAnswered
  <2> HIDE DEF K
  <2>. QED
    BY <2>1, <2>2, StageSettle
<1>6. CASE RingEnded(d)
  <2> DEFINE K == EndedEitherWay(UserOf[d], hand[d].to)
  <2>1. K \in SUBSET Keys /\ \A k \in K : Live(k)
    BY <1>6, KeysRemoved, PeerTypes DEF RingEnded
  <2>2. owed[Handler(d)] = {}
    BY <1>6 DEF RingEnded, TaskInv
  <2>3. /\ rings' = Removed(K) /\ owed' = [owed EXCEPT ![Handler(d)] = EntriesOf(K)]
        /\ UNCHANGED <<calls, outcome>>
    BY <1>6 DEF RingEnded
  <2> HIDE DEF K
  <2>. QED
    BY <2>1, <2>2, <2>3, StageTake
<1>7. ASSUME NEW e \in owed[Handler(d)], SignalRecord(d, e)
      PROVE  Promise!Next
  BY <1>7, StageMissed DEF SignalRecord
<1>8. ASSUME NEW e \in owed[Handler(d)], AbortRecord(d, e)
      PROVE  Promise!Next
  BY <1>8, StageRecord DEF AbortRecord
<1>. QED
  BY <1>1, <1>2, <1>3, <1>4, <1>5, <1>6, <1>7, <1>8 DEF HandlerStep

\* The socket tasks take a call from stage to stage.
LEMMA SocketStages ==
    ASSUME IInv, NEW d \in Devices, SocketStep(d)
    PROVE  Promise!Next \/ UNCHANGED Stages
<1> USE TaskTypes DEF IInv
<1>1. CASE ReplaySnapshot(d) \/ LeaveVoice(d)
  BY <1>1, StageIdle DEF ReplaySnapshot, LeaveVoice
<1>2. ASSUME NEW e \in sock[d].todo, ReplayInvite(d, e)
      PROVE  UNCHANGED Stages
  BY <1>2, StageIdle DEF ReplayInvite
<1>3. CASE LeaveRings(d)
  <2> DEFINE K == DropFor(UserOf[d])
  <2>1. K \in SUBSET Keys /\ \A k \in K : Live(k)
    BY KeysRemoved
  <2>2. owed[Socket(d)] = {}
    BY <1>3 DEF LeaveRings, TaskInv
  <2>3. /\ rings' = Removed(K) /\ owed' = [owed EXCEPT ![Socket(d)] = EntriesOf(K)]
        /\ UNCHANGED <<calls, outcome>>
    BY <1>3 DEF LeaveRings
  <2> HIDE DEF K
  <2>. QED
    BY <2>1, <2>2, <2>3, StageTake
<1>4. ASSUME NEW e \in owed[Socket(d)], LeaveRecord(d, e)
      PROVE  Promise!Next
  BY <1>4, StageMissed DEF LeaveRecord
<1>. QED
  BY <1>1, <1>2, <1>3, <1>4 DEF SocketStep

\* So do the sweeper, the block handlers, the clients and the clock.
LEMMA OtherStages ==
    ASSUME IInv,
           \/ SweeperStep \/ Tick \/ ClientStep
           \/ \E u \in Users : BlockVoice(u) \/ BlockRing(u)
    PROVE  Promise!Next \/ UNCHANGED Stages
<1> USE TaskTypes DEF IInv
<1>1. CASE SweepCollect
  BY <1>1, KeysRemoved, StageTake DEF SweepCollect
<1>2. ASSUME NEW e \in owed[Sweeper], SweepClose(e)
      PROVE  UNCHANGED Stages
  BY <1>2, StageIdle DEF SweepClose
<1>3. ASSUME NEW e \in owed[Sweeper], SweepRecord(e)
      PROVE  Promise!Next
  BY <1>3, StageMissed DEF SweepRecord
<1>4. CASE Tick
  <2>1. \A k \in Keys : rings'[k].id = rings[k].id
    <3> SUFFICES ASSUME NEW k \in Keys PROVE rings'[k].id = rings[k].id
      OBVIOUS
    <3>1. rings[k] \in Ring
      BY DEF TypeOK
    <3>. QED
      BY <1>4, <3>1 DEF Tick, Ring
  <2>. QED
    BY <1>4, <2>1, StageIdle DEF Tick
<1>5. CASE ClientStep
  BY <1>5, StageIdle DEF ClientStep, Connect, Disconnect, Signal, BlockInsert, Unblock
<1>6. ASSUME NEW u \in Users, BlockVoice(u)
      PROVE  UNCHANGED Stages
  BY <1>6, StageIdle DEF BlockVoice
<1>7. ASSUME NEW u \in Users, BlockRing(u)
      PROVE  Promise!Next \/ UNCHANGED Stages
  <2> DEFINE K == EndedEitherWay(u, blk[u].to)
  <2>1. blk[u].to \in Users /\ blk[u].to # u
    BY <1>7 DEF BlockRing, TaskInv
  <2>2. K \in SUBSET Keys /\ (\A k \in K : Live(k)) /\ \A k, l \in K : k = l
    BY <2>1, KeysRemoved DEF EndedEitherWay
  <2>3. rings' = Removed(K) /\ outcome' = Settled(K, "cut") /\ UNCHANGED <<owed, calls>>
    BY <1>7 DEF BlockRing
  <2> HIDE DEF K
  <2>. QED
    BY <2>2, <2>3, StageSettle
<1>. QED
  BY <1>1, <1>2, <1>3, <1>4, <1>5, <1>6, <1>7 DEF SweeperStep

\* The hub and its tasks implement CallOutcomes: however their steps interleave, a
\* call is numbered after the earlier ones, rings at most once, and what ends its
\* ringing decides between an answer, a cut and a record that is owed exactly once.
THEOREM Refinement == Spec => ImplementsOutcomes
<1>1. Init => Promise!Init
  <2> SUFFICES ASSUME Init PROVE \A i \in Ids : StageOf(i) = "new"
    BY DEF Promise!Init
  <2>1. \A i \in Ids : outcome[i] = << >> /\ ~InTable(i) /\ ~IsOwed(i)
    BY DEF Init, InTable, IsOwed, NoRing, Ids
  <2>. QED
    BY <2>1, StageFacts
<1>2. IInv /\ [Next]_vars => Promise!Next \/ UNCHANGED Stages
  <2> SUFFICES ASSUME IInv, [Next]_vars PROVE Promise!Next \/ UNCHANGED Stages
    OBVIOUS
  <2>1. CASE UNCHANGED vars
    BY <2>1, StageIdle DEF vars
  <2>2. CASE Next
    BY <2>2, HandlerStages, SocketStages, OtherStages DEF Next
  <2>. QED
    BY <2>1, <2>2
<1>3. IInv /\ [Next]_vars => [Promise!Next]_Stages
  BY <1>2
<1>. QED
  BY <1>1, <1>3, Invariance, PTL DEF Spec, ImplementsOutcomes, Promise!Spec, Stages

=============================================================================
