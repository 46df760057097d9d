-------------------------------- MODULE Calls --------------------------------
(***************************************************************************)
(* Voice and video calls (calls.rs and the hub in social_api.rs).  The hub *)
(* of one instance keeps three tables, each behind a mutex of its own: the *)
(* live sockets of every user, the rings that wait for an answer, and the  *)
(* pairs whose audio is relayed.  The tasks that share them are, for every *)
(* device, the socket task (connect, replay, teardown) and the handler of  *)
(* its voice_signal frames, the ring sweeper, and the block handler of     *)
(* each user.  The runtime is multi-threaded, so every lock and every      *)
(* database statement is one step and the tasks interleave between them.   *)
(*                                                                         *)
(* A call is an invite that started a ring or found nobody to ring; calls  *)
(* are numbered so that what became of each one can be told.  Who sends    *)
(* which frame when is up to the clients: a device may accept or end a     *)
(* call that was never offered to it.                                      *)
(***************************************************************************)
EXTENDS Integers, Sequences, FiniteSets

CONSTANTS
    Users,        \* accounts
    Devices,      \* machines; one has at most one socket at a time
    UserOf,       \* the account a device is signed in to
    Blockers,     \* the accounts that may block somebody
    Timeout,      \* RING_TIMEOUT_SECS, in clock ticks
    PushService,  \* push_service() is configured and phones have tokens
    Faults,       \* database statements may fail
    None,         \* an unset local
    MaxCalls      \* bound on the calls numbered, for model checking

ASSUME CallsConstants ==
    /\ UserOf \in [Devices -> Users]
    /\ Blockers \subseteq Users
    /\ Timeout \in Nat \ {0}
    /\ PushService \in BOOLEAN
    /\ Faults \in BOOLEAN
    /\ None \notin Users
    /\ MaxCalls \in Nat

VARIABLES
    sock,     \* the socket task of each device
    hand,     \* the frame handler of each device
    rings,    \* hub.rings: the call ringing for each (caller, callee), and its age
    voice,    \* hub.voice_pairs
    blocks,   \* rows <<blocker, blocked>> of social_blocks
    blk,      \* the block handler of each user
    owed,     \* calls a task took out of the ring table and has yet to record
    closed,   \* the sweeper's call whose voice pair it has just closed, or 0
    calls,    \* how many calls have been numbered
    offered,  \* history: <<d, i>> when device d was sent the invite of call i
    outcome   \* history: what became of each call, in order

vars == <<sock, hand, rings, voice, blocks, blk, owed, closed, calls, offered,
          outcome>>

hub == <<sock, rings, voice>>
blocking == <<blocks, blk>>
history == <<offered, outcome>>

Ids == 1..MaxCalls
Keys == {k \in Users \X Users : k[1] # k[2]}
Pair(a, b) == {a, b}
Pairs == {Pair(k[1], k[2]) : k \in Keys}

Ring == [id : 0..MaxCalls, age : 0..Timeout]
NoRing == [id |-> 0, age |-> 0]

\* A call taken out of the ring table.
Entry == [key : Keys, id : Ids]

Handler(d) == <<"handler", d>>
Socket(d) == <<"socket", d>>
Sweeper == <<"sweeper", None>>
Tasks == ({"handler", "socket"} \X Devices) \cup {Sweeper}

Kinds == {"invite", "quiet", "accept", "end"}
Idle == [pc |-> "idle", to |-> None, kind |-> "end"]
Off == [pc |-> "off", todo |-> {}]

SockPC == {"off", "notify", "replay", "up", "leave", "drop", "record"}
HandPC == {"idle", "route", "push", "retry", "voice", "ring", "relay", "record"}
BlkPC == {"idle", "voice", "ring"}

TypeOK ==
    /\ sock \in [Devices -> [pc : SockPC, todo : SUBSET Entry]]
    /\ hand \in [Devices -> [pc : HandPC, to : Users \cup {None}, kind : Kinds]]
    /\ rings \in [Keys -> Ring]
    /\ voice \in SUBSET Pairs
    /\ blocks \in SUBSET Keys
    /\ blk \in [Users -> [pc : BlkPC, to : Users \cup {None}]]
    /\ owed \in [Tasks -> SUBSET Entry]
    /\ closed \in 0..MaxCalls
    /\ calls \in 0..MaxCalls
    /\ offered \in SUBSET (Devices \X Ids)
    /\ outcome \in [Ids -> Seq({"answered", "missed", "cut", "lost"})]

Init ==
    /\ sock = [d \in Devices |-> Off]
    /\ hand = [d \in Devices |-> Idle]
    /\ rings = [k \in Keys |-> NoRing]
    /\ voice = {}
    /\ blocks = {}
    /\ blk = [u \in Users |-> [pc |-> "idle", to |-> None]]
    /\ owed = [t \in Tasks |-> {}]
    /\ closed = 0
    /\ calls = 0
    /\ offered = {}
    /\ outcome = [i \in Ids |-> << >>]

-----------------------------------------------------------------------------
(* The ring table (calls.rs) and the sockets of a user *)

Live(k) == rings[k].id # 0

\* Faulty variant: a repeated invite starts the window again.
StartAgain(k) ==
    [rings EXCEPT ![k] = [id |-> IF Live(k) THEN @.id ELSE calls + 1, age |-> 0]]

\* A repeated invite for a live pair keeps the ring and its start time.
Start(k) ==
    IF Live(k) THEN rings ELSE [rings EXCEPT ![k] = [id |-> calls + 1, age |-> 0]]

\* Faulty variant: the rings are looked up and left in place.
Kept(K) == rings

Removed(K) == [k \in Keys |-> IF k \in K THEN NoRing ELSE rings[k]]

EntriesOf(K) == {[key |-> k, id |-> rings[k].id] : k \in K}

\* Faulty variant: the second direction is not looked up.
EndedUnseen(a, b) == IF Live(<<a, b>>) THEN {<<a, b>>} ELSE {<<b, a>>}

\* An end names the peer and not the direction: the first that rings, if any.
EndedEitherWay(a, b) ==
    IF Live(<<a, b>>) THEN {<<a, b>>} ELSE {k \in {<<b, a>>} : Live(k)}

DropFor(u) == {k \in Keys : Live(k) /\ u \in {k[1], k[2]}}

\* Faulty variant: the calls that u makes, not the ones it gets.
OutgoingFor(u) == {k \in Keys : Live(k) /\ k[1] = u}

IncomingFor(u) == {k \in Keys : Live(k) /\ k[2] = u}

Expired == {k \in Keys : Live(k) /\ rings[k].age >= Timeout}

\* The sockets the hub has registered for u.
Registered(u) == {d \in Devices : UserOf[d] = u /\ sock[d].pc \in {"notify", "replay", "up"}}

IsOnline(u) == Registered(u) # {}

Blocked(a, b) == <<a, b>> \in blocks \/ <<b, a>> \in blocks

\* The histories once the rings of K have come to an outcome.
Settled(K, what) ==
    [i \in Ids |-> IF \E k \in K : rings[k].id = i THEN Append(outcome[i], what) ELSE outcome[i]]

\* record_missed_call for e: the INSERT, or its failure.
RecordMissed(e) ==
    \E what \in {"missed"} \cup (IF Faults THEN {"lost"} ELSE {}) :
        outcome' = [outcome EXCEPT ![e.id] = Append(@, what)]

-----------------------------------------------------------------------------
(* social_socket: connecting *)

\* register.  A device whose last handler has not wound up has not come back.
Connect(d) ==
    /\ sock[d] = Off
    /\ hand[d] = Idle
    /\ sock' = [sock EXCEPT ![d].pc = "notify"]
    /\ UNCHANGED <<hand, rings, voice, blocking, owed, closed, calls, history>>

\* rings_incoming, once the pending notifications have been awaited.  With
\* nothing to replay the socket is up (announcing presence changes no call).
ReplaySnapshot(d) ==
    LET E == EntriesOf(IncomingFor(UserOf[d])) IN
    /\ sock[d].pc = "notify"
    /\ sock' = [sock EXCEPT ![d] = [pc |-> IF E = {} THEN "up" ELSE "replay", todo |-> E]]
    /\ UNCHANGED <<hand, rings, voice, blocking, owed, closed, calls, history>>

\* One turn of the replay loop: allow_voice, and the invite to this socket.
ReplayInvite(d, e) ==
    LET E == sock[d].todo \ {e} IN
    /\ sock[d].pc = "replay"
    /\ e \in sock[d].todo
    /\ voice' = voice \cup {Pair(e.key[1], e.key[2])}
    /\ offered' = offered \cup {<<d, e.id>>}
    /\ sock' = [sock EXCEPT ![d] = [pc |-> IF E = {} THEN "up" ELSE "replay", todo |-> E]]
    /\ UNCHANGED <<hand, rings, blocking, owed, closed, calls, outcome>>

-----------------------------------------------------------------------------
(* social_socket: teardown *)

\* One pump ended: abort the other and unregister.  A socket that was not the
\* user's last has nothing more to do.
Disconnect(d) ==
    /\ sock[d].pc = "up"
    /\ sock' = [sock EXCEPT ![d].pc = IF Registered(UserOf[d]) = {d} THEN "leave" ELSE "off"]
    /\ offered' = {o \in offered : o[1] # d}
    /\ UNCHANGED <<hand, rings, voice, blocking, owed, closed, calls, outcome>>

\* drop_voice_for, after the await of push_device_list.
LeaveVoice(d) ==
    /\ sock[d].pc = "leave"
    /\ voice' = {p \in voice : UserOf[d] \notin p}
    /\ sock' = [sock EXCEPT ![d].pc = "drop"]
    /\ UNCHANGED <<hand, rings, blocking, owed, closed, calls, history>>

\* rings_for
LeaveRings(d) ==
    LET K == DropFor(UserOf[d]) IN
    /\ sock[d].pc = "drop"
    /\ rings' = Removed(K)
    /\ owed' = [owed EXCEPT ![Socket(d)] = EntriesOf(K)]
    /\ sock' = [sock EXCEPT ![d].pc = IF K = {} THEN "off" ELSE "record"]
    /\ UNCHANGED <<hand, voice, blocking, closed, calls, history>>

LeaveRecord(d, e) ==
    /\ sock[d].pc = "record"
    /\ e \in owed[Socket(d)]
    /\ RecordMissed(e)
    /\ owed' = [owed EXCEPT ![Socket(d)] = @ \ {e}]
    /\ sock' = [sock EXCEPT ![d].pc = IF owed[Socket(d)] = {e} THEN "off" ELSE "record"]
    /\ UNCHANGED <<hand, rings, voice, blocking, closed, calls, offered>>

-----------------------------------------------------------------------------
(* handle_ws_message: voice_signal *)

Goto(d, pc) == hand' = [hand EXCEPT ![d].pc = pc]
Return(d) == hand' = [hand EXCEPT ![d] = Idle]

\* A frame that block_pair and are_friends let through.  block_pair answers "no
\* block" when its statement fails.  Friendships come and go in handlers of their
\* own: a frame that are_friends turns away does nothing.
Signal(d, to, kind) ==
    /\ sock[d].pc = "up"
    /\ hand[d] = Idle
    /\ to # UserOf[d]
    /\ Blocked(UserOf[d], to) => Faults
    /\ hand' = [hand EXCEPT ![d] = [pc |-> IF kind = "invite" THEN "route" ELSE "voice",
                                    to |-> to, kind |-> kind]]
    /\ UNCHANGED <<hub, blocking, owed, closed, calls, history>>

\* The first is_online of an invite: nobody there, so try to wake the phone.
SignalRoute(d) ==
    /\ hand[d].pc = "route"
    /\ Goto(d, IF IsOnline(hand[d].to) THEN "retry" ELSE "push")
    /\ UNCHANGED <<hub, blocking, owed, closed, calls, history>>

\* push_call returns true: the ring will be left standing for the replay.
PushAccepted(d) ==
    /\ hand[d].pc = "push"
    /\ PushService
    /\ hand' = [hand EXCEPT ![d].pc = "voice", ![d].kind = "quiet"]
    /\ UNCHANGED <<hub, blocking, owed, closed, calls, history>>

PushRefused(d) ==
    /\ hand[d].pc = "push"
    /\ Goto(d, "retry")
    /\ UNCHANGED <<hub, blocking, owed, closed, calls, history>>

\* The second is_online finds a socket: the invite takes the normal path.
SignalReachable(d) ==
    /\ hand[d].pc = "retry"
    /\ IsOnline(hand[d].to)
    /\ Goto(d, "voice")
    /\ UNCHANGED <<hub, blocking, owed, closed, calls, history>>

\* ... or none: a call that never rings, with a record owed to the callee.
SignalUnreachable(d) ==
    /\ hand[d].pc = "retry"
    /\ ~IsOnline(hand[d].to)
    /\ calls < MaxCalls
    /\ calls' = calls + 1
    /\ owed' = [owed EXCEPT ![Handler(d)] =
                    {[key |-> <<UserOf[d], hand[d].to>>, id |-> calls + 1]}]
    /\ Goto(d, "record")
    /\ UNCHANGED <<hub, blocking, closed, history>>

\* allow_voice for an invite or accept, disallow_voice for an end.
SignalVoice(d) ==
    LET p == Pair(UserOf[d], hand[d].to) IN
    /\ hand[d].pc = "voice"
    /\ voice' = IF hand[d].kind = "end" THEN voice \ {p} ELSE voice \cup {p}
    /\ Goto(d, "ring")
    /\ UNCHANGED <<sock, rings, blocking, owed, closed, calls, history>>

\* ring_start.  An invite that woke a phone returns without relaying it.
RingStart(d) ==
    LET k == <<UserOf[d], hand[d].to>> IN
    /\ hand[d].pc = "ring"
    /\ hand[d].kind \in {"invite", "quiet"}
    /\ Live(k) \/ calls < MaxCalls
    /\ rings' = Start(k)
    /\ calls' = IF Live(k) THEN calls ELSE calls + 1
    /\ IF hand[d].kind = "quiet" THEN Return(d) ELSE Goto(d, "relay")
    /\ UNCHANGED <<sock, voice, blocking, owed, closed, history>>

\* The push of the invite to every socket of the callee.
RelayInvite(d) ==
    LET i == rings[<<UserOf[d], hand[d].to>>].id IN
    /\ hand[d].pc = "relay"
    /\ offered' = IF i = 0 THEN offered ELSE offered \cup (Registered(hand[d].to) \X {i})
    /\ Return(d)
    /\ UNCHANGED <<hub, blocking, owed, closed, calls, outcome>>

\* Faulty variant: an answered call is recorded as missed, like one that was ended.
RingAnsweredMissed(d) ==
    LET K == {k \in {<<hand[d].to, UserOf[d]>>} : Live(k)} IN
    /\ hand[d].pc = "ring"
    /\ hand[d].kind = "accept"
    /\ rings' = Removed(K)
    /\ outcome' = Settled(K, "answered")
    /\ owed' = [owed EXCEPT ![Handler(d)] = EntriesOf(K)]
    /\ IF K = {} THEN Return(d) ELSE Goto(d, "record")
    /\ UNCHANGED <<sock, voice, blocking, closed, calls, offered>>

\* ring_answered: the ring runs from the peer to the one who accepts.  With
\* nothing ringing only the voice pair has changed.
RingAnswered(d) ==
    LET K == {k \in {<<hand[d].to, UserOf[d]>>} : Live(k)} IN
    /\ hand[d].pc = "ring"
    /\ hand[d].kind = "accept"
    /\ rings' = Removed(K)
    /\ outcome' = Settled(K, "answered")
    /\ Return(d)
    /\ UNCHANGED <<sock, voice, blocking, owed, closed, calls, offered>>

\* ring_ended: a ring that was still live is a missed call.
RingEnded(d) ==
    LET K == EndedEitherWay(UserOf[d], hand[d].to) IN
    /\ hand[d].pc = "ring"
    /\ hand[d].kind = "end"
    /\ rings' = Removed(K)
    /\ owed' = [owed EXCEPT ![Handler(d)] = EntriesOf(K)]
    /\ IF K = {} THEN Return(d) ELSE Goto(d, "record")
    /\ UNCHANGED <<sock, voice, blocking, closed, calls, history>>

SignalRecord(d, e) ==
    /\ hand[d].pc = "record"
    /\ e \in owed[Handler(d)]
    /\ RecordMissed(e)
    /\ owed' = [owed EXCEPT ![Handler(d)] = @ \ {e}]
    /\ Return(d)
    /\ UNCHANGED <<hub, blocking, closed, calls, offered>>

\* recv_task.abort() of a closed socket drops the handler at its next await,
AbortPush(d) ==
    /\ sock[d].pc # "up"
    /\ hand[d].pc = "push"
    /\ Return(d)
    /\ UNCHANGED <<hub, blocking, owed, closed, calls, history>>

\* and with it the record it still owed.
AbortRecord(d, e) ==
    /\ sock[d].pc # "up"
    /\ hand[d].pc = "record"
    /\ e \in owed[Handler(d)]
    /\ outcome' = [outcome EXCEPT ![e.id] = Append(@, "lost")]
    /\ owed' = [owed EXCEPT ![Handler(d)] = @ \ {e}]
    /\ Return(d)
    /\ UNCHANGED <<hub, blocking, closed, calls, offered>>

-----------------------------------------------------------------------------
(* start_ring_sweeper *)

SweepCollect ==
    /\ owed[Sweeper] = {}
    /\ Expired # {}
    /\ rings' = Removed(Expired)
    /\ owed' = [owed EXCEPT ![Sweeper] = EntriesOf(Expired)]
    /\ UNCHANGED <<sock, hand, voice, blocking, closed, calls, history>>

\* disallow_voice, before the record of the same call.
SweepClose(e) ==
    /\ closed = 0
    /\ e \in owed[Sweeper]
    /\ voice' = voice \ {Pair(e.key[1], e.key[2])}
    /\ closed' = e.id
    /\ UNCHANGED <<sock, hand, rings, blocking, owed, calls, history>>

SweepRecord(e) ==
    /\ e \in owed[Sweeper]
    /\ e.id = closed
    /\ RecordMissed(e)
    /\ owed' = [owed EXCEPT ![Sweeper] = @ \ {e}]
    /\ closed' = 0
    /\ UNCHANGED <<hub, hand, blocking, calls, offered>>

\* Time passes for every live ring.
Tick ==
    /\ \E k \in Keys : Live(k) /\ rings[k].age < Timeout
    /\ rings' = [k \in Keys |-> IF Live(k) /\ rings[k].age < Timeout
                                  THEN [rings[k] EXCEPT !.age = @ + 1] ELSE rings[k]]
    /\ UNCHANGED <<sock, hand, voice, blocking, owed, closed, calls, history>>

-----------------------------------------------------------------------------
(* api_social_block *)

\* INSERT the block (after the DELETE of the friendship); if that fails the
\* handler returns an error and ends no call.
BlockInsert(u, v) ==
    /\ u \in Blockers
    /\ v # u
    /\ blk[u].pc = "idle"
    /\ blocks' = blocks \cup {<<u, v>>}
    /\ blk' = [blk EXCEPT ![u] = [pc |-> "voice", to |-> v]]
    /\ UNCHANGED <<hub, hand, owed, closed, calls, history>>

BlockVoice(u) ==
    /\ blk[u].pc = "voice"
    /\ voice' = voice \ {Pair(u, blk[u].to)}
    /\ blk' = [blk EXCEPT ![u].pc = "ring"]
    /\ UNCHANGED <<sock, hand, rings, blocks, owed, closed, calls, history>>

\* ring_ended, whose result is dropped: a call cut by a block is not recorded.
BlockRing(u) ==
    LET K == EndedEitherWay(u, blk[u].to) IN
    /\ blk[u].pc = "ring"
    /\ rings' = Removed(K)
    /\ outcome' = Settled(K, "cut")
    /\ blk' = [blk EXCEPT ![u] = [pc |-> "idle", to |-> None]]
    /\ UNCHANGED <<sock, hand, voice, blocks, owed, closed, calls, offered>>

Unblock(u, v) ==
    /\ blk[u].pc = "idle"
    /\ <<u, v>> \in blocks
    /\ blocks' = blocks \ {<<u, v>>}
    /\ UNCHANGED <<hub, hand, blk, owed, closed, calls, history>>

-----------------------------------------------------------------------------
\* The steps a started task is bound to take.
SocketStep(d) ==
    \/ ReplaySnapshot(d) \/ LeaveVoice(d) \/ LeaveRings(d)
    \/ \E e \in sock[d].todo : ReplayInvite(d, e)
    \/ \E e \in owed[Socket(d)] : LeaveRecord(d, e)

HandlerStep(d) ==
    \/ SignalRoute(d) \/ PushAccepted(d) \/ PushRefused(d)
    \/ SignalReachable(d) \/ SignalUnreachable(d) \/ SignalVoice(d)
    \/ RingStart(d) \/ RelayInvite(d) \/ RingAnswered(d) \/ RingEnded(d) \/ AbortPush(d)
    \/ \E e \in owed[Handler(d)] : SignalRecord(d, e) \/ AbortRecord(d, e)

SweeperStep ==
    \/ SweepCollect
    \/ \E e \in owed[Sweeper] : SweepClose(e) \/ SweepRecord(e)

\* The steps that clients take when they like.
ClientStep ==
    \/ \E d \in Devices : Connect(d) \/ Disconnect(d)
    \/ \E d \in Devices, to \in Users, kind \in {"invite", "accept", "end"} : Signal(d, to, kind)
    \/ \E u, v \in Users : BlockInsert(u, v) \/ Unblock(u, v)

Next ==
    \/ \E d \in Devices : SocketStep(d) \/ HandlerStep(d)
    \/ \E u \in Users : BlockVoice(u) \/ BlockRing(u)
    \/ SweeperStep
    \/ Tick
    \/ ClientStep

Spec == Init /\ [][Next]_vars

\* A runnable task is eventually run, a statement eventually ends or fails, and
\* time passes.  Nothing is assumed of the clients.
Fairness ==
    /\ \A d \in Devices : WF_vars(SocketStep(d)) /\ WF_vars(HandlerStep(d))
    /\ WF_vars(SweeperStep)
    /\ WF_vars(Tick)

FairSpec == Spec /\ Fairness

-----------------------------------------------------------------------------
(* Properties *)

\* Each call has one outcome: answered, recorded as missed once, cut by a block
\* or lost with a failing statement.  Accept, end, timeout, hang-up of either
\* side and teardown race for the ring, and only one of them may decide it.
OneOutcome ==
    \A i \in Ids : Len(outcome[i]) <= 1

\* No call falls between two tasks: until it has an outcome it rings, or exactly
\* the task that took it out of the table still owes its record.
NoCallForgotten ==
    \A i \in 1..calls :
        \/ outcome[i] # << >>
        \/ \E k \in Keys : rings[k].id = i
        \/ \E t \in Tasks : \E e \in owed[t] : e.id = i

\* The stage a call has come to, as CallOutcomes names it.
InTable(i) == \E k \in Keys : rings[k].id = i
IsOwed(i) == \E t \in Tasks : \E e \in owed[t] : e.id = i
StageOf(i) ==
    IF outcome[i] # << >> THEN outcome[i][Len(outcome[i])]
    ELSE IF InTable(i) THEN "ringing"
    ELSE IF IsOwed(i) THEN "owed"
    ELSE "new"

\* The hub, its tasks and their races implement the stages of a call: whatever ends a
\* ring twice, records a call that was answered or brings one back breaks a step.
Promise == INSTANCE CallOutcomes WITH stage <- [i \in Ids |-> StageOf(i)]
ImplementsOutcomes == Promise!Spec

\* No call rings for ever and no missed call is silently forgotten: whatever the
\* clients do or fail to do, every call comes to an outcome.
EveryCallResolves ==
    \A i \in Ids : calls >= i ~> outcome[i] # << >>

\* A socket that is up has been sent the invite of every call that rings its
\* user, however its connecting raced with the caller's invite (unless that
\* invite is being relayed this moment).
InviteReachesSockets ==
    \A k \in Keys, d \in Devices :
        (Live(k) /\ UserOf[d] = k[2] /\ sock[d].pc = "up") =>
            \/ <<d, rings[k].id>> \in offered
            \/ \E c \in Devices : UserOf[c] = k[1] /\ hand[c].pc = "relay" /\ hand[c].to = k[2]

\* The block handler's last step leaves nothing ringing between the two, in
\* either direction.
BlockEndsRinging ==
    [][\A u, v \in Users :
        (blk[u] = [pc |-> "ring", to |-> v] /\ blk'[u].pc = "idle") =>
            ~Live(<<u, v>>)' /\ ~Live(<<v, u>>)']_vars
=============================================================================
