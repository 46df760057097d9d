------------------------------ MODULE Presence ------------------------------
(***************************************************************************)
(* The presence of one account: its sockets on several instances           *)
(* (social_socket), the presence row all instances share, the online key   *)
(* in Redis (fanout.rs) and what its friends were last told.               *)
(*                                                                         *)
(* Setting and clearing the key are spawned tasks that run in any order.   *)
(* Time enters as the key's TTL and the row's PRESENCE_STALE_SECS running  *)
(* out.  A crash of an instance takes its sockets and tasks with it.       *)
(* External: a served client pings often enough to keep the key.           *)
(***************************************************************************)
EXTENDS Naturals, FiniteSets

CONSTANTS
    Conns,       \* connections the account can have at once
    Servers,     \* server processes
    MaxConnects, \* bound on connects, for model checking
    MaxFrames    \* bound on presence frames, for model checking

ASSUME PresenceConstants == MaxConnects \in Nat /\ MaxFrames \in Nat /\ Servers # {}

VARIABLES
    soc,      \* social_socket of each connection
    row,      \* social_presence: the state, and whether it has gone stale
    key,      \* does social:online:<user> exist?
    tasks,    \* spawned SETEX and DEL of the key, by the connection that spawned them
    friends,  \* the state friends were last pushed
    connects, \* connects so far
    frames,   \* presence frames so far
    skipped   \* history: has a write failed, or an instance crashed with the row set?

presenceVars == <<soc, row, key, tasks, friends, connects, frames, skipped>>

States == {"online", "invisible", "offline"}
Off == [pc |-> "off", phase |-> "in", at |-> CHOOSE i \in Servers : TRUE,
        val |-> "offline", last |-> FALSE]

\* Types, and friends are never told of an invisible state.
PresenceTypeOK ==
    /\ soc \in [Conns -> [pc : {"off", "hello", "write", "read", "push", "devices", "serving"},
                          phase : {"in", "serve", "out"}, at : Servers, val : States,
                          last : BOOLEAN]]
    /\ row \in [state : States, stale : BOOLEAN]
    /\ key \in BOOLEAN
    /\ tasks \subseteq {"set", "del"} \X Conns
    /\ friends \in States \ {"invisible"}
    /\ connects \in 0 .. MaxConnects /\ frames \in 0 .. MaxFrames
    /\ skipped \in BOOLEAN

PresenceInit ==
    /\ soc = [s \in Conns |-> Off]
    /\ row = [state |-> "offline", stale |-> TRUE]
    /\ key = FALSE /\ tasks = {}
    /\ friends = "offline"
    /\ connects = 0 /\ frames = 0 /\ skipped = FALSE

-----------------------------------------------------------------------------
(* The hub, and what presence_of answers *)

Registered(s) == soc[s].pc # "off" /\ soc[s].phase # "out"
hub(i) == {s \in Conns : Registered(s) /\ soc[s].at = i}
presence_online(i) == hub(i) # {} \/ key

\* Faulty variant: an invisible state is reported as it is stored.
presence_unmasked(i) ==
    IF row.stale /\ ~presence_online(i) THEN "offline" ELSE row.state

presence_of(i) ==
    IF (row.stale /\ ~presence_online(i)) \/ row.state = "invisible" THEN "offline" ELSE row.state

Become(s, r) == soc' = [soc EXCEPT ![s] = r]
Goto(s, pc) == Become(s, [soc[s] EXCEPT !.pc = pc])
Counters == <<connects, frames>>

-----------------------------------------------------------------------------
(* social_socket: connect *)

\* register, and spawn fanout_set_online.
Connect(s, i) ==
    /\ soc[s].pc = "off" /\ connects < MaxConnects
    /\ Become(s, [Off EXCEPT !.pc = "hello", !.at = i])
    /\ tasks' = tasks \cup {<<"set", s>>}
    /\ connects' = connects + 1
    /\ UNCHANGED <<row, key, friends, frames, skipped>>

\* Unless another socket is registered here by now, go online and tell friends.
WasOnline(s) ==
    /\ soc[s].pc = "hello"
    /\ IF Cardinality(hub(soc[s].at)) > 1 THEN Goto(s, "devices")
       ELSE Become(s, [soc[s] EXCEPT !.pc = "write", !.val = "online"])
    /\ UNCHANGED <<row, key, tasks, friends, Counters, skipped>>

\* set_presence; a failure is ignored.
set_presence(s) ==
    /\ soc[s].pc = "write"
    /\ \/ row' = [state |-> soc[s].val, stale |-> FALSE] /\ UNCHANGED skipped
       \/ skipped' = TRUE /\ UNCHANGED row
    /\ Goto(s, "read")
    /\ UNCHANGED <<key, tasks, friends, Counters>>

\* push_presence_diff reads the state (another connection may have changed it) ...
ReadPresence(s) ==
    /\ soc[s].pc = "read"
    /\ Become(s, [soc[s] EXCEPT !.pc = "push", !.val = presence_of(soc[s].at)])
    /\ UNCHANGED <<row, key, tasks, friends, Counters, skipped>>

\* ... and pushes what it read to the friends.
PushPresence(s) ==
    /\ soc[s].pc = "push"
    /\ friends' = soc[s].val
    /\ \/ soc[s].phase = "in" /\ Goto(s, "devices")
       \/ soc[s].phase = "serve" /\ Goto(s, "serving")
       \/ soc[s].phase = "out" /\ Become(s, Off)
    /\ UNCHANGED <<row, key, tasks, Counters, skipped>>

-----------------------------------------------------------------------------
(* handle_ws_message: "ping" and "presence" *)

Ping(s) ==
    /\ soc[s].pc = "serving"
    /\ tasks' = tasks \cup {<<"set", s>>}
    /\ UNCHANGED <<soc, row, key, friends, Counters, skipped>>

PresenceFrame(s, v) ==
    /\ soc[s].pc = "serving" /\ frames < MaxFrames
    /\ Become(s, [soc[s] EXCEPT !.pc = "write", !.val = v])
    /\ frames' = frames + 1
    /\ UNCHANGED <<row, key, tasks, friends, connects, skipped>>

-----------------------------------------------------------------------------
(* social_socket: teardown *)

\* Faulty variant: unregister counts the sockets before it removes this one.
CloseMiscounted(s) ==
    /\ soc[s].phase = "serve"
    /\ Become(s, [soc[s] EXCEPT !.pc = "devices", !.phase = "out", !.last = hub(soc[s].at) = {}])
    /\ UNCHANGED <<row, key, tasks, friends, Counters, skipped>>

\* The socket closes while serving; a frame in hand is aborted.  unregister says
\* whether it was the last one of the account on this instance.
Close(s) ==
    /\ soc[s].phase = "serve"
    /\ Become(s, [soc[s] EXCEPT !.pc = "devices", !.phase = "out", !.last = hub(soc[s].at) = {s}])
    /\ UNCHANGED <<row, key, tasks, friends, Counters, skipped>>

\* push_device_list (the Devices module), then either serve, or leave.  The last
\* socket spawns fanout_clear_online, sets the row offline and tells the friends.
PushDevices(s) ==
    /\ soc[s].pc = "devices"
    /\ \/ /\ soc[s].phase = "in"
          /\ Become(s, [soc[s] EXCEPT !.pc = "serving", !.phase = "serve"])
          /\ UNCHANGED tasks
       \/ /\ soc[s].phase = "out" /\ soc[s].last
          /\ Become(s, [soc[s] EXCEPT !.pc = "write", !.val = "offline"])
          /\ tasks' = tasks \cup {<<"del", s>>}
       \/ /\ soc[s].phase = "out" /\ ~soc[s].last
          /\ Become(s, Off)
          /\ UNCHANGED tasks
    /\ UNCHANGED <<row, key, friends, Counters, skipped>>

-----------------------------------------------------------------------------
(* Spawned tasks, time and crashes *)

\* The SETEX or DEL, or its failure.
KeyTask(t) ==
    /\ t \in tasks
    /\ key' \in {key, t[1] = "set"}
    /\ tasks' = tasks \ {t}
    /\ UNCHANGED <<soc, row, friends, Counters, skipped>>

\* Faulty variant: the key is set without a TTL.
KeyNeverExpires ==
    /\ FALSE
    /\ UNCHANGED presenceVars

\* ONLINE_TTL_SECS run out: nobody is connected, so nobody pings.
KeyExpires ==
    /\ key /\ \A s \in Conns : ~Registered(s)
    /\ key' = FALSE
    /\ UNCHANGED <<soc, row, tasks, friends, Counters, skipped>>

RowStale ==
    /\ ~row.stale
    /\ row' = [row EXCEPT !.stale = TRUE]
    /\ UNCHANGED <<soc, key, tasks, friends, Counters, skipped>>

\* A process dies: no teardown, and its tasks are gone.
Crash(i) ==
    LET dead == {s \in Conns : soc[s].pc # "off" /\ soc[s].at = i} IN
    /\ dead # {}
    /\ soc' = [s \in Conns |-> IF s \in dead THEN Off ELSE soc[s]]
    /\ tasks' = {t \in tasks : t[2] \notin dead}
    /\ skipped' = TRUE
    /\ UNCHANGED <<row, key, friends, Counters>>

PresenceNext ==
    \/ \E s \in Conns :
         \/ \E i \in Servers : Connect(s, i)
         \/ \E v \in States : PresenceFrame(s, v)
         \/ WasOnline(s) \/ set_presence(s) \/ ReadPresence(s) \/ PushPresence(s)
         \/ Ping(s) \/ Close(s) \/ PushDevices(s)
    \/ \E t \in tasks : KeyTask(t)
    \/ KeyExpires \/ RowStale
    \/ \E i \in Servers : Crash(i)

PresenceSpec == PresenceInit /\ [][PresenceNext]_presenceVars

\* Handlers and tasks run on, and time passes; nobody has to connect, ping or leave.
PresenceFairness ==
    /\ \A s \in Conns :
         WF_presenceVars(WasOnline(s) \/ set_presence(s) \/ ReadPresence(s)
                           \/ PushPresence(s) \/ PushDevices(s))
    /\ WF_presenceVars(\E t \in tasks : KeyTask(t))
    /\ WF_presenceVars(KeyExpires)
    /\ WF_presenceVars(RowStale)

-----------------------------------------------------------------------------
(* Properties *)

Gone == \A s \in Conns : soc[s].pc = "off"

\* Once every connection has been torn down the shared row says offline, on however
\* many instances they were and in whatever order their handshakes and teardowns
\* wrote it (unless a write failed or an instance crashed).
GoneMeansOffline == Gone /\ ~skipped => row.state = "offline"

\* An account without connections comes to read as offline on every instance, or
\* connects again: also after a crash that left the row and the key behind.
GoneReadsOffline ==
    Gone ~> (~Gone \/ \A i \in Servers : presence_of(i) = "offline")

=============================================================================
