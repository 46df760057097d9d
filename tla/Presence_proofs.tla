--------------------------- MODULE Presence_proofs ---------------------------
(***************************************************************************)
(* Proofs about Presence, for any connections and server processes: its    *)
(* types, that friends are never told of an invisible state, and that the  *)
(* shared presence row says offline once every connection has been torn    *)
(* down; the types of Devices; and that a behaviour of MCPresence is one   *)
(* of both.                                                                *)
(***************************************************************************)
EXTENDS MCPresence, TLAPS

-----------------------------------------------------------------------------
(* Presence: types *)

SocType == [pc : {"off", "hello", "write", "read", "push", "devices", "serving"},
            phase : {"in", "serve", "out"}, at : Servers, val : States, last : BOOLEAN]

\* What a socket is about to push was read through presence_of; a socket that leaves
\* writes nothing but offline.
Sober(x) ==
    /\ x.pc = "push" => x.val # "invisible"
    /\ x.pc = "write" /\ x.phase = "out" => x.val = "offline"
    /\ x.pc \in {"off", "hello"} => x.phase = "in"
    /\ x.pc = "serving" => x.phase = "serve"

PresenceInv == PresenceTypeOK /\ \A s \in Conns : Sober(soc[s])

\* A connection that is not there.
LEMMA OffIsSober == Off \in SocType /\ Off.pc = "off" /\ Sober(Off)
    BY PresenceConstants DEF Off, SocType, States, Sober

\* A step that moves one connection, and leaves the rest well typed.
LEMMA OneMoves ==
    ASSUME PresenceInv, NEW s \in Conns, NEW x \in SocType, Sober(x), Become(s, x),
           row' \in [state : States, stale : BOOLEAN], key' \in BOOLEAN,
           tasks' \subseteq {"set", "del"} \X Conns, friends' \in States \ {"invisible"},
           connects' \in 0 .. MaxConnects, frames' \in 0 .. MaxFrames, skipped' \in BOOLEAN
    PROVE  PresenceInv'
<1>1. soc \in [Conns -> SocType] /\ soc' = [soc EXCEPT ![s] = x]
    BY DEF PresenceInv, PresenceTypeOK, SocType, Become
<1>2. soc' \in [Conns -> SocType] /\ \A c \in Conns : Sober(soc'[c])
    BY <1>1 DEF PresenceInv
<1>. QED  BY <1>2 DEF PresenceInv, PresenceTypeOK, SocType

\* The moves of one connection.
LEMMA ConnectionSteps ==
    ASSUME PresenceInv, NEW s \in Conns,
           \/ \E i \in Servers : Connect(s, i)
           \/ \E v \in States : PresenceFrame(s, v)
           \/ WasOnline(s) \/ set_presence(s) \/ ReadPresence(s) \/ PushPresence(s)
           \/ Ping(s) \/ Close(s) \/ PushDevices(s)
    PROVE  PresenceInv'
<1>0. soc[s] \in SocType /\ Sober(soc[s])
    BY DEF PresenceInv, PresenceTypeOK, SocType
<1>1. /\ row \in [state : States, stale : BOOLEAN] /\ key \in BOOLEAN
      /\ tasks \subseteq {"set", "del"} \X Conns /\ friends \in States \ {"invisible"}
      /\ skipped \in BOOLEAN
    BY DEF PresenceInv, PresenceTypeOK
<1>2. connects \in 0 .. MaxConnects /\ frames \in 0 .. MaxFrames
    BY DEF PresenceInv, PresenceTypeOK
<1>3. \A c : <<c, s>> \in {"set", "del"} \X Conns <=> c \in {"set", "del"}
    OBVIOUS
<1>4. Off \in SocType /\ Off.pc = "off" /\ Sober(Off)
    BY OffIsSober
<1>5. ASSUME NEW pc \in {"read", "devices", "serving"}, pc = "serving" => soc[s].phase = "serve"
      PROVE  [soc[s] EXCEPT !.pc = pc] \in SocType /\ Sober([soc[s] EXCEPT !.pc = pc])
    BY <1>0, <1>5 DEF SocType, Sober
<1>6. ASSUME NEW i \in Servers, Connect(s, i)
      PROVE  PresenceInv'
    <2>. DEFINE x == [Off EXCEPT !.pc = "hello", !.at = i]
    <2>1. x \in SocType /\ Sober(x)
        BY <1>4 DEF SocType, Sober
    <2>2. Become(s, x) /\ UNCHANGED <<row, key, friends, frames, skipped>> /\ tasks' = tasks \cup {<<"set", s>>}
        BY <1>6 DEF Connect
    <2>. HIDE DEF x
    <2>3. connects' = connects + 1 /\ connects < MaxConnects
        BY <1>6 DEF Connect
    <2>4. connects' \in 0 .. MaxConnects
        BY <1>2, <2>3, PresenceConstants
    <2>5. tasks' \subseteq {"set", "del"} \X Conns
        BY <1>1, <1>3, <2>2
    <2>. QED  BY <1>1, <1>2, <2>1, <2>2, <2>4, <2>5, OneMoves
<1>7. ASSUME NEW v \in States, PresenceFrame(s, v)
      PROVE  PresenceInv'
    <2>. DEFINE x == [soc[s] EXCEPT !.pc = "write", !.val = v]
    <2>1. soc[s].phase = "serve"
        BY <1>0, <1>7 DEF PresenceFrame, Sober
    <2>2. x \in SocType /\ Sober(x)
        BY <1>0, <2>1 DEF SocType, Sober
    <2>3. Become(s, x) /\ UNCHANGED <<row, key, tasks, friends, connects, skipped>>
        BY <1>7 DEF PresenceFrame
    <2>. HIDE DEF x
    <2>4. frames' = frames + 1 /\ frames < MaxFrames
        BY <1>7 DEF PresenceFrame
    <2>5. frames' \in 0 .. MaxFrames
        BY <1>2, <2>4, PresenceConstants
    <2>. QED  BY <1>1, <1>2, <2>2, <2>3, <2>5, OneMoves
<1>8. CASE WasOnline(s)
    <2>. DEFINE x == [soc[s] EXCEPT !.pc = "write", !.val = "online"]
    <2>1. soc[s].pc = "hello" /\ UNCHANGED <<row, key, tasks, friends, connects, frames, skipped>>
        BY <1>8 DEF WasOnline, Counters
    <2>2. x \in SocType /\ Sober(x)
        BY <1>0, <2>1 DEF SocType, Sober, States
    <2>3. Become(s, x) \/ Become(s, [soc[s] EXCEPT !.pc = "devices"])
        BY <1>8 DEF WasOnline, Goto
    <2>. HIDE DEF x
    <2>. QED  BY <1>1, <1>2, <1>5, <2>1, <2>2, <2>3, OneMoves
<1>9. CASE set_presence(s)
    <2>1. /\ Become(s, [soc[s] EXCEPT !.pc = "read"]) /\ UNCHANGED <<key, tasks, friends, connects, frames>>
          /\ row' = [state |-> soc[s].val, stale |-> FALSE] \/ row' = row
          /\ skipped' \in {skipped, TRUE}
        BY <1>9 DEF set_presence, Goto, Counters
    <2>2. row' \in [state : States, stale : BOOLEAN]
        <3>1. soc[s].val \in States
            BY <1>0 DEF SocType
        <3>2. [state |-> soc[s].val, stale |-> FALSE] \in [state : States, stale : BOOLEAN]
            BY <3>1
        <3>. QED  BY <1>1, <2>1, <3>2
    <2>. QED  BY <1>1, <1>2, <1>5, <2>1, <2>2, OneMoves
<1>10. CASE ReadPresence(s)
    <2>. DEFINE x == [soc[s] EXCEPT !.pc = "push", !.val = presence_of(soc[s].at)]
    <2>1. Become(s, x) /\ UNCHANGED <<row, key, tasks, friends, connects, frames, skipped>>
        BY <1>10 DEF ReadPresence, Counters
    <2>2. presence_of(soc[s].at) \in States \ {"invisible"}
        BY <1>1 DEF presence_of, States
    <2>3. x \in SocType /\ x.pc = "push" /\ x.val = presence_of(soc[s].at)
        BY <1>0, <2>2 DEF SocType
    <2>. HIDE DEF x
    <2>4. Sober(x)
        BY <2>2, <2>3 DEF Sober
    <2>. QED  BY <1>1, <1>2, <2>1, <2>3, <2>4, OneMoves
<1>11. CASE PushPresence(s)
    <2>1. /\ soc[s].pc = "push" /\ friends' = soc[s].val
          /\ UNCHANGED <<row, key, tasks, connects, frames, skipped>>
        BY <1>11 DEF PushPresence, Counters
    <2>2. friends' \in States \ {"invisible"}
        BY <1>0, <2>1 DEF SocType, Sober
    <2>3. \/ Become(s, [soc[s] EXCEPT !.pc = "devices"])
          \/ soc[s].phase = "serve" /\ Become(s, [soc[s] EXCEPT !.pc = "serving"])
          \/ Become(s, Off)
        BY <1>11 DEF PushPresence, Goto
    <2>. QED  BY <1>1, <1>2, <1>4, <1>5, <2>1, <2>2, <2>3, OneMoves
<1>12. CASE Ping(s)
    <2>1. UNCHANGED <<soc, row, key, friends, connects, frames, skipped>> /\ tasks' = tasks \cup {<<"set", s>>}
        BY <1>12 DEF Ping, Counters
    <2>2. tasks' \subseteq {"set", "del"} \X Conns
        BY <1>1, <1>3, <2>1
    <2>. QED  BY <2>1, <2>2 DEF PresenceInv, PresenceTypeOK
<1>13. CASE Close(s)
    <2>. DEFINE last == hub(soc[s].at) = {s}
                x == [soc[s] EXCEPT !.pc = "devices", !.phase = "out", !.last = last]
    <2>1. Become(s, x) /\ UNCHANGED <<row, key, tasks, friends, connects, frames, skipped>>
        BY <1>13 DEF Close, Counters
    <2>2. last \in BOOLEAN
        OBVIOUS
    <2>. HIDE DEF last
    <2>3. x \in SocType /\ Sober(x)
        BY <1>0, <2>2 DEF SocType, Sober
    <2>. HIDE DEF x
    <2>. QED  BY <1>1, <1>2, <2>1, <2>3, OneMoves
<1>14. CASE PushDevices(s)
    <2>. DEFINE x == [soc[s] EXCEPT !.pc = "serving", !.phase = "serve"]
                y == [soc[s] EXCEPT !.pc = "write", !.val = "offline"]
    <2>1. /\ soc[s].pc = "devices" /\ UNCHANGED <<row, key, friends, connects, frames, skipped>>
          /\ Become(s, x) \/ Become(s, y) \/ Become(s, Off)
          /\ tasks' = tasks \/ tasks' = tasks \cup {<<"del", s>>}
        BY <1>14 DEF PushDevices, Counters
    <2>2. x \in SocType /\ Sober(x) /\ y \in SocType /\ Sober(y)
        BY <1>0 DEF SocType, Sober, States
    <2>. HIDE DEF x, y
    <2>3. tasks' \subseteq {"set", "del"} \X Conns
        BY <1>1, <1>3, <2>1
    <2>. QED  BY <1>1, <1>2, <1>4, <2>1, <2>2, <2>3, OneMoves
<1>. QED  BY <1>6, <1>7, <1>8, <1>9, <1>10, <1>11, <1>12, <1>13, <1>14

\* A crash leaves the connections of other instances as they are.
LEMMA CrashSteps ==
    ASSUME PresenceInv, NEW i \in Servers, Crash(i)
    PROVE  PresenceInv' /\ skipped'
<1>1. /\ UNCHANGED <<row, key, friends, connects, frames>> /\ skipped' = TRUE /\ tasks' \subseteq tasks
      /\ soc' = [s \in Conns |-> IF soc[s].pc # "off" /\ soc[s].at = i THEN Off ELSE soc[s]]
    BY DEF Crash, Counters
<1>2. soc \in [Conns -> SocType]
    BY DEF PresenceInv, PresenceTypeOK, SocType
<1>3. soc' \in [Conns -> SocType] /\ \A s \in Conns : Sober(soc'[s])
    BY <1>1, <1>2, OffIsSober DEF PresenceInv
<1>. QED  BY <1>1, <1>3 DEF PresenceInv, PresenceTypeOK, SocType

\* What a connection pushes and writes fits its stage.
THEOREM PresenceInvariance == PresenceSpec => []PresenceInv
<1>1. PresenceInit => PresenceInv
    <2>. SUFFICES ASSUME PresenceInit PROVE PresenceInv
        OBVIOUS
    <2>1. soc \in [Conns -> SocType] /\ \A s \in Conns : Sober(soc[s])
        BY OffIsSober DEF PresenceInit
    <2>2. 0 \in 0 .. MaxConnects /\ 0 \in 0 .. MaxFrames
        BY PresenceConstants
    <2>3. row \in [state : States, stale : BOOLEAN] /\ friends \in States \ {"invisible"}
        BY DEF PresenceInit, States
    <2>. QED  BY <2>1, <2>2, <2>3 DEF PresenceInit, PresenceInv, PresenceTypeOK, SocType
<1>2. PresenceInv /\ [PresenceNext]_presenceVars => PresenceInv'
    <2>. SUFFICES ASSUME PresenceInv, [PresenceNext]_presenceVars PROVE PresenceInv'
        OBVIOUS
    <2>1. CASE UNCHANGED presenceVars
        BY <2>1 DEF presenceVars, PresenceInv, PresenceTypeOK
    <2>2. ASSUME NEW t \in tasks, KeyTask(t)
          PROVE  PresenceInv'
        <3>1. key' \in BOOLEAN /\ tasks' \subseteq tasks /\ UNCHANGED <<soc, row, friends, connects, frames, skipped>>
            BY <2>2 DEF KeyTask, Counters, PresenceInv, PresenceTypeOK
        <3>. QED  BY <3>1 DEF PresenceInv, PresenceTypeOK
    <2>3. CASE KeyExpires
        <3>1. key' \in BOOLEAN /\ UNCHANGED <<soc, row, tasks, friends, connects, frames, skipped>>
            BY <2>3 DEF KeyExpires, Counters
        <3>. QED  BY <3>1 DEF PresenceInv, PresenceTypeOK
    <2>4. CASE RowStale
        <3>1. row' = [row EXCEPT !.stale = TRUE] /\ UNCHANGED <<soc, key, tasks, friends, connects, frames, skipped>>
            BY <2>4 DEF RowStale, Counters
        <3>. QED  BY <3>1 DEF PresenceInv, PresenceTypeOK
    <2>. QED  BY <2>1, <2>2, <2>3, <2>4, ConnectionSteps, CrashSteps DEF PresenceNext
<1>. QED  BY <1>1, <1>2, PTL DEF PresenceSpec

\* PresenceTypeOK: the types of presence; in particular friends are never told that an
\* account is invisible.
THEOREM PresenceTypes == PresenceSpec => []PresenceTypeOK
<1>1. PresenceInv => PresenceTypeOK
    BY DEF PresenceInv
<1>. QED  BY <1>1, PresenceInvariance, PTL

-----------------------------------------------------------------------------
(* Presence: the row after the last connection *)

\* A connection that has still to leave, or is leaving as the last one of its instance
\* and has not written the row yet.
Owes(x) ==
    \/ x.pc # "off" /\ x.phase # "out"
    \/ x.pc \in {"devices", "write"} /\ x.phase = "out" /\ x.last

RowIsOwed == skipped \/ row.state = "offline" \/ \E s \in Conns : Owes(soc[s])

\* A step that writes no row and in which whoever owed it does so on, or is one of several.
LEMMA OwedOn ==
    ASSUME RowIsOwed, row'.state = row.state, skipped' = skipped,
           \A s \in Conns : Owes(soc[s]) => \E c \in Conns : Owes(soc'[c])
    PROVE  RowIsOwed'
    BY DEF RowIsOwed

\* A connection moves: the others owe what they did.
LEMMA OwedByMover ==
    ASSUME PresenceInv, RowIsOwed, NEW s \in Conns, NEW x, Become(s, x), Owes(soc[s]) => Owes(x),
           row'.state = row.state, skipped' = skipped
    PROVE  RowIsOwed'
<1>1. soc \in [Conns -> SocType] /\ soc' = [soc EXCEPT ![s] = x]
    BY DEF PresenceInv, PresenceTypeOK, SocType, Become
<1>2. \A c \in Conns : Owes(soc[c]) => Owes(soc'[c])
    BY <1>1
<1>. QED  BY <1>2, OwedOn

\* GoneMeansOffline: whoever writes a state into the shared row is connected, and the
\* last connection to leave an instance writes it offline; on however many instances the
\* connections were and in whatever order they wrote.
THEOREM GoneIsOffline == PresenceSpec => []GoneMeansOffline
<1>1. PresenceInit => RowIsOwed
    BY DEF PresenceInit, RowIsOwed
<1>2. PresenceInv /\ RowIsOwed /\ [PresenceNext]_presenceVars => RowIsOwed'
    <2>. SUFFICES ASSUME PresenceInv, RowIsOwed, [PresenceNext]_presenceVars PROVE RowIsOwed'
        OBVIOUS
    <2>1. CASE UNCHANGED presenceVars
        BY <2>1 DEF presenceVars, RowIsOwed
    <2>2. ASSUME NEW i \in Servers, Crash(i)
          PROVE  RowIsOwed'
        BY <2>2 DEF Crash, RowIsOwed
    <2>3. CASE KeyExpires \/ RowStale \/ \E t \in tasks : KeyTask(t)
        <3>1. UNCHANGED <<soc, skipped>> /\ row'.state = row.state
            BY <2>3 DEF KeyExpires, RowStale, KeyTask, PresenceInv, PresenceTypeOK
        <3>. QED  BY <3>1, OwedOn
    <2>4. ASSUME NEW s \in Conns, \/ \E i \in Servers : Connect(s, i)
                                  \/ \E v \in States : PresenceFrame(s, v)
                                  \/ WasOnline(s) \/ set_presence(s) \/ ReadPresence(s) \/ PushPresence(s)
                                  \/ Ping(s) \/ Close(s) \/ PushDevices(s)
          PROVE  RowIsOwed'
        <3>0. soc[s] \in SocType /\ Sober(soc[s]) /\ soc \in [Conns -> SocType]
            BY DEF PresenceInv, PresenceTypeOK, SocType
        <3>1. ASSUME NEW i \in Servers, Connect(s, i)
              PROVE  RowIsOwed'
            <4>1. soc[s].pc = "off" /\ UNCHANGED <<row, skipped>> /\ Become(s, [Off EXCEPT !.pc = "hello", !.at = i])
                BY <3>1 DEF Connect
            <4>2. ~Owes(soc[s])
                BY <4>1 DEF Owes
            <4>. QED  BY <4>1, <4>2, OwedByMover
        <3>2. ASSUME NEW v \in States, PresenceFrame(s, v)
              PROVE  RowIsOwed'
            <4>. DEFINE x == [soc[s] EXCEPT !.pc = "write", !.val = v]
            <4>1. UNCHANGED <<row, skipped>> /\ Become(s, x)
                BY <3>2 DEF PresenceFrame
            <4>2. soc[s].phase = "serve"
                BY <3>0, <3>2 DEF PresenceFrame, Sober
            <4>3. Owes(x)
                BY <3>0, <4>2 DEF SocType, Owes
            <4>. HIDE DEF x
            <4>. QED  BY <4>1, <4>3, OwedByMover
        <3>3. CASE WasOnline(s) \/ ReadPresence(s) \/ PushPresence(s) \/ Ping(s)
            <4>. DEFINE v == presence_of(soc[s].at)
                        x == [soc[s] EXCEPT !.pc = "write", !.val = "online"]
                        y == [soc[s] EXCEPT !.pc = "push", !.val = v]
                        z(pc) == [soc[s] EXCEPT !.pc = pc]
            <4>1. UNCHANGED <<row, skipped>>
                BY <3>3 DEF WasOnline, ReadPresence, PushPresence, Ping
            <4>2. CASE Ping(s)
                BY <4>1, <4>2, OwedOn DEF Ping
            <4>3. CASE WasOnline(s)
                <5>1. (Become(s, z("devices")) \/ Become(s, x)) /\ soc[s].pc = "hello"
                    BY <4>3 DEF WasOnline, Goto
                <5>2. Owes(z("devices")) /\ Owes(x)
                    BY <3>0, <5>1 DEF SocType, Owes, Sober
                <5>. QED  BY <4>1, <5>1, <5>2, OwedByMover
            <4>4. CASE ReadPresence(s)
                <5>1. Become(s, y) /\ soc[s].pc = "read"
                    BY <4>4 DEF ReadPresence
                <5>. HIDE DEF v
                <5>2. Owes(soc[s]) => Owes(y)
                    BY <3>0, <5>1 DEF SocType, Owes
                <5>. QED  BY <4>1, <5>1, <5>2, OwedByMover
            <4>5. CASE PushPresence(s)
                <5>1. soc[s].pc = "push" /\ \/ soc[s].phase = "in" /\ Become(s, z("devices"))
                                            \/ soc[s].phase = "serve" /\ Become(s, z("serving"))
                                            \/ soc[s].phase = "out" /\ Become(s, Off)
                    BY <4>5 DEF PushPresence, Goto
                <5>2. /\ soc[s].phase = "in" => Owes(z("devices"))
                      /\ soc[s].phase = "serve" => Owes(z("serving"))
                      /\ soc[s].phase = "out" => ~Owes(soc[s])
                    BY <3>0, <5>1 DEF SocType, Owes
                <5>. QED  BY <4>1, <5>1, <5>2, OwedByMover
            <4>. QED  BY <3>3, <4>2, <4>3, <4>4, <4>5
        <3>4. CASE set_presence(s)
            <4>. DEFINE x == [soc[s] EXCEPT !.pc = "read"]
            <4>1. /\ soc[s].pc = "write" /\ Become(s, x)
                  /\ skipped' \/ row' = [state |-> soc[s].val, stale |-> FALSE]
                BY <3>4 DEF set_presence, Goto
            <4>2. CASE soc[s].phase = "out"
                BY <3>0, <4>1, <4>2 DEF Sober, RowIsOwed
            <4>3. CASE soc[s].phase # "out"
                <5>1. Owes(x) /\ soc'[s] = x
                    BY <3>0, <4>1, <4>3 DEF SocType, Owes, Become
                <5>. QED  BY <5>1 DEF RowIsOwed
            <4>. QED  BY <4>2, <4>3
        <3>5. CASE Close(s)
            <4>. DEFINE last == hub(soc[s].at) = {s}
                        x == [soc[s] EXCEPT !.pc = "devices", !.phase = "out", !.last = last]
            <4>1. soc[s].phase = "serve" /\ Become(s, x) /\ UNCHANGED <<row, skipped>>
                BY <3>5 DEF Close
            <4>2. CASE last
                <5>1. Owes(x)
                    BY <3>0, <4>2 DEF SocType, Owes
                <5>. HIDE DEF x
                <5>. QED  BY <4>1, <5>1, OwedByMover
            <4>3. CASE ~last
                <5>1. Registered(s)
                    BY <3>0, <4>1 DEF Registered, Sober
                <5>2. PICK c \in Conns \ {s} : Registered(c)
                    BY <4>3, <5>1 DEF hub
                <5>3. soc'[c] = soc[c] /\ Owes(soc[c])
                    BY <3>0, <4>1, <5>2 DEF Become, Registered, Owes
                <5>. QED  BY <5>3 DEF RowIsOwed
            <4>. QED  BY <4>2, <4>3
        <3>6. CASE PushDevices(s)
            <4>. DEFINE x == [soc[s] EXCEPT !.pc = "serving", !.phase = "serve"]
                        y == [soc[s] EXCEPT !.pc = "write", !.val = "offline"]
            <4>1. /\ UNCHANGED <<row, skipped>>
                  /\ \/ Become(s, x)
                     \/ soc[s].phase = "out" /\ soc[s].last /\ Become(s, y)
                     \/ soc[s].phase = "out" /\ ~soc[s].last /\ Become(s, Off)
                BY <3>6 DEF PushDevices
            <4>2. /\ Owes(x) /\ (soc[s].phase = "out" /\ soc[s].last => Owes(y))
                  /\ soc[s].phase = "out" /\ ~soc[s].last => ~Owes(soc[s])
                BY <3>0 DEF SocType, Owes
            <4>. HIDE DEF x, y
            <4>. QED  BY <4>1, <4>2, OwedByMover
        <3>. QED  BY <2>4, <3>1, <3>2, <3>3, <3>4, <3>5, <3>6
    <2>. QED  BY <2>1, <2>2, <2>3, <2>4 DEF PresenceNext
<1>3. RowIsOwed /\ PresenceInv => GoneMeansOffline
    BY DEF RowIsOwed, Owes, Gone, GoneMeansOffline
<1>. QED  BY <1>1, <1>2, <1>3, PresenceInvariance, PTL DEF PresenceSpec

-----------------------------------------------------------------------------
(* Presence and devices side by side *)

\* One component moves at a time and the other stands still, so that a behaviour of the
\* two is a behaviour of each: what is proved of PresenceSpec and DevicesSpec holds of it.
THEOREM SideBySide == Spec => PresenceSpec /\ DevicesSpec
<1>1. Init => PresenceInit /\ DevicesInit
    BY DEF Init
<1>2. [Next]_vars => [PresenceNext]_presenceVars /\ [DevicesNext]_deviceVars
    BY Zenon DEF Next, vars
<1>. QED  BY <1>1, <1>2, PTL DEF Spec, PresenceSpec, DevicesSpec

\* DevicesTypeOK: an entry of the registry, and a write on its way to it, names nothing
\* but devices that machines have named.
THEOREM DevicesTypes == DevicesSpec => []DevicesTypeOK
<1>1. DevicesInit => DevicesTypeOK
    BY DevicesConstants DEF DevicesInit, DevicesTypeOK
<1>2. DevicesTypeOK /\ [DevicesNext]_deviceVars => DevicesTypeOK'
    <2>. SUFFICES ASSUME DevicesTypeOK, [DevicesNext]_deviceVars PROVE DevicesTypeOK'
        OBVIOUS
    <2>0. /\ held \in [Hosts -> SUBSET Machines] /\ entry \in [Hosts -> SUBSET Ids]
          /\ fresh \in [Hosts -> BOOLEAN] /\ writes \subseteq Hosts \X SUBSET Ids
          /\ signIns \in 0 .. MaxSignIns /\ failures \in 0 .. MaxFailures
        BY DEF DevicesTypeOK
    <2>1. ASSUME NEW h \in Hosts, NEW ms \in SUBSET Machines, Publish(h, ms)
          PROVE  writes' \subseteq Hosts \X SUBSET Ids
        <3>1. collapse_devices(ms) \in SUBSET Ids
            BY DEF collapse_devices, Ids
        <3>. QED  BY <2>0, <2>1, <3>1 DEF Publish
    <2>2. ASSUME NEW h \in Hosts, NEW m \in Machines, SignIn(h, m) \/ SignOff(h, m)
          PROVE  DevicesTypeOK'
        <3>1. held' \in [Hosts -> SUBSET Machines] /\ held'[h] \in SUBSET Machines
            BY <2>0, <2>2 DEF SignIn, SignOff
        <3>2. Publish(h, held'[h]) /\ UNCHANGED <<entry, fresh, failures>>
            BY <2>2 DEF SignIn, SignOff
        <3>3. signIns' \in 0 .. MaxSignIns
            BY <2>0, <2>2, DevicesConstants DEF SignIn, SignOff
        <3>4. writes' \subseteq Hosts \X SUBSET Ids
            <4>1. \A ms \in SUBSET Machines : collapse_devices(ms) \in SUBSET Ids
                BY DEF collapse_devices, Ids
            <4>. QED  BY <2>0, <3>1, <3>2, <4>1 DEF Publish
        <3>. QED  BY <2>0, <3>1, <3>2, <3>3, <3>4 DEF DevicesTypeOK
    <2>3. ASSUME NEW h \in Hosts, Restamp(h)
          PROVE  DevicesTypeOK'
        <3>1. held[h] \in SUBSET Machines /\ Publish(h, held[h])
            BY <2>0, <2>3 DEF Restamp
        <3>2. writes' \subseteq Hosts \X SUBSET Ids
            BY <2>1, <3>1
        <3>. QED  BY <2>0, <2>3, <3>2 DEF Restamp, DevicesTypeOK
    <2>4. ASSUME NEW h \in Hosts, Age(h) \/ HostDies(h)
          PROVE  DevicesTypeOK'
        BY <2>0, <2>4 DEF Age, HostDies, DevicesTypeOK
    <2>5. ASSUME NEW w \in writes, WriteEntry(w)
          PROVE  DevicesTypeOK'
        <3>1. w[1] \in Hosts /\ w[2] \in SUBSET Ids
            BY <2>0
        <3>2. entry' \in [Hosts -> SUBSET Ids] /\ fresh' \in [Hosts -> BOOLEAN]
            BY <2>0, <2>5, <3>1 DEF WriteEntry
        <3>3. writes' \subseteq writes /\ UNCHANGED <<held, signIns, failures>>
            BY <2>5 DEF WriteEntry
        <3>. QED  BY <2>0, <3>2, <3>3 DEF DevicesTypeOK
    <2>6. ASSUME NEW w \in writes, WriteFails(w)
          PROVE  DevicesTypeOK'
        BY <2>0, <2>6, DevicesConstants DEF WriteFails, DevicesTypeOK
    <2>7. CASE UNCHANGED deviceVars
        BY <2>0, <2>7 DEF deviceVars, DevicesTypeOK
    <2>. QED  BY <2>2, <2>3, <2>4, <2>5, <2>6, <2>7 DEF DevicesNext
<1>. QED  BY <1>1, <1>2, PTL DEF DevicesSpec

\* TypeOK, the types of presence and of the device registry together.
THEOREM TypeCorrect == Spec => []TypeOK
<1>1. PresenceTypeOK /\ DevicesTypeOK => TypeOK
    BY DEF TypeOK
<1>. QED  BY <1>1, SideBySide, PresenceTypes, DevicesTypes, PTL
=============================================================================
