----------------------------- MODULE MCMessages -----------------------------
(***************************************************************************)
(* A conversation of alice, on two devices at one instance, and bob, on    *)
(* one at another, in three scopes.                                        *)
(*   "once":  two messages, and all that can be done to them;              *)
(*   "again": messages with nonces, of one of which the lookup may fail,   *)
(*            are sent and sent again, up to three rows, linked and        *)
(*            received;                                                    *)
(*   "apart": two messages are sent, read and caught up with, relayed late *)
(*            and by devices that move from one instance to the other.     *)
(***************************************************************************)
EXTENDS Messages, TLC
CONSTANTS alice, bob, pc, phone, desk, east, west
VARIABLE scope

MCUsers == {alice, bob}
MCDevices == {pc, phone, desk}
MCInstances == {east, west}
MCOwner == [d \in MCDevices |-> IF d = desk THEN bob ELSE alice]
Symmetry == Permutations({pc, phone}) \cup Permutations(Requests)

\* What is on the bus is relayed before anything else happens.
Prompt == at' = at /\ \A i, j \in Instances : bus[i][j] # <<>> => Relay(i, j, {})

ScopedInit ==
    /\ Init
    /\ scope \in {"once", "again", "apart"}
    /\ at = [d \in MCDevices |-> IF d = desk THEN west ELSE east]
ScopedOps ==
    CASE scope = "once" -> Ops \ {"resume"} [] scope = "again" -> {"chat"} [] scope = "apart" -> {"chat", "read", "resume"}
ScopedNext ==
    /\ Next
    /\ UNCHANGED scope
    /\ \A r \in Requests : req'[r].op \in ScopedOps \cup {"idle"}
    /\ IF scope = "again"
       THEN \A r \in Requests : req'[r].op = "chat" => req'[r].nonce # None
       ELSE Len(rows') <= 2 /\ UNCHANGED atts /\ \A r \in Requests : None = req'[r].nonce /\ None = req'[r].att
    /\ scope # "apart" => Prompt
ScopedSpec == ScopedInit /\ [][ScopedNext]_<<vars, scope>>
=============================================================================
