---------------------------- MODULE MCCallsScopes ----------------------------
(***************************************************************************)
(* Three instances of Calls in one run.                                    *)
(*   "twice":   a device each and two calls, no blocks;                    *)
(*   "block":   the same, but bob may block, his tablet, once connected,   *)
(*              stays, and no ring times out;                              *)
(*   "devices": bob calls ann, who has two devices, once, no blocks, and   *)
(*              his tablet, once connected, stays.                         *)
(***************************************************************************)
EXTENDS MCCalls

VARIABLE scope

ScopedInit == Init /\ scope \in {"twice", "block", "devices"}
ScopedNext ==
    /\ Next
    /\ UNCHANGED scope
    /\ scope # "devices" => sock'[phone] = Off
    /\ scope # "block" => blk' = blk
    /\ scope = "block" => ~Tick
    /\ scope = "devices" => calls' <= 1 /\ \A d \in {pc, phone} : hand'[d].kind # "invite"
    /\ scope # "twice" /\ sock[tablet] # Off => sock'[tablet].pc \notin {"leave", "off"}
ScopedSpec == ScopedInit /\ [][ScopedNext]_<<vars, scope>>
=============================================================================
