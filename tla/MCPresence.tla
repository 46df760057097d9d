----------------------------- MODULE MCPresence -----------------------------
(***************************************************************************)
(* Presence and the device registry share no state: focus picks the one    *)
(* that moves, and each property is about one of them.                     *)
(***************************************************************************)
EXTENDS Presence, Devices
CONSTANTS tower, tower2, phone
VARIABLE focus

\* Two sockets of one PC (a reconnect that has not timed out), and a phone.
MCMachines == {tower, tower2, phone}
MCDeviceId == [m \in MCMachines |-> IF m = phone THEN "phone" ELSE "pc"]

vars == <<presenceVars, deviceVars, focus>>
Init ==
    /\ focus \in {"presence", "devices"}
    /\ PresenceInit /\ DevicesInit
Next ==
    /\ UNCHANGED focus
    /\ \/ focus = "presence" /\ PresenceNext /\ UNCHANGED deviceVars
       \/ focus = "devices" /\ DevicesNext /\ UNCHANGED presenceVars
Spec == Init /\ [][Next]_vars /\ PresenceFairness /\ DevicesFairness

\* Types of both components.
TypeOK == PresenceTypeOK /\ DevicesTypeOK
=============================================================================
