------------------------------ MODULE MCCalls ------------------------------
(* Calls for TLC: ann has a pc and a phone, bob a tablet.                   *)
EXTENDS Calls, TLC

CONSTANTS ann, bob, pc, phone, tablet

MCUserOf == [d \in Devices |-> IF d = tablet THEN bob ELSE ann]

\* The two devices of one account are interchangeable.
Symmetry == Permutations({pc, phone})
=============================================================================
