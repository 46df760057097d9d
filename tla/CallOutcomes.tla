---------------------------- MODULE CallOutcomes ----------------------------
(***************************************************************************)
(* What becomes of a call, with no sockets, tables or tasks: it is         *)
(* numbered, rings at most once, and goes forward to one outcome that      *)
(* stays.  It can be answered or cut by a block only while it rings; what  *)
(* ends its ringing otherwise owes a record of it, and only such a call is *)
(* recorded as missed (or the record is lost).  Calls is shown to          *)
(* implement this.                                                         *)
(***************************************************************************)
EXTENDS Naturals

CONSTANT Ids  \* the numbers of calls

VARIABLE stage  \* how far each call has come

Init == stage = [i \in Ids |-> "new"]

\* The calls of S go on to s.
Move(S, s) == stage' = [i \in Ids |-> IF i \in S THEN s ELSE stage[i]]

\* The next call starts to ring, or finds nobody it could ring for.
Begin(i, s) ==
    /\ stage[i] = "new"
    /\ \A j \in Ids : j < i => stage[j] # "new"
    /\ s \in {"ringing", "owed"}
    /\ Move({i}, s)

\* The callee accepts, or a block cuts the call.
Decide(i, s) ==
    /\ stage[i] = "ringing"
    /\ s \in {"answered", "cut"}
    /\ Move({i}, s)

\* A hang-up, a teardown or the timeout ends the ringing of one call or of several.
GiveUp(S) ==
    /\ \A i \in S : stage[i] = "ringing"
    /\ Move(S, "owed")

\* A call that was given up is recorded, or its record is lost.
Record(i, s) ==
    /\ stage[i] = "owed"
    /\ s \in {"missed", "lost"}
    /\ Move({i}, s)

Next ==
    \/ \E S \in SUBSET Ids : GiveUp(S)
    \/ \E i \in Ids, s \in {"ringing", "owed"} : Begin(i, s)
    \/ \E i \in Ids, s \in {"answered", "cut"} : Decide(i, s)
    \/ \E i \in Ids, s \in {"missed", "lost"} : Record(i, s)

Spec == Init /\ [][Next]_stage
=============================================================================
