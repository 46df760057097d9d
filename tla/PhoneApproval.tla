---------------------------- MODULE PhoneApproval ----------------------------
(***************************************************************************)
(* What a sign-in approval promises, with no map, clock or requests: it is *)
(* asked of the phones of one account, gets one answer, and if that grants *)
(* it, lets one login through.  It may be forgotten at any time before     *)
(* that (given up, or lost in a restart); from then on it gets no answer   *)
(* and lets nobody through.  Login is shown to implement this.             *)
(***************************************************************************)
EXTENDS Naturals

CONSTANTS
    Approvals,  \* approval ids
    Accounts,   \* accounts
    None        \* nobody has been asked

VARIABLES
    asked,   \* asked[a]: the account whose phones approval a was asked of
    answer,  \* answer[a]: the answers to it, which are one at most
    logins,  \* logins[a]: how many logins it has let through
    over     \* the approvals that are used up or forgotten

vars == <<asked, answer, logins, over>>

Init ==
    /\ asked = [a \in Approvals |-> None]
    /\ answer = [a \in Approvals |-> {}]
    /\ logins = [a \in Approvals |-> 0]
    /\ over = {}

\* Phones are asked, and approvals that were asked before (old) may be forgotten.
Ask(a, u, old) ==
    /\ asked[a] = None
    /\ \A b \in old : asked[b] # None
    /\ asked' = [asked EXCEPT ![a] = u]
    /\ over' = over \cup old
    /\ UNCHANGED <<answer, logins>>

\* A phone grants or denies it.
Answer(a, v) ==
    /\ asked[a] # None /\ a \notin over
    /\ answer[a] = {}
    /\ answer' = [answer EXCEPT ![a] = {v}]
    /\ UNCHANGED <<asked, logins, over>>

\* A login goes through with it.
LetIn(a) ==
    /\ answer[a] = {"approved"} /\ a \notin over
    /\ logins[a] = 0
    /\ logins' = [logins EXCEPT ![a] = 1]
    /\ over' = over \cup {a}
    /\ UNCHANGED <<asked, answer>>

\* Everything that was asked is forgotten.
ForgetAll ==
    /\ over' = {a \in Approvals : asked[a] # None}
    /\ UNCHANGED <<asked, answer, logins>>

Next ==
    \/ \E a \in Approvals, u \in Accounts, old \in SUBSET Approvals : Ask(a, u, old)
    \/ \E a \in Approvals, v \in {"approved", "denied"} : Answer(a, v)
    \/ \E a \in Approvals : LetIn(a)
    \/ ForgetAll

Spec == Init /\ [][Next]_vars
=============================================================================
