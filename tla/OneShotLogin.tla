---------------------------- MODULE OneShotLogin ----------------------------
(***************************************************************************)
(* What a QR sign-in promises, with no table, no clock and no requests: a  *)
(* challenge gets one answer, an answer that grants it can be claimed      *)
(* once, and a claimed challenge signs in the account that granted it,     *)
(* once at most.  QrSignin is shown to implement this.                     *)
(***************************************************************************)
CONSTANTS
    Challenges,  \* challenge ids
    Users,       \* accounts
    None,        \* no answer yet
    Refused      \* the answer "no"

VARIABLES
    grant,   \* grant[c]: the answer challenge c got
    spent,   \* the challenges whose grant has been claimed
    logins   \* logins[c]: the accounts c's screen was signed in to, in order

vars == <<grant, spent, logins>>

Init ==
    /\ grant = [c \in Challenges |-> None]
    /\ spent = {}
    /\ logins = [c \in Challenges |-> << >>]

\* A phone answers c, with its account or with a refusal.
Answer(c, a) ==
    /\ grant[c] = None
    /\ grant' = [grant EXCEPT ![c] = a]
    /\ UNCHANGED <<spent, logins>>

\* The screen claims the grant.
Claim(c) ==
    /\ grant[c] \in Users
    /\ c \notin spent
    /\ spent' = spent \cup {c}
    /\ UNCHANGED <<grant, logins>>

\* The claimed grant becomes a session.
SignIn(c) ==
    /\ c \in spent
    /\ logins[c] = << >>
    /\ logins' = [logins EXCEPT ![c] = <<grant[c]>>]
    /\ UNCHANGED <<grant, spent>>

Next ==
    \E c \in Challenges :
        \/ \E a \in Users \cup {Refused} : Answer(c, a)
        \/ Claim(c)
        \/ SignIn(c)

Spec == Init /\ [][Next]_vars
=============================================================================
