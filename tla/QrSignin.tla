------------------------------ MODULE QrSignin ------------------------------
(***************************************************************************)
(* Passwordless QR sign-in (qr_auth.rs).  A screen starts a challenge and  *)
(* polls it with one secret; a phone that is already signed in answers it  *)
(* with another.  Challenges live in one table shared by every API         *)
(* replica, and every SQL statement is one atomic step: what happens       *)
(* between two statements of one request may be anything that the other    *)
(* requests do.                                                            *)
(*                                                                         *)
(* A request is a record in req: pc names the statement it runs next, the  *)
(* other fields are the handler's local variables.  The secrets are not    *)
(* modelled: a request is one that presented the right secret for ch       *)
(* (with a wrong one every statement matches no row and nothing changes).  *)
(*                                                                         *)
(* rows is the set of ids in the table.  Ids are random and never reused,  *)
(* so the columns of a deleted row keep their last value as history.       *)
(***************************************************************************)
EXTENDS Integers, Sequences, FiniteSets

CONSTANTS
    Challenges,  \* challenge ids that start may draw
    Users,       \* accounts whose phone holds a live bearer token
    IPs,         \* client addresses
    Requests,    \* slots for HTTP requests in flight, over all replicas
    None,        \* SQL NULL / an unset local
    TTL,         \* QR_SIGNIN_TTL_SECONDS
    MaxActive,   \* the cap on active challenges per address
    CountFails,  \* the SELECT COUNT(*) of a start may fail
    MaxTime      \* bound on the clock, for model checking

ASSUME QrConstants ==
    /\ TTL \in Nat \ {0}
    /\ MaxActive \in Nat \ {0}
    /\ CountFails \in BOOLEAN
    /\ MaxTime \in Nat
    /\ None \notin Challenges \cup Users \cup IPs
    /\ IsFiniteSet(Challenges)
    /\ IsFiniteSet(Requests)

VARIABLES
    clock,    \* now(), the same on every replica
    rows,     \* ids present in qr_signin_challenges
    state,    \* column state ("absent" before the INSERT)
    owner,    \* column user_id
    expires,  \* column expires_at
    ip,       \* column ip
    enabled,  \* admin_users.enabled
    req,      \* the requests in flight
    answers,  \* history: the answers reported to a phone as accepted
    logins    \* history: logins[c] is the accounts c's screen was signed in to

vars == <<clock, rows, state, owner, expires, ip, enabled, req, answers, logins>>
table == <<rows, state, owner, expires, ip>>

RowState == {"absent", "pending", "approved", "denied", "consumed"}

PC == {"idle", "count", "insert", "swap", "issue"}

Request ==
    [pc : PC, ch : Challenges \cup {None}, ip : IPs \cup {None}, ts : Nat,
     user : Users \cup {None}]

Idle == [pc |-> "idle", ch |-> None, ip |-> None, ts |-> 0, user |-> None]

TypeOK ==
    /\ clock \in Nat
    /\ rows \in SUBSET Challenges
    /\ state \in [Challenges -> RowState]
    /\ owner \in [Challenges -> Users \cup {None}]
    /\ expires \in [Challenges -> Nat]
    /\ ip \in [Challenges -> IPs \cup {None}]
    /\ enabled \in [Users -> BOOLEAN]
    /\ req \in [Requests -> Request]
    /\ answers \in SUBSET [ch : Challenges, user : Users, st : {"approved", "denied"}]
    /\ logins \in [Challenges -> Seq(Users)]

Init ==
    /\ clock = 0
    /\ rows = {}
    /\ state = [c \in Challenges |-> "absent"]
    /\ owner = [c \in Challenges |-> None]
    /\ expires = [c \in Challenges |-> 0]
    /\ ip = [c \in Challenges |-> None]
    /\ enabled = [u \in Users |-> TRUE]
    /\ req = [r \in Requests |-> Idle]
    /\ answers = {}
    /\ logins = [c \in Challenges |-> << >>]

Finish(r) == req' = [req EXCEPT ![r] = Idle]

-----------------------------------------------------------------------------
(* qr_signin_start *)

\* The challenges from address a that expire after t.
Active(a, t) == {c \in rows : ip[c] = a /\ expires[c] > t}

\* Faulty variant: the cutoff lies ahead of the clock.
StaleAhead(c) == expires[c] <= clock + TTL

\* WHERE expires_at < now - TTL
Stale(c) == expires[c] < clock - TTL

\* ts = now(), then the opportunistic DELETE, whose failure is ignored.
StartCleanup(r, a) ==
    /\ req[r].pc = "idle"
    /\ rows' \in {rows, {c \in rows : ~Stale(c)}}
    /\ req' = [req EXCEPT ![r] = [Idle EXCEPT !.pc = "count", !.ip = a, !.ts = clock]]
    /\ UNCHANGED <<clock, state, owner, expires, ip, enabled, answers, logins>>

\* Faulty variant: one challenge too many.
AtCapLate(r) == Cardinality(Active(req[r].ip, req[r].ts)) > MaxActive

\* The count is taken at the ts of the request's first step.
AtCap(r) == Cardinality(Active(req[r].ip, req[r].ts)) >= MaxActive

\* SELECT COUNT(*): at the cap the request ends with 429.  A failed count is
\* read as zero (unwrap_or), and the request goes on.
StartCount(r) ==
    /\ req[r].pc = "count"
    /\ \E failed \in {FALSE, CountFails} :
        IF AtCap(r) /\ ~failed
          THEN Finish(r)
          ELSE req' = [req EXCEPT ![r].pc = "insert"]
    /\ UNCHANGED <<clock, table, enabled, answers, logins>>

\* Faulty variant: the window lies in the past.
DeadlineBehind(r) == req[r].ts - TTL

\* expires_at
Deadline(r) == req[r].ts + TTL

\* INSERT under a fresh random id.
StartInsert(r, c) ==
    /\ req[r].pc = "insert"
    /\ state[c] = "absent"
    /\ rows' = rows \cup {c}
    /\ state' = [state EXCEPT ![c] = "pending"]
    /\ expires' = [expires EXCEPT ![c] = Deadline(r)]
    /\ ip' = [ip EXCEPT ![c] = req[r].ip]
    /\ Finish(r)
    /\ UNCHANGED <<clock, owner, enabled, answers, logins>>

-----------------------------------------------------------------------------
(* qr_signin_decide *)

\* Faulty variant: a decided row can be decided again.
AnswerableAgain(c) == c \in rows /\ state[c] # "consumed" /\ expires[c] > clock

\* The WHERE clause of the decision's UPDATE.
Answerable(c) == c \in rows /\ state[c] = "pending" /\ expires[c] > clock

\* A phone signed in as u, enabled or not, scanned c's code and answers it with
\* one UPDATE.  When that matches no row (affected_rows # 1) the phone gets 410
\* and nothing changes.
Decide(c, u, verdict) ==
    /\ Answerable(c)
    /\ state' = [state EXCEPT ![c] = verdict]
    /\ owner' = [owner EXCEPT ![c] = u]
    /\ answers' = answers \cup {[ch |-> c, user |-> u, st |-> verdict]}
    /\ UNCHANGED <<clock, rows, expires, ip, enabled, req, logins>>

-----------------------------------------------------------------------------
(* qr_signin_poll *)

\* The SELECT of the row and find_user_by_id.  No row is 404, an expired one 410,
\* a pending one 202, a denied one and a disabled account 401, all without
\* effect.  A row already consumed goes on like an approved one.  Nothing but
\* the step to consumed happens to such a row until it has expired, so reading
\* it and the account at one instant loses no behaviour.
PollRead(r, c) ==
    /\ req[r].pc = "idle"
    /\ c \in rows
    /\ expires[c] > clock
    /\ state[c] \in {"approved", "consumed"}
    /\ enabled[owner[c]]
    /\ req' = [req EXCEPT ![r] = [Idle EXCEPT !.pc = "swap", !.ch = c, !.user = owner[c]]]
    /\ UNCHANGED <<clock, table, enabled, answers, logins>>

\* Faulty variant: a consumed row can be consumed again.
ConsumableAgain(c) ==
    c \in rows /\ state[c] \in {"approved", "consumed"} /\ expires[c] > clock

\* The WHERE clause of the consuming UPDATE.
Consumable(c) == c \in rows /\ state[c] = "approved" /\ expires[c] > clock

\* The compare-and-swap: affected_rows # 1 is 410 GONE.
PollSwap(r) ==
    LET c == req[r].ch IN
    /\ req[r].pc = "swap"
    /\ IF Consumable(c)
         THEN /\ state' = [state EXCEPT ![c] = "consumed"]
              /\ req' = [req EXCEPT ![r].pc = "issue"]
         ELSE Finish(r) /\ UNCHANGED state
    /\ UNCHANGED <<clock, rows, owner, expires, ip, enabled, answers, logins>>

\* The launcher token or the store session reaches the screen.
PollIssue(r) ==
    /\ req[r].pc = "issue"
    /\ logins' = [logins EXCEPT ![req[r].ch] = Append(@, req[r].user)]
    /\ Finish(r)
    /\ UNCHANGED <<clock, table, enabled, answers>>

-----------------------------------------------------------------------------
(* Everything else *)

\* A statement fails, or the replica running the request dies: the request is
\* gone and what it had written stays.
RequestFails(r) ==
    /\ req[r].pc # "idle"
    /\ Finish(r)
    /\ UNCHANGED <<clock, table, enabled, answers, logins>>

\* An admin enables or disables an account.
SetEnabled(u) ==
    /\ enabled' = [enabled EXCEPT ![u] = ~@]
    /\ UNCHANGED <<clock, table, req, answers, logins>>

Tick ==
    /\ clock < MaxTime
    /\ clock' = clock + 1
    /\ UNCHANGED <<table, enabled, req, answers, logins>>

Next ==
    \/ \E r \in Requests :
        \/ \E a \in IPs : StartCleanup(r, a)
        \/ StartCount(r)
        \/ \E c \in Challenges : StartInsert(r, c)
        \/ \E c \in Challenges : PollRead(r, c)
        \/ PollSwap(r)
        \/ PollIssue(r)
        \/ RequestFails(r)
    \/ \E c \in Challenges, u \in Users, v \in {"approved", "denied"} : Decide(c, u, v)
    \/ \E u \in Users : SetEnabled(u)
    \/ Tick

Spec == Init /\ [][Next]_vars

-----------------------------------------------------------------------------
(* Properties *)

\* "poll_token ... may consume the completed login exactly once": however many
\* polls race on however many replicas, a challenge yields at most one session.
AtMostOneLogin ==
    \A c \in Challenges : Len(logins[c]) <= 1

\* Two phones that scan the same code cannot both be told that their answer
\* was accepted.
OneAnswer ==
    \A a, b \in answers : a.ch = b.ch => a = b

\* A screen is only ever signed in to the account of the one phone that was told its
\* answer to that challenge was accepted, and that answer was "approved", whatever the
\* order of scans, answers and polls.
LoginWasApproved ==
    /\ OneAnswer
    /\ \A c \in Challenges : \A i \in DOMAIN logins[c] :
           [ch |-> c, user |-> logins[c][i], st |-> "approved"] \in answers

\* Starts racing between COUNT and INSERT can pass the cap of active challenges
\* per address, but by no more than the other requests in flight (as long as
\* the counts do not fail).
CapOvershootBounded ==
    ~CountFails => \A a \in IPs :
        Cardinality(Active(a, clock)) <= MaxActive - 1 + Cardinality(Requests)

\* What the row remembers is irrevocable: a settled challenge never becomes
\* answerable again, a consumed one stays consumed, its account never changes,
\* and no row is deleted while a poll could still consume it.
SettledStaysSettled ==
    [][\A c \in Challenges :
        /\ state[c] \in {"denied", "consumed"} => state'[c] = state[c]
        /\ state[c] = "approved" => state'[c] \in {"approved", "consumed"}
        /\ owner[c] # None => owner'[c] = owner[c]
        /\ c \in rows \ rows' => expires[c] <= clock]_vars

\* The answer challenge c got, as OneShotLogin sees it.
Granted(c) ==
    IF state[c] \in {"absent", "pending"} THEN None
    ELSE IF state[c] = "denied" THEN "refused" ELSE owner[c]

\* QR sign-in as a one-shot login.
Promise == INSTANCE OneShotLogin WITH
    Refused <- "refused",
    grant <- [c \in Challenges |-> Granted(c)],
    spent <- {c \in Challenges : state[c] = "consumed"}

\* Every step of the table and of the requests is a step of OneShotLogin or
\* changes nothing a user can see.
ImplementsOneShot == Promise!Spec
=============================================================================
