-------------------------------- MODULE Login --------------------------------
(***************************************************************************)
(* Signing in with a password (auth.rs, guard.rs and the throttle of       *)
(* models.rs): the single-use challenge nonces, the sign-in approvals a    *)
(* phone gives in place of a typed code, and the lockout after repeated    *)
(* failures.  All three are maps in the memory of one server, each behind  *)
(* a mutex; a request takes one of them, or one database statement, per    *)
(* step.                                                                   *)
(*                                                                         *)
(* What a client knows is chosen where the code looks at it: the proof is  *)
(* good or not once the nonce is popped, the code is right or not once the *)
(* account is read, the approval id is any id when the gate is reached.    *)
(* So is what other parts own: whether the account read has 2FA on, and    *)
(* whether the hub knows a phone of it when the gate asks for one.         *)
(***************************************************************************)
EXTENDS Integers, FiniteSets

CONSTANTS
    Accounts,   \* accounts with a password
    Nonces,     \* challenge nonces that may be drawn
    Approvals,  \* approval ids that may be drawn
    Requests,   \* slots for login requests in flight
    None,       \* no entry / an unset local
    TTL,        \* APPROVAL_TTL_SECONDS
    NonceTTL,   \* lifetime of a challenge
    MaxFails,   \* LOGIN_MAX_FAILURES
    Lockout,    \* LOGIN_LOCKOUT_SECS
    MaxTime     \* bound on the clock, for model checking

ASSUME LoginConstants ==
    /\ TTL \in Nat \ {0}
    /\ NonceTTL \in Nat \ {0}
    /\ MaxFails \in Nat \ {0}
    /\ Lockout \in Nat \ {0}
    /\ MaxTime \in Nat
    /\ None \notin Accounts \cup Nonces \cup Approvals
    /\ IsFiniteSet(Requests)

VARIABLES
    clock,     \* now()
    nonce,     \* AppState.challenges: the nonce and expiry of each username
    drawn,     \* the nonces ever handed out
    throttle,  \* AppState.login_throttle: failures and end of the lockout
    approval,  \* APPROVALS, and "gone" once an entry was spent or evicted
    req,       \* the requests in flight
    accepted,  \* history: how many proofs each nonce has passed
    said,      \* history: the answers a phone was told had landed
    bought,    \* history: how often each approval let a login through
    late,      \* history: failures recorded while the account was locked
    blame      \* history: accounts that gave the throttle a wrong answer or a denial

vars == <<clock, nonce, drawn, throttle, approval, req, accepted,
          said, bought, late, blame>>
history == <<accepted, said, bought, late, blame>>

NoNonce == [id |-> None, exp |-> 0]
NoFailures == [fails |-> 0, until |-> 0]
NoApproval == [user |-> None, at |-> 0, st |-> "absent"]
Idle == [pc |-> "idle", user |-> None, nonce |-> None, via |-> None, at |-> 0, why |-> "wrong"]

Approval ==
    [user : Accounts \cup {None}, at : Nat,
     st : {"absent", "pending", "approved", "denied", "gone"}]

PC == {"idle", "pop", "read", "password", "gate", "raise", "fail", "clear", "issue"}
Request ==
    [pc : PC, user : Accounts \cup {None}, nonce : Nonces \cup {None},
     via : Approvals \cup {None}, at : Nat, why : {"wrong", "nophone"}]

TypeOK ==
    /\ clock \in Nat
    /\ nonce \in [Accounts -> [id : Nonces \cup {None}, exp : Nat]]
    /\ drawn \in SUBSET Nonces
    /\ throttle \in [Accounts -> [fails : Nat, until : Nat]]
    /\ approval \in [Approvals -> Approval]
    /\ req \in [Requests -> Request]
    /\ accepted \in [Nonces -> Nat]
    /\ said \in [Approvals -> SUBSET {"approved", "denied"}]
    /\ bought \in [Approvals -> Nat]
    /\ late \in [Accounts -> Nat]
    /\ blame \in SUBSET Accounts

Init ==
    /\ clock = 0
    /\ nonce = [u \in Accounts |-> NoNonce]
    /\ drawn = {}
    /\ throttle = [u \in Accounts |-> NoFailures]
    /\ approval = [a \in Approvals |-> NoApproval]
    /\ req = [r \in Requests |-> Idle]
    /\ accepted = [n \in Nonces |-> 0]
    /\ said = [a \in Approvals |-> {}]
    /\ bought = [a \in Approvals |-> 0]
    /\ late = [u \in Accounts |-> 0]
    /\ blame = {}

Goto(r, pc) == req' = [req EXCEPT ![r].pc = pc]
Reject(r, why) == req' = [req EXCEPT ![r].pc = "fail", ![r].why = why]
Finish(r) == req' = [req EXCEPT ![r] = Idle]

-----------------------------------------------------------------------------
(* The lockout (models.rs) *)

Locked(u) == throttle[u].fails >= MaxFails /\ throttle[u].until > clock

\* Faulty variant: the lockout ends in the past.
FailedBackwards(u) ==
    LET n == throttle[u].fails + 1 IN
    [fails |-> n, until |-> IF n >= MaxFails THEN clock - Lockout ELSE throttle[u].until]

\* record_login_failure: at the limit, and at every failure past it, the lockout
\* starts again; it does not reset the count when it runs out.
Failed(u) ==
    LET n == throttle[u].fails + 1 IN
    [fails |-> n, until |-> IF n >= MaxFails THEN clock + Lockout ELSE throttle[u].until]

\* The failure is counted and the request ends with 401.
RecordFailure(r) ==
    LET u == req[r].user IN
    /\ req[r].pc = "fail"
    /\ throttle' = [throttle EXCEPT ![u] = Failed(u)]
    /\ late' = [late EXCEPT ![u] = IF Locked(u) THEN @ + 1 ELSE 0]
    /\ blame' = IF req[r].why = "wrong" THEN blame \cup {u} ELSE blame
    /\ Finish(r)
    /\ UNCHANGED <<clock, nonce, drawn, approval, accepted, said, bought>>

\* clear_login_failures, before the token is issued.
ClearFailures(r) ==
    /\ req[r].pc = "clear"
    /\ throttle' = [throttle EXCEPT ![req[r].user] = NoFailures]
    /\ late' = [late EXCEPT ![req[r].user] = 0]
    /\ blame' = blame \ {req[r].user}
    /\ Goto(r, "issue")
    /\ UNCHANGED <<clock, nonce, drawn, approval, accepted, said, bought>>

\* issue_user_token, and the answer to the client.
IssueToken(r) ==
    /\ req[r].pc = "issue"
    /\ Finish(r)
    /\ UNCHANGED <<clock, nonce, drawn, throttle, approval, history>>

-----------------------------------------------------------------------------
(* api_auth_challenge *)

\* A new nonce replaces the account's last one; expired ones are dropped.
Challenge(u, n) ==
    /\ n \notin drawn
    /\ drawn' = drawn \cup {n}
    /\ nonce' = [v \in Accounts |->
                    IF v = u THEN [id |-> n, exp |-> clock + NonceTTL]
                    ELSE IF nonce[v].exp > clock THEN nonce[v] ELSE NoNonce]
    /\ UNCHANGED <<clock, throttle, approval, req, history>>

-----------------------------------------------------------------------------
(* api_login and api_auth_verify *)

\* Faulty variant: the lockout is not looked at.
BeginUnlocked(r, u, pc) ==
    /\ req[r].pc = "idle"
    /\ req' = [req EXCEPT ![r] = [Idle EXCEPT !.pc = pc, !.user = u]]
    /\ UNCHANGED <<clock, nonce, drawn, throttle, approval, history>>

\* login_locked: a locked account gets 429.
Begin(r, u, pc) ==
    /\ req[r].pc = "idle"
    /\ ~Locked(u)
    /\ req' = [req EXCEPT ![r] = [Idle EXCEPT !.pc = pc, !.user = u]]
    /\ UNCHANGED <<clock, nonce, drawn, throttle, approval, history>>

\* Password login: password and code (if the account wants one) in one answer.
\* A database error counts as a failure here.
CheckPassword(r) ==
    /\ req[r].pc = "password"
    /\ Goto(r, "clear") \/ Reject(r, "wrong")
    /\ UNCHANGED <<clock, nonce, drawn, throttle, approval, history>>

\* Faulty variant: the nonce is looked up and left in the map.
PopPeeks(r) ==
    LET u == req[r].user IN
    /\ req[r].pc = "pop"
    /\ IF nonce[u].id # None /\ nonce[u].exp > clock
         THEN req' = [req EXCEPT ![r].pc = "read", ![r].nonce = nonce[u].id]
         ELSE Finish(r)
    /\ UNCHANGED <<clock, nonce, drawn, throttle, approval, history>>

\* The nonce leaves the map, good or expired.
Pop(r) ==
    LET u == req[r].user IN
    /\ req[r].pc = "pop"
    /\ nonce' = [nonce EXCEPT ![u] = NoNonce]
    /\ IF nonce[u].id # None /\ nonce[u].exp > clock
         THEN req' = [req EXCEPT ![r].pc = "read", ![r].nonce = nonce[u].id]
         ELSE Finish(r)
    /\ UNCHANGED <<clock, drawn, throttle, approval, history>>

\* The account is read; the proof is not the HMAC of the popped nonce.
ProofBad(r) ==
    /\ req[r].pc = "read"
    /\ Reject(r, "wrong")
    /\ UNCHANGED <<clock, nonce, drawn, throttle, approval, history>>

\* A good proof: straight on with 2FA off or the right code, else (with a wrong
\* code, or with none, which waits for a phone) to the gate.
ProofGood(r) ==
    /\ req[r].pc = "read"
    /\ accepted' = [accepted EXCEPT ![req[r].nonce] = @ + 1]
    /\ \/ Goto(r, "clear")
       \/ \E why \in {"wrong", "nophone"} :
             req' = [req EXCEPT ![r].pc = "gate", ![r].why = why]
    /\ UNCHANGED <<clock, nonce, drawn, throttle, approval, said, bought, late,
                   blame>>

-----------------------------------------------------------------------------
(* guard_gate and guard_decide *)

\* effective_state
Effective(a) ==
    IF approval[a].st = "pending" /\ clock - approval[a].at >= TTL THEN "expired"
    ELSE approval[a].st

\* can_consume
CanConsume(a, u) == approval[a].user = u /\ Effective(a) = "approved"

\* Faulty variant: a spent approval stays in the map.
GateAllowKeeps(r, a) ==
    /\ req[r].pc = "gate"
    /\ CanConsume(a, req[r].user)
    /\ bought' = [bought EXCEPT ![a] = @ + 1]
    /\ req' = [req EXCEPT ![r].pc = "clear", ![r].via = a]
    /\ UNCHANGED <<clock, nonce, drawn, throttle, approval, accepted, said, late,
                   blame>>

\* The request presents an approval that it may spend.
GateAllow(r, a) ==
    /\ req[r].pc = "gate"
    /\ CanConsume(a, req[r].user)
    /\ approval' = [approval EXCEPT ![a].st = "gone"]
    /\ bought' = [bought EXCEPT ![a] = @ + 1]
    /\ req' = [req EXCEPT ![r].pc = "clear", ![r].via = a]
    /\ UNCHANGED <<clock, nonce, drawn, throttle, accepted, said, late, blame>>

\* It presents one (of any account) that waits or was denied.
GatePoll(r, a) ==
    /\ req[r].pc = "gate"
    /\ \/ Effective(a) = "pending" /\ Finish(r)
       \/ Effective(a) = "denied" /\ Reject(r, "wrong")
    /\ UNCHANGED <<clock, nonce, drawn, throttle, approval, history>>

\* It presents no id, or one that no longer stands for anything (unknown,
\* expired, approved for another account): the gate goes on to the phones.
GateNone(r) ==
    /\ req[r].pc = "gate"
    /\ req' = [req EXCEPT ![r].pc = "raise", ![r].at = clock]
    /\ UNCHANGED <<clock, nonce, drawn, throttle, approval, history>>

\* is_evictable, at the time the gate was entered.
Evictable(a, t) == approval[a].st # "absent" /\ t - approval[a].at >= 2 * TTL

\* A new request to the phones; the stale entries go.
GateRaise(r, a) ==
    /\ req[r].pc = "raise"
    /\ approval[a].st = "absent"
    /\ approval' = [b \in Approvals |->
           IF b = a THEN [user |-> req[r].user, at |-> req[r].at, st |-> "pending"]
           ELSE IF Evictable(b, req[r].at) THEN [approval[b] EXCEPT !.st = "gone"]
           ELSE approval[b]]
    /\ Finish(r)
    /\ UNCHANGED <<clock, nonce, drawn, throttle, history>>

\* No phone to ask: the request fails, whether a code was typed or not.
GateUnavailable(r) ==
    /\ req[r].pc = "raise"
    /\ Goto(r, "fail")
    /\ UNCHANGED <<clock, nonce, drawn, throttle, approval, history>>

\* Faulty variant: a decided request can be decided again.
AnswerableAgain(a) == Effective(a) \in {"pending", "approved", "denied"}

\* decide: only a request that is not final.
Answerable(a) == Effective(a) = "pending"

\* A phone of u answers one of its account's requests.
GuardDecide(a, u, verdict) ==
    /\ approval[a].user = u
    /\ Answerable(a)
    /\ approval' = [approval EXCEPT ![a].st = verdict]
    /\ said' = [said EXCEPT ![a] = @ \cup {verdict}]
    /\ UNCHANGED <<clock, nonce, drawn, throttle, req, accepted, bought, late,
                   blame>>

-----------------------------------------------------------------------------
(* Everything else *)

\* A statement fails, the account has no challenge key, or the client goes away
\* while a statement is awaited (after GateAllow, the audit row).
RequestFails(r) ==
    /\ \/ req[r].pc \in {"read", "password", "issue"}
       \/ req[r].pc = "clear" /\ req[r].via # None
    /\ Finish(r)
    /\ UNCHANGED <<clock, nonce, drawn, throttle, approval, history>>

\* The server restarts: nonces, approvals, failures and requests are lost.
Restart ==
    /\ nonce' = [u \in Accounts |-> NoNonce]
    /\ throttle' = [u \in Accounts |-> NoFailures]
    /\ approval' = [a \in Approvals |-> IF approval[a].st = "absent" THEN NoApproval
                                        ELSE [approval[a] EXCEPT !.st = "gone"]]
    /\ req' = [r \in Requests |-> Idle]
    /\ late' = [u \in Accounts |-> 0]
    /\ blame' = {}
    /\ UNCHANGED <<clock, drawn, accepted, said, bought>>

Tick ==
    /\ clock < MaxTime
    /\ clock' = clock + 1
    /\ UNCHANGED <<nonce, drawn, throttle, approval, req, history>>

Next ==
    \/ \E u \in Accounts, n \in Nonces : Challenge(u, n)
    \/ \E r \in Requests, u \in Accounts, pc \in {"pop", "password"} : Begin(r, u, pc)
    \/ \E r \in Requests :
        \/ CheckPassword(r) \/ Pop(r) \/ ProofBad(r) \/ ProofGood(r)
        \/ GateNone(r) \/ GateUnavailable(r)
        \/ \E a \in Approvals : GateAllow(r, a) \/ GatePoll(r, a) \/ GateRaise(r, a)
        \/ RecordFailure(r) \/ ClearFailures(r) \/ IssueToken(r) \/ RequestFails(r)
    \/ \E a \in Approvals, u \in Accounts, v \in {"approved", "denied"} : GuardDecide(a, u, v)
    \/ Restart
    \/ Tick

Spec == Init /\ [][Next]_vars

-----------------------------------------------------------------------------
(* Properties *)

\* However many requests race for it, and across restarts, a nonce passes at
\* most one proof: a proof that was seen on the wire cannot be replayed
\* (api_auth_verify pops the nonce before it looks at the proof).
NonceSingleUse == \A n \in Nonces : accepted[n] <= 1

\* One approval buys at most one login, only one its phone approved, and only
\* for the account it was raised for: a denial, a replayed answer or an answer
\* that came too late buys none (guard_gate spends it, guard_decide answers it).
ApprovalBuysOneLogin ==
    /\ \A a \in Approvals : bought[a] <= 1 /\ (bought[a] = 1 => said[a] = {"approved"})
    /\ \A r \in Requests : req[r].via # None => approval[req[r].via].user = req[r].user

\* The lockout is checked before the failure is counted, so requests in flight
\* can still fail once it holds; those are all the guesses it lets pass
\* (login_locked before the first await, record_login_failure after it).
LockoutLeaksOnlyInFlight ==
    \A u \in Accounts : late[u] <= Cardinality(Requests) - 1

\* A lost, flat or offline phone never locks the owner out: behind a lockout
\* there is a wrong password or code or a denial, not only absent phones
\* (the rule at the head of guard.rs; the Unavailable arm of api_auth_verify).
PhoneCannotLockOut ==
    \A u \in Accounts : Locked(u) => u \in blame

\* The sign-in approvals as PhoneApproval sees them.
Promise == INSTANCE PhoneApproval WITH
    asked <- [a \in Approvals |-> approval[a].user],
    answer <- said,
    logins <- bought,
    over <- {a \in Approvals : approval[a].st = "gone"}

\* The gate, the phones, evictions and restarts together implement the approval that
\* PhoneApproval describes: no answer is changed, none comes after an approval has been
\* forgotten or spent, and none of those lets a login through.
ImplementsApproval == Promise!Spec
=============================================================================
