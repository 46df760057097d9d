-------------------------- MODULE QrSignin_proofs --------------------------
(***************************************************************************)
(* Proofs about QrSignin, for any sets of challenges, accounts, addresses  *)
(* and concurrent requests: its types, the one-login guarantee, what an    *)
(* answer means, that it implements OneShotLogin, and how far the cap of   *)
(* active challenges can be passed.                                        *)
(***************************************************************************)
EXTENDS QrSignin, FiniteSetTheorems, TLAPS

\* A row has an account from its answer on, and only then.
RowInv ==
    \A c \in Challenges :
        /\ state[c] \in {"absent", "pending"} <=> owner[c] = None
        /\ state[c] = "absent" => c \notin rows

\* What a request past its first read still knows to be true.
ReqInv ==
    \A r \in Requests :
        /\ req[r].pc \in {"count", "insert"} => req[r].ip \in IPs
        /\ req[r].pc \in {"swap", "issue"} =>
              /\ req[r].ch \in Challenges
              /\ req[r].user \in Users
              /\ req[r].user = owner[req[r].ch]
              /\ state[req[r].ch] \in {"approved", "consumed"}
        /\ req[r].pc = "issue" =>
              /\ state[req[r].ch] = "consumed"
              /\ logins[req[r].ch] = << >>

\* The compare-and-swap lets one request through to the issue.
OneIssuer ==
    \A r, s \in Requests :
        req[r].pc = "issue" /\ req[s].pc = "issue" /\ req[r].ch = req[s].ch => r = s

\* A screen that was signed in was signed in once, to the row's account.
LoginInv ==
    \A c \in Challenges :
        logins[c] # << >> => state[c] = "consumed" /\ logins[c] = <<owner[c]>>

\* The accepted answers are what the rows record.
Recorded(c) ==
    [ch |-> c, user |-> owner[c],
     st |-> IF state[c] = "denied" THEN "denied" ELSE "approved"]

AnswerInv ==
    /\ \A a \in answers : state[a.ch] \notin {"absent", "pending"} /\ a = Recorded(a.ch)
    /\ \A c \in Challenges :
           state[c] \notin {"absent", "pending"} => Recorded(c) \in answers

IInv == TypeOK /\ RowInv /\ ReqInv /\ OneIssuer /\ LoginInv /\ AnswerInv

-----------------------------------------------------------------------------
(* Types *)

USE DEF table

\* An unused request slot is a request.
LEMMA IdleIsRequest == Idle \in Request
  BY DEF Idle, Request, PC

\* Freeing a slot keeps the requests' type.
LEMMA FinishTypes ==
    ASSUME NEW r \in Requests, req \in [Requests -> Request], Finish(r)
    PROVE  req' \in [Requests -> Request]
  BY IdleIsRequest DEF Finish

\* Moving a request to its next statement keeps the requests' type.
LEMMA AdvanceTypes ==
    ASSUME NEW r \in Requests, NEW p \in PC, req \in [Requests -> Request],
           req' = [req EXCEPT ![r].pc = p]
    PROVE  req' \in [Requests -> Request]
  BY DEF Request

\* The initial table, requests and histories have their types.
LEMMA InitTypes == Init => TypeOK
  BY QrConstants, IdleIsRequest DEF Init, TypeOK, RowState

\* No step of a handler, of an admin or of the clock leaves the types.
LEMMA StepTypes == TypeOK /\ ReqInv /\ [Next]_vars => TypeOK'
<1> SUFFICES ASSUME TypeOK, ReqInv, [Next]_vars
             PROVE  TypeOK'
  OBVIOUS
<1> USE QrConstants
<1>1. ASSUME NEW r \in Requests, NEW a \in IPs, StartCleanup(r, a)
      PROVE  TypeOK'
  BY <1>1 DEF TypeOK, StartCleanup, Stale, Request, Idle, PC
<1>2. ASSUME NEW r \in Requests, StartCount(r)
      PROVE  TypeOK'
  <2>1. req' \in [Requests -> Request]
    <3>1. CASE Finish(r)
      BY <1>2, <3>1, FinishTypes DEF TypeOK
    <3>2. CASE req' = [req EXCEPT ![r].pc = "insert"]
      BY <1>2, <3>2, AdvanceTypes DEF TypeOK, PC
    <3>. QED
      BY <1>2, <3>1, <3>2 DEF StartCount
  <2>. QED
    BY <1>2, <2>1 DEF TypeOK, StartCount
<1>3. ASSUME NEW r \in Requests, NEW c \in Challenges, StartInsert(r, c)
      PROVE  TypeOK'
  <2>1. req[r].ts + TTL \in Nat /\ req[r].ip \in IPs \cup {None}
    BY DEF TypeOK, Request
  <2>. QED
    BY <1>3, <2>1, FinishTypes DEF TypeOK, StartInsert, Deadline, RowState
<1>4. ASSUME NEW c \in Challenges, NEW u \in Users, NEW v \in {"approved", "denied"},
             Decide(c, u, v)
      PROVE  TypeOK'
  BY <1>4 DEF TypeOK, Decide, RowState
<1>5. ASSUME NEW r \in Requests, NEW c \in Challenges, PollRead(r, c)
      PROVE  TypeOK'
  BY <1>5 DEF TypeOK, PollRead, Request, Idle, PC
<1>6. ASSUME NEW r \in Requests, PollSwap(r)
      PROVE  TypeOK'
  <2>1. CASE Consumable(req[r].ch)
    BY <1>6, <2>1, AdvanceTypes DEF TypeOK, PollSwap, PC, RowState
  <2>2. CASE ~Consumable(req[r].ch)
    BY <1>6, <2>2, FinishTypes DEF TypeOK, PollSwap
  <2>. QED
    BY <2>1, <2>2
<1>7. ASSUME NEW r \in Requests, PollIssue(r)
      PROVE  TypeOK'
  <2>1. req[r].ch \in Challenges /\ req[r].user \in Users
    BY <1>7 DEF PollIssue, ReqInv
  <2>2. logins' \in [Challenges -> Seq(Users)]
    BY <1>7, <2>1 DEF TypeOK, PollIssue
  <2>. QED
    BY <1>7, <2>2, FinishTypes DEF TypeOK, PollIssue
<1>8. ASSUME NEW r \in Requests, RequestFails(r)
      PROVE  TypeOK'
  BY <1>8, FinishTypes DEF TypeOK, RequestFails
<1>9. ASSUME NEW u \in Users, SetEnabled(u)
      PROVE  TypeOK'
  BY <1>9 DEF TypeOK, SetEnabled
<1>10. CASE Tick
  BY <1>10 DEF TypeOK, Tick
<1>11. CASE UNCHANGED vars
  BY <1>11 DEF TypeOK, vars
<1>. QED
  BY <1>1, <1>2, <1>3, <1>4, <1>5, <1>6, <1>7, <1>8, <1>9, <1>10, <1>11 DEF Next

-----------------------------------------------------------------------------
(* The inductive invariant *)

\* An empty table with no request in flight satisfies the invariant.
LEMMA InitInv == Init => IInv
<1> SUFFICES ASSUME Init PROVE IInv
  OBVIOUS
<1>1. TypeOK
  BY InitTypes
<1>2. RowInv /\ LoginInv /\ AnswerInv
  BY DEF Init, RowInv, LoginInv, AnswerInv
<1>3. ReqInv /\ OneIssuer
  BY DEF Init, ReqInv, OneIssuer, Idle
<1>. QED
  BY <1>1, <1>2, <1>3 DEF IInv

\* A step that leaves rows' answers and the histories alone, and only frees
\* slots or starts requests that have read nothing, keeps the invariant.
LEMMA QuietStep ==
    ASSUME IInv, TypeOK',
           UNCHANGED <<state, owner, answers, logins>>,
           rows' \subseteq rows,
           \A r \in Requests :
              \/ req'[r] = req[r]
              \/ req'[r].pc \in {"idle", "count", "insert"} /\
                 (req'[r].pc # "idle" => req'[r].ip \in IPs)
    PROVE  IInv'
<1>1. RowInv'
  BY DEF IInv, RowInv
<1>2. ReqInv'
  BY DEF IInv, ReqInv
<1>3. OneIssuer'
  <2> SUFFICES ASSUME NEW r \in Requests, NEW s \in Requests,
                      req'[r].pc = "issue", req'[s].pc = "issue", req'[r].ch = req'[s].ch
               PROVE  r = s
    BY DEF OneIssuer
  <2>1. req'[r] = req[r] /\ req'[s] = req[s]
    OBVIOUS
  <2>. QED
    BY <2>1 DEF IInv, OneIssuer
<1>4. LoginInv' /\ AnswerInv'
  BY DEF IInv, LoginInv, AnswerInv, Recorded
<1>. QED
  BY <1>1, <1>2, <1>3, <1>4 DEF IInv

\* Every step keeps the invariant.
LEMMA StepInv == IInv /\ [Next]_vars => IInv'
<1> SUFFICES ASSUME IInv, [Next]_vars
             PROVE  IInv'
  OBVIOUS
<1> USE QrConstants
<1>t. TypeOK /\ TypeOK'
  BY StepTypes DEF IInv
<1>1. ASSUME NEW r \in Requests, NEW a \in IPs, StartCleanup(r, a)
      PROVE  IInv'
  <2>1. \A s \in Requests : req'[s] = req[s] \/ req'[s] = [Idle EXCEPT !.pc = "count", !.ip = a, !.ts = clock]
    BY <1>1, <1>t DEF StartCleanup, TypeOK
  <2>2. rows' \subseteq rows /\ UNCHANGED <<state, owner, answers, logins>>
    BY <1>1 DEF StartCleanup
  <2>. QED
    BY <1>t, <2>1, <2>2, QuietStep DEF Idle
<1>2. ASSUME NEW r \in Requests, StartCount(r)
      PROVE  IInv'
  <2>1. req'[r] = Idle \/ (req'[r].pc = "insert" /\ req'[r].ip = req[r].ip)
    <3>1. CASE Finish(r)
      BY <1>t, <3>1 DEF Finish, TypeOK
    <3>2. CASE req' = [req EXCEPT ![r].pc = "insert"]
      BY <1>t, <3>2 DEF TypeOK, Request
    <3>. QED
      BY <1>2, <3>1, <3>2 DEF StartCount
  <2>2. \A s \in Requests \ {r} : req'[s] = req[s]
    BY <1>2, <1>t DEF StartCount, Finish, TypeOK
  <2>3. req[r].ip \in IPs
    BY <1>2 DEF StartCount, IInv, ReqInv
  <2>4. UNCHANGED <<state, owner, answers, logins, rows>>
    BY <1>2 DEF StartCount
  <2>. QED
    BY <1>t, <2>1, <2>2, <2>3, <2>4, QuietStep DEF Idle
<1>3. ASSUME NEW r \in Requests, NEW c \in Challenges, StartInsert(r, c)
      PROVE  IInv'
  <2> USE DEF StartInsert, Finish
  <2>1. \A s \in Requests : req'[s] = IF s = r THEN Idle ELSE req[s]
    BY <1>3, <1>t DEF TypeOK
  <2>2. \A d \in Challenges : state'[d] = IF d = c THEN "pending" ELSE state[d]
    BY <1>3, <1>t DEF TypeOK
  <2>3. state[c] = "absent" /\ UNCHANGED <<owner, answers, logins>> /\ rows' = rows \cup {c}
    BY <1>3
  <2>4. RowInv'
    BY <2>2, <2>3 DEF IInv, RowInv
  <2>5. ReqInv'
    BY <2>1, <2>2, <2>3 DEF IInv, ReqInv, Idle
  <2>6. OneIssuer'
    BY <2>1 DEF IInv, OneIssuer, Idle
  <2>7. LoginInv'
    BY <2>2, <2>3 DEF IInv, LoginInv
  <2>8. AnswerInv'
    BY <1>t, <2>2, <2>3 DEF IInv, AnswerInv, Recorded, TypeOK
  <2>. QED
    BY <1>t, <2>4, <2>5, <2>6, <2>7, <2>8 DEF IInv
<1>4. ASSUME NEW c \in Challenges, NEW u \in Users, NEW v \in {"approved", "denied"},
             Decide(c, u, v)
      PROVE  IInv'
  <2>1. /\ state'[c] = v /\ owner'[c] = u
        /\ \A d \in Challenges \ {c} : state'[d] = state[d] /\ owner'[d] = owner[d]
    BY <1>4, <1>t DEF Decide, TypeOK
  <2>2. /\ state[c] = "pending"
        /\ answers' = answers \cup {[ch |-> c, user |-> u, st |-> v]}
        /\ UNCHANGED <<rows, req, logins>>
    BY <1>4 DEF Decide, Answerable
  <2>3. u # None
    OBVIOUS
  <2>4. RowInv'
    BY <2>1, <2>2, <2>3 DEF IInv, RowInv
  <2>5. ReqInv' /\ OneIssuer'
    BY <2>1, <2>2 DEF IInv, ReqInv, OneIssuer
  <2>6. LoginInv'
    BY <2>1, <2>2 DEF IInv, LoginInv
  <2>7. AnswerInv'
    <3>1. \A d \in Challenges \ {c} : Recorded(d)' = Recorded(d)
      BY <2>1 DEF Recorded
    <3>2. Recorded(c)' = [ch |-> c, user |-> u, st |-> v]
      BY <2>1 DEF Recorded
    <3>3. \A a \in answers : a.ch \in Challenges /\ a.ch # c
      BY <1>t, <2>2 DEF IInv, AnswerInv, TypeOK
    <3>. QED
      BY <2>1, <2>2, <3>1, <3>2, <3>3 DEF IInv, AnswerInv
  <2>. QED
    BY <1>t, <2>4, <2>5, <2>6, <2>7 DEF IInv
<1>5. ASSUME NEW r \in Requests, NEW c \in Challenges, PollRead(r, c)
      PROVE  IInv'
  <2>1. /\ req'[r].pc = "swap" /\ req'[r].ch = c /\ req'[r].user = owner[c]
        /\ \A s \in Requests \ {r} : req'[s] = req[s]
    BY <1>5, <1>t DEF PollRead, TypeOK, Idle
  <2>2. UNCHANGED <<rows, state, owner, answers, logins>>
    BY <1>5 DEF PollRead
  <2>3. state[c] \in {"approved", "consumed"} /\ owner[c] \in Users
    BY <1>5, <1>t DEF PollRead, IInv, RowInv, TypeOK
  <2>4. ReqInv'
    BY <2>1, <2>2, <2>3 DEF IInv, ReqInv
  <2>5. OneIssuer'
    BY <2>1 DEF IInv, OneIssuer
  <2>6. RowInv' /\ LoginInv' /\ AnswerInv'
    BY <2>2 DEF IInv, RowInv, LoginInv, AnswerInv, Recorded
  <2>. QED
    BY <1>t, <2>4, <2>5, <2>6 DEF IInv
<1>6. ASSUME NEW r \in Requests, PollSwap(r)
      PROVE  IInv'
  <2> DEFINE c == req[r].ch
  <2>1. /\ c \in Challenges /\ req[r].user = owner[c] /\ req[r].user \in Users
        /\ state[c] \in {"approved", "consumed"}
    BY <1>6 DEF PollSwap, IInv, ReqInv
  <2>2. UNCHANGED <<rows, owner, answers, logins>>
    BY <1>6 DEF PollSwap
  <2>3. CASE Consumable(c)
    <3>1. /\ req'[r].pc = "issue" /\ req'[r].ch = c /\ req'[r].user = req[r].user
          /\ \A s \in Requests \ {r} : req'[s] = req[s]
      BY <1>6, <1>t, <2>3 DEF PollSwap, TypeOK, Request
    <3>2. /\ state[c] = "approved" /\ state'[c] = "consumed"
          /\ \A d \in Challenges \ {c} : state'[d] = state[d]
      BY <1>6, <1>t, <2>1, <2>3 DEF PollSwap, TypeOK, Consumable
    <3>3. logins[c] = << >>
      BY <2>1, <3>2 DEF IInv, LoginInv
    <3>4. RowInv'
      BY <2>1, <2>2, <3>2 DEF IInv, RowInv
    <3>5. ReqInv'
      BY <2>1, <2>2, <3>1, <3>2, <3>3 DEF IInv, ReqInv
    <3>6. OneIssuer'
      BY <2>1, <3>1, <3>2 DEF IInv, OneIssuer, ReqInv
    <3>7. LoginInv'
      BY <2>2, <3>2, <3>3 DEF IInv, LoginInv
    <3>8. AnswerInv'
      <4>1. \A d \in Challenges : Recorded(d)' = Recorded(d)
        BY <2>2, <3>2 DEF Recorded
      <4>2. \A a \in answers : a.ch \in Challenges
        BY <1>t DEF TypeOK
      <4>. QED
        BY <2>2, <3>2, <4>1, <4>2 DEF IInv, AnswerInv
    <3>. QED
      BY <1>t, <3>4, <3>5, <3>6, <3>7, <3>8 DEF IInv
  <2>4. CASE ~Consumable(c)
    <3>1. UNCHANGED state /\ \A s \in Requests : req'[s] = req[s] \/ req'[s] = Idle
      BY <1>6, <1>t, <2>4 DEF PollSwap, Finish, TypeOK
    <3>. QED
      BY <1>t, <2>2, <3>1, QuietStep DEF Idle
  <2>. QED
    BY <2>3, <2>4
<1>7. ASSUME NEW r \in Requests, PollIssue(r)
      PROVE  IInv'
  <2> DEFINE c == req[r].ch
  <2>1. /\ c \in Challenges /\ req[r].pc = "issue" /\ req[r].user = owner[c]
        /\ req[r].user \in Users /\ state[c] = "consumed" /\ logins[c] = << >>
    BY <1>7 DEF PollIssue, IInv, ReqInv
  <2>2. /\ UNCHANGED <<rows, state, owner, answers>>
        /\ req'[r] = Idle
        /\ \A s \in Requests \ {r} : req'[s] = req[s]
    BY <1>7, <1>t DEF PollIssue, Finish, TypeOK
  <2>3. logins'[c] = <<owner[c]>>
    <3>1. logins'[c] = Append(logins[c], req[r].user)
      BY <1>7, <1>t, <2>1 DEF PollIssue, TypeOK
    <3>. QED
      BY <2>1, <3>1
  <2>4. \A d \in Challenges \ {c} : logins'[d] = logins[d]
    BY <1>7, <1>t DEF PollIssue, TypeOK
  <2>5. ReqInv'
    BY <2>1, <2>2, <2>4 DEF IInv, ReqInv, OneIssuer, Idle
  <2>6. OneIssuer'
    BY <2>2 DEF IInv, OneIssuer, Idle
  <2>7. LoginInv'
    BY <2>1, <2>2, <2>3, <2>4 DEF IInv, LoginInv
  <2>8. RowInv' /\ AnswerInv'
    BY <2>2 DEF IInv, RowInv, AnswerInv, Recorded
  <2>. QED
    BY <1>t, <2>5, <2>6, <2>7, <2>8 DEF IInv
<1>8. ASSUME NEW r \in Requests, RequestFails(r)
      PROVE  IInv'
  <2>1. /\ UNCHANGED <<rows, state, owner, answers, logins>>
        /\ \A s \in Requests : req'[s] = req[s] \/ req'[s] = Idle
    BY <1>8, <1>t DEF RequestFails, Finish, TypeOK
  <2>. QED
    BY <1>t, <2>1, QuietStep DEF Idle
<1>9. ASSUME NEW u \in Users, SetEnabled(u)
      PROVE  IInv'
  BY <1>9, <1>t, QuietStep DEF SetEnabled
<1>10. CASE Tick
  BY <1>10, <1>t, QuietStep DEF Tick
<1>11. CASE UNCHANGED vars
  BY <1>11, <1>t, QuietStep DEF vars
<1>. QED
  BY <1>1, <1>2, <1>3, <1>4, <1>5, <1>6, <1>7, <1>8, <1>9, <1>10, <1>11 DEF Next

\* The invariant holds of every reachable state.
THEOREM Invariance == Spec => []IInv
  BY InitInv, StepInv, PTL DEF Spec

-----------------------------------------------------------------------------
(* What it gives *)

\* The table, the requests in flight and the histories always have their types,
\* whatever requests qr_auth.rs serves and however they interleave.
THEOREM TypeCorrect == Spec => []TypeOK
<1>1. IInv => TypeOK
  BY DEF IInv
<1>. QED
  BY <1>1, Invariance, PTL

\* A challenge yields at most one session, for any number of polls racing on any
\* number of replicas: the compare-and-swap of qr_signin_poll suffices.
THEOREM SingleUse == Spec => []AtMostOneLogin
<1>1. IInv => AtMostOneLogin
  <2> SUFFICES ASSUME IInv, NEW c \in Challenges
               PROVE  Len(logins[c]) <= 1
    BY DEF AtMostOneLogin
  <2>1. CASE logins[c] = << >>
    BY <2>1
  <2>2. CASE logins[c] # << >>
    <3>1. logins[c] = <<owner[c]>>
      BY <2>2 DEF IInv, LoginInv
    <3>. QED
      BY <3>1
  <2>. QED
    BY <2>1, <2>2
<1>. QED
  BY <1>1, Invariance, PTL

\* No two answers to one challenge are both accepted by qr_signin_decide.
THEOREM SingleAnswer == Spec => []OneAnswer
<1>1. IInv => OneAnswer
  BY DEF IInv, AnswerInv, OneAnswer
<1>. QED
  BY <1>1, Invariance, PTL

\* A screen is signed in only to the account whose phone was told "approved", and no
\* other answer was accepted.
THEOREM ApprovedLogin == Spec => []LoginWasApproved
<1>1. IInv => LoginWasApproved
  <2>0. IInv => OneAnswer
    BY DEF IInv, AnswerInv, OneAnswer
  <2> SUFFICES ASSUME IInv, NEW c \in Challenges, NEW i \in DOMAIN logins[c]
               PROVE  [ch |-> c, user |-> logins[c][i], st |-> "approved"] \in answers
    BY <2>0 DEF LoginWasApproved
  <2>1. logins[c] # << >>
    OBVIOUS
  <2>2. state[c] = "consumed" /\ logins[c] = <<owner[c]>>
    BY <2>1 DEF IInv, LoginInv
  <2>3. logins[c][i] = owner[c]
    BY <2>2
  <2>4. Recorded(c) = [ch |-> c, user |-> owner[c], st |-> "approved"]
    BY <2>2 DEF Recorded
  <2>. QED
    BY <2>2, <2>3, <2>4 DEF IInv, AnswerInv
<1>. QED
  BY <1>1, Invariance, PTL

\* Rows only move forward: an answer is final, a consumed row stays consumed and
\* cleanup takes only rows that no poll can consume any more.
THEOREM Settled == Spec => SettledStaysSettled
<1> DEFINE Forward ==
       \A c \in Challenges :
        /\ state[c] \in {"denied", "consumed"} => state'[c] = state[c]
        /\ state[c] = "approved" => state'[c] \in {"approved", "consumed"}
        /\ owner[c] # None => owner'[c] = owner[c]
        /\ c \in rows \ rows' => expires[c] <= clock
<1>1. IInv /\ [Next]_vars => [Forward]_vars
  <2> SUFFICES ASSUME IInv, Next
               PROVE  Forward
    OBVIOUS
  <2> USE QrConstants DEF IInv, TypeOK
  <2>1. ASSUME NEW r \in Requests, NEW a \in IPs, StartCleanup(r, a)
        PROVE  Forward
    BY <2>1 DEF StartCleanup, Stale
  <2>2. ASSUME NEW r \in Requests, StartCount(r)
        PROVE  Forward
    BY <2>2 DEF StartCount
  <2>3. ASSUME NEW r \in Requests, NEW c \in Challenges, StartInsert(r, c)
        PROVE  Forward
    BY <2>3 DEF StartInsert
  <2>4. ASSUME NEW c \in Challenges, NEW u \in Users, NEW v \in {"approved", "denied"},
               Decide(c, u, v)
        PROVE  Forward
    BY <2>4 DEF Decide, Answerable, RowInv
  <2>5. ASSUME NEW r \in Requests, NEW c \in Challenges, PollRead(r, c)
        PROVE  Forward
    BY <2>5 DEF PollRead
  <2>6. ASSUME NEW r \in Requests, PollSwap(r)
        PROVE  Forward
    BY <2>6 DEF PollSwap, Consumable
  <2>7. ASSUME NEW r \in Requests, PollIssue(r) \/ RequestFails(r)
        PROVE  Forward
    BY <2>7 DEF PollIssue, RequestFails
  <2>8. ASSUME NEW u \in Users, SetEnabled(u)
        PROVE  Forward
    BY <2>8 DEF SetEnabled
  <2>9. CASE Tick
    BY <2>9 DEF Tick
  <2>. QED
    BY <2>1, <2>2, <2>3, <2>4, <2>5, <2>6, <2>7, <2>8, <2>9 DEF Next
<1>. QED
  BY <1>1, Invariance, PTL DEF Spec, SettledStaysSettled

-----------------------------------------------------------------------------
(* Refinement *)

\* A step that changes neither states, accounts nor logins shows nothing.
LEMMA Unseen ==
    ASSUME UNCHANGED <<state, owner, logins>>
    PROVE  UNCHANGED Promise!vars
  BY DEF Promise!vars, Granted

\* An accepted answer is the one-shot login's answer.
LEMMA DecideAnswers ==
    ASSUME IInv, NEW c \in Challenges, NEW u \in Users, NEW v \in {"approved", "denied"},
           Decide(c, u, v)
    PROVE  Promise!Next
<1> DEFINE a == IF v = "denied" THEN "refused" ELSE u
<1>1. /\ state'[c] = v /\ owner'[c] = u /\ state[c] = "pending" /\ UNCHANGED logins
      /\ \A d \in Challenges \ {c} : state'[d] = state[d] /\ owner'[d] = owner[d]
  BY DEF IInv, TypeOK, Decide, Answerable
<1>2. Granted(c) = None /\ Granted(c)' = a
  BY <1>1 DEF Granted
<1>3. \A d \in Challenges \ {c} : Granted(d)' = Granted(d)
  BY <1>1 DEF Granted
<1>4. [d \in Challenges |-> Granted(d)'] = [[d \in Challenges |-> Granted(d)] EXCEPT ![c] = a]
  BY <1>2, <1>3
<1>5. {d \in Challenges : state'[d] = "consumed"} = {d \in Challenges : state[d] = "consumed"}
  BY <1>1
<1>6. Promise!Answer(c, a)
  BY <1>1, <1>2, <1>4, <1>5 DEF Promise!Answer
<1>7. a \in Users \cup {"refused"}
  OBVIOUS
<1>. QED
  BY <1>6, <1>7 DEF Promise!Next

\* A compare-and-swap that succeeds is the claim.
LEMMA SwapClaims ==
    ASSUME IInv, NEW r \in Requests, PollSwap(r)
    PROVE  Promise!Next \/ UNCHANGED Promise!vars
<1>. PICK c \in Challenges : c = req[r].ch
  BY DEF PollSwap, IInv, ReqInv
<1>1. owner[c] \in Users /\ UNCHANGED <<owner, logins>>
  BY DEF PollSwap, IInv, ReqInv
<1>2. CASE Consumable(c)
  <2>1. /\ state[c] = "approved" /\ state'[c] = "consumed"
        /\ \A d \in Challenges \ {c} : state'[d] = state[d]
    BY <1>1, <1>2 DEF PollSwap, Consumable, IInv, TypeOK
  <2>2. Granted(c) = owner[c] /\ \A d \in Challenges : Granted(d)' = Granted(d)
    BY <1>1, <2>1 DEF Granted
  <2>3. {d \in Challenges : state'[d] = "consumed"}
           = {d \in Challenges : state[d] = "consumed"} \cup {c}
    BY <1>1, <2>1
  <2>4. Promise!Claim(c)
    BY <1>1, <2>1, <2>2, <2>3 DEF Promise!Claim
  <2>. QED
    BY <2>4 DEF Promise!Next
<1>3. CASE ~Consumable(c)
  BY <1>1, <1>3, Unseen DEF PollSwap
<1>. QED
  BY <1>2, <1>3

\* Handing out the token or the session is the one sign-in.
LEMMA IssueSignsIn ==
    ASSUME IInv, NEW r \in Requests, PollIssue(r)
    PROVE  Promise!Next
<1> DEFINE c == req[r].ch
<1>1. /\ c \in Challenges /\ state[c] = "consumed" /\ req[r].user = owner[c]
      /\ logins[c] = << >>
  BY DEF PollIssue, IInv, ReqInv
<1>2. UNCHANGED <<state, owner>> /\ Granted(c) = owner[c]
  BY <1>1 DEF PollIssue, Granted
<1>3. Append(logins[c], req[r].user) = <<Granted(c)>>
  BY <1>1, <1>2
<1>4. logins' = [logins EXCEPT ![c] = <<Granted(c)>>]
  BY <1>3 DEF PollIssue
<1>5. \A d \in Challenges : Granted(d)' = Granted(d)
  BY <1>2 DEF Granted
<1>6. Promise!SignIn(c)
  BY <1>1, <1>2, <1>4, <1>5 DEF Promise!SignIn
<1>. QED
  BY <1>1, <1>6 DEF Promise!Next

\* qr_auth.rs implements the one-shot login: initial states map to initial
\* states, and every statement of every request is an abstract step or unseen.
THEOREM Refinement == Spec => ImplementsOneShot
<1>1. Init => Promise!Init
  BY DEF Init, Promise!Init, Granted
<1>2. IInv /\ [Next]_vars => [Promise!Next]_(Promise!vars)
  <2> SUFFICES ASSUME IInv, [Next]_vars
               PROVE  Promise!Next \/ UNCHANGED Promise!vars
    OBVIOUS
  <2>1. ASSUME NEW r \in Requests,
               \/ \E a \in IPs : StartCleanup(r, a)
               \/ StartCount(r)
               \/ \E c \in Challenges : PollRead(r, c)
               \/ RequestFails(r)
        PROVE  UNCHANGED Promise!vars
    BY <2>1, Unseen DEF StartCleanup, StartCount, PollRead, RequestFails
  <2>2. ASSUME NEW r \in Requests, NEW c \in Challenges, StartInsert(r, c)
        PROVE  UNCHANGED Promise!vars
    <3>1. /\ state[c] = "absent" /\ state'[c] = "pending" /\ UNCHANGED <<owner, logins>>
          /\ \A d \in Challenges \ {c} : state'[d] = state[d]
      BY <2>2 DEF StartInsert, IInv, TypeOK
    <3>2. \A d \in Challenges : Granted(d)' = Granted(d)
      BY <3>1 DEF Granted
    <3>3. {d \in Challenges : state'[d] = "consumed"} = {d \in Challenges : state[d] = "consumed"}
      BY <3>1
    <3>. QED
      BY <3>1, <3>2, <3>3 DEF Promise!vars
  <2>3. ASSUME \/ \E u \in Users : SetEnabled(u)
               \/ Tick
               \/ UNCHANGED vars
        PROVE  UNCHANGED Promise!vars
    BY <2>3, Unseen DEF SetEnabled, Tick, vars
  <2>4. ASSUME NEW c \in Challenges, NEW u \in Users, NEW v \in {"approved", "denied"},
               Decide(c, u, v)
        PROVE  Promise!Next
    BY <2>4, DecideAnswers
  <2>5. ASSUME NEW r \in Requests, PollSwap(r)
        PROVE  Promise!Next \/ UNCHANGED Promise!vars
    BY <2>5, SwapClaims
  <2>6. ASSUME NEW r \in Requests, PollIssue(r)
        PROVE  Promise!Next
    BY <2>6, IssueSignsIn
  <2>. QED
    BY <2>1, <2>2, <2>3, <2>4, <2>5, <2>6 DEF Next
<1>. QED
  BY <1>1, <1>2, Invariance, PTL DEF Spec, ImplementsOneShot, Promise!Spec

-----------------------------------------------------------------------------
(* The cap of active challenges *)

\* The starts that have been counted for address a and have not inserted yet.
Inserting(a) == {r \in Requests : req[r].pc = "insert" /\ req[r].ip = a}

\* No start is ahead of the clock.  The active challenges of an address are fewer than the
\* cap when a start has counted them, and then no more starts insert than there are.
CapInv ==
    /\ \A r \in Requests : req[r].ts <= clock
    /\ \A a \in IPs :
           Cardinality(Active(a, clock)) + Cardinality(Inserting(a)) <= MaxActive - 1 + Cardinality(Requests)

\* The sets that are counted are finite.
LEMMA CapSets ==
    ASSUME TypeOK
    PROVE  /\ Cardinality(Requests) \in Nat
           /\ \A a, t : /\ IsFiniteSet(Active(a, t)) /\ Cardinality(Active(a, t)) \in Nat
                        /\ IsFiniteSet(Inserting(a)) /\ Cardinality(Inserting(a)) \in Nat
                        /\ Cardinality(Inserting(a)) <= Cardinality(Requests)
<1>1. IsFiniteSet(Requests) /\ IsFiniteSet(Challenges)
  BY QrConstants
<1>2. \A a, t : Active(a, t) \subseteq Challenges /\ Inserting(a) \subseteq Requests
  BY DEF TypeOK, Active, Inserting
<1>. QED
  BY <1>1, <1>2, FS_Subset, FS_CardinalityType

\* An address that gains neither a challenge nor a start stays within the bound.
LEMMA CapShrinks ==
    ASSUME TypeOK, TypeOK', NEW a \in IPs,
           Cardinality(Active(a, clock)) + Cardinality(Inserting(a)) <= MaxActive - 1 + Cardinality(Requests),
           Active(a, clock)' \subseteq Active(a, clock), Inserting(a)' \subseteq Inserting(a)
    PROVE  Cardinality(Active(a, clock)') + Cardinality(Inserting(a)') <= MaxActive - 1 + Cardinality(Requests)
<1>1. /\ IsFiniteSet(Active(a, clock)) /\ Cardinality(Active(a, clock)) \in Nat
      /\ IsFiniteSet(Inserting(a)) /\ Cardinality(Inserting(a)) \in Nat /\ Cardinality(Requests) \in Nat
  BY CapSets
<1>2. /\ IsFiniteSet(Active(a, clock)') /\ Cardinality(Active(a, clock)') <= Cardinality(Active(a, clock))
      /\ IsFiniteSet(Inserting(a)') /\ Cardinality(Inserting(a)') <= Cardinality(Inserting(a))
  BY <1>1, FS_Subset
<1>3. Cardinality(Active(a, clock)') \in Nat /\ Cardinality(Inserting(a)') \in Nat /\ MaxActive \in Nat
  BY <1>2, FS_CardinalityType, QrConstants
<1>. QED
  BY <1>1, <1>2, <1>3

\* No step but a count adds to the starts that insert, and none but an insert to the
\* challenges.
LEMMA CapQuiet ==
    ASSUME TypeOK, TypeOK', CapInv, rows' \subseteq rows, UNCHANGED <<expires, ip>>, clock' \in {clock, clock + 1},
           \A r \in Requests : \/ req'[r] = req[r]
                               \/ req'[r].pc # "insert" /\ req'[r].ts \in {0, clock}
    PROVE  CapInv'
<1>0. clock \in Nat
  BY DEF TypeOK
<1>1. \A r \in Requests : req'[r].ts <= clock'
  <2>1. \A r \in Requests : req[r].ts \in Nat /\ req[r].ts <= clock
    BY DEF TypeOK, Request, CapInv
  <2>. QED
    BY <1>0, <2>1
<1>2. ASSUME NEW a \in IPs
      PROVE  Active(a, clock)' \subseteq Active(a, clock) /\ Inserting(a)' \subseteq Inserting(a)
  <2>1. \A c \in Challenges : expires[c] \in Nat
    BY DEF TypeOK
  <2>2. Active(a, clock)' \subseteq Active(a, clock)
    BY <1>0, <2>1 DEF Active, TypeOK
  <2>3. Inserting(a)' \subseteq Inserting(a)
    BY DEF Inserting
  <2>. QED
    BY <2>2, <2>3
<1>. QED
  BY <1>1, <1>2, CapShrinks DEF CapInv

\* A start that has counted: its address was below the cap at its ts, and so it is now.
LEMMA CapCounts ==
    ASSUME TypeOK, TypeOK', CapInv, ~CountFails, NEW r \in Requests, StartCount(r)
    PROVE  CapInv'
<1>0. /\ req \in [Requests -> Request] /\ clock \in Nat /\ req[r].ts \in Nat /\ MaxActive \in Nat
      /\ UNCHANGED <<clock, rows, expires, ip>> /\ req[r].pc = "count"
  BY QrConstants DEF TypeOK, Request, StartCount
<1>1. CASE Finish(r)
  BY <1>0, <1>1, CapQuiet DEF Finish, Idle
<1>2. CASE ~AtCap(r) /\ req' = [req EXCEPT ![r].pc = "insert"]
  <2>1. /\ req'[r].ts = req[r].ts /\ req'[r].ip = req[r].ip
        /\ \A q \in Requests \ {r} : req'[q] = req[q]
    BY <1>0, <1>2 DEF Request
  <2>2. \A q \in Requests : req'[q].ts <= clock'
    BY <1>0, <2>1 DEF CapInv
  <2>3. ASSUME NEW a \in IPs
        PROVE  Cardinality(Active(a, clock)') + Cardinality(Inserting(a)') <= MaxActive - 1 + Cardinality(Requests)
    <3>1. Active(a, clock)' = Active(a, clock)
      BY <1>0 DEF Active
    <3>2. CASE a = req[r].ip
      <4>1. Active(a, clock) \subseteq Active(a, req[r].ts)
        <5>1. req[r].ts <= clock /\ \A c \in rows : expires[c] \in Nat
          BY DEF CapInv, TypeOK
        <5>. QED
          BY <1>0, <5>1 DEF Active
      <4>2. Cardinality(Active(a, clock)) <= Cardinality(Active(a, req[r].ts))
        BY <4>1, CapSets, FS_Subset
      <4>3. ~(Cardinality(Active(a, req[r].ts)) >= MaxActive)
        BY <1>2, <3>2 DEF AtCap
      <4>4. Cardinality(Inserting(a)') \in Nat /\ Cardinality(Inserting(a)') <= Cardinality(Requests)
        <5>1. Inserting(a)' \subseteq Requests
          BY DEF Inserting
        <5>. QED
          BY <5>1, QrConstants, FS_Subset, FS_CardinalityType
      <4>5. /\ Cardinality(Active(a, clock)) \in Nat /\ Cardinality(Active(a, req[r].ts)) \in Nat
            /\ Cardinality(Requests) \in Nat
        BY CapSets
      <4>. QED
        BY <1>0, <3>1, <4>2, <4>3, <4>4, <4>5
    <3>3. CASE a # req[r].ip
      <4>1. Inserting(a)' \subseteq Inserting(a)
        BY <2>1, <3>3 DEF Inserting
      <4>. QED
        BY <3>1, <4>1, CapShrinks DEF CapInv
    <3>. QED
      BY <3>2, <3>3
  <2>. QED
    BY <2>2, <2>3 DEF CapInv
<1>3. CountFails = FALSE
  BY QrConstants
<1>4. ASSUME NEW failed \in {FALSE, CountFails},
             IF AtCap(r) /\ ~failed THEN Finish(r) ELSE req' = [req EXCEPT ![r].pc = "insert"]
      PROVE  CapInv'
  <2>1. failed = FALSE
    BY <1>3
  <2>2. CASE AtCap(r)
    BY <1>1, <1>4, <2>1, <2>2
  <2>3. CASE ~AtCap(r)
    BY <1>2, <1>4, <2>3
  <2>. QED
    BY <2>2, <2>3
<1>. QED
  BY <1>4 DEF StartCount

\* An insert trades a start for a challenge.
LEMMA CapInserts ==
    ASSUME IInv, TypeOK', CapInv, NEW r \in Requests, NEW c \in Challenges, StartInsert(r, c)
    PROVE  CapInv'
<1>0. /\ TypeOK /\ req \in [Requests -> Request] /\ clock \in Nat /\ clock' = clock /\ MaxActive \in Nat
      /\ req[r].pc = "insert" /\ rows' = rows \cup {c} /\ c \notin rows
      /\ req'[r] = Idle /\ \A q \in Requests \ {r} : req'[q] = req[q]
  BY QrConstants DEF IInv, TypeOK, RowInv, StartInsert, Finish
<1>1. /\ ip'[c] = req[r].ip
      /\ \A d \in Challenges \ {c} : ip'[d] = ip[d] /\ expires'[d] = expires[d]
  BY <1>0 DEF StartInsert, TypeOK
<1>2. \A q \in Requests : req'[q].ts <= clock'
  BY <1>0 DEF CapInv, Idle
<1>3. ASSUME NEW a \in IPs
      PROVE  Cardinality(Active(a, clock)') + Cardinality(Inserting(a)') <= MaxActive - 1 + Cardinality(Requests)
  <2>1. CASE a = req[r].ip
    <3>1. Active(a, clock)' \subseteq Active(a, clock) \cup {c} /\ r \in Inserting(a)
          /\ Inserting(a)' = Inserting(a) \ {r}
      BY <1>0, <1>1, <2>1 DEF Active, Inserting, Idle, TypeOK
    <3>2. /\ IsFiniteSet(Active(a, clock)) /\ Cardinality(Active(a, clock)) \in Nat
          /\ IsFiniteSet(Inserting(a)) /\ Cardinality(Inserting(a)) \in Nat /\ Cardinality(Requests) \in Nat
      BY <1>0, CapSets
    <3>3. /\ IsFiniteSet(Active(a, clock) \cup {c})
          /\ Cardinality(Active(a, clock) \cup {c}) <= Cardinality(Active(a, clock)) + 1
      BY SMTT(20), <3>2, FS_AddElement
    <3>4. /\ Cardinality(Active(a, clock)') <= Cardinality(Active(a, clock) \cup {c})
          /\ IsFiniteSet(Active(a, clock)')
      BY <3>1, <3>3, FS_Subset
    <3>5. /\ Cardinality(Active(a, clock)') \in Nat /\ Cardinality(Active(a, clock) \cup {c}) \in Nat
      BY <3>3, <3>4, FS_CardinalityType
    <3>6. Cardinality(Inserting(a)') = Cardinality(Inserting(a)) - 1
      BY <3>1, <3>2, FS_RemoveElement
    <3>7. Cardinality(Active(a, clock)) + Cardinality(Inserting(a)) <= MaxActive - 1 + Cardinality(Requests)
      BY DEF CapInv
    <3>. QED
      BY <1>0, <3>2, <3>3, <3>4, <3>5, <3>6, <3>7
  <2>2. CASE a # req[r].ip
    <3>1. Active(a, clock)' \subseteq Active(a, clock)
      <4>1. rows \subseteq Challenges
        BY <1>0 DEF TypeOK
      <4>. QED
        BY <1>0, <1>1, <2>2, <4>1 DEF Active
    <3>2. Inserting(a)' \subseteq Inserting(a)
      BY <1>0 DEF Inserting, Idle
    <3>. QED
      BY <1>0, <3>1, <3>2, CapShrinks DEF CapInv
  <2>. QED
    BY <2>1, <2>2
<1>. QED
  BY <1>2, <1>3 DEF CapInv

\* CapOvershootBounded: while the counts do not fail, racing starts pass the cap of an
\* address by no more than the other requests in flight.
THEOREM OvershootBounded == Spec => []CapOvershootBounded
<1>1. Init => CapInv
  <2>. SUFFICES ASSUME Init PROVE CapInv
    OBVIOUS
  <2>1. \A a \in IPs : Active(a, clock) = {} /\ Inserting(a) = {}
    BY DEF Init, Active, Inserting, Idle
  <2>2. Cardinality({}) = 0 /\ Cardinality(Requests) \in Nat /\ MaxActive \in Nat \ {0}
    BY FS_EmptySet, FS_CardinalityType, QrConstants
  <2>3. \A r \in Requests : req[r].ts <= clock
    BY DEF Init, Idle
  <2>4. ASSUME NEW a \in IPs
        PROVE  Cardinality(Active(a, clock)) + Cardinality(Inserting(a)) <= MaxActive - 1 + Cardinality(Requests)
    <3>1. Cardinality(Active(a, clock)) = 0 /\ Cardinality(Inserting(a)) = 0
      BY <2>1, <2>2
    <3>. QED
      BY <2>2, <3>1
  <2>. QED
    BY <2>3, <2>4 DEF CapInv
<1>2. ~CountFails /\ IInv /\ IInv' /\ CapInv /\ [Next]_vars => CapInv'
  <2>. SUFFICES ASSUME ~CountFails, IInv, TypeOK, TypeOK', CapInv, [Next]_vars PROVE CapInv'
    BY DEF IInv
  <2>1. ASSUME NEW r \in Requests, NEW a \in IPs, StartCleanup(r, a)
        PROVE  CapInv'
    <3>1. \A q \in Requests : \/ req'[q] = req[q]
                              \/ req'[q].pc # "insert" /\ req'[q].ts \in {0, clock}
      BY <2>1 DEF StartCleanup, TypeOK, Idle
    <3>. QED
      BY <2>1, <3>1, CapQuiet DEF StartCleanup
  <2>2. ASSUME NEW r \in Requests, PollIssue(r) \/ RequestFails(r) \/ \E c \in Challenges : PollRead(r, c)
        PROVE  CapInv'
    <3>1. \A q \in Requests : \/ req'[q] = req[q]
                              \/ req'[q].pc # "insert" /\ req'[q].ts \in {0, clock}
      <4>1. CASE PollIssue(r) \/ RequestFails(r)
        BY <4>1 DEF PollIssue, RequestFails, Finish, TypeOK, Idle
      <4>2. ASSUME NEW c \in Challenges, PollRead(r, c) PROVE  \A q \in Requests : req'[q] = req[q] \/ (req'[q].pc # "insert" /\ req'[q].ts \in {0, clock})
        <5>. DEFINE x == [Idle EXCEPT !.pc = "swap", !.ch = c, !.user = owner[c]]
        <5>1. x.pc # "insert" /\ x.ts = 0
          BY DEF Idle
        <5>2. req' = [req EXCEPT ![r] = x] /\ req \in [Requests -> Request]
          BY <4>2 DEF PollRead, TypeOK
        <5>. HIDE DEF x
        <5>. QED
          BY <5>1, <5>2
      <4>. QED
        BY <2>2, <4>1, <4>2
    <3>. QED
      BY <2>2, <3>1, CapQuiet DEF PollIssue, RequestFails, PollRead
  <2>3. ASSUME NEW r \in Requests, PollSwap(r)
        PROVE  CapInv'
    <3>1. CASE Finish(r)
      <4>1. \A q \in Requests : \/ req'[q] = req[q]
                                \/ req'[q].pc # "insert" /\ req'[q].ts \in {0, clock}
        BY <3>1 DEF Finish, TypeOK, Idle
      <4>. QED
        BY <2>3, <4>1, CapQuiet DEF PollSwap
    <3>2. CASE req' = [req EXCEPT ![r].pc = "issue"]
      <4>1. /\ req'[r].pc = "issue" /\ req'[r].ts = req[r].ts
            /\ \A q \in Requests \ {r} : req'[q] = req[q]
        BY <3>2 DEF TypeOK, Request
      <4>2. \A a \in IPs : Inserting(a)' \subseteq Inserting(a) /\ Active(a, clock)' = Active(a, clock)
        BY <2>3, <4>1 DEF Inserting, Active, PollSwap
      <4>3. \A q \in Requests : req'[q].ts <= clock'
        BY <2>3, <4>1 DEF CapInv, PollSwap
      <4>. QED
        BY <4>2, <4>3, CapShrinks DEF CapInv
    <3>. QED
      BY <2>3, <3>1, <3>2 DEF PollSwap
  <2>4. CASE \/ \E c \in Challenges, u \in Users, v \in {"approved", "denied"} : Decide(c, u, v)
             \/ \E u \in Users : SetEnabled(u)
             \/ Tick
    BY <2>4, CapQuiet DEF Decide, SetEnabled, Tick
  <2>5. CASE UNCHANGED vars
    BY <2>5, CapQuiet DEF vars
  <2>. QED
    BY <2>1, <2>2, <2>3, <2>4, <2>5, CapCounts, CapInserts DEF Next
<1>3. ASSUME TypeOK, CapInv PROVE CapOvershootBounded
  <2>1. /\ Cardinality(Requests) \in Nat /\ MaxActive \in Nat
        /\ \A a \in IPs : Cardinality(Active(a, clock)) \in Nat /\ Cardinality(Inserting(a)) \in Nat
    BY <1>3, CapSets, QrConstants
  <2>2. \A a \in IPs :
            Cardinality(Active(a, clock)) + Cardinality(Inserting(a)) <= MaxActive - 1 + Cardinality(Requests)
    BY <1>3 DEF CapInv
  <2>3. \A a \in IPs : Cardinality(Active(a, clock)) <= MaxActive - 1 + Cardinality(Requests)
    BY <2>1, <2>2
  <2>. QED
    BY <2>3 DEF CapOvershootBounded
<1>4. CASE CountFails
  <2>1. CapOvershootBounded
    BY <1>4 DEF CapOvershootBounded
  <2>. QED
    BY <2>1, PTL
<1>5. CASE ~CountFails
  <2>1. IInv /\ IInv' /\ CapInv /\ [Next]_vars => CapInv'
    BY <1>2, <1>5
  <2>2. IInv => TypeOK
    BY DEF IInv
  <2>. QED
    BY <1>1, <2>1, <2>2, <1>3, Invariance, PTL DEF Spec
<1>. QED
  BY <1>4, <1>5
=============================================================================
