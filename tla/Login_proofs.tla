---------------------------- MODULE Login_proofs ----------------------------
(***************************************************************************)
(* Proofs about Login, for any sets of accounts, nonces, approvals and     *)
(* concurrent requests: its types, that a nonce passes one proof, that an  *)
(* approval buys one login, how many failures pass the lockout, and that   *)
(* it implements PhoneApproval.                                            *)
(***************************************************************************)
EXTENDS Login, FiniteSetTheorems, TLAPS

\* A request in flight is about an account.
ReqInv == \A r \in Requests : req[r].pc # "idle" => req[r].user \in Accounts

\* The request holds nonce n and has yet to check the proof made with it.
Holds(r, n) == req[r].pc = "read" /\ req[r].nonce = n

\* A nonce waits in the map, or one request holds it, or it has been used, and
\* none of these before it is drawn.
NonceInv ==
    /\ \A u \in Accounts : nonce[u].id # None =>
           /\ nonce[u].id \in drawn
           /\ accepted[nonce[u].id] = 0
           /\ \A r \in Requests : ~Holds(r, nonce[u].id)
    /\ \A u, v \in Accounts : nonce[u].id # None /\ nonce[u].id = nonce[v].id => u = v
    /\ \A r \in Requests : req[r].pc = "read" =>
           req[r].nonce \in drawn /\ accepted[req[r].nonce] = 0
    /\ \A r, s \in Requests : req[r].pc = "read" /\ Holds(s, req[r].nonce) => r = s
    /\ \A n \in Nonces : n \notin drawn => accepted[n] = 0
    /\ \A n \in Nonces : accepted[n] <= 1

\* What phones were told is what the entries say, and an approval that was spent
\* has left the map, with the account of the request that spent it.
ApprovalInv ==
    /\ \A a \in Approvals :
           /\ approval[a].st \in {"absent", "pending"} => said[a] = {}
           /\ approval[a].st \in {"approved", "denied"} => said[a] = {approval[a].st}
           /\ approval[a].st # "gone" => bought[a] = 0
           /\ bought[a] <= 1
           /\ bought[a] = 1 => said[a] = {"approved"}
    /\ \A r \in Requests : req[r].via # None =>
           /\ approval[req[r].via].st = "gone"
           /\ approval[req[r].via].user = req[r].user

IInv == TypeOK /\ ReqInv /\ NonceInv /\ ApprovalInv

-----------------------------------------------------------------------------
(* Slots of requests *)

\* An unused slot is a request.
LEMMA IdleIsRequest == Idle \in Request
  BY DEF Idle, Request, PC

\* What freeing a slot does.
LEMMA FinishFacts ==
    ASSUME NEW r \in Requests, req \in [Requests -> Request], Finish(r)
    PROVE  /\ req' \in [Requests -> Request]
           /\ req'[r] = Idle
           /\ \A s \in Requests \ {r} : req'[s] = req[s]
  BY IdleIsRequest DEF Finish

\* What moving a request on does.
LEMMA GotoFacts ==
    ASSUME NEW r \in Requests, NEW p \in PC, req \in [Requests -> Request], Goto(r, p)
    PROVE  /\ req' \in [Requests -> Request]
           /\ req'[r].pc = p /\ req'[r].user = req[r].user
           /\ req'[r].nonce = req[r].nonce /\ req'[r].via = req[r].via
           /\ \A s \in Requests \ {r} : req'[s] = req[s]
  BY DEF Goto, Request

\* What refusing a request does.
LEMMA RejectFacts ==
    ASSUME NEW r \in Requests, req \in [Requests -> Request], Reject(r, "wrong")
    PROVE  /\ req' \in [Requests -> Request]
           /\ req'[r].pc = "fail" /\ req'[r].user = req[r].user
           /\ req'[r].nonce = req[r].nonce /\ req'[r].via = req[r].via
           /\ \A s \in Requests \ {r} : req'[s] = req[s]
  BY ZenonT(40) DEF Reject, Request, PC

\* What handing a popped nonce to its request does.
LEMMA TakeFacts ==
    ASSUME NEW r \in Requests, NEW n \in Nonces, req \in [Requests -> Request],
           req' = [req EXCEPT ![r].pc = "read", ![r].nonce = n]
    PROVE  /\ req' \in [Requests -> Request]
           /\ req'[r].pc = "read" /\ req'[r].user = req[r].user
           /\ req'[r].nonce = n /\ req'[r].via = req[r].via
           /\ \A s \in Requests \ {r} : req'[s] = req[s]
  BY ZenonT(40) DEF Request, PC

\* What going on to the phones does.
LEMMA RaiseFacts ==
    ASSUME NEW r \in Requests, NEW t \in Nat, req \in [Requests -> Request],
           req' = [req EXCEPT ![r].pc = "raise", ![r].at = t]
    PROVE  /\ req' \in [Requests -> Request]
           /\ req'[r].pc = "raise" /\ req'[r].user = req[r].user
           /\ req'[r].via = req[r].via
           /\ \A s \in Requests \ {r} : req'[s] = req[s]
  BY ZenonT(40) DEF Request, PC

\* What sending a request to the gate does.
LEMMA GateFacts ==
    ASSUME NEW r \in Requests, NEW w \in {"wrong", "nophone"}, req \in [Requests -> Request],
           req' = [req EXCEPT ![r].pc = "gate", ![r].why = w]
    PROVE  /\ req' \in [Requests -> Request]
           /\ req'[r].pc = "gate" /\ req'[r].user = req[r].user
           /\ req'[r].via = req[r].via
           /\ \A s \in Requests \ {r} : req'[s] = req[s]
  BY ZenonT(40) DEF Request, PC

\* What letting a request through with an approval does.
LEMMA AllowFacts ==
    ASSUME NEW r \in Requests, NEW a \in Approvals, req \in [Requests -> Request],
           req' = [req EXCEPT ![r].pc = "clear", ![r].via = a]
    PROVE  /\ req' \in [Requests -> Request]
           /\ req'[r].pc = "clear" /\ req'[r].user = req[r].user
           /\ req'[r].via = a
           /\ \A s \in Requests \ {r} : req'[s] = req[s]
  BY ZenonT(40) DEF Request, PC

\* The requests are left as they were, but for r, which goes on to a step other
\* than the check of its proof, with the account and approval it had, or ends.
Passes(r) ==
    /\ req' \in [Requests -> Request]
    /\ \A s \in Requests \ {r} : req'[s] = req[s]
    /\ \/ req'[r] = Idle
       \/ /\ req[r].pc # "idle"
          /\ req'[r].pc \in PC \ {"idle", "read"}
          /\ req'[r].user = req[r].user
          /\ req'[r].via = req[r].via

\* Such a step keeps the account of every request.
LEMMA PassesKeepsReq ==
    ASSUME ReqInv, NEW r \in Requests, Passes(r)
    PROVE  ReqInv'
  BY DEF ReqInv, Passes, Idle

\* It holds no nonce that was not held, so the nonces stay in one place each.
LEMMA PassesKeepsNonces ==
    ASSUME TypeOK, NonceInv, NEW r \in Requests, Passes(r),
           UNCHANGED <<nonce, drawn, accepted>>
    PROVE  NonceInv'
<1>1. \A s \in Requests : req'[s].pc = "read" => req'[s] = req[s]
  BY DEF Passes, Idle
<1>2. \A s \in Requests, n \in Nonces \cup {None} : Holds(s, n)' => Holds(s, n)
  BY <1>1 DEF Holds
<1>. QED
  BY <1>1, <1>2 DEF NonceInv, Holds, TypeOK

\* It spends no approval.
LEMMA PassesKeepsApprovals ==
    ASSUME ApprovalInv, NEW r \in Requests, Passes(r),
           UNCHANGED <<approval, said, bought>>
    PROVE  ApprovalInv'
<1>1. \A s \in Requests : req'[s].via # None =>
          req'[s].via = req[s].via /\ req'[s].user = req[s].user
  BY DEF Passes, Idle
<1>. QED
  BY <1>1 DEF ApprovalInv

-----------------------------------------------------------------------------
(* Types *)

USE DEF history

\* The initial states have the types.
LEMMA InitTypes == Init => TypeOK
  BY LoginConstants, IdleIsRequest DEF Init, TypeOK, NoNonce, NoFailures, NoApproval, Approval

\* A request that goes past a check, is refused or ends passes on.
LEMMA EndPasses ==
    ASSUME TypeOK, NEW r \in Requests, req[r].pc # "idle",
           \/ Finish(r)
           \/ Reject(r, "wrong")
           \/ \E p \in PC \ {"idle", "read"} : Goto(r, p)
    PROVE  Passes(r)
<1>1. CASE Finish(r)
  BY <1>1, FinishFacts DEF TypeOK, Passes
<1>2. CASE Reject(r, "wrong")
  BY <1>2, RejectFacts DEF TypeOK, Passes, PC
<1>3. ASSUME NEW p \in PC \ {"idle", "read"}, Goto(r, p)
      PROVE  Passes(r)
  BY <1>3, GotoFacts DEF TypeOK, Passes
<1>. QED
  BY <1>1, <1>2, <1>3

\* The failure count and the end of the lockout are numbers.
LEMMA FailedType ==
    ASSUME TypeOK, NEW u \in Accounts
    PROVE  Failed(u) \in [fails : Nat, until : Nat]
<1>1. throttle[u] \in [fails : Nat, until : Nat] /\ clock \in Nat
  BY DEF TypeOK
<1>2. throttle[u].fails + 1 \in Nat /\ throttle[u].until \in Nat /\ clock + Lockout \in Nat
  BY <1>1, LoginConstants
<1>. QED
  BY <1>2 DEF Failed

-----------------------------------------------------------------------------
(* The steps, one lemma per part of a request *)

\* The steps that only move a request on, with the throttle.
LEMMA PassingSteps ==
    ASSUME IInv, NEW r \in Requests,
           \/ CheckPassword(r) \/ ProofBad(r) \/ GateNone(r) \/ GateUnavailable(r)
           \/ \E a \in Approvals : GatePoll(r, a)
           \/ RecordFailure(r) \/ ClearFailures(r) \/ IssueToken(r) \/ RequestFails(r)
    PROVE  IInv'
<1>0. TypeOK /\ ReqInv /\ NonceInv /\ ApprovalInv
  BY DEF IInv
<1>1. req[r].pc # "idle"
  BY DEF CheckPassword, ProofBad, GateNone, GateUnavailable, GatePoll, RecordFailure,
         ClearFailures, IssueToken, RequestFails
<1>2. Passes(r)
  <2>1. CASE GateNone(r)
    <3>1. clock \in Nat /\ req \in [Requests -> Request]
      BY <1>0 DEF TypeOK
    <3>2. req' = [req EXCEPT ![r].pc = "raise", ![r].at = clock]
      BY <2>1 DEF GateNone
    <3>. QED
      BY <1>1, <3>1, <3>2, RaiseFacts DEF Passes, PC
  <2>2. CASE ~GateNone(r)
    <3>1. \/ Finish(r)
          \/ Reject(r, "wrong")
          \/ Goto(r, "fail") \/ Goto(r, "clear") \/ Goto(r, "issue")
      BY <2>2 DEF CheckPassword, ProofBad, GateUnavailable, GatePoll, RecordFailure,
                  ClearFailures, IssueToken, RequestFails
    <3>. QED
      BY <1>0, <1>1, <3>1, EndPasses DEF PC
  <2>. QED
    BY <2>1, <2>2
<1>3. UNCHANGED <<clock, nonce, drawn, approval, accepted, said, bought>>
  BY DEF CheckPassword, ProofBad, GateNone, GateUnavailable, GatePoll, RecordFailure,
         ClearFailures, IssueToken, RequestFails
<1>4. /\ throttle' \in [Accounts -> [fails : Nat, until : Nat]]
      /\ late' \in [Accounts -> Nat]
      /\ blame' \in SUBSET Accounts
  <2>0. req[r].user \in Accounts
    BY <1>0, <1>1 DEF ReqInv
  <2>1. CASE RecordFailure(r)
    <3>1. Failed(req[r].user) \in [fails : Nat, until : Nat]
      BY <1>0, <2>0, FailedType
    <3>. QED
      BY <1>0, <2>0, <2>1, <3>1 DEF RecordFailure, TypeOK
  <2>2. CASE ClearFailures(r)
    BY <1>0, <2>2 DEF ClearFailures, TypeOK, NoFailures
  <2>3. CASE UNCHANGED <<throttle, late, blame>>
    BY <1>0, <2>3 DEF TypeOK
  <2>. QED
    BY <2>1, <2>2, <2>3 DEF CheckPassword, ProofBad, GateNone, GateUnavailable, GatePoll,
                            IssueToken, RequestFails
<1>5. TypeOK'
  BY <1>0, <1>2, <1>3, <1>4 DEF TypeOK, Passes
<1>6. ReqInv' /\ NonceInv' /\ ApprovalInv'
  BY <1>0, <1>2, <1>3, PassesKeepsReq, PassesKeepsNonces, PassesKeepsApprovals
<1>. QED
  BY <1>5, <1>6 DEF IInv

\* A new challenge puts a nonce nobody has seen in the map.
LEMMA ChallengeStep ==
    ASSUME IInv, NEW u \in Accounts, NEW n \in Nonces, Challenge(u, n)
    PROVE  IInv'
<1>0. TypeOK /\ ReqInv /\ NonceInv /\ ApprovalInv
  BY DEF IInv
<1>1. nonce'[u].id = n /\ \A v \in Accounts \ {u} : nonce'[v].id \in {None, nonce[v].id}
  BY DEF Challenge, NoNonce
<1>2. nonce' \in [Accounts -> [id : Nonces \cup {None}, exp : Nat]]
  <2>1. clock + NonceTTL \in Nat
    BY <1>0, LoginConstants DEF TypeOK
  <2>. QED
    BY <1>0, <2>1 DEF Challenge, NoNonce, TypeOK
<1>3. TypeOK'
  BY <1>0, <1>2 DEF TypeOK, Challenge
<1>4. NonceInv'
  <2>1. n \notin drawn /\ drawn' = drawn \cup {n} /\ UNCHANGED <<req, accepted>>
    BY DEF Challenge
  <2>2. accepted[n] = 0 /\ \A r \in Requests : ~Holds(r, n)
    BY <1>0, <2>1 DEF NonceInv, Holds
  <2>3. n # None
    BY LoginConstants
  <2>. QED
    BY <1>0, <1>1, <2>1, <2>2, <2>3 DEF NonceInv, Holds
<1>. QED
  BY <1>0, <1>3, <1>4 DEF IInv, ReqInv, ApprovalInv, Challenge

\* A request that begins holds nothing yet.
LEMMA BeginStep ==
    ASSUME IInv, NEW r \in Requests, NEW u \in Accounts, NEW p \in {"pop", "password"},
           Begin(r, u, p)
    PROVE  IInv'
<1>0. TypeOK /\ ReqInv /\ NonceInv /\ ApprovalInv
  BY DEF IInv
<1>1. /\ req' \in [Requests -> Request]
      /\ req'[r].pc = p /\ req'[r].user = u /\ req'[r].via = None
      /\ \A s \in Requests \ {r} : req'[s] = req[s]
  BY <1>0 DEF Begin, TypeOK, Request, PC, Idle
<1>2. TypeOK'
  BY <1>0, <1>1 DEF TypeOK, Begin
<1>3. ReqInv' /\ ApprovalInv'
  BY <1>0, <1>1 DEF ReqInv, ApprovalInv, Begin
<1>4. NonceInv'
  <2>1. \A s \in Requests : req'[s].pc = "read" => req'[s] = req[s]
    BY <1>1
  <2>. QED
    BY <1>0, <2>1 DEF NonceInv, Holds, Begin
<1>. QED
  BY <1>2, <1>3, <1>4 DEF IInv

\* The nonce moves from the map to the request.
LEMMA PopStep ==
    ASSUME IInv, NEW r \in Requests, Pop(r)
    PROVE  IInv'
<1>0. TypeOK /\ ReqInv /\ NonceInv /\ ApprovalInv
  BY DEF IInv
<1> DEFINE u == req[r].user
<1>1. u \in Accounts /\ req[r].pc = "pop"
  BY <1>0 DEF ReqInv, Pop
<1>2. /\ nonce' \in [Accounts -> [id : Nonces \cup {None}, exp : Nat]]
      /\ nonce'[u].id = None
      /\ \A v \in Accounts \ {u} : nonce'[v] = nonce[v]
  BY <1>0, <1>1 DEF Pop, TypeOK, NoNonce
<1>3. /\ req' \in [Requests -> Request]
      /\ \A s \in Requests \ {r} : req'[s] = req[s]
      /\ \/ req'[r] = Idle
         \/ /\ nonce[u].id # None
            /\ req'[r].pc = "read" /\ req'[r].nonce = nonce[u].id
            /\ req'[r].user = u /\ req'[r].via = req[r].via
  <2>1. CASE Finish(r)
    BY <1>0, <2>1, FinishFacts DEF TypeOK
  <2>2. CASE /\ req' = [req EXCEPT ![r].pc = "read", ![r].nonce = nonce[u].id]
             /\ nonce[u].id # None
    <3>1. nonce[u].id \in Nonces
      BY <1>0, <1>1, <2>2 DEF TypeOK
    <3>. QED
      BY <1>0, <2>2, <3>1, TakeFacts DEF TypeOK
  <2>. QED
    BY <2>1, <2>2 DEF Pop
<1>4. UNCHANGED <<clock, drawn, throttle, approval, history>>
  BY DEF Pop
<1> HIDE DEF u
<1>5. TypeOK'
  BY <1>0, <1>2, <1>3, <1>4 DEF TypeOK
<1>6. ReqInv' /\ ApprovalInv'
  <2>1. \A s \in Requests : /\ req'[s].pc # "idle" => req'[s].user \in Accounts
                            /\ req'[s].via # None => req'[s].via = req[s].via
                            /\ req'[s].via # None => req'[s].user = req[s].user
    BY <1>0, <1>1, <1>3 DEF ReqInv, Idle, u
  <2>. QED
    BY <1>0, <1>4, <2>1 DEF ReqInv, ApprovalInv
<1>7. NonceInv'
  <2>1. \A s \in Requests : req'[s].pc = "read" =>
            \/ s # r /\ req'[s] = req[s]
            \/ s = r /\ nonce[u].id # None /\ req'[s].nonce = nonce[u].id
    BY <1>3 DEF Idle
  <2>2. \A v \in Accounts : nonce'[v].id # None => v # u /\ nonce'[v] = nonce[v]
    BY <1>1, <1>2
  <2>. QED
    BY <1>0, <1>1, <1>4, <2>1, <2>2 DEF NonceInv, Holds
<1>. QED
  BY <1>5, <1>6, <1>7 DEF IInv

\* A good proof spends the nonce the request holds.
LEMMA ProofGoodStep ==
    ASSUME IInv, NEW r \in Requests, ProofGood(r)
    PROVE  IInv'
<1>0. TypeOK /\ ReqInv /\ NonceInv /\ ApprovalInv
  BY DEF IInv
<1> DEFINE n == req[r].nonce
<1>1. /\ req[r].pc = "read" /\ n \in Nonces /\ n \in drawn /\ accepted[n] = 0
      /\ accepted' = [accepted EXCEPT ![n] = @ + 1]
      /\ UNCHANGED <<clock, nonce, drawn, throttle, approval, said, bought, late, blame>>
  BY <1>0 DEF ProofGood, NonceInv, TypeOK
<1>2. Passes(r)
  <2>1. CASE Goto(r, "clear")
    BY <1>0, <1>1, <2>1, EndPasses DEF PC
  <2>2. ASSUME NEW w \in {"wrong", "nophone"},
               req' = [req EXCEPT ![r].pc = "gate", ![r].why = w]
        PROVE  Passes(r)
    BY <1>0, <1>1, <2>2, GateFacts DEF Passes, TypeOK, PC
  <2>. QED
    BY <2>1, <2>2 DEF ProofGood
<1> HIDE DEF n
<1>3. /\ accepted' \in [Nonces -> Nat]
      /\ accepted'[n] = 1
      /\ \A m \in Nonces \ {n} : accepted'[m] = accepted[m]
  BY <1>0, <1>1 DEF TypeOK
<1>4. TypeOK'
  BY <1>0, <1>1, <1>2, <1>3 DEF TypeOK, Passes
<1>5. ReqInv' /\ ApprovalInv'
  BY <1>0, <1>1, <1>2, PassesKeepsReq, PassesKeepsApprovals
<1>6. NonceInv'
  <2>1. \A s \in Requests : req'[s].pc = "read" => s # r /\ req'[s] = req[s]
    BY <1>2 DEF Passes, Idle
  <2>2. Holds(r, n)
    BY <1>1 DEF Holds, n
  <2>3. \A u \in Accounts : nonce[u].id # n
    BY <1>0, <1>1, <2>2, LoginConstants DEF NonceInv
  <2>4. \A s \in Requests : req'[s].pc = "read" => req'[s].nonce # n
    BY <1>0, <2>1, <2>2 DEF NonceInv, Holds
  <2>5. drawn \subseteq Nonces
    BY <1>0 DEF TypeOK
  <2>6. \A u \in Accounts : nonce'[u].id # None =>
           /\ nonce'[u].id \in drawn'
           /\ accepted'[nonce'[u].id] = 0
           /\ \A s \in Requests : ~Holds(s, nonce[u].id)'
    BY <1>0, <1>1, <1>3, <2>1, <2>3, <2>5 DEF NonceInv, Holds
  <2>7. \A s \in Requests : req'[s].pc = "read" =>
           req'[s].nonce \in drawn' /\ accepted'[req'[s].nonce] = 0
    BY <1>0, <1>1, <1>3, <2>1, <2>4, <2>5 DEF NonceInv
  <2>8. \A s, t \in Requests : req'[s].pc = "read" /\ Holds(t, req[s].nonce)' => s = t
    BY <1>0, <2>1 DEF NonceInv, Holds
  <2>9. \A m \in Nonces : (m \notin drawn' => accepted'[m] = 0) /\ accepted'[m] <= 1
    BY <1>0, <1>1, <1>3 DEF NonceInv
  <2>. QED
    BY <1>0, <1>1, <2>6, <2>7, <2>8, <2>9 DEF NonceInv
<1>. QED
  BY <1>4, <1>5, <1>6 DEF IInv

\* An approval is spent.
LEMMA GateAllowStep ==
    ASSUME IInv, NEW r \in Requests, NEW a \in Approvals, GateAllow(r, a)
    PROVE  IInv'
<1>0. TypeOK /\ ReqInv /\ NonceInv /\ ApprovalInv
  BY DEF IInv
<1>1. /\ approval[a].user = req[r].user /\ approval[a].st = "approved"
      /\ req[r].pc = "gate"
      /\ UNCHANGED <<clock, nonce, drawn, throttle, accepted, said, late, blame>>
  BY DEF GateAllow, CanConsume, Effective
<1>2. /\ req' \in [Requests -> Request]
      /\ req'[r].pc = "clear" /\ req'[r].user = req[r].user /\ req'[r].via = a
      /\ \A s \in Requests \ {r} : req'[s] = req[s]
  BY <1>0, AllowFacts DEF GateAllow, TypeOK
<1>3. /\ approval' = [approval EXCEPT ![a].st = "gone"]
      /\ bought' = [bought EXCEPT ![a] = @ + 1]
  BY DEF GateAllow
<1>4. /\ approval'[a].st = "gone" /\ approval'[a].user = approval[a].user
      /\ \A b \in Approvals \ {a} : approval'[b] = approval[b]
  BY <1>0, <1>3 DEF TypeOK
<1>5. /\ bought' \in [Approvals -> Nat]
      /\ bought'[a] = 1
      /\ \A b \in Approvals \ {a} : bought'[b] = bought[b]
  BY <1>0, <1>1, <1>3 DEF TypeOK, ApprovalInv
<1>6. TypeOK'
  BY <1>0, <1>1, <1>2, <1>3, <1>5 DEF TypeOK, Approval
<1>7. ReqInv'
  BY <1>0, <1>1, <1>2 DEF ReqInv
<1>8. NonceInv'
  <2>1. \A s \in Requests : req'[s].pc = "read" => req'[s] = req[s]
    BY <1>2
  <2>. QED
    BY <1>0, <1>1, <2>1 DEF NonceInv, Holds
<1>9. ApprovalInv'
  <2>1. \A s \in Requests : req'[s].via \in Approvals \cup {None}
    BY <1>2 DEF Request
  <2>2. \A s \in Requests : req'[s].via # None =>
            approval'[req'[s].via].st = "gone" /\ approval'[req'[s].via].user = req'[s].user
    BY <1>0, <1>1, <1>2, <1>4, <2>1 DEF ApprovalInv
  <2>3. said[a] = {"approved"}
    BY <1>0, <1>1 DEF ApprovalInv
  <2>. QED
    BY <1>0, <1>1, <1>4, <1>5, <2>2, <2>3 DEF ApprovalInv
<1>. QED
  BY <1>6, <1>7, <1>8, <1>9 DEF IInv

\* A new request takes an id nobody was told of, and stale entries go.
LEMMA GateRaiseStep ==
    ASSUME IInv, NEW r \in Requests, NEW a \in Approvals, GateRaise(r, a)
    PROVE  IInv'
<1>0. TypeOK /\ ReqInv /\ NonceInv /\ ApprovalInv
  BY DEF IInv
<1>1. /\ req[r].pc = "raise" /\ req[r].user \in Accounts /\ req[r].at \in Nat
      /\ approval[a].st = "absent"
      /\ UNCHANGED <<clock, nonce, drawn, throttle, history>>
  BY <1>0 DEF GateRaise, ReqInv, TypeOK, Request
<1>2. Passes(r)
  BY <1>0, <1>1, EndPasses DEF GateRaise
<1>3. /\ approval'[a] = [user |-> req[r].user, at |-> req[r].at, st |-> "pending"]
      /\ \A b \in Approvals \ {a} :
             \/ approval'[b] = approval[b]
             \/ approval[b].st # "absent" /\ approval'[b] = [approval[b] EXCEPT !.st = "gone"]
      /\ approval' = [b \in Approvals |-> approval'[b]]
  BY DEF GateRaise, Evictable
<1>4. TypeOK'
  <2>1. ASSUME NEW b \in Approvals \ {a}
        PROVE  approval'[b] \in Approval
    <3>1. approval[b] \in Approval
      BY <1>0 DEF TypeOK
    <3>. QED
      BY <1>3, <3>1 DEF Approval
  <2>2. approval'[a] \in Approval
    BY <1>1, <1>3 DEF Approval
  <2>. QED
    BY <1>0, <1>1, <1>2, <1>3, <2>1, <2>2 DEF TypeOK, Passes
<1>5. ReqInv' /\ NonceInv'
  BY <1>0, <1>1, <1>2, PassesKeepsReq, PassesKeepsNonces
<1>6. ApprovalInv'
  <2>1. /\ approval'[a].st = "pending"
        /\ \A b \in Approvals \ {a} :
               /\ approval'[b].user = approval[b].user
               /\ approval'[b].st = approval[b].st \/ approval'[b].st = "gone"
    BY <1>0, <1>3 DEF TypeOK, Approval
  <2>2. \A s \in Requests : req'[s].via # None =>
            /\ req'[s].via = req[s].via /\ req'[s].user = req[s].user
            /\ req[s].via \in Approvals \ {a}
    BY <1>0, <1>1, <1>2 DEF Passes, Idle, ApprovalInv, TypeOK, Request
  <2>3. \A s \in Requests : req'[s].via # None =>
            approval'[req'[s].via].st = "gone" /\ approval'[req'[s].via].user = req'[s].user
    BY <1>0, <2>1, <2>2 DEF ApprovalInv
  <2>. QED
    BY <1>0, <1>1, <2>1, <2>3 DEF ApprovalInv
<1>. QED
  BY <1>4, <1>5, <1>6 DEF IInv

\* A phone's answer is the first and is recorded.
LEMMA DecideStep ==
    ASSUME IInv, NEW a \in Approvals, NEW u \in Accounts, NEW v \in {"approved", "denied"},
           GuardDecide(a, u, v)
    PROVE  IInv'
<1>0. TypeOK /\ ReqInv /\ NonceInv /\ ApprovalInv
  BY DEF IInv
<1>1. /\ approval[a].st = "pending"
      /\ approval' = [approval EXCEPT ![a].st = v]
      /\ said' = [said EXCEPT ![a] = @ \cup {v}]
      /\ UNCHANGED <<clock, nonce, drawn, throttle, req, accepted, bought, late, blame>>
  BY DEF GuardDecide, Answerable, Effective
<1>2. /\ approval'[a].st = v /\ approval'[a].user = approval[a].user
      /\ \A b \in Approvals \ {a} : approval'[b] = approval[b]
  BY <1>0, <1>1 DEF TypeOK
<1>3. said'[a] = {v} /\ \A b \in Approvals \ {a} : said'[b] = said[b]
  BY <1>0, <1>1 DEF TypeOK, ApprovalInv
<1>4. TypeOK'
  BY <1>0, <1>1 DEF TypeOK, Approval
<1>5. ReqInv' /\ NonceInv'
  BY <1>0, <1>1 DEF ReqInv, NonceInv, Holds
<1>6. ApprovalInv'
  <2>1. \A s \in Requests : req[s].via # None => req[s].via \in Approvals \ {a}
    BY <1>0, <1>1 DEF ApprovalInv, TypeOK, Request
  <2>2. \A s \in Requests : req'[s].via # None =>
            approval'[req'[s].via].st = "gone" /\ approval'[req'[s].via].user = req'[s].user
    BY <1>0, <1>1, <1>2, <2>1 DEF ApprovalInv
  <2>3. bought[a] = 0
    BY <1>0, <1>1 DEF ApprovalInv
  <2>. QED
    BY <1>0, <1>1, <1>2, <1>3, <2>2, <2>3 DEF ApprovalInv
<1>. QED
  BY <1>4, <1>5, <1>6 DEF IInv

\* A restart forgets the maps and the requests, not what was drawn and used.
LEMMA RestartStep ==
    ASSUME IInv, Restart
    PROVE  IInv'
<1>0. TypeOK /\ ReqInv /\ NonceInv /\ ApprovalInv
  BY DEF IInv
<1>1. /\ \A u \in Accounts : nonce'[u].id = None
      /\ \A r \in Requests : req'[r].pc = "idle" /\ req'[r].via = None
      /\ UNCHANGED <<clock, drawn, accepted, said, bought>>
  BY DEF Restart, NoNonce, Idle
<1>2. \A a \in Approvals :
          /\ approval'[a] \in Approval
          /\ approval'[a].st = approval[a].st \/ approval'[a].st = "gone"
  BY <1>0 DEF Restart, NoApproval, TypeOK, Approval
<1>3. TypeOK'
  BY <1>0, <1>1, <1>2, IdleIsRequest DEF TypeOK, Restart, NoNonce, NoFailures
<1>4. ReqInv' /\ NonceInv' /\ ApprovalInv'
  BY <1>0, <1>1, <1>2 DEF ReqInv, NonceInv, Holds, ApprovalInv
<1>. QED
  BY <1>3, <1>4 DEF IInv

-----------------------------------------------------------------------------
(* The theorems *)

\* Where the nonces and approvals may be holds at the start and is kept by every
\* step of a request, a phone, the clock or a restart.
THEOREM Invariance == Spec => []IInv
<1>1. Init => IInv
  <2> SUFFICES ASSUME Init PROVE IInv
    OBVIOUS
  <2>1. TypeOK
    BY InitTypes
  <2>2. ReqInv /\ NonceInv /\ ApprovalInv
    BY DEF Init, ReqInv, NonceInv, Holds, ApprovalInv, Idle, NoNonce, NoApproval
  <2>. QED
    BY <2>1, <2>2 DEF IInv
<1>2. IInv /\ [Next]_vars => IInv'
  <2> SUFFICES ASSUME IInv, [Next]_vars PROVE IInv'
    OBVIOUS
  <2>1. CASE Next
    <3>1. CASE Tick
      BY <3>1 DEF Tick, IInv, TypeOK, ReqInv, NonceInv, Holds, ApprovalInv
    <3>2. CASE Restart
      BY <3>2, RestartStep
    <3>. QED
      BY <2>1, <3>1, <3>2, ChallengeStep, BeginStep, PassingSteps, PopStep, ProofGoodStep,
         GateAllowStep, GateRaiseStep, DecideStep DEF Next
  <2>2. CASE UNCHANGED vars
    BY <2>2 DEF vars, IInv, TypeOK, ReqInv, NonceInv, Holds, ApprovalInv
  <2>. QED
    BY <2>1, <2>2
<1>. QED
  BY <1>1, <1>2, PTL DEF Spec

\* The maps, the requests and the histories keep their types.
THEOREM TypeCorrect == Spec => []TypeOK
<1>1. IInv => TypeOK
  BY DEF IInv
<1>. QED
  BY <1>1, Invariance, PTL

\* A challenge nonce passes at most one proof, however many requests race for it
\* in api_auth_verify.
THEOREM NonceOnce == Spec => []NonceSingleUse
<1>1. IInv => NonceSingleUse
  BY DEF IInv, NonceInv, NonceSingleUse
<1>. QED
  BY <1>1, Invariance, PTL

\* An approval in guard_gate buys at most one login, one that a phone of its own
\* account approved.
THEOREM ApprovalOnce == Spec => []ApprovalBuysOneLogin
<1>1. IInv => ApprovalBuysOneLogin
  BY DEF IInv, ApprovalInv, ApprovalBuysOneLogin
<1>. QED
  BY <1>1, Invariance, PTL

-----------------------------------------------------------------------------
(* The lockout *)

\* The requests in flight about account u.
InFlight(u) == {r \in Requests : req[r].user = u}

\* The failures past the lockout of an account and the requests that can still fail are
\* together fewer than the slots: the request that locked it was one of them, and no
\* other begins.
LeakInv ==
    \A u \in Accounts :
        /\ late[u] <= Cardinality(Requests) - 1
        /\ Locked(u) => late[u] + Cardinality(InFlight(u)) <= Cardinality(Requests) - 1

\* The requests that are counted are finitely many.
LEMMA InFlightFinite ==
    /\ Cardinality(Requests) \in Nat
    /\ \A u : /\ IsFiniteSet(InFlight(u)) /\ Cardinality(InFlight(u)) \in Nat
              /\ Cardinality(InFlight(u)) <= Cardinality(Requests)
<1>1. \A u : InFlight(u) \subseteq Requests
  BY DEF InFlight
<1>. QED
  BY <1>1, LoginConstants, FS_Subset, FS_CardinalityType

\* An account that is not locked by the step, and about which no request begins while it
\* is locked, stays within the bound.
LEMMA LeakQuiet ==
    ASSUME TypeOK, TypeOK', LeakInv, Requests # {}, NEW u \in Accounts,
           late'[u] \in {0, late[u]},
           Locked(u)' => Locked(u) /\ InFlight(u)' \subseteq InFlight(u)
    PROVE  /\ late'[u] <= Cardinality(Requests) - 1
           /\ Locked(u)' => late'[u] + Cardinality(InFlight(u)') <= Cardinality(Requests) - 1
<1>1. /\ late[u] \in Nat /\ Cardinality(Requests) \in Nat
      /\ IsFiniteSet(InFlight(u)) /\ Cardinality(InFlight(u)) \in Nat
  BY InFlightFinite DEF TypeOK
<1>2. late[u] <= Cardinality(Requests) - 1 /\ late'[u] <= late[u] /\ late'[u] \in Nat
  BY <1>1 DEF LeakInv
<1>3. late'[u] <= Cardinality(Requests) - 1
  BY <1>1, <1>2
<1>4. ASSUME Locked(u)'
      PROVE  late'[u] + Cardinality(InFlight(u)') <= Cardinality(Requests) - 1
  <2>1. late[u] + Cardinality(InFlight(u)) <= Cardinality(Requests) - 1
    BY <1>4 DEF LeakInv
  <2>2. Cardinality(InFlight(u)') <= Cardinality(InFlight(u)) /\ Cardinality(InFlight(u)') \in Nat
    BY <1>1, <1>4, FS_Subset, FS_CardinalityType
  <2>. QED
    BY <1>1, <1>2, <2>1, <2>2
<1>. QED
  BY <1>3, <1>4

\* A step of the request itself, past which it is about the same account or about none,
\* with the throttle and its history as they are.
LEMMA LeakPasses ==
    ASSUME TypeOK, TypeOK', LeakInv, Requests # {}, NEW r \in Requests,
           req'[r].user \in {req[r].user, None},
           \A s \in Requests \ {r} : req'[s] = req[s],
           UNCHANGED <<clock, throttle, late>>
    PROVE  LeakInv'
<1>1. ASSUME NEW u \in Accounts
      PROVE  InFlight(u)' \subseteq InFlight(u)
  BY LoginConstants DEF InFlight
<1>2. ASSUME NEW u \in Accounts
      PROVE  (Locked(u)' => Locked(u)) /\ late'[u] = late[u]
  BY DEF Locked
<1>. QED
  BY <1>1, <1>2, LeakQuiet DEF LeakInv

\* A failure: it locks the account, and frees the slot it came from, or it is one of those
\* in flight when the account was locked.
LEMMA LeakFailure ==
    ASSUME IInv, TypeOK', LeakInv, Requests # {}, NEW r \in Requests, RecordFailure(r)
    PROVE  LeakInv'
<1>0. /\ TypeOK /\ req \in [Requests -> Request] /\ req[r].user \in Accounts
      /\ req'[r] = Idle /\ \A s \in Requests \ {r} : req'[s] = req[s]
      /\ clock' = clock
  BY FinishFacts DEF IInv, TypeOK, ReqInv, RecordFailure
<1>1. ASSUME NEW u \in Accounts
      PROVE  /\ InFlight(u)' = InFlight(u) \ {r}
             /\ IsFiniteSet(InFlight(u)) /\ Cardinality(InFlight(u)) \in Nat
             /\ Cardinality(Requests) \in Nat
  <2>1. u # None
    BY LoginConstants
  <2>2. InFlight(u)' = InFlight(u) \ {r}
    BY <1>0, <2>1 DEF InFlight, Idle
  <2>. QED
    BY <2>2, InFlightFinite
<1>2. ASSUME NEW u \in Accounts, u # req[r].user
      PROVE  /\ late'[u] <= Cardinality(Requests) - 1
             /\ Locked(u)' => late'[u] + Cardinality(InFlight(u)') <= Cardinality(Requests) - 1
  <2>1. late'[u] = late[u] /\ throttle'[u] = throttle[u]
    BY <1>0, <1>2 DEF RecordFailure, TypeOK
  <2>2. Locked(u)' => Locked(u)
    BY <1>0, <2>1 DEF Locked
  <2>. QED
    BY <1>0, <1>1, <2>1, <2>2, LeakQuiet
<1>3. ASSUME NEW u \in Accounts, u = req[r].user
      PROVE  /\ late'[u] <= Cardinality(Requests) - 1
             /\ Locked(u)' => late'[u] + Cardinality(InFlight(u)') <= Cardinality(Requests) - 1
  <2>1. late'[u] = IF Locked(u) THEN late[u] + 1 ELSE 0
    BY <1>0, <1>3 DEF RecordFailure, TypeOK
  <2>2. r \in InFlight(u) /\ late[u] \in Nat
    BY <1>0, <1>3 DEF InFlight, TypeOK
  <2>3. Cardinality(InFlight(u)') = Cardinality(InFlight(u)) - 1 /\ Cardinality(InFlight(u)') \in Nat
    BY <1>1, <2>2, FS_RemoveElement, FS_CardinalityType
  <2>4. Cardinality(InFlight(u)) <= Cardinality(Requests)
    BY InFlightFinite
  <2>5. late'[u] + Cardinality(InFlight(u)') <= Cardinality(Requests) - 1
    <3>1. CASE Locked(u)
      <4>1. late[u] + Cardinality(InFlight(u)) <= Cardinality(Requests) - 1
        BY <3>1 DEF LeakInv
      <4>. QED
        BY <1>1, <2>1, <2>2, <2>3, <3>1, <4>1
    <3>2. CASE ~Locked(u)
      BY <1>1, <2>1, <2>3, <2>4, <3>2
    <3>. QED
      BY <3>1, <3>2
  <2>6. late'[u] \in Nat
    BY <2>1, <2>2
  <2>. QED
    BY <1>1, <2>3, <2>5, <2>6
<1>. QED
  BY <1>2, <1>3 DEF LeakInv

\* Every other step of a request.
LEMMA LeakRequest ==
    ASSUME IInv, TypeOK', LeakInv, Requests # {}, NEW r \in Requests,
           \/ CheckPassword(r) \/ Pop(r) \/ ProofBad(r) \/ ProofGood(r)
           \/ GateNone(r) \/ GateUnavailable(r)
           \/ \E a \in Approvals : GateAllow(r, a) \/ GatePoll(r, a) \/ GateRaise(r, a)
           \/ IssueToken(r) \/ RequestFails(r)
    PROVE  LeakInv'
<1>0. TypeOK /\ req \in [Requests -> Request]
  BY DEF IInv, TypeOK
<1>1. UNCHANGED <<clock, throttle, late>>
  BY DEF CheckPassword, Pop, ProofBad, ProofGood, GateNone, GateUnavailable, GateAllow, GatePoll,
         GateRaise, IssueToken, RequestFails
<1>2. /\ req'[r].user \in {req[r].user, None}
      /\ \A s \in Requests \ {r} : req'[s] = req[s]
  <2>1. CASE Finish(r)
    BY <1>0, <2>1, FinishFacts DEF Idle
  <2>2. CASE \/ Reject(r, "wrong")
             \/ Goto(r, "fail") \/ Goto(r, "clear") \/ Goto(r, "issue")
    BY <1>0, <2>2, RejectFacts, GotoFacts DEF PC
  <2>3. CASE \E n : req' = [req EXCEPT ![r].pc = "read", ![r].nonce = n]
    BY <1>0, <2>3 DEF Request
  <2>4. CASE \E why : req' = [req EXCEPT ![r].pc = "gate", ![r].why = why]
    BY <1>0, <2>4 DEF Request
  <2>5. CASE req' = [req EXCEPT ![r].pc = "raise", ![r].at = clock]
    BY <1>0, <2>5 DEF Request
  <2>6. CASE \E a : req' = [req EXCEPT ![r].pc = "clear", ![r].via = a]
    BY <1>0, <2>6 DEF Request
  <2>7. CASE CheckPassword(r) \/ ProofBad(r) \/ GateUnavailable(r) \/ IssueToken(r) \/ RequestFails(r)
    BY <2>1, <2>2, <2>7 DEF CheckPassword, ProofBad, GateUnavailable, IssueToken, RequestFails
  <2>8. CASE Pop(r)
    BY <2>1, <2>3, <2>8 DEF Pop
  <2>9. CASE ProofGood(r)
    BY <2>2, <2>4, <2>9 DEF ProofGood
  <2>10. CASE GateNone(r)
    BY <2>5, <2>10 DEF GateNone
  <2>11. CASE \E a \in Approvals : GateAllow(r, a) \/ GatePoll(r, a) \/ GateRaise(r, a)
    BY <2>1, <2>2, <2>6, <2>11 DEF GateAllow, GatePoll, GateRaise
  <2>. QED
    BY <2>7, <2>8, <2>9, <2>10, <2>11
<1>. QED
  BY <1>0, <1>1, <1>2, LeakPasses

\* The bound on late failures is kept by every step.
LEMMA LeakNext ==
    ASSUME IInv, TypeOK', LeakInv, Requests # {}, [Next]_vars
    PROVE  LeakInv'
<1>0. TypeOK /\ clock \in Nat
  BY DEF IInv, TypeOK
<1>1. ASSUME NEW r \in Requests, NEW u \in Accounts, NEW pc \in {"pop", "password"}, Begin(r, u, pc)
      PROVE  LeakInv'
  <2>1. /\ req'[r].user = u /\ \A s \in Requests \ {r} : req'[s] = req[s]
        /\ UNCHANGED <<clock, throttle, late>> /\ ~Locked(u)
    BY <1>0, <1>1 DEF Begin, TypeOK, Idle
  <2>2. ASSUME NEW v \in Accounts
        PROVE  Locked(v)' => Locked(v) /\ InFlight(v)' \subseteq InFlight(v)
    BY <2>1 DEF Locked, InFlight
  <2>. QED
    BY <1>0, <2>1, <2>2, LeakQuiet DEF LeakInv
<1>2. ASSUME NEW r \in Requests, ClearFailures(r)
      PROVE  LeakInv'
  <2>1. /\ clock' = clock /\ req \in [Requests -> Request]
        /\ throttle' = [throttle EXCEPT ![req[r].user] = NoFailures]
        /\ late' = [late EXCEPT ![req[r].user] = 0]
        /\ req' = [req EXCEPT ![r].pc = "issue"]
    BY <1>0, <1>2 DEF ClearFailures, Goto, TypeOK
  <2>2. \A s \in Requests : req'[s].user = req[s].user
    BY <2>1 DEF Request
  <2>3. ASSUME NEW v \in Accounts
        PROVE  late'[v] \in {0, late[v]} /\ (Locked(v)' => Locked(v))
    <3>1. CASE v = req[r].user
      <4>1. throttle'[v].fails = 0 /\ late'[v] = 0
        BY <1>0, <2>1, <3>1 DEF TypeOK, NoFailures
      <4>. QED
        BY <4>1, LoginConstants DEF Locked
    <3>2. CASE v # req[r].user
      <4>1. throttle'[v] = throttle[v] /\ late'[v] = late[v]
        BY <1>0, <2>1, <3>2 DEF TypeOK
      <4>. QED
        BY <2>1, <4>1 DEF Locked
    <3>. QED
      BY <3>1, <3>2
  <2>4. ASSUME NEW v \in Accounts
        PROVE  InFlight(v)' \subseteq InFlight(v)
    BY <2>2 DEF InFlight
  <2>. QED
    BY <1>0, <2>3, <2>4, LeakQuiet DEF LeakInv
<1>3. ASSUME UNCHANGED <<throttle, late, req>>, clock' \in {clock, clock + 1}
      PROVE  LeakInv'
  <2>1. ASSUME NEW u \in Accounts
        PROVE  (Locked(u)' => Locked(u)) /\ late'[u] = late[u]
    <3>1. throttle[u].until \in Nat
      BY <1>0 DEF TypeOK
    <3>. QED
      BY <1>0, <1>3, <3>1 DEF Locked
  <2>2. ASSUME NEW u \in Accounts
        PROVE  InFlight(u)' \subseteq InFlight(u)
    BY <1>3 DEF InFlight
  <2>. QED
    BY <1>0, <2>1, <2>2, LeakQuiet DEF LeakInv
<1>4. CASE Restart
  <2>1. ASSUME NEW u \in Accounts
        PROVE  late'[u] = 0 /\ ~Locked(u)'
    BY <1>4, LoginConstants DEF Restart, Locked, NoFailures
  <2>. QED
    BY <1>0, <2>1, LeakQuiet DEF LeakInv
<1>5. CASE \/ \E u \in Accounts, n \in Nonces : Challenge(u, n)
           \/ \E a \in Approvals, u \in Accounts, v \in {"approved", "denied"} : GuardDecide(a, u, v)
           \/ Tick
           \/ UNCHANGED vars
  <2>1. UNCHANGED <<throttle, late, req>> /\ clock' \in {clock, clock + 1}
    BY <1>5 DEF Challenge, GuardDecide, Tick, vars
  <2>. QED
    BY <1>3, <2>1
<1>. QED
  BY <1>1, <1>2, <1>4, <1>5, LeakFailure, LeakRequest DEF Next

\* LockoutLeaksOnlyInFlight: what gets past login_locked before the failure that locks
\* the account is counted is bounded by the requests in flight.
THEOREM LockoutHolds ==
    ASSUME Requests # {}
    PROVE  Spec => []LockoutLeaksOnlyInFlight
<1>1. Init => LeakInv
  <2> SUFFICES ASSUME Init, NEW u \in Accounts
      PROVE  late[u] <= Cardinality(Requests) - 1 /\ ~Locked(u)
    BY DEF LeakInv
  <2>1. Cardinality(Requests) \in Nat /\ Cardinality(Requests) # 0
    BY LoginConstants, FS_CardinalityType, FS_EmptySet
  <2>2. late[u] = 0 /\ throttle[u].fails = 0
    BY DEF Init, NoFailures
  <2>. QED
    BY <2>1, <2>2, LoginConstants DEF Locked
<1>2. IInv /\ IInv' /\ LeakInv /\ [Next]_vars => LeakInv'
  BY LeakNext DEF IInv
<1>3. LeakInv => LockoutLeaksOnlyInFlight
  BY DEF LeakInv, LockoutLeaksOnlyInFlight
<1>. QED
  BY <1>1, <1>2, <1>3, Invariance, PTL DEF Spec

-----------------------------------------------------------------------------
(* Login implements PhoneApproval *)

\* A step that keeps the account of every approval, what was answered, what was bought
\* and which approvals are gone shows nothing.
LEMMA ApprovalUnseen ==
    ASSUME UNCHANGED <<said, bought>>,
           \A a \in Approvals : approval'[a].user = approval[a].user,
           \A a \in Approvals : (approval'[a].st = "gone") = (approval[a].st = "gone")
    PROVE  UNCHANGED Promise!vars
<1>1. [a \in Approvals |-> approval'[a].user] = [a \in Approvals |-> approval[a].user]
  OBVIOUS
<1>2. {a \in Approvals : approval'[a].st = "gone"} = {a \in Approvals : approval[a].st = "gone"}
  OBVIOUS
<1>. QED
  BY <1>1, <1>2 DEF Promise!vars

\* Nobody's phones have been asked for exactly the approvals that are absent.
AskedInv == \A a \in Approvals : approval[a].st = "absent" <=> approval[a].user = None

\* It is kept: an entry gets its account as it is raised and keeps it for good.
LEMMA AskedKept ==
    ASSUME IInv, AskedInv, [Next]_vars
    PROVE  AskedInv'
<1>0. TypeOK /\ ReqInv
  BY DEF IInv
<1>1. CASE UNCHANGED approval
  BY <1>1 DEF AskedInv
<1>2. ASSUME NEW r \in Requests, NEW a \in Approvals, GateAllow(r, a)
      PROVE  AskedInv'
  <2>1. approval[a].st = "approved" /\ approval' = [approval EXCEPT ![a].st = "gone"]
    BY <1>2 DEF GateAllow, CanConsume, Effective
  <2>. QED
    BY <1>0, <2>1 DEF AskedInv, TypeOK, Approval
<1>3. ASSUME NEW r \in Requests, NEW a \in Approvals, GateRaise(r, a)
      PROVE  AskedInv'
  <2>1. req[r].user \in Accounts
    BY <1>0, <1>3 DEF GateRaise, ReqInv
  <2>2. /\ approval'[a].user = req[r].user /\ approval'[a].st = "pending"
        /\ \A b \in Approvals \ {a} :
               \/ approval'[b] = approval[b]
               \/ approval[b].st # "absent" /\ approval'[b] = [approval[b] EXCEPT !.st = "gone"]
    BY <1>3 DEF GateRaise, Evictable
  <2>3. \A b \in Approvals : approval[b] \in Approval
    BY <1>0 DEF TypeOK
  <2>4. req[r].user # None
    BY <2>1, LoginConstants
  <2>5. ASSUME NEW b \in Approvals \ {a}
        PROVE  /\ approval'[b].user = approval[b].user
               /\ (approval'[b].st = "absent") = (approval[b].st = "absent")
    BY <2>2, <2>3 DEF Approval
  <2>. QED
    BY <2>2, <2>4, <2>5 DEF AskedInv
<1>4. ASSUME NEW a \in Approvals, NEW u \in Accounts, NEW v \in {"approved", "denied"},
             GuardDecide(a, u, v)
      PROVE  AskedInv'
  <2>1. approval[a].st = "pending" /\ approval' = [approval EXCEPT ![a].st = v]
    BY <1>4 DEF GuardDecide, Answerable, Effective
  <2>. QED
    BY <1>0, <2>1 DEF AskedInv, TypeOK, Approval
<1>5. CASE Restart
  <2>1. \A a \in Approvals : \/ approval[a].st = "absent" /\ approval'[a] = NoApproval
                            \/ /\ approval[a].st # "absent"
                               /\ approval'[a] = [approval[a] EXCEPT !.st = "gone"]
    BY <1>5 DEF Restart
  <2>2. \A b \in Approvals : approval[b] \in Approval
    BY <1>0 DEF TypeOK
  <2>3. ASSUME NEW a \in Approvals
        PROVE  approval'[a].st = "absent" <=> approval'[a].user = None
    <3>1. CASE approval[a].st = "absent"
      <4>1. approval'[a] = NoApproval
        BY <2>1, <3>1
      <4>. QED
        BY <4>1 DEF NoApproval
    <3>2. CASE approval[a].st # "absent"
      <4>1. approval'[a].st = "gone" /\ approval'[a].user = approval[a].user
        BY <2>1, <2>2, <3>2 DEF Approval
      <4>. QED
        BY <3>2, <4>1 DEF AskedInv
    <3>. QED
      BY <3>1, <3>2
  <2>. QED
    BY <2>3 DEF AskedInv
<1>6. ASSUME NEW r \in Requests, NEW a \in Approvals, GatePoll(r, a)
      PROVE  UNCHANGED approval
  BY <1>6 DEF GatePoll
<1>7. ASSUME NEW r \in Requests,
             \/ CheckPassword(r) \/ Pop(r) \/ ProofBad(r) \/ ProofGood(r)
             \/ GateNone(r) \/ GateUnavailable(r)
             \/ RecordFailure(r) \/ ClearFailures(r) \/ IssueToken(r) \/ RequestFails(r)
      PROVE  UNCHANGED approval
  BY <1>7 DEF CheckPassword, Pop, ProofBad, ProofGood, GateNone, GateUnavailable,
              RecordFailure, ClearFailures, IssueToken, RequestFails
<1>8. ASSUME NEW r \in Requests, NEW u \in Accounts, NEW pc, Begin(r, u, pc)
      PROVE  UNCHANGED approval
  BY <1>8 DEF Begin
<1>9. ASSUME NEW u \in Accounts, NEW n \in Nonces, Challenge(u, n)
      PROVE  UNCHANGED approval
  BY <1>9 DEF Challenge
<1>10. CASE Tick \/ UNCHANGED vars
  BY <1>1, <1>10 DEF Tick, vars
<1>. QED
  BY <1>1, <1>2, <1>3, <1>4, <1>5, <1>6, <1>7, <1>8, <1>9, <1>10 DEF Next

\* An approval that a request spends lets one login through.
LEMMA AllowLetsIn ==
    ASSUME IInv, AskedInv, NEW r \in Requests, NEW a \in Approvals, GateAllow(r, a)
    PROVE  Promise!Next
<1>1. /\ approval[a].st = "approved" /\ approval' = [approval EXCEPT ![a].st = "gone"]
      /\ bought' = [bought EXCEPT ![a] = @ + 1] /\ UNCHANGED said
  BY DEF GateAllow, CanConsume, Effective
<1>2. said[a] = {"approved"} /\ bought[a] = 0 /\ bought \in [Approvals -> Nat]
  BY <1>1 DEF IInv, ApprovalInv, TypeOK
<1>3. bought' = [bought EXCEPT ![a] = 1]
  BY <1>1, <1>2
<1>4. /\ approval'[a].st = "gone"
      /\ \A b \in Approvals : approval'[b].user = approval[b].user
      /\ \A b \in Approvals \ {a} : approval'[b].st = approval[b].st
  BY <1>1 DEF IInv, TypeOK, Approval
<1>5. {b \in Approvals : approval'[b].st = "gone"} = {b \in Approvals : approval[b].st = "gone"} \cup {a}
  BY <1>4
<1>6. [b \in Approvals |-> approval'[b].user] = [b \in Approvals |-> approval[b].user]
  BY <1>4
<1>7. a \notin {b \in Approvals : approval[b].st = "gone"}
  BY <1>1
<1>8. Promise!LetIn(a)
  BY <1>1, <1>2, <1>3, <1>5, <1>6, <1>7 DEF Promise!LetIn
<1>. QED
  BY <1>8 DEF Promise!Next

\* A request to the phones asks the account's, and the entries it evicts are forgotten.
LEMMA RaiseAsks ==
    ASSUME IInv, AskedInv, NEW r \in Requests, NEW a \in Approvals, GateRaise(r, a)
    PROVE  Promise!Next
<1>0. req[r].user \in Accounts /\ approval[a].st = "absent" /\ UNCHANGED <<said, bought>>
  BY DEF GateRaise, IInv, ReqInv
<1>1. PICK u \in Accounts : u = req[r].user
  BY <1>0
<1>2. PICK old \in SUBSET Approvals : old = {b \in Approvals \ {a} : Evictable(b, req[r].at)}
  OBVIOUS
<1>3. /\ approval'[a].user = u /\ approval'[a].st = "pending"
      /\ \A b \in Approvals \ {a} :
             approval'[b] = IF b \in old THEN [approval[b] EXCEPT !.st = "gone"] ELSE approval[b]
  BY <1>1, <1>2 DEF GateRaise
<1>4. \A b \in Approvals : approval[b] \in Approval
  BY DEF IInv, TypeOK
<1>5. [b \in Approvals |-> approval'[b].user]
          = [[b \in Approvals |-> approval[b].user] EXCEPT ![a] = u]
  <2>1. \A b \in Approvals \ {a} : approval'[b].user = approval[b].user
    BY <1>3, <1>4 DEF Approval
  <2>. QED
    BY <1>3, <2>1
<1>6. {b \in Approvals : approval'[b].st = "gone"} = {b \in Approvals : approval[b].st = "gone"} \cup old
  BY <1>0, <1>2, <1>3, <1>4 DEF Approval
<1>7. /\ [b \in Approvals |-> approval[b].user][a] = None
      /\ \A b \in old : [c \in Approvals |-> approval[c].user][b] # None
  BY <1>0, <1>2 DEF AskedInv, Evictable
<1>8. Promise!Ask(a, u, old)
  BY <1>0, <1>5, <1>6, <1>7 DEF Promise!Ask
<1>. QED
  BY <1>8 DEF Promise!Next

\* The answer of a phone is the first, and comes in time.
LEMMA DecideIsAnswer ==
    ASSUME IInv, AskedInv, NEW a \in Approvals, NEW u \in Accounts,
           NEW v \in {"approved", "denied"}, GuardDecide(a, u, v)
    PROVE  Promise!Next
<1>1. /\ approval[a].st = "pending" /\ approval' = [approval EXCEPT ![a].st = v]
      /\ said' = [said EXCEPT ![a] = @ \cup {v}] /\ UNCHANGED bought
  BY DEF GuardDecide, Answerable, Effective
<1>2. said[a] = {} /\ said' = [said EXCEPT ![a] = {v}]
  BY <1>1 DEF IInv, ApprovalInv, TypeOK
<1>3. /\ approval'[a].st = v /\ \A b \in Approvals : approval'[b].user = approval[b].user
      /\ \A b \in Approvals \ {a} : approval'[b].st = approval[b].st
  BY <1>1 DEF IInv, TypeOK, Approval
<1>4. {b \in Approvals : approval'[b].st = "gone"} = {b \in Approvals : approval[b].st = "gone"}
  BY <1>1, <1>3
<1>5. [b \in Approvals |-> approval'[b].user] = [b \in Approvals |-> approval[b].user]
  BY <1>3
<1>6. approval[a].user # None /\ a \notin {b \in Approvals : approval[b].st = "gone"}
  BY <1>1 DEF AskedInv
<1>7. Promise!Answer(a, v)
  BY <1>1, <1>2, <1>4, <1>5, <1>6 DEF Promise!Answer
<1>. QED
  BY <1>7 DEF Promise!Next

\* A restart forgets whatever was asked.
LEMMA RestartForgets ==
    ASSUME IInv, AskedInv, Restart
    PROVE  Promise!Next
<1>1. \A a \in Approvals : IF approval[a].st = "absent" THEN approval'[a] = NoApproval
                          ELSE approval'[a] = [approval[a] EXCEPT !.st = "gone"]
  BY DEF Restart
<1>2. \A a \in Approvals : approval[a] \in Approval
  BY DEF IInv, TypeOK
<1>3. ASSUME NEW a \in Approvals
      PROVE  /\ approval'[a].user = approval[a].user
             /\ (approval'[a].st = "gone") = (approval[a].user # None)
  <2>1. CASE approval[a].st = "absent"
    <3>1. approval'[a] = NoApproval /\ approval[a].user = None
      BY <1>1, <2>1 DEF AskedInv
    <3>. QED
      BY <3>1 DEF NoApproval
  <2>2. CASE approval[a].st # "absent"
    <3>1. approval'[a].st = "gone" /\ approval'[a].user = approval[a].user
      BY <1>1, <1>2, <2>2 DEF Approval
    <3>. QED
      BY <2>2, <3>1 DEF AskedInv
  <2>. QED
    BY <2>1, <2>2
<1>4. [a \in Approvals |-> approval'[a].user] = [a \in Approvals |-> approval[a].user]
  BY <1>3
<1>5. {a \in Approvals : approval'[a].st = "gone"}
          = {a \in Approvals : [b \in Approvals |-> approval[b].user][a] # None}
  BY <1>3
<1>6. UNCHANGED <<said, bought>>
  BY DEF Restart
<1>7. Promise!ForgetAll
  BY <1>4, <1>5, <1>6 DEF Promise!ForgetAll
<1>. QED
  BY <1>7 DEF Promise!Next

\* guard.rs implements PhoneApproval: what the gate, the phones, evictions and restarts do
\* to an approval is a step of it, and whatever else happens shows nothing of it.
THEOREM Refinement == Spec => ImplementsApproval
<1>1. Init => Promise!Init /\ AskedInv
  <2>. SUFFICES ASSUME Init PROVE Promise!Init /\ AskedInv
    OBVIOUS
  <2>1. \A a \in Approvals : approval[a] = NoApproval
    BY DEF Init
  <2>2. [a \in Approvals |-> approval[a].user] = [a \in Approvals |-> None]
        /\ {a \in Approvals : approval[a].st = "gone"} = {}
    BY <2>1 DEF NoApproval
  <2>. QED
    BY <2>1, <2>2 DEF Init, Promise!Init, AskedInv, NoApproval
<1>2. IInv /\ AskedInv /\ [Next]_vars => AskedInv'
  BY AskedKept
<1>3. IInv /\ AskedInv /\ [Next]_vars => [Promise!Next]_(Promise!vars)
  <2>. SUFFICES ASSUME IInv, AskedInv, [Next]_vars
                PROVE  Promise!Next \/ UNCHANGED Promise!vars
    OBVIOUS
  <2>1. CASE UNCHANGED <<approval, said, bought>>
    BY <2>1, ApprovalUnseen
  <2>2. ASSUME NEW r \in Requests, NEW a \in Approvals, GateAllow(r, a)
        PROVE  Promise!Next
    BY <2>2, AllowLetsIn
  <2>3. ASSUME NEW r \in Requests, NEW a \in Approvals, GateRaise(r, a)
        PROVE  Promise!Next
    BY <2>3, RaiseAsks
  <2>4. ASSUME NEW a \in Approvals, NEW u \in Accounts, NEW v \in {"approved", "denied"},
               GuardDecide(a, u, v)
        PROVE  Promise!Next
    BY <2>4, DecideIsAnswer
  <2>5. CASE Restart
    BY <2>5, RestartForgets
  <2>6. ASSUME NEW r \in Requests, NEW a \in Approvals, GatePoll(r, a)
        PROVE  UNCHANGED <<approval, said, bought>>
    BY <2>6 DEF GatePoll
  <2>7. ASSUME NEW r \in Requests,
               \/ CheckPassword(r) \/ Pop(r) \/ ProofBad(r) \/ ProofGood(r)
               \/ GateNone(r) \/ GateUnavailable(r)
               \/ RecordFailure(r) \/ ClearFailures(r) \/ IssueToken(r) \/ RequestFails(r)
        PROVE  UNCHANGED <<approval, said, bought>>
    BY <2>7 DEF CheckPassword, Pop, ProofBad, ProofGood, GateNone, GateUnavailable,
                RecordFailure, ClearFailures, IssueToken, RequestFails
  <2>8. ASSUME NEW r \in Requests, NEW u \in Accounts, NEW pc, Begin(r, u, pc)
        PROVE  UNCHANGED <<approval, said, bought>>
    BY <2>8 DEF Begin
  <2>9. ASSUME NEW u \in Accounts, NEW n \in Nonces, Challenge(u, n)
        PROVE  UNCHANGED <<approval, said, bought>>
    BY <2>9 DEF Challenge
  <2>10. CASE Tick \/ UNCHANGED vars
    BY <2>1, <2>10 DEF Tick, vars
  <2>. QED
    BY <2>1, <2>2, <2>3, <2>4, <2>5, <2>6, <2>7, <2>8, <2>9, <2>10 DEF Next
<1>. QED
  BY <1>1, <1>2, <1>3, Invariance, PTL DEF Spec, ImplementsApproval, Promise!Spec
=============================================================================
