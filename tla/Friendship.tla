----------------------------- MODULE Friendship -----------------------------
(***************************************************************************)
(* Friend requests, friendships, blocks, ignores and the request policy    *)
(* (social_api.rs, blocks.rs).  One row per pair of accounts is shared by  *)
(* every handler on every server.  A handler runs one SQL statement per    *)
(* step and holds no transaction, so what it read may be gone when it      *)
(* writes.  Handlers with one statement are one action; the others keep    *)
(* their place in a request slot.                                          *)
(*                                                                         *)
(* Time enters only through expires_at < now(): Expire makes that true of  *)
(* a pending row at any moment.                                            *)
(***************************************************************************)
EXTENDS Naturals, FiniteSets

CONSTANTS
    Users,        \* accounts
    Requests,     \* slots for handlers with more than one statement
    None,         \* an unset field
    MaxOutgoing,  \* FRIEND_REQUEST_MAX_OUTGOING
    DbFails,      \* may a database call fail where the code carries on?
    CountFails,   \* may the COUNT of the cap fail?
    MaxLimits     \* bound on blocks, ignores and policies, for model checking

ASSUME FriendshipConstants ==
    /\ MaxOutgoing \in Nat
    /\ DbFails \in BOOLEAN
    /\ CountFails \in BOOLEAN
    /\ MaxLimits \in Nat
    /\ None \notin Users

VARIABLES
    row,      \* social_friendships: at most one row for each pair
    bars,     \* social_blocks and social_ignores
    policy,   \* social_friend_settings.friend_policy
    req,      \* the handlers in flight
    consent   \* history: who agreed to the pair's row, or was read agreeing by its writer

vars == <<row, bars, policy, req, consent>>

Pairs == {p \in SUBSET Users : Cardinality(p) = 2}
Policies == {"everyone", "mutual", "nobody"}
Barrier == {"block", "ignore", "nobody"} \X Users \X Users

NoRow == [st |-> "none", by |-> None, stale |-> FALSE]
\* requested_by and expires_at are only ever read of a pending row.
Accepted == [st |-> "accepted", by |-> None, stale |-> FALSE]
Idle == [pc |-> "idle", me |-> None, other |-> None, pol |-> "everyone",
         mine |-> {}, seen |-> {}, since |-> {}, old |-> {}]

Row == [st : {"none", "pending", "accepted"}, by : Users \cup {None}, stale : BOOLEAN]
PC == {"idle", "block", "ignored", "ignoring", "sweep", "policy", "select",
       "mine", "theirs", "count", "insert", "accept", "mute", "bar"}
\* since and old are history: the barriers and the expired rows that stood when
\* the request came in and have stood ever since; seen is the consent it read.
Slot == [pc : PC, me : Users \cup {None}, other : Users \cup {None}, pol : Policies,
         mine : SUBSET Users, seen : SUBSET Users, since : SUBSET Barrier,
         old : SUBSET Pairs]

TypeOK ==
    /\ row \in [Pairs -> Row]
    /\ bars \in SUBSET ({"block", "ignore"} \X Users \X Users)
    /\ policy \in [Users -> Policies]
    /\ req \in [Requests -> Slot]
    /\ consent \in [Pairs -> SUBSET Users]

Init ==
    /\ row = [p \in Pairs |-> NoRow]
    /\ bars = {}
    /\ policy = [u \in Users |-> "everyone"]
    /\ req = [r \in Requests |-> Idle]
    /\ consent = [p \in Pairs |-> {}]

-----------------------------------------------------------------------------
(* What the statements select and change *)

Blocked(a, b) == {<<"block", a, b>>, <<"block", b, a>>} \cap bars # {}
Stale == {p \in Pairs : row[p].stale}
friend_ids(a) == {b \in Users \ {a} : row[{a, b}].st = "accepted"}
Outgoing(a) == {p \in Pairs : row[p].st = "pending" /\ row[p].by = a}
Invited(a, b) == row[{a, b}].st = "pending" /\ row[{a, b}].by = b

\* What bars a request of a to b at this moment.
Standing(a, b) ==
    {x \in bars : {x[2], x[3]} = {a, b}}
        \cup {x \in {<<"nobody", b, b>>} : policy[b] = "nobody"}

\* Rows ps are gone, whoever deleted them.
Without(q, ps) == [q EXCEPT !.old = @ \ ps]
Delete(ps) ==
    /\ row' = [p \in Pairs |-> IF p \in ps THEN NoRow ELSE row[p]]
    /\ consent' = [p \in Pairs |-> IF p \in ps THEN {} ELSE consent[p]]

\* The slot moves on to s; rows ps were deleted by the same step.
Step(r, s, ps) ==
    req' = [q \in Requests |-> Without(IF q = r THEN s ELSE req[q], ps)]
Goto(r, pc) == Step(r, [req[r] EXCEPT !.pc = pc], {})
Finish(r) == Step(r, Idle, {})

\* A check whose query fails lets the request pass: what stood no longer counts.
Waved(r, pc) == DbFails /\ Step(r, [req[r] EXCEPT !.pc = pc, !.since = {}], {})

tables == <<row, bars, policy, consent>>

-----------------------------------------------------------------------------
(* api_social_request *)

Ask(r, a, b) ==
    /\ req[r].pc = "idle"
    /\ a # b
    /\ Step(r, [Idle EXCEPT !.pc = "block", !.me = a, !.other = b,
                            !.since = Standing(a, b), !.old = Stale], {})
    /\ UNCHANGED tables

\* Faulty variant: only the blocks the sender made are looked at.
CheckBlockOneWay(r) ==
    /\ req[r].pc = "block"
    /\ \/ <<"block", req[r].me, req[r].other>> \notin bars /\ Goto(r, "ignored")
       \/ <<"block", req[r].me, req[r].other>> \in bars /\ Finish(r)
       \/ Waved(r, "ignored")
    /\ UNCHANGED tables

\* block_pair reads both directions in one query; a failed query reads as no block.
CheckBlock(r) ==
    /\ req[r].pc = "block"
    /\ \/ ~Blocked(req[r].me, req[r].other) /\ Goto(r, "ignored")
       \/ Blocked(req[r].me, req[r].other) /\ Finish(r)
       \/ Waved(r, "ignored")
    /\ UNCHANGED tables

\* has_ignored(a, b), asked first of the target and then of the sender.
HasIgnored(r, a, b, next) ==
    /\ \/ <<"ignore", a, b>> \notin bars /\ Goto(r, next)
       \/ <<"ignore", a, b>> \in bars /\ Finish(r)
       \/ Waved(r, next)
    /\ UNCHANGED tables

CheckIgnored(r) ==
    /\ req[r].pc = "ignored"
    /\ HasIgnored(r, req[r].other, req[r].me, "ignoring")
CheckIgnoring(r) ==
    /\ req[r].pc = "ignoring"
    /\ HasIgnored(r, req[r].me, req[r].other, "sweep")

\* Faulty variant: only the sender's own expired invites are swept.
SweepOwn(r) ==
    LET ps == {p \in Stale : row[p].by = req[r].me} IN
    /\ req[r].pc = "sweep"
    /\ Delete(ps)
    /\ Step(r, [req[r] EXCEPT !.pc = "policy"], ps)
    /\ UNCHANGED <<bars, policy>>

\* sweep_expired_requests deletes every expired invite; a failure is ignored.
Sweep(r) ==
    /\ req[r].pc = "sweep"
    /\ \/ /\ Delete(Stale)
          /\ Step(r, [req[r] EXCEPT !.pc = "policy"], Stale)
       \/ /\ DbFails
          /\ Step(r, [req[r] EXCEPT !.pc = "policy", !.old = {}], {})
          /\ UNCHANGED <<row, consent>>
    /\ UNCHANGED <<bars, policy>>

\* Faulty variant: a policy that cannot be read is left unset.
ReadPolicyUnset(r) ==
    /\ req[r].pc = "policy"
    /\ \/ Step(r, [req[r] EXCEPT !.pc = "select", !.pol = policy[req[r].other]], {})
       \/ DbFails /\ Step(r, [req[r] EXCEPT !.pc = "select", !.pol = None], {})
    /\ UNCHANGED tables

\* friend_policy_of: a policy that cannot be read is "everyone".
ReadPolicy(r) ==
    /\ req[r].pc = "policy"
    /\ \/ Step(r, [req[r] EXCEPT !.pc = "select", !.pol = policy[req[r].other]], {})
       \/ Waved(r, "select")
    /\ UNCHANGED tables

\* Faulty variant: any pending row of the pair is accepted, the sender's own too.
SelectAnyPending(r) ==
    LET p == {req[r].me, req[r].other} IN
    /\ req[r].pc = "select"
    /\ \/ /\ row[p].st = "accepted"
          /\ Finish(r)
       \/ /\ row[p].st = "pending"
          /\ Step(r, [req[r] EXCEPT !.pc = "accept", !.seen = consent[p]], {})
       \/ /\ row[p].st = "none"
          /\ Goto(r, "count")
    /\ UNCHANGED tables

\* The existing row decides: an invite from the target is accepted at once, any
\* other row ends the request, and without one the policy read earlier applies.
\* A failed SELECT reads as no row.
Select(r) ==
    LET p == {req[r].me, req[r].other} IN
    /\ req[r].pc = "select"
    /\ \/ /\ Invited(req[r].me, req[r].other)
          /\ Step(r, [req[r] EXCEPT !.pc = "accept", !.pol = "everyone",
                                     !.seen = consent[p]], {})
       \/ /\ row[p].st # "none" /\ ~Invited(req[r].me, req[r].other)
          /\ Finish(r)
       \/ /\ row[p].st = "none" \/ DbFails
          /\ \/ req[r].pol = "nobody" /\ Finish(r)
             \/ req[r].pol = "mutual" /\ Step(r, [req[r] EXCEPT !.pc = "mine", !.pol = "everyone"], {})
             \/ req[r].pol = "everyone" /\ Goto(r, "count")
    /\ UNCHANGED tables

\* UPDATE ... WHERE user_lo, user_hi: whatever the row has become is accepted,
\* and nothing is when it is gone.  The result is not looked at.
CounterAccept(r) ==
    LET p == {req[r].me, req[r].other} IN
    /\ req[r].pc = "accept"
    /\ \/ /\ row[p].st # "none"
          /\ row' = [row EXCEPT ![p] = Accepted]
          /\ consent' = [consent EXCEPT ![p] = @ \cup {req[r].me} \cup req[r].seen]
          /\ Step(r, Idle, {p})
       \/ /\ row[p].st = "none" \/ DbFails
          /\ Finish(r)
          /\ UNCHANGED <<row, consent>>
    /\ UNCHANGED <<bars, policy>>

\* shares_mutual_friend: two queries, each reading as no friends when it fails.
ReadMine(r) ==
    /\ req[r].pc = "mine"
    /\ \/ /\ friend_ids(req[r].me) # {}
          /\ Step(r, [req[r] EXCEPT !.pc = "theirs", !.mine = friend_ids(req[r].me)], {})
       \/ /\ friend_ids(req[r].me) = {} \/ DbFails
          /\ Finish(r)
    /\ UNCHANGED tables

ReadTheirs(r) ==
    LET shared == friend_ids(req[r].other) \cap req[r].mine IN
    /\ req[r].pc = "theirs"
    /\ \/ shared # {} /\ Step(r, [req[r] EXCEPT !.pc = "count", !.mine = {}], {})
       \/ (shared = {} \/ DbFails) /\ Finish(r)
    /\ UNCHANGED tables

\* Faulty variant: the cap is compared with the requests pending to the target.
CountOfTarget(r) ==
    LET full == Cardinality(Outgoing(req[r].other)) >= MaxOutgoing IN
    /\ req[r].pc = "count"
    /\ \/ full /\ Finish(r)
       \/ ~full /\ Goto(r, "insert")
    /\ UNCHANGED tables

\* The cap on outstanding requests: a failed COUNT reads as zero.
Count(r) ==
    LET full == Cardinality(Outgoing(req[r].me)) >= MaxOutgoing IN
    /\ req[r].pc = "count"
    /\ \/ full /\ Finish(r)
       \/ (~full \/ (CountFails /\ MaxOutgoing > 0)) /\ Goto(r, "insert")
    /\ UNCHANGED tables

\* A row that has appeared since the SELECT is a duplicate key and a 500.
Insert(r) ==
    LET p == {req[r].me, req[r].other} IN
    /\ req[r].pc = "insert"
    /\ \/ /\ row[p].st = "none"
          /\ row' = [row EXCEPT ![p] = [st |-> "pending", by |-> req[r].me, stale |-> FALSE]]
          /\ consent' = [consent EXCEPT ![p] = {req[r].me}]
       \/ /\ row[p].st # "none"
          /\ UNCHANGED <<row, consent>>
    /\ Finish(r)
    /\ UNCHANGED <<bars, policy>>

\* A statement whose error is returned, or a client that hangs up: the handler
\* stops between two statements.
Abort(r) ==
    /\ req[r].pc # "idle"
    /\ Finish(r)
    /\ UNCHANGED tables

-----------------------------------------------------------------------------
(* api_social_respond *)

\* "accept": one guarded UPDATE; it looks neither at blocks nor at expires_at.
Accept(a, b) ==
    LET p == {a, b} IN
    /\ a # b /\ Invited(a, b)
    /\ row' = [row EXCEPT ![p] = Accepted]
    /\ consent' = [consent EXCEPT ![p] = @ \cup {a}]
    /\ req' = [q \in Requests |-> Without(req[q], {p})]
    /\ UNCHANGED <<bars, policy>>

\* "decline", "cancel" and "remove" delete the row, whatever it is.
Remove(a, b) ==
    /\ a # b /\ row[{a, b}].st # "none"
    /\ Delete({{a, b}})
    /\ req' = [q \in Requests |-> Without(req[q], {{a, b}})]
    /\ UNCHANGED <<bars, policy>>

Limits == Cardinality(bars) + Cardinality({u \in Users : policy[u] # "everyone"})
Raise(kind, a, b) ==
    /\ <<kind, a, b>> \in bars \/ Limits < MaxLimits
    /\ bars' = bars \cup {<<kind, a, b>>}

\* "ignore": the invite is deleted, then the ignore stored.
Ignore(r, a, b) ==
    LET ps == {p \in {{a, b}} : Invited(a, b)} IN
    /\ req[r].pc = "idle" /\ a # b
    /\ Delete(ps)
    /\ Step(r, [Idle EXCEPT !.pc = "mute", !.me = a, !.other = b], ps)
    /\ UNCHANGED <<bars, policy>>

Mute(r) ==
    /\ req[r].pc = "mute"
    /\ Raise("ignore", req[r].me, req[r].other)
    /\ Finish(r)
    /\ UNCHANGED <<row, policy, consent>>

-----------------------------------------------------------------------------
(* api_social_block, api_social_ignores_post, api_social_privacy_put *)

\* The friendship is dropped first (a failure is ignored), then the block stored.
Block(r, a, b) ==
    LET p == {a, b} IN
    /\ req[r].pc = "idle" /\ a # b
    /\ \/ /\ Delete({p})
          /\ Step(r, [Idle EXCEPT !.pc = "bar", !.me = a, !.other = b], {p})
       \/ /\ DbFails
          /\ Step(r, [Idle EXCEPT !.pc = "bar", !.me = a, !.other = b], {})
          /\ UNCHANGED <<row, consent>>
    /\ UNCHANGED <<bars, policy>>

Bar(r) ==
    /\ req[r].pc = "bar"
    /\ Raise("block", req[r].me, req[r].other)
    /\ Finish(r)
    /\ UNCHANGED <<row, policy, consent>>

\* Barrier x is lifted: it no longer stood throughout any request in flight.
Lifted(x) == [q \in Requests |-> [req[q] EXCEPT !.since = @ \ {x}]]

\* Unblock, and the removal of an ignore.
Unbar(kind, a, b) ==
    /\ <<kind, a, b>> \in bars
    /\ bars' = bars \ {<<kind, a, b>>}
    /\ req' = Lifted(<<kind, a, b>>)
    /\ UNCHANGED <<row, policy, consent>>

SetIgnore(a, b) ==
    /\ a # b
    /\ Raise("ignore", a, b)
    /\ UNCHANGED <<row, policy, req, consent>>

SetPolicy(a, p) ==
    /\ policy[a] # p
    /\ policy[a] # "everyone" \/ Limits < MaxLimits
    /\ policy' = [policy EXCEPT ![a] = p]
    /\ req' = Lifted(<<"nobody", a, a>>)
    /\ UNCHANGED <<row, bars, consent>>

-----------------------------------------------------------------------------
(* Expiry *)

Expire(p) ==
    /\ row[p].st = "pending" /\ ~row[p].stale
    /\ row' = [row EXCEPT ![p].stale = TRUE]
    /\ UNCHANGED <<bars, policy, req, consent>>

\* api_social_friends sweeps before it lists.
List ==
    /\ Stale # {}
    /\ Delete(Stale)
    /\ req' = [q \in Requests |-> Without(req[q], Stale)]
    /\ UNCHANGED <<bars, policy>>

-----------------------------------------------------------------------------
Handler(r) ==
    \/ CheckBlock(r) \/ CheckIgnored(r) \/ CheckIgnoring(r) \/ Sweep(r)
    \/ ReadPolicy(r) \/ Select(r) \/ CounterAccept(r) \/ ReadMine(r)
    \/ ReadTheirs(r) \/ Count(r) \/ Insert(r) \/ Abort(r) \/ Mute(r) \/ Bar(r)

Next ==
    \/ \E r \in Requests : Handler(r)
    \/ \E r \in Requests, a, b \in Users : Ask(r, a, b) \/ Ignore(r, a, b) \/ Block(r, a, b)
    \/ \E a, b \in Users : Accept(a, b) \/ Remove(a, b) \/ SetIgnore(a, b)
    \/ \E k \in {"block", "ignore"}, a, b \in Users : Unbar(k, a, b)
    \/ \E a \in Users, p \in Policies : SetPolicy(a, p)
    \/ \E p \in Pairs : Expire(p)
    \/ List

Spec == Init /\ [][Next]_vars

-----------------------------------------------------------------------------
(* Properties *)

\* Nobody is befriended unasked.  A pair is accepted only if each of the two asked
\* or accepted, for this row, or (an accept by counter-request that lands on a
\* row replaced since it was read) for the row its handler read.
FriendsBothAgreed == \A p \in Pairs : row[p].st = "accepted" => consent[p] = p

\* A barrier holds against everything that starts behind it: a request that came
\* in while a block or an ignore stood between the two, or the target took no
\* requests, does not get as far as writing a row while that barrier stands.  Only
\* an invite from the target passes the policy.  (A request whose check could
\* not be read is let through by the code and no longer counted.)
BarriersHold ==
    \A r \in Requests :
        /\ req[r].pc = "insert" => req[r].since = {}
        /\ req[r].pc = "accept" => \A x \in req[r].since : x[1] = "nobody"

\* "Clear any expired pending invites first so they neither block a fresh request
\* nor count against the outstanding-request cap": once a request has swept, no
\* invite that was expired when it came in is left for its later reads to see.
ExpiredInvitesForgotten ==
    \A r \in Requests :
        req[r].pc \in {"policy", "select", "mine", "theirs", "count", "insert", "accept"}
            => req[r].old = {}

\* The cap counts and then inserts, so requests of one sender in flight together
\* can exceed it, but only by their number: whatever expires, is answered or is
\* swept meanwhile, no account has more than MaxOutgoing - 1 requests pending
\* besides one for each slot (while counts can be read).
OutgoingOvershootBounded ==
    ~CountFails => \A a \in Users :
        Cardinality(Outgoing(a)) < MaxOutgoing + Cardinality(Requests)
=============================================================================
