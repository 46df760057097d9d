---------------------------- MODULE SelfService ----------------------------
(***************************************************************************)
(* What an account holder can do without an admin at the keyboard          *)
(* (registration.rs, password_reset.rs, and the panel's pending signups in *)
(* admin_extra.rs): ask for an account, have the request approved or       *)
(* denied by mail link or panel, and reset a forgotten password by a       *)
(* mailed link.  Handlers run a statement per step, on any replica.        *)
(*                                                                         *)
(* A password is named by where it came from: the signup request or the    *)
(* reset link it was typed for.  A name stands for the username and the    *)
(* email, both UNIQUE in admin_users; the collision checks ask for either. *)
(***************************************************************************)
EXTENDS Naturals

CONSTANTS
    Names,      \* usernames, each with its email
    Signups,    \* pending_registrations rows, by id
    Links,      \* reset links, by token
    Clerks,     \* handlers that can be in flight
    Free,       \* no name, request or link
    MaxAccounts, \* bound on admin_users ids, for model checking
    MaxFaults    \* bound on failing statements, for model checking

ASSUME SelfServiceConstants ==
    Free \notin Names \cup Signups \cup Links /\ MaxAccounts \in Nat /\ MaxFaults \in Nat

VARIABLES
    user,    \* admin_users: the id (0: no row) and the password of each name
    lastId,  \* AUTO_INCREMENT
    pending, \* pending_registrations: the name each row asks for
    filed,   \* signup requests used up
    reset,   \* password_resets: the account id of each live row (0: none)
    issued,  \* history: the account id each link was made for
    stale,   \* links past expires_at
    clerk,   \* handlers in flight
    faults,  \* failing statements so far
    maker,   \* history: the request each account id was created from
    denied,  \* history: requests denied with no approval of them under way
    ended    \* history: links that existed when a reset of their account finished

selfVars == <<user, lastId, pending, filed, reset, issued, stale, clerk, faults, maker, denied, ended>>

NoUser == [id |-> 0, pw |-> Free]
Resting == [op |-> "idle", pc |-> "idle", name |-> Free, row |-> Free, id |-> 0]

SelfTypeOK ==
    /\ user \in [Names -> [id : 0 .. MaxAccounts, pw : Signups \cup Links \cup {Free}]]
    /\ lastId \in 0 .. MaxAccounts
    /\ pending \in [Signups -> Names \cup {Free}]
    /\ filed \subseteq Signups
    /\ reset \in [Links -> 0 .. MaxAccounts] /\ issued \in [Links -> 0 .. MaxAccounts]
    /\ stale \subseteq Links
    /\ clerk \in [Clerks -> [op : {"idle", "register", "approve", "deny", "forgot", "submit"},
                             pc : {"idle", "accounts", "pending", "insert", "select", "check",
                                   "create", "discard", "clear", "store", "name", "write", "burn"},
                             name : Names \cup {Free}, row : Signups \cup Links \cup {Free},
                             id : 0 .. MaxAccounts]]
    /\ faults \in 0 .. MaxFaults
    /\ maker \in [1 .. MaxAccounts -> Signups \cup {Free}]
    /\ denied \subseteq Signups /\ ended \subseteq Links

SelfInit ==
    /\ user = [n \in Names |-> NoUser]
    /\ lastId = 0
    /\ pending = [q \in Signups |-> Free]
    /\ filed = {}
    /\ reset = [l \in Links |-> 0] /\ issued = [l \in Links |-> 0]
    /\ stale = {}
    /\ clerk = [c \in Clerks |-> Resting]
    /\ faults = 0
    /\ maker = [i \in 1 .. MaxAccounts |-> Free]
    /\ denied = {} /\ ended = {}

-----------------------------------------------------------------------------
Rows == <<user, lastId, pending, filed, reset, issued, stale, faults, maker, denied, ended>>
Take(c, r) == clerk[c] = Resting /\ clerk' = [clerk EXCEPT ![c] = r]
GoOn(c, pc) == clerk' = [clerk EXCEPT ![c].pc = pc]
Reply(c) == clerk' = [clerk EXCEPT ![c] = Resting]

(* api_auth_register *)

Apply(c, n) ==
    /\ Take(c, [Resting EXCEPT !.op = "register", !.pc = "accounts", !.name = n])
    /\ UNCHANGED Rows

\* The name is looked up among the accounts, then among the pending requests.
CheckAccounts(c) ==
    /\ clerk[c].pc = "accounts"
    /\ IF user[clerk[c].name].id # 0 THEN Reply(c) ELSE GoOn(c, "pending")
    /\ UNCHANGED Rows

CheckPending(c) ==
    /\ clerk[c].pc = "pending"
    /\ IF \E q \in Signups : pending[q] = clerk[c].name THEN Reply(c) ELSE GoOn(c, "insert")
    /\ UNCHANGED Rows

\* No key keeps names apart in pending_registrations.  The row gets a fresh id, and the
\* admins are mailed.
File(c) ==
    LET q == CHOOSE x \in Signups \ filed : TRUE IN
    /\ clerk[c].pc = "insert" /\ filed # Signups
    /\ pending' = [pending EXCEPT ![q] = clerk[c].name]
    /\ filed' = filed \cup {q}
    /\ Reply(c)
    /\ UNCHANGED <<user, lastId, reset, issued, stale, faults, maker, denied, ended>>

-----------------------------------------------------------------------------
(* api_auth_approve, approve_pending_registration, api_auth_deny, deny_pending_registration *)

\* Whoever holds the link, or an admin at the panel; a link may be opened again.
Open(c, q, op) ==
    /\ q \in filed
    /\ Take(c, [Resting EXCEPT !.op = op, !.pc = "select", !.row = q])
    /\ UNCHANGED Rows

SelectRequest(c) ==
    /\ clerk[c].pc = "select" /\ clerk[c].op \in {"approve", "deny"}
    /\ IF pending[clerk[c].row] = Free THEN Reply(c)
       ELSE clerk' = [clerk EXCEPT ![c].name = pending[clerk[c].row],
                                   ![c].pc = IF clerk[c].op = "deny" THEN "discard" ELSE "check"]
    /\ UNCHANGED Rows

CheckTaken(c) ==
    /\ clerk[c].pc = "check"
    /\ GoOn(c, IF user[clerk[c].name].id # 0 THEN "discard" ELSE "create")
    /\ UNCHANGED Rows

\* The account gets the next id and the request's password.
NewAccount(c) ==
    /\ lastId < MaxAccounts
    /\ lastId' = lastId + 1
    /\ user' = [user EXCEPT ![clerk[c].name] = [id |-> lastId + 1, pw |-> clerk[c].row]]
    /\ maker' = [maker EXCEPT ![lastId + 1] = clerk[c].row]
    /\ GoOn(c, "discard")

\* The INSERT into admin_users; on a duplicate key the request is answered with an
\* error and its row stays.
Create(c) ==
    /\ clerk[c].pc = "create"
    /\ IF user[clerk[c].name].id # 0 THEN Reply(c) /\ UNCHANGED <<user, lastId, maker>>
       ELSE NewAccount(c)
    /\ UNCHANGED <<pending, filed, reset, issued, stale, faults, denied, ended>>

\* An approval of request q that has read the row.
Approving(q) == \E c \in Clerks : clerk[c].op = "approve" /\ clerk[c].row = q
                                    /\ clerk[c].pc \in {"check", "create", "discard"}

\* DELETE of the row: the end of an approval, of one whose name is taken, of a denial.
Discard(c) ==
    /\ clerk[c].pc = "discard"
    /\ pending' = [pending EXCEPT ![clerk[c].row] = Free]
    /\ denied' = IF clerk[c].op = "deny" /\ ~Approving(clerk[c].row) /\ clerk[c].row \notin {maker[i] : i \in 1 .. MaxAccounts}
                 THEN denied \cup {clerk[c].row} ELSE denied
    /\ Reply(c)
    /\ UNCHANGED <<user, lastId, filed, reset, issued, stale, faults, maker, ended>>

-----------------------------------------------------------------------------
(* api_auth_forgot, lookup_reset_token, api_auth_reset_page, api_auth_reset_submit *)

\* Only an account that exists; anyone else gets the same answer.
Forgot(c, n) ==
    /\ user[n].id # 0
    /\ Take(c, [Resting EXCEPT !.op = "forgot", !.pc = "clear", !.id = user[n].id])
    /\ UNCHANGED Rows

LinksOf(i) == {l \in Links : reset[l] = i}
Cleared(ls) == [l \in Links |-> IF l \in ls THEN 0 ELSE reset[l]]

\* The account's other links are deleted, then the new one is stored and mailed.
ClearLinks(c) ==
    /\ clerk[c].pc = "clear"
    /\ reset' = Cleared(LinksOf(clerk[c].id))
    /\ GoOn(c, "store")
    /\ UNCHANGED <<user, lastId, pending, filed, issued, stale, faults, maker, denied, ended>>

StoreLink(c) ==
    LET fresh == {l \in Links : issued[l] = 0}
        l == CHOOSE x \in fresh : TRUE IN
    /\ clerk[c].pc = "store" /\ fresh # {}
    /\ reset' = [reset EXCEPT ![l] = clerk[c].id]
    /\ issued' = [issued EXCEPT ![l] = clerk[c].id]
    /\ Reply(c)
    /\ UNCHANGED <<user, lastId, pending, filed, stale, faults, maker, denied, ended>>

\* The form is shown, or sent in: the link is looked up.
Submit(c, l) ==
    /\ issued[l] # 0
    /\ Take(c, [Resting EXCEPT !.op = "submit", !.pc = "select", !.row = l])
    /\ UNCHANGED Rows

\* An expired link is deleted as it is found.
LookupLink(c) ==
    LET l == clerk[c].row IN
    /\ clerk[c].pc = "select" /\ clerk[c].op = "submit"
    /\ \/ reset[l] = 0 /\ Reply(c) /\ UNCHANGED reset
       \/ reset[l] # 0 /\ l \in stale /\ Reply(c) /\ reset' = [reset EXCEPT ![l] = 0]
       \/ /\ reset[l] # 0 /\ l \notin stale
          /\ clerk' = [clerk EXCEPT ![c].pc = "name", ![c].id = reset[l]]
          /\ UNCHANGED reset
    /\ UNCHANGED <<user, lastId, pending, filed, issued, stale, faults, maker, denied, ended>>

\* The account by its id: none if it was deleted.  The page, or a form with too short
\* a password, stops here.
LookupName(c) ==
    /\ clerk[c].pc = "name"
    /\ \/ Reply(c)
       \/ \E n \in Names : user[n].id = clerk[c].id
                             /\ clerk' = [clerk EXCEPT ![c].pc = "write", ![c].name = n]
    /\ UNCHANGED Rows

\* Faulty variant: the account is updated by its name.
WriteByName(c) ==
    /\ clerk[c].pc = "write"
    /\ user' = [user EXCEPT ![clerk[c].name].pw = IF user[clerk[c].name].id # 0 THEN clerk[c].row ELSE @]
    /\ GoOn(c, "burn")
    /\ UNCHANGED <<lastId, pending, filed, reset, issued, stale, faults, maker, denied, ended>>

\* UPDATE ... WHERE id: an account deleted meanwhile is not touched.
WritePassword(c) ==
    /\ clerk[c].pc = "write"
    /\ user' = [n \in Names |-> IF user[n].id = clerk[c].id THEN [user[n] EXCEPT !.pw = clerk[c].row] ELSE user[n]]
    /\ GoOn(c, "burn")
    /\ UNCHANGED <<lastId, pending, filed, reset, issued, stale, faults, maker, denied, ended>>

\* The links made for account id i so far.
MadeFor(i) == {l \in Links : issued[l] = i}
Burned(c, ls) ==
    /\ clerk[c].pc = "burn"
    /\ reset' = Cleared(ls)
    /\ ended' = ended \cup MadeFor(clerk[c].id)
    /\ Reply(c)
    /\ UNCHANGED <<user, lastId, pending, filed, issued, stale, faults, maker, denied>>

\* Every outstanding link of the account is deleted.
Burn(c) == Burned(c, LinksOf(clerk[c].id))

\* RESET_TTL_SECS pass.
ExpireLink(l) ==
    /\ issued[l] # 0 /\ l \notin stale
    /\ stale' = stale \cup {l}
    /\ UNCHANGED <<user, lastId, pending, filed, reset, issued, clerk, faults, maker, denied, ended>>

\* An admin deletes the account (Accounts): its links stay.
Removed(n) ==
    /\ user[n].id # 0
    /\ user' = [user EXCEPT ![n] = NoUser]
    /\ UNCHANGED <<lastId, pending, filed, reset, issued, stale, clerk, faults, maker, denied, ended>>

\* A statement fails.  Most end the request with an error; a DELETE that fails is passed
\* over, which only for forgot's first one leaves a statement to come.
ClerkFails(c) ==
    /\ clerk[c] # Resting
    /\ faults < MaxFaults
    /\ faults' = faults + 1
    /\ IF clerk[c].pc = "clear" THEN GoOn(c, "store") ELSE Reply(c)
    /\ UNCHANGED <<user, lastId, pending, filed, reset, issued, stale, maker, denied, ended>>

SelfNext ==
    \/ \E c \in Clerks :
         \/ CheckAccounts(c) \/ CheckPending(c) \/ SelectRequest(c) \/ CheckTaken(c) \/ Create(c)
         \/ Discard(c) \/ ClearLinks(c) \/ LookupLink(c) \/ LookupName(c) \/ WritePassword(c) \/ Burn(c)
         \/ \E n \in Names : Apply(c, n) \/ Forgot(c, n)
         \/ File(c) \/ StoreLink(c) \/ ClerkFails(c)
         \/ \E q \in Signups, op \in {"approve", "deny"} : Open(c, q, op)
         \/ \E l \in Links : Submit(c, l)
    \/ \E l \in Links : ExpireLink(l)
    \/ \E n \in Names : Removed(n)

SelfSpec == SelfInit /\ [][SelfNext]_selfVars

-----------------------------------------------------------------------------
(* Properties *)

\* An account's password is that of the request it was created from, or was set through
\* a link made for this very account: not by another request for its name that two
\* signups at once left pending, and not by a link of a deleted account of that name.
PasswordOwned ==
    \A n \in Names : user[n].id # 0 =>
        \/ user[n].pw = maker[user[n].id]
        \/ user[n].pw \in Links /\ issued[user[n].pw] = user[n].id

\* A request that was denied while no approval had read it never becomes an account,
\* however often its links are opened afterwards.
DeniedStaysDenied == \A i \in 1 .. MaxAccounts : maker[i] \notin denied

\* Once a reset has burned its links every link made for the account before it is dead, also the
\* second one that two requests at once had left.
ResetEndsAllLinks == \A l \in ended : reset[l] = 0

\* A signup or a reset link gives access to nothing but what it was approved or mailed for:
\* the three properties above together.
SelfServiceSafe == PasswordOwned /\ DeniedStaysDenied /\ ResetEndsAllLinks

=============================================================================
