------------------------------ MODULE Accounts ------------------------------
(***************************************************************************)
(* Accounts, their launcher tokens and their sessions (db.rs,              *)
(* users_api.rs, handlers.rs, store_auth.rs, requests_app.rs): creation,   *)
(* update, deletion and the guard of the last admin; logins that reuse or  *)
(* mint a token; logout and rotation; the sessions of the admin panel, the *)
(* store and the request board.  Handlers run a statement per step.        *)
(* Passwords and second factors are Login's: here a login is one whose     *)
(* credentials are right.                                                  *)
(***************************************************************************)
EXTENDS Naturals, FiniteSets

CONSTANTS
    Members,     \* accounts
    FirstAdmins, \* the accounts that exist at first, as enabled admins
    Jobs,        \* handlers that can be in flight
    Nil,         \* no account
    MaxTokens,   \* bound on token rows and on token values, for model checking
    MaxJobs      \* bound on requests, for model checking

ASSUME AccountsConstants ==
    /\ FirstAdmins \subseteq Members /\ Nil \notin Members
    /\ MaxTokens \in Nat /\ MaxJobs \in Nat

VARIABLES
    acct,     \* admin_users
    toks,     \* launcher_tokens, by row id
    sess,     \* admin_sessions, user_sessions and request_sessions
    job,      \* handlers in flight
    values,   \* token values minted so far
    jobs,     \* requests so far
    since,    \* history: token values minted since each account last logged out
    unended,  \* history: accounts whose last logout was acknowledged and wrote nothing
    loose     \* history: was the last removal of an admin written without a count that stood?

accountVars == <<acct, toks, sess, job, values, jobs, since, unended, loose>>

Gone == [st |-> "gone", admin |-> FALSE]
NoToken == [user |-> Nil, val |-> 0, on |-> FALSE]
NoJob == [op |-> "idle", pc |-> "idle", who |-> Nil, admin |-> "keep", on |-> "keep", row |-> 0,
          counted |-> FALSE]
Setting == {"keep", "yes", "no"}
Kinds == {"panel", "store", "board"}

AccountsTypeOK ==
    /\ acct \in [Members -> [st : {"on", "off", "gone"}, admin : BOOLEAN]]
    /\ toks \in [1 .. MaxTokens -> [user : Members \cup {Nil}, val : 0 .. MaxTokens, on : BOOLEAN]]
    /\ sess \subseteq [kind : Kinds, user : Members, admin : BOOLEAN]
    /\ \A j \in Jobs : job[j] \in
         [op : {"idle", "delete", "panel", "put", "login"} \cup Kinds,
          pc : {"idle", "look", "count", "tokens", "sessions", "account", "role", "enable",
                "verify", "token", "mint", "open"},
          who : Members \cup {Nil}, admin : Setting, on : Setting, row : 0 .. MaxTokens,
          counted : BOOLEAN]
    /\ values \in 0 .. MaxTokens /\ jobs \in 0 .. MaxJobs
    /\ since \in [Members -> SUBSET (1 .. MaxTokens)]
    /\ unended \subseteq Members /\ loose \in BOOLEAN

AccountsInit ==
    /\ acct = [m \in Members |-> IF m \in FirstAdmins THEN [st |-> "on", admin |-> TRUE] ELSE Gone]
    /\ toks = [k \in 1 .. MaxTokens |-> NoToken]
    /\ sess = {}
    /\ job = [j \in Jobs |-> NoJob]
    /\ values = 0 /\ jobs = 0
    /\ since = [m \in Members |-> {}]
    /\ unended = {} /\ loose = FALSE

-----------------------------------------------------------------------------
Admins == {m \in Members : acct[m].st # "gone" /\ acct[m].admin}
enabled_admins == {m \in Admins : acct[m].st = "on"}
TokensOf(m) == {k \in DOMAIN toks : toks[k].user = m}

NextStep(j, pc) == job' = [job EXCEPT ![j].pc = pc]
Done(j) == job' = [job EXCEPT ![j] = NoJob]
Request(j, r) ==
    /\ job[j] = NoJob /\ jobs < MaxJobs
    /\ job' = [job EXCEPT ![j] = r]
    /\ jobs' = jobs + 1
    /\ UNCHANGED <<acct, toks, sess, values, since, unended, loose>>

-----------------------------------------------------------------------------
(* create_user, delete_user_account, apply_user_update, api_users_update *)

\* By PUT /api/users or the panel.  INSERT: username and email are UNIQUE, so an existing account is refused.
CreateUser(m, admin) ==
    /\ enabled_admins # {} /\ acct[m].st = "gone"
    /\ acct' = [acct EXCEPT ![m] = [st |-> "on", admin |-> admin]]
    /\ UNCHANGED <<toks, sess, job, values, jobs, since, unended, loose>>

\* A session of the panel counts while its account is an enabled admin.
current_admin(s) == s.kind = "panel" /\ s.user \in enabled_admins

\* require_admin does not ask whether the caller is enabled; the panel does.
StartDelete(j, m) ==
    /\ Admins # {}
    /\ Request(j, [NoJob EXCEPT !.op = "delete", !.pc = "look", !.who = m])
StartPanelUpdate(j, m, admin, on) ==
    /\ \E s \in sess : current_admin(s)
    /\ Request(j, [NoJob EXCEPT !.op = "panel", !.pc = "look", !.who = m, !.admin = admin, !.on = on])
StartPutUpdate(j, m, admin, on) ==
    /\ Admins # {}
    /\ Request(j, [NoJob EXCEPT !.op = "put", !.pc = "look", !.who = m, !.admin = admin, !.on = on])

\* The target is read.  A deletion of an admin, and a panel update that takes an
\* enabled admin's role or access, count the admins first; PUT /api/users/:id never does.
LookTarget(j) ==
    LET a == acct[job[j].who] IN
    /\ job[j].pc = "look"
    /\ \/ a.st = "gone" /\ Done(j)
       \/ /\ a.st # "gone" /\ job[j].op = "delete"
          /\ NextStep(j, IF a.admin THEN "count" ELSE "tokens")
       \/ /\ a.st # "gone" /\ job[j].op = "panel"
          /\ NextStep(j, IF a.admin /\ a.st = "on" /\ "no" \in {job[j].admin, job[j].on}
                         THEN "count" ELSE "role")
       \/ /\ a.st # "gone" /\ job[j].op = "put"
          /\ NextStep(j, "role")
    /\ UNCHANGED <<acct, toks, sess, values, jobs, since, unended, loose>>

Counted(j, enough) ==
    /\ job[j].pc = "count"
    /\ IF enough THEN job' = [job EXCEPT ![j].pc = IF job[j].op = "delete" THEN "tokens" ELSE "role",
                                         ![j].counted = TRUE]
       ELSE Done(j)
    /\ UNCHANGED <<acct, toks, sess, values, jobs, since, unended, loose>>

\* Faulty variant: the guard refuses only when no admin is left.
CountNone(j) == Counted(j, Cardinality(enabled_admins) > 0)

\* enabled_admin_count: with one or none left, refuse.
CountAdmins(j) == Counted(j, Cardinality(enabled_admins) > 1)

\* The write of job j leaves the account as a and the job as next.  counted is a history
\* field: no enabled admin has been removed since the job counted them.
Strip(j, a, next) ==
    LET m == job[j].who
        removes == m \in enabled_admins /\ (a.st # "on" \/ ~a.admin)
        goes == [job EXCEPT ![j] = next] IN
    /\ acct' = [acct EXCEPT ![m] = a]
    /\ job' = IF removes THEN [q \in Jobs |-> [goes[q] EXCEPT !.counted = FALSE]] ELSE goes
    /\ loose' = IF removes THEN ~job[j].counted ELSE loose

DeleteTokens(j) ==
    /\ job[j].pc = "tokens"
    /\ toks' = [k \in DOMAIN toks |-> IF toks[k].user = job[j].who THEN NoToken ELSE toks[k]]
    /\ NextStep(j, "sessions")
    /\ UNCHANGED <<acct, sess, values, jobs, since, unended, loose>>

\* Only the panel's sessions: the store's and the board's rows stay.
DeleteSessions(j) ==
    /\ job[j].pc = "sessions"
    /\ sess' = {s \in sess : ~(s.kind = "panel" /\ s.user = job[j].who)}
    /\ NextStep(j, "account")
    /\ UNCHANGED <<acct, toks, values, jobs, since, unended, loose>>

DeleteAccount(j) ==
    /\ job[j].pc = "account"
    /\ Strip(j, Gone, NoJob)
    /\ UNCHANGED <<toks, sess, values, jobs, since, unended>>

\* update_user writes the role, then the access; a field not given is kept.
WriteRole(j) ==
    LET a == acct[job[j].who] IN
    /\ job[j].pc = "role"
    /\ IF job[j].admin = "keep" \/ a.st = "gone" THEN NextStep(j, "enable") /\ UNCHANGED <<acct, loose>>
       ELSE Strip(j, [a EXCEPT !.admin = job[j].admin = "yes"], [job[j] EXCEPT !.pc = "enable"])
    /\ UNCHANGED <<toks, sess, values, jobs, since, unended>>

WriteEnabled(j) ==
    LET a == acct[job[j].who] IN
    /\ job[j].pc = "enable"
    /\ IF job[j].on = "keep" \/ a.st = "gone" THEN Done(j) /\ UNCHANGED <<acct, loose>>
       ELSE Strip(j, [a EXCEPT !.st = IF job[j].on = "yes" THEN "on" ELSE "off"], NoJob)
    /\ UNCHANGED <<toks, sess, values, jobs, since, unended>>

-----------------------------------------------------------------------------
(* issue_user_token, api_auth_logout, rotate_launcher_token, delete_launcher_token *)

StartLogin(j, m, op) ==
    Request(j, [NoJob EXCEPT !.op = op, !.pc = "verify", !.who = m])

\* find_user: only an enabled account; the panel asks for an admin.
Verify(j) ==
    LET a == acct[job[j].who] IN
    /\ job[j].pc = "verify"
    /\ \/ /\ a.st = "on" /\ (job[j].op = "panel" => a.admin)
          /\ job' = [job EXCEPT ![j].pc = IF job[j].op = "login" THEN "token" ELSE "open",
                                ![j].admin = IF a.admin THEN "yes" ELSE "no"]
       \/ /\ ~(a.st = "on" /\ (job[j].op = "panel" => a.admin))
          /\ Done(j)
    /\ UNCHANGED <<acct, toks, sess, values, jobs, since, unended, loose>>

\* An enabled token is handed out again; else the row, or a new one, gets a new value.
FindToken(j) ==
    LET rows == TokensOf(job[j].who) IN
    /\ job[j].pc = "token"
    /\ \/ rows = {} /\ NextStep(j, "mint")
       \/ \E k \in rows : IF toks[k].on THEN Done(j)
                          ELSE job' = [job EXCEPT ![j].pc = "mint", ![j].row = k]
    /\ UNCHANGED <<acct, toks, sess, values, jobs, since, unended, loose>>

\* Rows are numbered by the first value they had, so no id is given out twice, and the
\* UPDATE of a row deleted meanwhile changes nothing.
MintToken(j) ==
    LET m == job[j].who
        k == IF job[j].row # 0 THEN job[j].row ELSE values + 1
        row == [user |-> m, val |-> values + 1, on |-> TRUE] IN
    /\ job[j].pc = "mint"
    /\ values < MaxTokens
    /\ values' = values + 1
    /\ toks' = IF job[j].row # 0 /\ toks[k].user = Nil THEN toks ELSE [toks EXCEPT ![k] = row]
    /\ since' = [since EXCEPT ![m] = @ \cup {values + 1}]
    /\ Done(j)
    /\ UNCHANGED <<acct, sess, jobs, unended, loose>>

\* Faulty variant: logout disables one row of the account.
LogoutOne(m) ==
    /\ \E k \in TokensOf(m) : toks[k].on /\ toks' = [toks EXCEPT ![k].on = FALSE]
    /\ since' = [since EXCEPT ![m] = {}]
    /\ unended' = unended \ {m}
    /\ UNCHANGED <<acct, sess, job, values, jobs, loose>>

\* The caller's token resolves to an account (enabled or not); all its rows go.  No
\* connection, or an UPDATE that fails, is ignored: the caller is told ok all the same.
Logout(m) ==
    /\ acct[m].st # "gone" /\ \E k \in TokensOf(m) : toks[k].on
    /\ since' = [since EXCEPT ![m] = {}]
    /\ \/ /\ toks' = [k \in DOMAIN toks |-> IF toks[k].user = m THEN [toks[k] EXCEPT !.on = FALSE] ELSE toks[k]]
          /\ unended' = unended \ {m}
       \/ UNCHANGED toks /\ unended' = unended \cup {m}
    /\ UNCHANGED <<acct, sess, job, values, jobs, loose>>

\* An admin gives a row a new value, or deletes it.
RotateToken(k) ==
    /\ \E s \in sess : current_admin(s)
    /\ toks[k].user # Nil /\ values < MaxTokens
    /\ toks' = [toks EXCEPT ![k].val = values + 1]
    /\ values' = values + 1
    /\ since' = [since EXCEPT ![toks[k].user] = @ \cup {values + 1}]
    /\ UNCHANGED <<acct, sess, job, jobs, unended, loose>>

DeleteToken(k) ==
    /\ \E s \in sess : current_admin(s)
    /\ toks[k].user # Nil
    /\ toks' = [toks EXCEPT ![k] = NoToken]
    /\ UNCHANGED <<acct, sess, job, values, jobs, since, unended, loose>>

-----------------------------------------------------------------------------
(* Sessions *)

\* The board's row keeps the role the account had.
OpenSession(j) ==
    /\ job[j].pc = "open"
    /\ sess' = sess \cup {[kind |-> job[j].op, user |-> job[j].who, admin |-> job[j].admin = "yes"]}
    /\ Done(j)
    /\ UNCHANGED <<acct, toks, values, jobs, since, unended, loose>>

\* Signed out, or expired and swept.
CloseSession(s) ==
    /\ s \in sess
    /\ sess' = sess \ {s}
    /\ UNCHANGED <<acct, toks, job, values, jobs, since, unended, loose>>

\* A statement fails: what the handler wrote before it stays.
JobFails(j) ==
    /\ job[j] # NoJob
    /\ Done(j)
    /\ UNCHANGED <<acct, toks, sess, values, jobs, since, unended, loose>>

AccountsNext ==
    \/ \E j \in Jobs, m \in Members :
         \/ StartDelete(j, m)
         \/ \E a, o \in {"yes", "no"} : StartPanelUpdate(j, m, a, o)
         \/ StartPutUpdate(j, m, "no", "keep") \/ StartPutUpdate(j, m, "keep", "no")
         \/ \E op \in {"login"} \cup Kinds : StartLogin(j, m, op)
    \/ \E j \in Jobs :
         \/ LookTarget(j) \/ CountAdmins(j) \/ DeleteTokens(j) \/ DeleteSessions(j)
         \/ DeleteAccount(j) \/ WriteRole(j) \/ WriteEnabled(j)
         \/ Verify(j) \/ FindToken(j) \/ MintToken(j) \/ OpenSession(j) \/ JobFails(j)
    \/ \E m \in Members : Logout(m) \/ \E admin \in BOOLEAN : CreateUser(m, admin)
    \/ \E k \in DOMAIN toks : RotateToken(k) \/ DeleteToken(k)
    \/ \E s \in sess : CloseSession(s)

AccountsSpec == AccountsInit /\ [][AccountsNext]_accountVars

-----------------------------------------------------------------------------
(* Properties *)

\* An enabled admin is left, whatever is deleted, demoted or disabled, unless the last
\* removal was written without a count that stood: by PUT /api/users/:id, which counts
\* nothing; of an account that was no admin yet when it was looked at; or after a removal
\* that came between its count and its write.
AdminLeft == enabled_admins = {} => loose

\* After a logout no token of the account works until it is minted or rotated anew,
\* also when two first logins at once left it with two rows; a logout that was
\* acknowledged and failed to write is the one that ends none.
LogoutEndsAll ==
    \A k \in DOMAIN toks : toks[k].on => \/ toks[k].val \in since[toks[k].user]
                                       \/ toks[k].user \in unended

=============================================================================
