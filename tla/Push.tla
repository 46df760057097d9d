-------------------------------- MODULE Push --------------------------------
(***************************************************************************)
(* Push tokens and sends (push_api.rs, push.rs).  A token names a phone    *)
(* and a phone changes hands; whoever registers a token last owns it.      *)
(* A send works through a list of tokens it loaded before, one request to  *)
(* FCM (external) per token, and forgets the tokens FCM calls dead.        *)
(***************************************************************************)
EXTENDS Naturals, FiniteSets

CONSTANTS
    Holders,   \* accounts
    Tokens,    \* FCM tokens, one per phone installation
    Sends,     \* sends (calls, alerts) that can be in flight
    Nobody     \* no account

ASSUME PushConstants == Nobody \notin Holders

VARIABLES
    owner,    \* push_tokens: the account of each token (PRIMARY KEY token)
    claim,    \* api_push_register past its DELETE: the account about to be written
    send,     \* sends in flight: the <<account, token>> pairs left, and whether one was delivered
    alive,    \* external: does FCM still know the token?
    gone      \* history: <<account, token>> pairs unregistered, claimed away or found dead
              \* since the account last registered the token

pushVars == <<owner, claim, send, alive, gone>>

NoSend == [pc |-> "idle", left |-> {}, delivered |-> FALSE]

PushTypeOK ==
    /\ owner \in [Tokens -> Holders \cup {Nobody}]
    /\ claim \in [Tokens -> SUBSET Holders]
    /\ send \in [Sends -> [pc : {"idle", "access", "sending"}, left : SUBSET (Holders \X Tokens),
                           delivered : BOOLEAN]]
    /\ alive \in [Tokens -> BOOLEAN]
    /\ gone \in SUBSET (Holders \X Tokens)

PushInit ==
    /\ owner = [t \in Tokens |-> Nobody]
    /\ claim = [t \in Tokens |-> {}]
    /\ send = [s \in Sends |-> NoSend]
    /\ alive = [t \in Tokens |-> TRUE]
    /\ gone = Holders \X Tokens

-----------------------------------------------------------------------------
(* api_push_register, api_push_unregister *)

\* The first statement removes the row if it is another account's; that it failed is ignored.
Claim(u, t) ==
    /\ alive[t] /\ u \notin claim[t]
    /\ \/ /\ owner' = [owner EXCEPT ![t] = IF @ = u THEN @ ELSE Nobody]
          /\ gone' = gone \cup {x \in Holders \X {t} : x[1] # u}
       \/ UNCHANGED <<owner, gone>>
    /\ claim' = [claim EXCEPT ![t] = @ \cup {u}]
    /\ UNCHANGED <<send, alive>>

\* The second writes this account's; ON DUPLICATE KEY takes over a row written since.
Register(u, t) ==
    /\ u \in claim[t]
    /\ owner' = [owner EXCEPT ![t] = u]
    /\ gone' = (gone \ {<<u, t>>}) \cup {x \in Holders \X {t} : x[1] # u}
    /\ claim' = [claim EXCEPT ![t] = @ \ {u}]
    /\ UNCHANGED <<send, alive>>

\* The insert fails (503): the row stays as the first statement left it.
RegisterFails(u, t) ==
    /\ u \in claim[t]
    /\ claim' = [claim EXCEPT ![t] = @ \ {u}]
    /\ UNCHANGED <<owner, send, alive, gone>>

\* Faulty variant: the token is forgotten whoever it belongs to by now.
forget_any_owner(u, t) ==
    /\ owner' = [owner EXCEPT ![t] = Nobody]
    /\ gone' = gone \cup {<<u, t>>}

\* DELETE ... WHERE user_id=:u AND token=:t
forget_push_token(u, t) ==
    /\ owner' = [owner EXCEPT ![t] = IF @ = u THEN Nobody ELSE @]
    /\ gone' = gone \cup {<<u, t>>}

Unregister(u, t) ==
    /\ forget_push_token(u, t)
    /\ UNCHANGED <<claim, send, alive>>

-----------------------------------------------------------------------------
(* push_call, push_alert_to_user, push_alert_everyone *)

\* Faulty variant: the list is built from the rows without asking whether they are owned.
load_unowned_too(us) == {<<owner[t], t>> : t \in Tokens}

\* The rows of the accounts us.
load_push_tokens(us) == {x \in us \X Tokens : owner[x[2]] = x[1]}

\* One account's tokens, or everybody's; with none, nothing is sent.
StartSend(s, us) ==
    /\ send[s].pc = "idle"
    /\ load_push_tokens(us) # {}
    /\ send' = [send EXCEPT ![s] = [pc |-> "access", left |-> load_push_tokens(us), delivered |-> FALSE]]
    /\ UNCHANGED <<owner, claim, alive, gone>>

\* access_token: cached or newly minted; without one the send is over.
AccessToken(s) ==
    /\ send[s].pc = "access"
    /\ \/ send' = [send EXCEPT ![s].pc = "sending"]
       \/ send' = [send EXCEPT ![s] = NoSend]
    /\ UNCHANGED <<owner, claim, alive, gone>>

\* One request: accepted, refused for now (the token is kept), or the token is dead.
SendOne(s, u, t) ==
    /\ send[s].pc = "sending" /\ <<u, t>> \in send[s].left
    /\ \/ /\ alive[t]
          /\ send' = [send EXCEPT ![s].left = @ \ {<<u, t>>}, ![s].delivered = TRUE]
          /\ UNCHANGED <<owner, gone>>
       \/ /\ send' = [send EXCEPT ![s].left = @ \ {<<u, t>>}]
          /\ UNCHANGED <<owner, gone>>
       \/ /\ ~alive[t]
          /\ send' = [send EXCEPT ![s].left = @ \ {<<u, t>>}]
          /\ forget_push_token(u, t)
    /\ UNCHANGED <<claim, alive>>

EndSend(s) ==
    /\ send[s].pc = "sending" /\ send[s].left = {}
    /\ send' = [send EXCEPT ![s] = NoSend]
    /\ UNCHANGED <<owner, claim, alive, gone>>

\* External: the app is removed, or installed again and given the same token back.
TokenDies(t) ==
    /\ alive' = [alive EXCEPT ![t] = ~@]
    /\ UNCHANGED <<owner, claim, send, gone>>

PushNext ==
    \/ \E u \in Holders, t \in Tokens :
         Claim(u, t) \/ Register(u, t) \/ RegisterFails(u, t) \/ Unregister(u, t)
    \/ \E s \in Sends : \/ AccessToken(s) \/ EndSend(s)
                        \/ StartSend(s, Holders)
                        \/ \E u \in Holders : StartSend(s, {u})
                        \/ \E u \in Holders, t \in Tokens : SendOne(s, u, t)
    \/ \E t \in Tokens : TokenDies(t)

PushSpec == PushInit /\ [][PushNext]_pushVars

-----------------------------------------------------------------------------
\* A phone that changed hands keeps ringing for its new owner: a row stays until its
\* own account gives the token up, FCM calls the token dead for that account, or
\* another account claims it, whatever stale lists other sends work through.
RegisteredStays == \A u \in Holders, t \in Tokens : owner[t] = u <=> <<u, t>> \notin gone

=============================================================================
