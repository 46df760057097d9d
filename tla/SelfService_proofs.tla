------------------------- MODULE SelfService_proofs -------------------------
(***************************************************************************)
(* Proofs about SelfService, for any names, requests, links, handlers in   *)
(* flight and bounds: its types, and that a signup or a reset link gives   *)
(* access to nothing but what it was approved or mailed for.  At the end,  *)
(* that a behaviour of MCPeople is one of Friendship and of SelfService.   *)
(***************************************************************************)
EXTENDS MCPeople, Friendship_proofs

-----------------------------------------------------------------------------
(* Types, and what a handler's place says of it *)

ClerkType ==
    [op : {"idle", "register", "approve", "deny", "forgot", "submit"},
     pc : {"idle", "accounts", "pending", "insert", "select", "check",
           "create", "discard", "clear", "store", "name", "write", "burn"},
     name : Names \cup {Free}, row : Signups \cup Links \cup {Free}, id : 0 .. MaxAccounts]

DataType ==
    /\ user \in [Names -> [id : 0 .. MaxAccounts, pw : Signups \cup Links \cup {Free}]]
    /\ lastId \in 0 .. MaxAccounts
    /\ pending \in [Signups -> Names \cup {Free}]
    /\ filed \subseteq Signups
    /\ reset \in [Links -> 0 .. MaxAccounts] /\ issued \in [Links -> 0 .. MaxAccounts]
    /\ stale \subseteq Links
    /\ faults \in 0 .. MaxFaults
    /\ maker \in [1 .. MaxAccounts -> Signups \cup {Free}]
    /\ denied \subseteq Signups /\ ended \subseteq Links

\* Handler k with F for filed and I for issued: it works on what its request names, and
\* past its lookup a reset has the account its link was made for.
Fits(k, F, I) ==
    /\ k.pc \in {"accounts", "pending", "insert"} => k.op = "register" /\ k.name \in Names
    /\ k.op \in {"approve", "deny"} => k.row \in F
    /\ k.op = "submit" => k.row \in Links
    /\ k.pc \in {"check", "create", "discard"} => k.op \in {"approve", "deny"} /\ k.name \in Names
    /\ k.pc \in {"check", "create"} => k.op = "approve"
    /\ k.pc \in {"name", "write", "burn"} => k.row \in Links /\ k.id # 0 /\ I[k.row] = k.id

ClerksFit == clerk \in [Clerks -> ClerkType] /\ \A c \in Clerks : Fits(clerk[c], filed, issued)

\* A live row of password_resets is for the account its link was made for.
ResetsIssued == \A l \in Links : reset[l] \in {0, issued[l]}

Sane == DataType /\ ClerksFit /\ ResetsIssued

\* The base invariant implies the types.
LEMMA SaneTypes == Sane => SelfTypeOK
  BY DEF Sane, DataType, ClerksFit, ClerkType, SelfTypeOK

-----------------------------------------------------------------------------
(* Handlers and what they refer to *)

\* Requests and links that handlers refer to are neither unfiled nor made anew.
Referred ==
    /\ filed \subseteq filed'
    /\ \A l \in Links : issued[l] # 0 => issued'[l] = issued[l]

\* Handler c becomes k, and the others stay.
LEMMA ClerkMoves ==
    ASSUME ClerksFit, Referred, NEW c \in Clerks, NEW k \in ClerkType, Fits(k, filed', issued'),
           clerk' = [clerk EXCEPT ![c] = k]
    PROVE  ClerksFit'
<1>1. ASSUME NEW x \in Clerks PROVE Fits(clerk'[x], filed', issued')
  <2>1. CASE x = c
    BY <2>1 DEF ClerksFit
  <2>2. CASE x # c
    <3>1. clerk'[x] = clerk[x] /\ Fits(clerk[x], filed, issued)
      BY <2>2 DEF ClerksFit
    <3>. QED
      BY <3>1 DEF Fits, Referred
  <2>. QED
    BY <2>1, <2>2
<1>2. clerk' \in [Clerks -> ClerkType]
  BY DEF ClerksFit
<1>. QED
  BY <1>1, <1>2 DEF ClerksFit

\* No handler moves.
LEMMA ClerksStay ==
    ASSUME ClerksFit, Referred, UNCHANGED clerk PROVE ClerksFit'
<1>1. ASSUME NEW x \in Clerks PROVE Fits(clerk[x], filed', issued')
  BY DEF ClerksFit, Fits, Referred
<1>. QED
  BY <1>1 DEF ClerksFit

\* A handler at rest is one.
LEMMA RestingFits == ASSUME NEW F, NEW I PROVE Resting \in ClerkType /\ Fits(Resting, F, I)
  BY SelfServiceConstants DEF SelfServiceConstants, Resting, ClerkType, Fits

\* A handler answers.
LEMMA Replies ==
    ASSUME ClerksFit, Referred, NEW c \in Clerks, Reply(c) PROVE ClerksFit'
  BY RestingFits, ClerkMoves DEF Reply

\* A handler goes on to its next statement.
LEMMA GoesOn ==
    ASSUME ClerksFit, Referred, NEW c \in Clerks, NEW pc,
           \/ clerk[c].pc = "accounts" /\ pc = "pending"
           \/ clerk[c].pc = "pending" /\ pc = "insert"
           \/ clerk[c].pc = "check" /\ pc \in {"create", "discard"}
           \/ clerk[c].pc = "create" /\ pc = "discard"
           \/ clerk[c].pc = "clear" /\ pc = "store"
           \/ clerk[c].pc = "write" /\ pc = "burn",
           GoOn(c, pc)
    PROVE  ClerksFit'
<1>. DEFINE k == [clerk[c] EXCEPT !.pc = pc]
<1>1. clerk[c] \in ClerkType /\ Fits(clerk[c], filed, issued)
  BY DEF ClerksFit
<1>2. k \in ClerkType /\ k.pc = pc /\ k.op = clerk[c].op /\ k.name = clerk[c].name
      /\ k.row = clerk[c].row /\ k.id = clerk[c].id
  BY <1>1 DEF ClerkType
<1>3. clerk' = [clerk EXCEPT ![c] = k]
  BY DEF GoOn
<1>. HIDE DEF k
<1>4. Fits(k, filed', issued')
  BY <1>1, <1>2 DEF Fits, Referred
<1>. QED
  BY <1>2, <1>3, <1>4, ClerkMoves

\* A request comes in.
LEMMA Taken ==
    ASSUME Sane, UNCHANGED Rows, NEW c \in Clerks, NEW k \in ClerkType, Take(c, k),
           Fits(k, filed, issued)
    PROVE  Sane'
<1>1. Referred /\ DataType' /\ ResetsIssued' /\ filed' = filed /\ issued' = issued
  BY DEF Rows, Referred, DataType, ResetsIssued, Sane
<1>2. Fits(k, filed', issued')
  BY <1>1
<1>. QED
  BY <1>1, <1>2, ClerkMoves DEF Sane, Take

\* A step of a handler that leaves the tables alone.
LEMMA QuietStep ==
    ASSUME Sane, UNCHANGED Rows, Referred => ClerksFit' PROVE Sane'
<1>1. Referred /\ DataType' /\ ResetsIssued'
  BY DEF Rows, Referred, DataType, ResetsIssued, Sane
<1>. QED
  BY <1>1 DEF Sane

-----------------------------------------------------------------------------
(* The steps keep types and places *)

\* The requests that come in.
LEMMA RequestStep ==
    ASSUME Sane, NEW c \in Clerks,
           \/ \E n \in Names : Apply(c, n) \/ Forgot(c, n)
           \/ \E q \in Signups, op \in {"approve", "deny"} : Open(c, q, op)
           \/ \E l \in Links : Submit(c, l)
    PROVE  Sane'
<1>0. Resting \in ClerkType
  BY RestingFits
<1>1. ASSUME NEW n \in Names, Apply(c, n) PROVE Sane'
  <2>. DEFINE k == [Resting EXCEPT !.op = "register", !.pc = "accounts", !.name = n]
  <2>1. k \in ClerkType /\ k.op = "register" /\ k.pc = "accounts" /\ k.name = n
    BY <1>0 DEF Resting, ClerkType
  <2>2. Take(c, k) /\ UNCHANGED Rows
    BY <1>1 DEF Apply
  <2>. HIDE DEF k
  <2>3. Fits(k, filed, issued)
    BY <2>1 DEF Fits
  <2>. QED
    BY <2>1, <2>2, <2>3, Taken
<1>2. ASSUME NEW n \in Names, Forgot(c, n) PROVE Sane'
  <2>. DEFINE k == [Resting EXCEPT !.op = "forgot", !.pc = "clear", !.id = user[n].id]
  <2>1. user[n].id \in 0 .. MaxAccounts
    BY DEF Sane, DataType
  <2>2. k \in ClerkType /\ k.op = "forgot" /\ k.pc = "clear"
    BY <1>0, <2>1 DEF Resting, ClerkType
  <2>3. Take(c, k) /\ UNCHANGED Rows
    BY <1>2 DEF Forgot
  <2>. HIDE DEF k
  <2>4. Fits(k, filed, issued)
    BY <2>2 DEF Fits
  <2>. QED
    BY <2>2, <2>3, <2>4, Taken
<1>3. ASSUME NEW q \in Signups, NEW op \in {"approve", "deny"}, Open(c, q, op) PROVE Sane'
  <2>. DEFINE k == [Resting EXCEPT !.op = op, !.pc = "select", !.row = q]
  <2>1. k \in ClerkType /\ k.op = op /\ k.pc = "select" /\ k.row = q
    BY <1>0 DEF Resting, ClerkType
  <2>2. Take(c, k) /\ UNCHANGED Rows /\ q \in filed
    BY <1>3 DEF Open
  <2>. HIDE DEF k
  <2>3. Fits(k, filed, issued)
    BY <2>1, <2>2 DEF Fits
  <2>. QED
    BY <2>1, <2>2, <2>3, Taken
<1>4. ASSUME NEW l \in Links, Submit(c, l) PROVE Sane'
  <2>. DEFINE k == [Resting EXCEPT !.op = "submit", !.pc = "select", !.row = l]
  <2>1. k \in ClerkType /\ k.op = "submit" /\ k.pc = "select" /\ k.row = l
    BY <1>0 DEF Resting, ClerkType
  <2>2. Take(c, k) /\ UNCHANGED Rows
    BY <1>4 DEF Submit
  <2>. HIDE DEF k
  <2>3. Fits(k, filed, issued)
    BY <2>1 DEF Fits
  <2>. QED
    BY <2>1, <2>2, <2>3, Taken
<1>. QED
  BY <1>1, <1>2, <1>3, <1>4

\* The checks of a signup.
LEMMA CheckStep ==
    ASSUME Sane, NEW c \in Clerks, CheckAccounts(c) \/ CheckPending(c) \/ CheckTaken(c)
    PROVE  Sane'
  BY GoesOn, Replies, QuietStep DEF CheckAccounts, CheckPending, CheckTaken, Sane

\* A signup is filed under a fresh id.
LEMMA FileStep ==
    ASSUME Sane, NEW c \in Clerks, File(c) PROVE Sane'
<1>. DEFINE q == CHOOSE x \in Signups \ filed : TRUE
<1>1. q \in Signups \ filed
  BY DEF File, Sane, DataType
<1>2. clerk[c].name \in Names \cup {Free}
  BY DEF Sane, ClerksFit, ClerkType
<1>3. /\ pending' = [pending EXCEPT ![q] = clerk[c].name] /\ filed' = filed \cup {q} /\ Reply(c)
      /\ UNCHANGED <<user, lastId, reset, issued, stale, faults, maker, denied, ended>>
  BY DEF File
<1>. HIDE DEF q
<1>4. DataType' /\ ResetsIssued' /\ Referred
  BY <1>1, <1>2, <1>3 DEF Sane, DataType, ResetsIssued, Referred
<1>. QED
  BY <1>3, <1>4, Replies DEF Sane

\* The row of an opened link is read.
LEMMA SelectRequestStep ==
    ASSUME Sane, NEW c \in Clerks, SelectRequest(c) PROVE Sane'
<1>1. clerk[c] \in ClerkType /\ Fits(clerk[c], filed, issued)
  BY DEF Sane, ClerksFit
<1>2. CASE Reply(c)
  BY <1>2, Replies, QuietStep DEF Sane, SelectRequest
<1>. DEFINE pc == IF clerk[c].op = "deny" THEN "discard" ELSE "check"
            n == pending[clerk[c].row]
            k == [clerk[c] EXCEPT !.name = n, !.pc = pc]
<1>3. CASE n # Free /\ clerk' = [clerk EXCEPT ![c].name = n, ![c].pc = pc]
  <2>1. clerk[c].row \in Signups /\ clerk[c].op \in {"approve", "deny"}
    BY <1>1 DEF SelectRequest, Fits, Sane, DataType
  <2>2. n \in Names
    BY <1>3, <2>1 DEF Sane, DataType
  <2>. HIDE DEF n
  <2>3. k \in ClerkType /\ k.pc = pc /\ k.op = clerk[c].op /\ k.name = n /\ k.row = clerk[c].row
    BY <1>1, <2>2 DEF ClerkType
  <2>4. clerk' = [clerk EXCEPT ![c] = k]
    BY <1>3
  <2>. HIDE DEF k
  <2>5. Fits(k, filed, issued)
    BY <1>1, <2>1, <2>2, <2>3 DEF Fits
  <2>6. UNCHANGED Rows /\ filed' = filed /\ issued' = issued
    BY DEF SelectRequest, Rows
  <2>7. Fits(k, filed', issued')
    BY <2>5, <2>6
  <2>. QED
    BY <2>3, <2>4, <2>6, <2>7, ClerkMoves, QuietStep DEF Sane
<1>. QED
  BY <1>2, <1>3 DEF SelectRequest

\* An account is created, or the name is taken.
LEMMA CreateStep ==
    ASSUME Sane, NEW c \in Clerks, Create(c) PROVE Sane'
<1>1. /\ clerk[c].name \in Names /\ clerk[c].row \in Signups /\ clerk[c].pc = "create"
  BY DEF Sane, ClerksFit, Fits, Create, DataType
<1>2. UNCHANGED <<pending, filed, reset, issued, stale, faults, denied, ended>>
  BY DEF Create
<1>3. Referred /\ ResetsIssued'
  BY <1>2 DEF Sane, Referred, ResetsIssued
<1>4. CASE Reply(c) /\ UNCHANGED <<user, lastId, maker>>
  BY <1>2, <1>3, <1>4, Replies DEF Sane, DataType
<1>5. CASE NewAccount(c)
  <2>1. lastId \in 0 .. MaxAccounts /\ lastId < MaxAccounts /\ MaxAccounts \in Nat
    BY <1>5, SelfServiceConstants DEF Sane, DataType, NewAccount, SelfServiceConstants
  <2>2. lastId + 1 \in 1 .. MaxAccounts /\ lastId + 1 \in 0 .. MaxAccounts
    BY <2>1
  <2>. DEFINE i == lastId + 1
              a == [id |-> i, pw |-> clerk[c].row]
  <2>3. /\ lastId' = i /\ user' = [user EXCEPT ![clerk[c].name] = a]
        /\ maker' = [maker EXCEPT ![i] = clerk[c].row] /\ GoOn(c, "discard")
    BY <1>5 DEF NewAccount
  <2>. HIDE DEF i
  <2>4. a \in [id : 0 .. MaxAccounts, pw : Signups \cup Links \cup {Free}]
    BY <1>1, <2>2 DEF i
  <2>. HIDE DEF a
  <2>5. DataType'
    BY <1>1, <1>2, <2>2, <2>3, <2>4 DEF Sane, DataType, i
  <2>. QED
    BY <1>1, <1>3, <2>3, <2>5, GoesOn DEF Sane
<1>. QED
  BY <1>4, <1>5 DEF Create

\* A request's row is deleted.
LEMMA DiscardStep ==
    ASSUME Sane, NEW c \in Clerks, Discard(c) PROVE Sane'
<1>1. clerk[c].row \in Signups
  BY DEF Sane, ClerksFit, Fits, Discard, DataType
<1>2. denied' \subseteq denied \cup {clerk[c].row}
  BY DEF Discard
<1>3. DataType' /\ Referred /\ ResetsIssued'
  BY <1>1, <1>2 DEF Sane, DataType, Discard, Referred, ResetsIssued
<1>. QED
  BY <1>3, Replies DEF Sane, Discard

\* Links are deleted.
LEMMA ClearedIs ==
    ASSUME Sane, NEW ls, reset' = Cleared(ls), UNCHANGED issued
    PROVE  /\ reset' \in [Links -> 0 .. MaxAccounts] /\ ResetsIssued'
           /\ \A l \in Links : (l \in ls => reset'[l] = 0) /\ (reset[l] = 0 => reset'[l] = 0)
<1>1. 0 \in 0 .. MaxAccounts
  BY SelfServiceConstants DEF SelfServiceConstants
<1>2. \A l \in Links : reset'[l] = IF l \in ls THEN 0 ELSE reset[l]
  BY DEF Cleared
<1>. QED
  BY <1>1, <1>2 DEF Sane, DataType, Cleared, ResetsIssued

\* The statements of a request for a link.
LEMMA ForgotStep ==
    ASSUME Sane, NEW c \in Clerks, ClearLinks(c) \/ StoreLink(c) PROVE Sane'
<1>1. CASE ClearLinks(c)
  BY <1>1, ClearedIs, GoesOn DEF ClearLinks, Sane, DataType, Referred
<1>2. CASE StoreLink(c)
  <2>. DEFINE fresh == {l \in Links : issued[l] = 0}
              l == CHOOSE x \in fresh : TRUE
  <2>1. l \in fresh
    BY <1>2 DEF StoreLink
  <2>2. clerk[c].id \in 0 .. MaxAccounts
    BY DEF Sane, ClerksFit, ClerkType
  <2>3. /\ reset' = [reset EXCEPT ![l] = clerk[c].id] /\ issued' = [issued EXCEPT ![l] = clerk[c].id]
        /\ Reply(c)
        /\ UNCHANGED <<user, lastId, pending, filed, stale, faults, maker, denied, ended>>
    BY <1>2 DEF StoreLink
  <2>4. l \in Links /\ issued[l] = 0
    BY <2>1
  <2>. HIDE DEF l
  <2>5. DataType' /\ Referred
    BY <2>2, <2>3, <2>4 DEF Sane, DataType, Referred
  <2>6. ResetsIssued'
    BY <2>3, <2>4 DEF Sane, DataType, ResetsIssued
  <2>. QED
    BY <2>3, <2>5, <2>6, Replies DEF Sane
<1>. QED
  BY <1>1, <1>2

\* The lookup of a link.
LEMMA LookupLinkStep ==
    ASSUME Sane, NEW c \in Clerks, LookupLink(c) PROVE Sane'
<1>. DEFINE l == clerk[c].row
<1>1. clerk[c] \in ClerkType /\ Fits(clerk[c], filed, issued) /\ l \in Links
      /\ clerk[c].op = "submit"
  BY DEF Sane, ClerksFit, Fits, LookupLink
<1>2. Referred /\ filed' = filed /\ issued' = issued
      /\ UNCHANGED <<user, lastId, pending, filed, issued, stale, faults, maker, denied, ended>>
  BY DEF LookupLink, Referred
<1>3. CASE Reply(c) /\ (UNCHANGED reset \/ reset' = [reset EXCEPT ![l] = 0])
  <2>1. 0 \in 0 .. MaxAccounts
    BY SelfServiceConstants DEF SelfServiceConstants
  <2>2. DataType' /\ ResetsIssued'
    BY <1>1, <1>2, <1>3, <2>1 DEF Sane, DataType, ResetsIssued
  <2>. QED
    BY <1>2, <1>3, <2>2, Replies DEF Sane
<1>4. CASE /\ reset[l] # 0 /\ UNCHANGED reset
           /\ clerk' = [clerk EXCEPT ![c].pc = "name", ![c].id = reset[l]]
  <2>. DEFINE i == reset[l]
              k == [clerk[c] EXCEPT !.pc = "name", !.id = i]
  <2>1. i \in 0 .. MaxAccounts /\ i # 0 /\ issued[l] = i
    BY <1>1, <1>4 DEF Sane, DataType, ResetsIssued
  <2>. HIDE DEF i
  <2>2. k \in ClerkType /\ k.pc = "name" /\ k.op = "submit" /\ k.row = l /\ k.id = i
    BY <1>1, <2>1 DEF ClerkType
  <2>3. clerk' = [clerk EXCEPT ![c] = k]
    BY <1>4 DEF i
  <2>. HIDE DEF k
  <2>4. Fits(k, filed', issued')
    BY <1>1, <1>2, <2>1, <2>2 DEF Fits
  <2>5. DataType' /\ ResetsIssued'
    BY <1>2, <1>4 DEF Sane, DataType, ResetsIssued
  <2>. QED
    BY <1>2, <2>2, <2>3, <2>4, <2>5, ClerkMoves DEF Sane
<1>. QED
  BY <1>3, <1>4 DEF LookupLink

\* The account of a link.
LEMMA LookupNameStep ==
    ASSUME Sane, NEW c \in Clerks, LookupName(c) PROVE Sane'
<1>1. clerk[c] \in ClerkType /\ Fits(clerk[c], filed, issued)
  BY DEF Sane, ClerksFit
<1>2. CASE Reply(c)
  BY <1>2, Replies, QuietStep DEF Sane, LookupName
<1>3. ASSUME NEW n \in Names, clerk' = [clerk EXCEPT ![c].pc = "write", ![c].name = n]
      PROVE  Sane'
  <2>. DEFINE k == [clerk[c] EXCEPT !.pc = "write", !.name = n]
  <2>1. k \in ClerkType /\ k.pc = "write" /\ k.op = clerk[c].op /\ k.row = clerk[c].row
        /\ k.id = clerk[c].id
    BY <1>1 DEF ClerkType
  <2>2. clerk' = [clerk EXCEPT ![c] = k]
    BY <1>3
  <2>3. UNCHANGED Rows /\ filed' = filed /\ issued' = issued /\ clerk[c].pc = "name"
    BY DEF LookupName, Rows
  <2>. HIDE DEF k
  <2>4. Fits(k, filed', issued')
    BY <1>1, <2>1, <2>3 DEF Fits
  <2>. QED
    BY <2>1, <2>2, <2>3, <2>4, ClerkMoves, QuietStep DEF Sane
<1>. QED
  BY <1>2, <1>3 DEF LookupName

\* The password is written, and the links are burned.
LEMMA SubmitStep ==
    ASSUME Sane, NEW c \in Clerks, WritePassword(c) \/ Burn(c) PROVE Sane'
<1>1. CASE WritePassword(c)
  <2>1. Referred /\ ResetsIssued'
    BY <1>1 DEF WritePassword, Referred, Sane, ResetsIssued
  <2>2. clerk[c].row \in Signups \cup Links \cup {Free}
    BY DEF Sane, ClerksFit, ClerkType
  <2>3. ASSUME NEW n \in Names
        PROVE  [user[n] EXCEPT !.pw = clerk[c].row]
                   \in [id : 0 .. MaxAccounts, pw : Signups \cup Links \cup {Free}]
    BY <2>2 DEF Sane, DataType
  <2>4. user' \in [Names -> [id : 0 .. MaxAccounts, pw : Signups \cup Links \cup {Free}]]
    BY <1>1, <2>3 DEF WritePassword, Sane, DataType
  <2>5. DataType'
    BY <1>1, <2>4 DEF WritePassword, Sane, DataType
  <2>. QED
    BY <1>1, <2>1, <2>5, GoesOn DEF WritePassword, Sane
<1>2. CASE Burn(c)
  <2>1. reset' \in [Links -> 0 .. MaxAccounts] /\ ResetsIssued'
    BY <1>2, ClearedIs DEF Burn, Burned
  <2>2. DataType' /\ Referred
    BY <1>2, <2>1 DEF Burn, Burned, Sane, DataType, Referred, MadeFor
  <2>. QED
    BY <1>2, <2>1, <2>2, Replies DEF Burn, Burned, Sane
<1>. QED
  BY <1>1, <1>2

\* A link expires, an account is deleted.
LEMMA OutsideStep ==
    ASSUME Sane, (\E l \in Links : ExpireLink(l)) \/ (\E n \in Names : Removed(n)) PROVE Sane'
<1>1. ASSUME NEW l \in Links, ExpireLink(l) PROVE Sane'
  BY <1>1, ClerksStay DEF ExpireLink, Sane, DataType, Referred, ResetsIssued
<1>2. ASSUME NEW n \in Names, Removed(n) PROVE Sane'
  <2>1. NoUser \in [id : 0 .. MaxAccounts, pw : Signups \cup Links \cup {Free}]
    BY SelfServiceConstants DEF SelfServiceConstants, NoUser
  <2>2. DataType' /\ Referred /\ ResetsIssued'
    BY <1>2, <2>1 DEF Removed, Sane, DataType, Referred, ResetsIssued
  <2>. QED
    BY <1>2, <2>2, ClerksStay DEF Removed, Sane
<1>. QED
  BY <1>1, <1>2

\* A statement fails.
LEMMA ClerkFailsStep ==
    ASSUME Sane, NEW c \in Clerks, ClerkFails(c) PROVE Sane'
<1>1. faults' \in 0 .. MaxFaults
  BY SelfServiceConstants DEF ClerkFails, Sane, DataType, SelfServiceConstants
<1>2. DataType' /\ Referred /\ ResetsIssued'
  BY <1>1 DEF ClerkFails, Sane, DataType, Referred, ResetsIssued
<1>. QED
  BY <1>2, Replies, GoesOn DEF ClerkFails, Sane

\* Initially nothing is stored.
LEMMA Start == SelfInit => Sane
<1>. SUFFICES ASSUME SelfInit PROVE Sane
  OBVIOUS
<1>1. 0 \in 0 .. MaxAccounts /\ 0 \in 0 .. MaxFaults
  BY SelfServiceConstants DEF SelfServiceConstants
<1>2. DataType /\ ResetsIssued
  BY <1>1 DEF SelfInit, DataType, NoUser, ResetsIssued
<1>3. ClerksFit
  BY RestingFits DEF SelfInit, ClerksFit
<1>. QED
  BY <1>2, <1>3 DEF Sane

\* Whatever the step is.
LEMMA Steps == ASSUME Sane, [SelfNext]_selfVars PROVE Sane'
<1>1. CASE UNCHANGED selfVars
  BY <1>1, ClerksStay DEF selfVars, Sane, DataType, Referred, ResetsIssued
<1>. QED
  BY <1>1, RequestStep, CheckStep, FileStep, SelectRequestStep, CreateStep, DiscardStep, ForgotStep,
     LookupLinkStep, LookupNameStep, SubmitStep, OutsideStep, ClerkFailsStep DEF SelfNext

\* Sane is the inductive invariant the safety proofs build on.
THEOREM SaneAlways == SelfSpec => []Sane
  BY Start, Steps, PTL DEF SelfSpec

\* Every reachable state has the types of SelfTypeOK.
THEOREM SelfTypes == SelfSpec => []SelfTypeOK
  BY SaneAlways, SaneTypes, PTL

-----------------------------------------------------------------------------
(* What the steps leave alone *)

\* Each table, and the actions that write it.
Effects ==
    /\ \/ UNCHANGED <<user, lastId, maker>>
       \/ \E c \in Clerks : Create(c) \/ WritePassword(c)
       \/ \E n \in Names : Removed(n)
    /\ UNCHANGED issued \/ \E c \in Clerks : StoreLink(c)
    /\ \/ UNCHANGED <<reset, ended>>
       \/ \E c \in Clerks : ClearLinks(c) \/ StoreLink(c) \/ LookupLink(c) \/ Burn(c)
    /\ UNCHANGED <<pending, filed, denied>> \/ \E c \in Clerks : File(c) \/ Discard(c)

\* Every step is confined so.
LEMMA EffectsOf == ASSUME [SelfNext]_selfVars PROVE Effects
<1>0. ASSUME UNCHANGED Rows PROVE Effects
  BY <1>0 DEF Rows, Effects
<1>1. ASSUME NEW c \in Clerks,
             \/ CheckAccounts(c) \/ CheckPending(c) \/ SelectRequest(c) \/ CheckTaken(c)
             \/ LookupName(c)
             \/ \E n \in Names : Apply(c, n) \/ Forgot(c, n)
             \/ \E q \in Signups, op \in {"approve", "deny"} : Open(c, q, op)
             \/ \E l \in Links : Submit(c, l)
      PROVE  Effects
  BY <1>0, <1>1 DEF CheckAccounts, CheckPending, SelectRequest, CheckTaken, LookupName, Apply, Forgot,
                    Open, Submit
<1>2. ASSUME NEW c \in Clerks, Create(c) \/ WritePassword(c) \/ StoreLink(c) PROVE Effects
  BY <1>2 DEF Create, WritePassword, StoreLink, Effects
<1>3. ASSUME NEW c \in Clerks, Burn(c) \/ LookupLink(c) \/ ClearLinks(c) PROVE Effects
  BY <1>3 DEF Burn, Burned, LookupLink, ClearLinks, Effects
<1>4. ASSUME NEW c \in Clerks, File(c) \/ Discard(c) \/ ClerkFails(c) PROVE Effects
  BY <1>4 DEF File, Discard, ClerkFails, Effects
<1>5. ASSUME NEW n \in Names, Removed(n) PROVE Effects
  BY <1>5 DEF Removed, Effects
<1>6. ASSUME NEW l \in Links, ExpireLink(l) PROVE Effects
  BY <1>6 DEF ExpireLink, Effects
<1>7. UNCHANGED selfVars => Effects
  BY DEF selfVars, Effects
<1>. QED
  BY <1>1, <1>2, <1>3, <1>4, <1>5, <1>6, <1>7 DEF SelfNext

-----------------------------------------------------------------------------
(* Passwords *)

\* Ids are given out in order, and passwords are owned.
Owned == (\A n \in Names : user[n].id <= lastId) /\ PasswordOwned

\* An account is created with its request's password, and later given only that of a link
\* made for it.
LEMMA OwnedKept == ASSUME Sane, Owned, [SelfNext]_selfVars PROVE Owned'
<1>0. Effects
  BY EffectsOf
<1>1. /\ user \in [Names -> [id : 0 .. MaxAccounts, pw : Signups \cup Links \cup {Free}]]
      /\ lastId \in 0 .. MaxAccounts /\ maker \in [1 .. MaxAccounts -> Signups \cup {Free}]
  BY DEF Sane, DataType
\* A link that belongs to an account is not made for another.
<1>2. \A l \in Links : issued[l] # 0 => issued'[l] = issued[l]
  <2>1. ASSUME NEW c \in Clerks, StoreLink(c), NEW l \in Links, issued[l] # 0
        PROVE  issued'[l] = issued[l]
    BY <2>1 DEF StoreLink
  <2>. QED
    BY <1>0, <2>1 DEF Effects
<1>3. SUFFICES ASSUME NEW n \in Names
               PROVE  /\ user'[n].id <= lastId'
                      /\ user'[n].id # 0 =>
                             \/ user'[n].pw = maker'[user'[n].id]
                             \/ user'[n].pw \in Links /\ issued'[user'[n].pw] = user'[n].id
  BY DEF Owned, PasswordOwned
<1>4. user[n].id \in Nat /\ user[n].id <= lastId /\ lastId \in Nat /\ user[n].id \in 0 .. MaxAccounts
  BY <1>1 DEF Owned
<1>5. CASE user'[n] = user[n] /\ lastId <= lastId' /\ lastId' \in Nat
           /\ \A i \in 1 .. MaxAccounts : i <= lastId => maker'[i] = maker[i]
  BY <1>2, <1>4, <1>5 DEF Owned, PasswordOwned
<1>6. CASE UNCHANGED <<user, lastId, maker>>
  BY <1>4, <1>5, <1>6
<1>7. ASSUME NEW c \in Clerks, Create(c)
      PROVE  /\ user'[n].id <= lastId'
             /\ user'[n].id # 0 =>
                    \/ user'[n].pw = maker'[user'[n].id]
                    \/ user'[n].pw \in Links /\ issued'[user'[n].pw] = user'[n].id
  <2>1. CASE UNCHANGED <<user, lastId, maker>>
    BY <1>6, <2>1
  <2>2. CASE NewAccount(c)
    <3>. DEFINE i == lastId + 1
                a == [id |-> i, pw |-> clerk[c].row]
    <3>1. /\ lastId' = i /\ user' = [user EXCEPT ![clerk[c].name] = a]
          /\ maker' = [maker EXCEPT ![i] = clerk[c].row] /\ lastId < MaxAccounts
      BY <2>2 DEF NewAccount
    <3>2. i \in 1 .. MaxAccounts /\ i > lastId /\ i \in Nat /\ a.id = i /\ a.pw = clerk[c].row
      BY <1>1, <1>4, <3>1, SelfServiceConstants DEF SelfServiceConstants
    <3>3. maker'[i] = clerk[c].row /\ \A j \in 1 .. MaxAccounts : j <= lastId => maker'[j] = maker[j]
      BY <1>1, <1>4, <3>1, <3>2
    <3>. HIDE DEF i, a
    <3>4. CASE n = clerk[c].name
      <4>1. user'[n] = a
        BY <1>1, <3>1, <3>4
      <4>. QED
        BY <3>1, <3>2, <3>3, <4>1
    <3>5. CASE n # clerk[c].name
      <4>1. user'[n] = user[n]
        BY <1>1, <3>1, <3>5
      <4>. QED
        BY <1>4, <1>5, <3>1, <3>2, <3>3, <4>1
    <3>. QED
      BY <3>4, <3>5
  <2>. QED
    BY <1>7, <2>1, <2>2 DEF Create
<1>8. ASSUME NEW c \in Clerks, WritePassword(c)
      PROVE  /\ user'[n].id <= lastId'
             /\ user'[n].id # 0 =>
                    \/ user'[n].pw = maker'[user'[n].id]
                    \/ user'[n].pw \in Links /\ issued'[user'[n].pw] = user'[n].id
  <2>1. clerk[c].row \in Links /\ clerk[c].id # 0 /\ issued[clerk[c].row] = clerk[c].id
    BY <1>8 DEF Sane, ClerksFit, Fits, WritePassword
  <2>2. UNCHANGED <<lastId, maker>>
    BY <1>8 DEF WritePassword
  <2>3. CASE user[n].id = clerk[c].id
    <3>1. user'[n] = [user[n] EXCEPT !.pw = clerk[c].row]
      BY <1>8, <2>3 DEF WritePassword
    <3>2. user'[n].id = clerk[c].id /\ user'[n].pw = clerk[c].row
      BY <1>1, <2>3, <3>1
    <3>. QED
      BY <1>2, <1>4, <2>1, <2>2, <2>3, <3>2
  <2>4. CASE user[n].id # clerk[c].id
    <3>1. user'[n] = user[n]
      BY <1>8, <2>4 DEF WritePassword
    <3>. QED
      BY <1>4, <1>5, <2>2, <3>1
  <2>. QED
    BY <2>3, <2>4
<1>9. ASSUME NEW m \in Names, Removed(m)
      PROVE  /\ user'[n].id <= lastId'
             /\ user'[n].id # 0 =>
                    \/ user'[n].pw = maker'[user'[n].id]
                    \/ user'[n].pw \in Links /\ issued'[user'[n].pw] = user'[n].id
  <2>1. UNCHANGED <<lastId, maker>> /\ user' = [user EXCEPT ![m] = NoUser]
    BY <1>9 DEF Removed
  <2>2. CASE n = m
    <3>1. user'[n].id = 0
      BY <1>1, <2>1, <2>2 DEF NoUser
    <3>. QED
      BY <1>4, <2>1, <3>1
  <2>3. CASE n # m
    BY <1>1, <1>4, <1>5, <2>1, <2>3
  <2>. QED
    BY <2>2, <2>3
<1>. QED
  BY <1>0, <1>6, <1>7, <1>8, <1>9 DEF Effects

\* Nobody's password is one that was typed for another account: signups of the same name
\* that were pending at once, and links of a deleted account, do not give one away
\* (approve_pending_registration, api_auth_reset_submit).
THEOREM PasswordsOwned == SelfSpec => []PasswordOwned
<1>1. SelfInit => Owned
  <2>. SUFFICES ASSUME SelfInit PROVE Owned
    OBVIOUS
  <2>1. \A n \in Names : user[n].id = 0
    BY DEF SelfInit, NoUser
  <2>2. lastId = 0
    BY DEF SelfInit
  <2>. QED
    BY <2>1, <2>2 DEF Owned, PasswordOwned
<1>2. Sane /\ Owned /\ [SelfNext]_selfVars => Owned'
  BY OwnedKept
<1>3. Owned => PasswordOwned
  BY DEF Owned
<1>. QED
  BY <1>1, <1>2, <1>3, SaneAlways, PTL DEF SelfSpec

-----------------------------------------------------------------------------
(* Denied requests *)

\* A denied request is gone, no approval has read it, and no account came from it.
DeniedInv ==
    /\ denied \subseteq filed
    /\ \A q \in denied : pending[q] = Free /\ ~Approving(q)
    /\ DeniedStaysDenied

\* An approval under way has read its row before, or reads it in this step.
LEMMA ApprovingWas ==
    ASSUME Sane, [SelfNext]_selfVars, NEW q, Approving(q)'
    PROVE  Approving(q) \/ \E c \in Clerks : SelectRequest(c) /\ clerk[c].row = q
                                              /\ pending[q] # Free
<1>1. PICK x \in Clerks : clerk'[x].op = "approve" /\ clerk'[x].row = q
                          /\ clerk'[x].pc \in {"check", "create", "discard"}
  BY DEF Approving
<1>2. clerk \in [Clerks -> ClerkType]
  BY DEF Sane, ClerksFit
<1>3. clerk'[x] = clerk[x] => Approving(q)
  BY <1>1 DEF Approving
<1>4. ASSUME NEW c \in Clerks, NEW k, clerk' = [clerk EXCEPT ![c] = k],
             k.pc \notin {"check", "create", "discard"}
      PROVE  clerk'[x] = clerk[x]
  BY <1>1, <1>2, <1>4
<1>5. ASSUME NEW c \in Clerks, Reply(c) PROVE clerk'[x] = clerk[x]
  BY <1>4, <1>5 DEF Reply, Resting
<1>6. ASSUME NEW c \in Clerks, NEW pc, GoOn(c, pc),
             pc \in {"check", "create", "discard"} => clerk[c].pc \in {"check", "create", "discard"}
      PROVE  Approving(q)
  <2>1. CASE x = c
    <3>1. clerk'[x].op = clerk[x].op /\ clerk'[x].row = clerk[x].row /\ clerk'[x].pc = pc
      BY <1>2, <1>6, <2>1 DEF GoOn, ClerkType
    <3>. QED
      BY <1>1, <1>6, <2>1, <3>1 DEF Approving
  <2>2. CASE x # c
    <3>1. clerk'[x] = clerk[x]
      BY <1>2, <1>6, <2>2 DEF GoOn
    <3>. QED
      BY <1>3, <3>1
  <2>. QED
    BY <2>1, <2>2
<1>7. ASSUME NEW c \in Clerks, NEW k, Take(c, k), k.pc \notin {"check", "create", "discard"}
      PROVE  clerk'[x] = clerk[x]
  BY <1>4, <1>7 DEF Take
<1>8. ASSUME NEW c \in Clerks,
             \/ \E n \in Names : Apply(c, n) \/ Forgot(c, n)
             \/ \E r \in Signups, op \in {"approve", "deny"} : Open(c, r, op)
             \/ \E l \in Links : Submit(c, l)
      PROVE  clerk'[x] = clerk[x]
  BY <1>7, <1>8 DEF Apply, Forgot, Open, Submit, Resting
<1>9. ASSUME NEW c \in Clerks,
             \/ CheckAccounts(c) \/ CheckPending(c) \/ CheckTaken(c) \/ File(c) \/ Discard(c)
             \/ ClerkFails(c)
      PROVE  Approving(q)
  BY <1>3, <1>5, <1>6, <1>9 DEF CheckAccounts, CheckPending, CheckTaken, File, Discard, ClerkFails
<1>10. ASSUME NEW c \in Clerks,
             \/ ClearLinks(c) \/ StoreLink(c) \/ Burn(c) \/ WritePassword(c)
      PROVE  Approving(q)
  BY <1>3, <1>5, <1>6, <1>10 DEF ClearLinks, StoreLink, Burn, Burned, WritePassword
<1>11. ASSUME NEW c \in Clerks, Create(c) PROVE Approving(q)
  BY <1>3, <1>5, <1>6, <1>11 DEF Create, NewAccount
<1>12. ASSUME NEW c \in Clerks, LookupLink(c) PROVE Approving(q)
  <2>1. CASE Reply(c)
    BY <1>3, <1>5, <2>1
  <2>2. ASSUME NEW i, clerk' = [clerk EXCEPT ![c].pc = "name", ![c].id = i] PROVE Approving(q)
    <3>1. CASE x = c
      <4>1. clerk'[x].pc = "name"
        BY <1>2, <2>2, <3>1 DEF ClerkType
      <4>. QED
        BY <1>1, <4>1
    <3>2. CASE x # c
      BY <1>2, <1>3, <2>2, <3>2
    <3>. QED
      BY <3>1, <3>2
  <2>. QED
    BY <1>12, <2>1, <2>2 DEF LookupLink
<1>13. ASSUME NEW c \in Clerks, LookupName(c) PROVE Approving(q)
  <2>1. CASE Reply(c)
    BY <1>3, <1>5, <2>1
  <2>2. ASSUME NEW n, clerk' = [clerk EXCEPT ![c].pc = "write", ![c].name = n] PROVE Approving(q)
    <3>1. CASE x = c
      <4>1. clerk'[x].pc = "write"
        BY <1>2, <2>2, <3>1 DEF ClerkType
      <4>. QED
        BY <1>1, <4>1
    <3>2. CASE x # c
      BY <1>2, <1>3, <2>2, <3>2
    <3>. QED
      BY <3>1, <3>2
  <2>. QED
    BY <1>13, <2>1, <2>2 DEF LookupName
<1>14. ASSUME NEW c \in Clerks, SelectRequest(c)
       PROVE  Approving(q) \/ (clerk[c].row = q /\ pending[q] # Free)
  <2>1. CASE Reply(c)
    BY <1>3, <1>5, <2>1
  <2>2. ASSUME NEW n, NEW pc, clerk' = [clerk EXCEPT ![c].name = n, ![c].pc = pc], x # c
        PROVE  Approving(q)
    BY <1>2, <1>3, <2>2
  <2>3. ASSUME NEW n, NEW pc, clerk' = [clerk EXCEPT ![c].name = n, ![c].pc = pc], x = c
        PROVE  clerk[c].row = q
    BY <1>1, <1>2, <2>3 DEF ClerkType
  <2>. QED
    BY <1>14, <2>1, <2>2, <2>3 DEF SelectRequest
<1>15. ASSUME UNCHANGED clerk PROVE clerk'[x] = clerk[x]
  BY <1>15
<1>16. ASSUME (\E l \in Links : ExpireLink(l)) \/ (\E n \in Names : Removed(n)) \/ UNCHANGED selfVars
       PROVE  UNCHANGED clerk
  BY <1>16 DEF ExpireLink, Removed, selfVars
<1>. QED
  BY <1>3, <1>8, <1>9, <1>10, <1>11, <1>12, <1>13, <1>14, <1>15, <1>16 DEF SelfNext

\* A request is denied only while no approval has read it, and none can read it then.
LEMMA DenialsKept == ASSUME Sane, DeniedInv, [SelfNext]_selfVars PROVE DeniedInv'
<1>0. Effects /\ Sane'
  BY EffectsOf, Steps
<1>1. /\ filed \subseteq Signups /\ pending \in [Signups -> Names \cup {Free}]
      /\ maker \in [1 .. MaxAccounts -> Signups \cup {Free}] /\ denied \subseteq Signups
      /\ Free \notin Signups
  BY SelfServiceConstants DEF Sane, DataType, SelfServiceConstants
\* Denied requests stay denied, and a newly denied one is of this step.
<1>2. /\ filed \subseteq filed'
      /\ \A q \in denied : pending'[q] = Free
      /\ \A q \in denied' \ denied :
             \E c \in Clerks : /\ Discard(c) /\ q = clerk[c].row /\ pending'[q] = Free
                               /\ q \in filed /\ ~Approving(q)
                               /\ \A i \in 1 .. MaxAccounts : maker[i] # q
  <2>1. CASE UNCHANGED <<pending, filed, denied>>
    BY <2>1 DEF DeniedInv
  <2>2. ASSUME NEW c \in Clerks, File(c)
        PROVE  filed \subseteq filed' /\ UNCHANGED denied /\ \A q \in denied : pending'[q] = Free
    <3>. DEFINE r == CHOOSE x \in Signups \ filed : TRUE
    <3>1. r \in Signups \ filed
      BY <1>1, <2>2 DEF File
    <3>2. pending' = [pending EXCEPT ![r] = clerk[c].name] /\ filed' = filed \cup {r}
          /\ denied' = denied
      BY <2>2 DEF File
    <3>. HIDE DEF r
    <3>. QED
      BY <1>1, <3>1, <3>2 DEF DeniedInv
  <2>3. ASSUME NEW c \in Clerks, Discard(c)
        PROVE  /\ UNCHANGED filed
               /\ \A q \in denied : pending'[q] = Free
               /\ \A q \in denied' \ denied :
                    /\ q = clerk[c].row /\ pending'[q] = Free /\ q \in filed /\ ~Approving(q)
                    /\ \A i \in 1 .. MaxAccounts : maker[i] # q
    <3>1. clerk[c].row \in filed
      BY <2>3 DEF Sane, ClerksFit, Fits, Discard
    <3>2. pending' = [pending EXCEPT ![clerk[c].row] = Free] /\ UNCHANGED filed
      BY <2>3 DEF Discard
    <3>3. ASSUME NEW q \in denied' \ denied
          PROVE  q = clerk[c].row /\ ~Approving(q) /\ \A i \in 1 .. MaxAccounts : maker[i] # q
      BY <2>3, <3>3 DEF Discard
    <3>. QED
      BY <1>1, <3>1, <3>2, <3>3 DEF DeniedInv
  <2>. QED
    BY <1>0, <2>1, <2>2, <2>3 DEF Effects
<1>3. denied' \subseteq filed'
  BY <1>2 DEF DeniedInv
<1>4. ASSUME NEW q \in denied' PROVE ~Approving(q)'
  <2>1. ~Approving(q)
    BY <1>2 DEF DeniedInv
  <2>2. SUFFICES ASSUME NEW c \in Clerks, SelectRequest(c), pending[q] # Free PROVE FALSE
    BY <2>1, ApprovingWas
  <2>3. q \in denied' \ denied
    BY <2>2 DEF DeniedInv
  <2>4. denied' = denied
    BY <2>2 DEF SelectRequest, Rows
  <2>. QED
    BY <2>3, <2>4
<1>5. ASSUME NEW i \in 1 .. MaxAccounts PROVE maker'[i] \notin denied'
  <2>1. CASE maker'[i] = maker[i]
    BY <1>2, <2>1 DEF DeniedInv, DeniedStaysDenied
  <2>2. ASSUME NEW c \in Clerks, NewAccount(c), Create(c) PROVE maker'[i] \notin denied'
    <3>1. maker' = [maker EXCEPT ![lastId + 1] = clerk[c].row] /\ denied' = denied
      BY <2>2 DEF NewAccount, Create
    <3>2. Approving(clerk[c].row)
      BY <2>2 DEF Sane, ClerksFit, Fits, Create, Approving
    <3>3. clerk[c].row \notin denied
      BY <3>2 DEF DeniedInv
    <3>4. maker'[i] = maker[i] \/ maker'[i] = clerk[c].row
      BY <1>1, <3>1
    <3>. QED
      BY <2>1, <3>1, <3>3, <3>4
  <2>3. UNCHANGED maker \/ \E c \in Clerks : NewAccount(c) /\ Create(c)
    BY <1>0 DEF Effects, Create, WritePassword, Removed
  <2>. QED
    BY <2>1, <2>2, <2>3
<1>. QED
  BY <1>2, <1>3, <1>4, <1>5 DEF DeniedInv, DeniedStaysDenied

\* A request that was denied before any approval read it never becomes an account, however
\* often its links are opened afterwards (api_auth_approve, api_auth_deny).
THEOREM DenialsStay == SelfSpec => []DeniedStaysDenied
<1>1. SelfInit => DeniedInv
  <2>. SUFFICES ASSUME SelfInit PROVE DeniedInv
    OBVIOUS
  <2>1. denied = {}
    BY DEF SelfInit
  <2>. QED
    BY <2>1 DEF DeniedInv, DeniedStaysDenied
<1>2. Sane /\ DeniedInv /\ [SelfNext]_selfVars => DeniedInv'
  BY DenialsKept
<1>3. DeniedInv => DeniedStaysDenied
  BY DEF DeniedInv
<1>. QED
  BY <1>1, <1>2, <1>3, SaneAlways, PTL DEF SelfSpec

-----------------------------------------------------------------------------
(* Reset links *)

\* Links that were ended are dead, and none of them is still to be made.
EndedInv == ResetEndsAllLinks /\ \A l \in ended : l \in Links /\ issued[l] # 0

\* Every step keeps ended links dead.
LEMMA EndedKept == ASSUME Sane, EndedInv, [SelfNext]_selfVars PROVE EndedInv'
<1>0. Effects
  BY EffectsOf
<1>1. ended \subseteq Links /\ issued \in [Links -> 0 .. MaxAccounts]
      /\ reset \in [Links -> 0 .. MaxAccounts]
  BY DEF Sane, DataType
<1>2. CASE UNCHANGED <<reset, ended>> /\ UNCHANGED issued
  BY <1>2 DEF EndedInv, ResetEndsAllLinks
<1>3. ASSUME NEW c \in Clerks, ClearLinks(c) PROVE EndedInv'
  <2>1. reset' = Cleared(LinksOf(clerk[c].id)) /\ UNCHANGED <<issued, ended>>
    BY <1>3 DEF ClearLinks
  <2>2. \A l \in Links : reset[l] = 0 => reset'[l] = 0
    BY <2>1, ClearedIs
  <2>. QED
    BY <1>1, <2>1, <2>2 DEF EndedInv, ResetEndsAllLinks
<1>4. ASSUME NEW c \in Clerks, StoreLink(c) PROVE EndedInv'
  <2>. DEFINE fresh == {l \in Links : issued[l] = 0}
              l == CHOOSE x \in fresh : TRUE
  <2>1. l \in fresh
    BY <1>4 DEF StoreLink
  <2>2. l \in Links /\ issued[l] = 0
    BY <2>1
  <2>3. reset' = [reset EXCEPT ![l] = clerk[c].id] /\ issued' = [issued EXCEPT ![l] = clerk[c].id]
        /\ UNCHANGED ended
    BY <1>4 DEF StoreLink
  <2>. HIDE DEF l
  <2>. QED
    BY <1>1, <2>2, <2>3 DEF EndedInv, ResetEndsAllLinks
<1>5. ASSUME NEW c \in Clerks, LookupLink(c) PROVE EndedInv'
  <2>1. UNCHANGED <<issued, ended>> /\ (UNCHANGED reset \/ reset' = [reset EXCEPT ![clerk[c].row] = 0])
    BY <1>5 DEF LookupLink
  <2>. QED
    BY <1>1, <2>1 DEF EndedInv, ResetEndsAllLinks
<1>6. ASSUME NEW c \in Clerks, Burn(c) PROVE EndedInv'
  <2>1. reset' = Cleared(LinksOf(clerk[c].id)) /\ ended' = ended \cup MadeFor(clerk[c].id)
        /\ UNCHANGED issued
    BY <1>6 DEF Burn, Burned
  <2>2. \A l \in Links : /\ reset[l] = 0 => reset'[l] = 0
                         /\ l \in LinksOf(clerk[c].id) => reset'[l] = 0
    BY <2>1, ClearedIs
  <2>3. clerk[c].id # 0
    BY <1>6 DEF Sane, ClerksFit, Fits, Burn, Burned
  <2>4. ASSUME NEW l \in MadeFor(clerk[c].id)
        PROVE  l \in Links /\ reset'[l] = 0 /\ issued[l] # 0
    BY <2>2, <2>3 DEF MadeFor, LinksOf, Sane, ResetsIssued
  <2>. QED
    BY <1>1, <2>1, <2>2, <2>4 DEF EndedInv, ResetEndsAllLinks
<1>. QED
  BY <1>0, <1>2, <1>3, <1>4, <1>5, <1>6 DEF Effects

\* Once a reset has burned its links, every link that had been made for the account is
\* dead for good, also the second one that two requests at once had left
\* (api_auth_reset_submit).
THEOREM ResetsEndAllLinks == SelfSpec => []ResetEndsAllLinks
<1>1. SelfInit => EndedInv
  BY DEF SelfInit, EndedInv, ResetEndsAllLinks
<1>2. Sane /\ EndedInv /\ [SelfNext]_selfVars => EndedInv'
  BY EndedKept
<1>3. EndedInv => ResetEndsAllLinks
  BY DEF EndedInv
<1>. QED
  BY <1>1, <1>2, <1>3, SaneAlways, PTL DEF SelfSpec

\* A signup or a reset link gives access to nothing but what it was approved or mailed for.
THEOREM SignupsAndResetsSafe == SelfSpec => []SelfServiceSafe
  BY PasswordsOwned, DenialsStay, ResetsEndAllLinks, PTL DEF SelfServiceSafe

-----------------------------------------------------------------------------
(* Friendship and SelfService side by side *)

\* In the focus "friends" nothing happens that friendship does not allow.
LEMMA FriendsStepIsOne == FriendsNext => Next
<1>. SUFFICES ASSUME FriendsNext PROVE Next
    OBVIOUS
<1>0. Two \subseteq Users /\ Two \in Pairs
    BY PeopleConstants, TwoIsPair DEF Two
<1>1. ASSUME NEW r \in Requests, Handler(r)
      PROVE  Next
    BY <1>1 DEF Next
<1>2. ASSUME NEW r \in Requests, NEW a \in Two, NEW b \in Two,
             Ask(r, a, b) \/ Ignore(r, a, b) \/ Block(r, a, b)
      PROVE  Next
    BY <1>0, <1>2 DEF Next
<1>3. ASSUME NEW a \in Two, NEW b \in Two, Accept(a, b) \/ Remove(a, b) \/ SetIgnore(a, b)
      PROVE  Next
    BY <1>0, <1>3 DEF Next
<1>4. ASSUME NEW k \in {"block", "ignore"}, NEW a \in Two, NEW b \in Two, Unbar(k, a, b)
      PROVE  Next
    BY <1>0, <1>4 DEF Next
<1>5. ASSUME NEW a \in Two, NEW p \in Policies, SetPolicy(a, p)
      PROVE  Next
    BY <1>0, <1>5 DEF Next
<1>6. CASE Expire(Two)
    BY <1>0, <1>6 DEF Next
<1>7. CASE List
    BY <1>7 DEF Next
<1>. QED  BY <1>1, <1>2, <1>3, <1>4, <1>5, <1>6, <1>7 DEF FriendsNext

\* Nor in the focus "sender".
LEMMA SenderStepIsOne == SenderNext => Next
<1>. SUFFICES ASSUME SenderNext PROVE Next
    OBVIOUS
<1>0. Sender \in Users /\ Friend \in Users /\ Choosy \in Users
    BY PeopleConstants
<1>1. ASSUME NEW r \in Requests, Handler(r) \/ Ask(r, Friend, Choosy)
      PROVE  Next
    BY <1>0, <1>1 DEF Next
<1>2. ASSUME NEW r \in Requests, NEW b \in Users, Ask(r, Sender, b)
      PROVE  Next
    BY <1>0, <1>2 DEF Next
<1>3. ASSUME NEW a \in Users, NEW b \in Users, Accept(a, b)
      PROVE  Next
    BY <1>3 DEF Next
<1>4. ASSUME NEW b \in Users \ {Sender}, Expire({Sender, b})
      PROVE  Next
    <2>1. {Sender, b} \in Pairs
        BY <1>0, TwoIsPair
    <2>. QED  BY <1>4, <2>1 DEF Next
<1>5. CASE SetPolicy(Choosy, "mutual")
    BY <1>0, <1>5 DEF Next, Policies
<1>6. CASE List
    BY <1>6 DEF Next
<1>. QED  BY <1>1, <1>2, <1>3, <1>4, <1>5, <1>6 DEF SenderNext

\* One component moves at a time and the other stands still, in every focus, so that what
\* is proved of Spec and SelfSpec holds of each behaviour of MCSpec.
THEOREM PeopleSideBySide == MCSpec => Spec /\ SelfSpec
<1>1. MCInit => Init /\ SelfInit
    BY DEF MCInit
<1>2. [MCNext]_<<vars, selfVars, focus>> => [Next]_vars /\ [SelfNext]_selfVars
    <2>1. MCNext => [Next]_vars
        BY FriendsStepIsOne, SenderStepIsOne DEF MCNext
    <2>2. MCNext => [SelfNext]_selfVars
        BY DEF MCNext
    <2>3. UNCHANGED <<vars, selfVars, focus>> => UNCHANGED vars /\ UNCHANGED selfVars
        OBVIOUS
    <2>. QED  BY <2>1, <2>2, <2>3
<1>. QED  BY <1>1, <1>2, PTL DEF MCSpec, Spec, SelfSpec

\* MCTypeOK, the types of both.
THEOREM PeopleTypes == MCSpec => []MCTypeOK
<1>1. TypeOK /\ SelfTypeOK => MCTypeOK
    BY DEF MCTypeOK
<1>. QED  BY <1>1, PeopleSideBySide, TypeCorrect, SelfTypes, PTL
=============================================================================
