------------------------------ MODULE Messages ------------------------------
(***************************************************************************)
(* Direct messages: sending with a client nonce, attachments, edits,       *)
(* deletions, reactions, read receipts, resume after a reconnect and the   *)
(* REST history (social_api.rs).                                           *)
(*                                                                         *)
(* Every frame is handled by the task of the connection it came on, one    *)
(* SQL statement per step and without a transaction.  A connection that is *)
(* gone may still have its handler running (the server has not noticed),   *)
(* and the handler is aborted at one of its awaits once it has.  The two   *)
(* pushes of a handler (peer, then echo) touch different users' devices    *)
(* and no property compares them, so they are one step.                    *)
(*                                                                         *)
(* The server runs as instances, each with the connections that came to    *)
(* it.  A push delivers to the sockets of its own instance and queues the  *)
(* frame for the others, which it reaches through Redis late or not at all *)
(* (fanout.rs).                                                            *)
(*                                                                         *)
(* The client is external: a device shows what it was sent, per message,   *)
(* and resumes from the highest message id it has.                         *)
(***************************************************************************)
EXTENDS Naturals, Sequences, FiniteSetsExt

CONSTANTS
    Users,     \* accounts
    Devices,   \* clients, one connection each at a time
    Owner,     \* the account of each device
    Instances, \* the server's processes
    Requests,  \* handlers that can be in flight at once
    Nonces,    \* client nonces; two accounts may pick the same one
    Texts,     \* message bodies
    Atts,      \* attachments
    None,      \* an unset field
    Page,      \* LIMIT of the backfill and of a history page
    Unread,    \* the nonces whose lookup may fail
    MaxRows,   \* bound on stored messages, for model checking
    MaxOps     \* bound on frames, requests and disconnects, for model checking

Blank == "blank"     \* the body of a deleted message, and how a client shows one
Unseen == "unseen"   \* a message the client was never sent

ASSUME MessagesConstants ==
    /\ Owner \in [Devices -> Users]
    /\ Page \in Nat \ {0}
    /\ Unread \subseteq Nonces
    /\ MaxRows \in Nat /\ MaxOps \in Nat
    /\ None \notin Users \cup Devices \cup Instances \cup Nonces \cup Texts \cup Atts
    /\ Unseen \notin Texts

VARIABLES
    rows,      \* social_messages; a message's id is its place
    reacts,    \* social_message_reactions, of one emoji
    atts,      \* social_attachments: the owner and the message it is linked to
    req,       \* the handlers in flight
    conn,      \* devices: "up" or "down"
    at,        \* the instance each device is, or was last, connected to
    bus,       \* fanout: the frames of each instance on their way to each other one
    view,      \* what each device shows for each message id
    receipt,   \* the highest id each device was told a peer has read
    ops,       \* frames, requests and disconnects so far
    excused,   \* history: ids that resume or a lost relay keep from a device
    orphan,    \* history: messages whose handler was aborted before the push
    raced,     \* history: messages deleted while an edit was past its check
    unwritten  \* history: has a write failed and been ignored?

vars == <<rows, reacts, atts, req, conn, at, bus, view, receipt, ops,
          excused, orphan, raced, unwritten>>
tables == <<rows, reacts, atts>>
clients == <<conn, at, bus, view, receipt>>
history == <<excused, orphan, raced, unwritten>>

Ids == 1 .. MaxRows
Ops == {"chat", "react", "edit", "delete", "read", "resume", "history"}

Message == [from : Users, to : Users, body : Texts \cup {Blank}, nonce : Nonces \cup {None},
            deleted : BOOLEAN, read : BOOLEAN]
\* at: the instance the handler runs in.  live: the connection the frame came on is still
\* there.  page: the ids and bodies a query returned.
Idle == [op |-> "idle", pc |-> "idle", dev |-> None, at |-> None, live |-> FALSE, peer |-> None, id |-> 0,
         text |-> None, nonce |-> None, att |-> None, on |-> FALSE, page |-> <<>>]
Pages == UNION {[S -> Texts \cup {Blank}] : S \in SUBSET Ids}
Slot == [op : Ops \cup {"idle"},
         pc : {"idle", "lookup", "insert", "link", "select", "write", "push"},
         dev : Devices \cup {None}, at : Instances \cup {None}, live : BOOLEAN, peer : Users \cup {None}, id : 0 .. MaxRows,
         text : Texts \cup {None}, nonce : Nonces \cup {None}, att : Atts \cup {None},
         on : BOOLEAN, page : Pages]
\* A frame for the users "to": texts of messages, of which an update is ignored by who never
\* had the message; or the receipt of reader "by" up to an id.
Frame == [to : SUBSET Users, texts : Pages, update : BOOLEAN, by : Users \cup {None}, upTo : 0 .. MaxRows]

\* Types, and reactions only on messages that exist.
TypeOK ==
    /\ rows \in Seq(Message) /\ Len(rows) <= MaxRows
    /\ reacts \subseteq (DOMAIN rows) \X Users
    /\ atts \in [Atts -> [owner : Users \cup {None}, msg : 0 .. Len(rows)]]
    /\ \A r \in Requests : req[r] \in Slot
    /\ conn \in [Devices -> {"up", "down"}]
    /\ at \in [Devices -> Instances]
    /\ bus \in [Instances -> [Instances -> Seq(Frame)]]
    /\ view \in [Devices -> [Ids -> Texts \cup {Blank, Unseen}]]
    /\ receipt \in [Devices -> [Users -> 0 .. MaxRows]]
    /\ excused \in [Devices -> SUBSET Ids]
    /\ orphan \subseteq Ids /\ raced \subseteq Ids
    /\ unwritten \in BOOLEAN

Init ==
    /\ rows = <<>> /\ reacts = {}
    /\ atts = [a \in Atts |-> [owner |-> None, msg |-> 0]]
    /\ req = [r \in Requests |-> Idle]
    /\ conn = [d \in Devices |-> "up"]
    /\ at \in [Devices -> Instances]
    /\ bus = [i \in Instances |-> [j \in Instances |-> <<>>]]
    /\ view = [d \in Devices |-> [i \in Ids |-> Unseen]]
    /\ receipt = [d \in Devices |-> [u \in Users |-> 0]]
    /\ ops = 0
    /\ excused = [d \in Devices |-> {}]
    /\ orphan = {} /\ raced = {} /\ unwritten = FALSE

-----------------------------------------------------------------------------
(* Helpers *)

me(r) == Owner[req[r].dev]
devices_of(u) == {d \in Devices : Owner[d] = u}
involves(m, u) == u \in {m.from, m.to}
Up(d) == conn[d] = "up"
Goto(r, pc) == req' = [req EXCEPT ![r].pc = pc]
Finish(r) == req' = [req EXCEPT ![r] = Idle]
Cursor(d) == Max({0} \cup {i \in Ids : view[d][i] # Unseen})

News(us, texts) == [to |-> us, texts |-> texts, update |-> FALSE, by |-> None, upTo |-> 0]
Update(us, texts) == [News(us, texts) EXCEPT !.update = TRUE]
Receipt(u, by, upTo) == [News({u}, <<>>) EXCEPT !.by = by, !.upTo = upTo]

\* What the devices of the users us that are connected to instance j make of a frame.
deliver_local(j, us, f) ==
    LET gets(d) == Up(d) /\ at[d] = j /\ Owner[d] \in us IN
    /\ view' = [d \in Devices |-> [i \in Ids |->
                  IF gets(d) /\ i \in DOMAIN f.texts /\ ~(f.update /\ view[d][i] = Unseen)
                  THEN f.texts[i] ELSE view[d][i]]]
    /\ receipt' = [d \in Devices |-> [u \in Users |->
                     IF gets(d) /\ u = f.by THEN Max({receipt[d][u], f.upTo}) ELSE receipt[d][u]]]

\* Faulty variant: a frame is delivered here and not published for the other instances.
PushHere(r, f) == deliver_local(req[r].at, f.to, f) /\ UNCHANGED bus

\* social_hub().push: to the sockets here at once, and onto the bus for every other instance.
Push(r, f) ==
    LET here == req[r].at IN
    /\ deliver_local(here, f.to, f)
    /\ bus' = [bus EXCEPT ![here] = [j \in Instances |-> IF j = here THEN @[j] ELSE Append(@[j], f)]]

\* A frame or request arrives on a connection, which handles one at a time.
Ready(r, d) ==
    /\ ops < MaxOps
    /\ req[r] = Idle /\ Up(d)
    /\ \A q \in Requests : ~(req[q].dev = d /\ req[q].live)
Arrive(r, d, s) ==
    /\ Ready(r, d)
    /\ ops' = ops + 1
    /\ req' = [req EXCEPT ![r] = [s EXCEPT !.dev = d, !.at = at[d], !.live = TRUE]]
    /\ UNCHANGED <<tables, clients, history>>

-----------------------------------------------------------------------------
(* handle_ws_chat *)

\* block_pair, dm_policy_of, are_friends and has_ignored let the message pass or drop it
\* without a word.  Their tables are Friendship's and nothing here is read or written
\* meanwhile: a message that is dropped is one that never came.
Chat(r, d, to, text, nonce, att) ==
    /\ to # Owner[d]
    /\ Arrive(r, d, [Idle EXCEPT !.op = "chat", !.pc = IF nonce = None THEN "insert" ELSE "lookup",
                                 !.peer = to, !.text = text, !.nonce = nonce, !.att = att])

\* The lookup returns one of is, or nothing: a query that fails finds none either, so a
\* message can be stored again.
Found(r, is) ==
    /\ req[r].pc = "lookup"
    /\ \/ (is = {} \/ req[r].nonce \in Unread) /\ Goto(r, "insert")
       \/ \E i \in is :
            req' = [req EXCEPT ![r].id = i,
                               ![r].pc = IF req[r].att = None THEN "push" ELSE "link"]
    /\ UNCHANGED <<tables, clients, ops, history>>

\* Faulty variant: the nonce is looked up among all senders' messages.
LookupAnySender(r) == Found(r, {i \in DOMAIN rows : rows[i].nonce = req[r].nonce})

\* Faulty variant: the nonce is looked up among the messages to the sender.
LookupInbound(r) ==
    Found(r, {i \in DOMAIN rows : rows[i].to = me(r) /\ rows[i].nonce = req[r].nonce})

\* A retry finds the row of its nonce (LIMIT 1: any of them) and stores nothing.
Lookup(r) ==
    Found(r, {i \in DOMAIN rows : rows[i].from = me(r) /\ rows[i].nonce = req[r].nonce})

Insert(r) ==
    /\ req[r].pc = "insert"
    /\ Len(rows) < MaxRows
    /\ rows' = Append(rows, [from |-> me(r), to |-> req[r].peer, body |-> req[r].text,
                             nonce |-> req[r].nonce, deleted |-> FALSE, read |-> FALSE])
    /\ req' = [req EXCEPT ![r].id = Len(rows) + 1,
                          ![r].pc = IF req[r].att = None THEN "push" ELSE "link"]
    /\ UNCHANGED <<reacts, atts, clients, ops, history>>

\* The insert fails: nothing is stored and nothing is sent.
InsertFails(r) ==
    /\ req[r].pc = "insert"
    /\ Finish(r)
    /\ UNCHANGED <<tables, clients, ops, history>>

\* link_attachment claims the sender's own unlinked attachment, or links nothing.
link_attachment(r) ==
    LET a == req[r].att IN
    /\ req[r].pc = "link"
    /\ \/ /\ atts[a] = [owner |-> me(r), msg |-> 0]
          /\ atts' = [atts EXCEPT ![a].msg = req[r].id]
       \/ UNCHANGED atts
    /\ Goto(r, "push")
    /\ UNCHANGED <<rows, reacts, clients, ops, history>>

\* The frame carries the text of this request, also when it found an older row.
PushChat(r) ==
    /\ req[r].op = "chat" /\ req[r].pc = "push"
    /\ Push(r, News({req[r].peer, me(r)}, [i \in {req[r].id} |-> req[r].text]))
    /\ Finish(r)
    /\ UNCHANGED <<tables, conn, at, ops, history>>

-----------------------------------------------------------------------------
(* handle_ws_react, handle_ws_edit, handle_ws_delete *)

Modify(r, d, op, i, text, on) ==
    Arrive(r, d, [Idle EXCEPT !.op = op, !.pc = "select", !.id = i, !.text = text, !.on = on])

\* Faulty variant: a reaction is taken for any message id.
AllowedUnchecked(r) ==
    \/ req[r].op = "react"
    \/ /\ req[r].id \in DOMAIN rows
       /\ rows[req[r].id].from = me(r) /\ ~rows[req[r].id].deleted

\* A party may react to a message; its sender may edit or delete it until it is deleted.
Allowed(r) ==
    LET m == rows[req[r].id] IN
    /\ req[r].id \in DOMAIN rows
    /\ IF req[r].op = "react" THEN involves(m, me(r)) ELSE m.from = me(r) /\ ~m.deleted

\* Nothing is answered when it is not allowed, or when the query fails.
Select(r) ==
    /\ req[r].pc = "select" /\ req[r].op \in {"react", "edit", "delete"}
    /\ \/ Allowed(r) /\ Goto(r, "write")
       \/ Finish(r)
    /\ UNCHANGED <<tables, clients, ops, history>>

\* Faulty variant: a deletion sets deleted_at and leaves the body.
WriteKeepBody(r) ==
    LET i == req[r].id IN
    /\ req[r].pc = "write" /\ req[r].op \in {"react", "edit", "delete"}
    /\ \/ /\ req[r].op = "react"
          /\ reacts' = IF req[r].on THEN reacts \cup {<<i, me(r)>>} ELSE reacts \ {<<i, me(r)>>}
          /\ UNCHANGED <<rows, raced>>
       \/ /\ req[r].op = "edit"
          /\ rows' = [rows EXCEPT ![i].body = req[r].text]
          /\ UNCHANGED <<reacts, raced>>
       \/ /\ req[r].op = "delete"
          /\ rows' = [rows EXCEPT ![i].deleted = TRUE]
          /\ UNCHANGED <<reacts, raced>>
    /\ Goto(r, "push")
    /\ UNCHANGED <<atts, clients, ops, excused, orphan, unwritten>>

\* The statement names the message only: a row deleted since the check is edited too.
Write(r) ==
    LET i == req[r].id IN
    /\ req[r].pc = "write" /\ req[r].op \in {"react", "edit", "delete"}
    /\ \/ /\ req[r].op = "react"
          /\ reacts' = IF req[r].on THEN reacts \cup {<<i, me(r)>>} ELSE reacts \ {<<i, me(r)>>}
          /\ UNCHANGED <<rows, raced>>
       \/ /\ req[r].op = "edit"
          /\ rows' = [rows EXCEPT ![i].body = req[r].text]
          /\ UNCHANGED <<reacts, raced>>
       \/ /\ req[r].op = "delete"
          /\ rows' = [rows EXCEPT ![i].body = Blank, ![i].deleted = TRUE]
          /\ raced' = raced \cup {j \in {i} : \E q \in Requests : req[q].op = "edit"
                                                /\ req[q].pc = "write" /\ req[q].id = j}
          /\ UNCHANGED reacts
    /\ Goto(r, "push")
    /\ UNCHANGED <<atts, clients, ops, excused, orphan, unwritten>>

\* A write that fails is ignored and the event is broadcast all the same.
WriteFails(r) ==
    /\ req[r].pc = "write"
    /\ Goto(r, "push")
    /\ unwritten' = TRUE
    /\ UNCHANGED <<tables, clients, ops, excused, orphan, raced>>

PushUpdate(r) ==
    LET m == rows[req[r].id] IN
    /\ req[r].op \in {"react", "edit", "delete"} /\ req[r].pc = "push"
    /\ \/ req[r].op = "react" /\ UNCHANGED <<view, receipt, bus>>
       \/ req[r].op = "edit" /\ Push(r, Update({m.from, m.to}, [i \in {req[r].id} |-> req[r].text]))
       \/ req[r].op = "delete" /\ Push(r, Update({m.from, m.to}, [i \in {req[r].id} |-> Blank]))
    /\ Finish(r)
    /\ UNCHANGED <<tables, conn, at, ops, history>>

-----------------------------------------------------------------------------
(* mark_conversation_read, backfill_messages, api_social_history *)

Pull(r, d, op, peer) ==
    /\ peer # Owner[d]
    /\ Arrive(r, d, [Idle EXCEPT !.op = op, !.pc = "select", !.peer = peer, !.id = Cursor(d)])

Bodies(is) == [i \in is |-> rows[i].body]
\* ORDER BY id ASC LIMIT n, and DESC LIMIT n.
First(is, n) == {i \in is : Cardinality({j \in is : j <= i}) <= n}
Last(is, n) == {i \in is : Cardinality({j \in is : j >= i}) <= n}

Inbound(u, v) == {i \in DOMAIN rows : rows[i].to = u /\ rows[i].from = v}
Between(u, v) == Inbound(u, v) \cup Inbound(v, u)
\* All of a conversation, what is newer than a cursor, or what is older.
HistoryWindows(is, cursor) == {is, {i \in is : i > cursor}, {i \in is : i < cursor}}
Missed(u, after) == {i \in DOMAIN rows : involves(rows[i], u) /\ i > after}

\* What the resume protocol does not promise, once a page has been read for a device: what
\* is at or below the cursor it came with, and what is past a full page.
Unpromised(d, cursor, page) ==
    {i \in excused[d] : i <= cursor \/ (Cardinality(page) = Page /\ i > Max(page))}

\* A query that fails ends the request; a read goes on, with a receipt of nothing.
SelectPull(r) ==
    /\ req[r].pc = "select" /\ req[r].op \in {"read", "resume", "history"}
    /\ \/ /\ req[r].op = "read"
          /\ \E i \in {0, Max({0} \cup Inbound(me(r), req[r].peer))} :
               req' = [req EXCEPT ![r].id = i, ![r].pc = "write"]
          /\ UNCHANGED excused
       \/ req[r].op # "read" /\ Finish(r) /\ UNCHANGED excused
       \/ /\ req[r].op = "history"
          /\ \E is \in HistoryWindows(Between(me(r), req[r].peer), req[r].id) :
               req' = [req EXCEPT ![r].page = Bodies(Last(is, Page)), ![r].pc = "write"]
          /\ UNCHANGED excused
       \/ LET page == First(Missed(me(r), req[r].id), Page)
              d == req[r].dev IN
          /\ req[r].op = "resume"
          /\ req' = [req EXCEPT ![r].page = Bodies(page), ![r].pc = "push"]
          /\ excused' = IF req[r].live THEN [excused EXCEPT ![d] = Unpromised(d, req[r].id, page)]
                        ELSE excused
    /\ UNCHANGED <<tables, clients, ops, orphan, raced, unwritten>>

\* Faulty variant: only the newest message is marked read.
MarkReadNewest(r) ==
    /\ req[r].pc = "write" /\ req[r].op \in {"read", "history"}
    /\ rows' = [i \in DOMAIN rows |-> IF i = req[r].id
                                      THEN [rows[i] EXCEPT !.read = TRUE] ELSE rows[i]]
    /\ Goto(r, "push")
    /\ UNCHANGED <<reacts, atts, clients, ops, history>>

\* Everything inbound is marked read, also what came after the query or off the page.
MarkRead(r) ==
    /\ req[r].pc = "write" /\ req[r].op \in {"read", "history"}
    /\ rows' = [i \in DOMAIN rows |-> IF i \in Inbound(me(r), req[r].peer)
                                      THEN [rows[i] EXCEPT !.read = TRUE] ELSE rows[i]]
    /\ Goto(r, "push")
    /\ UNCHANGED <<reacts, atts, clients, ops, history>>

PushReceipt(r) ==
    /\ req[r].op = "read" /\ req[r].pc = "push"
    /\ Push(r, Receipt(req[r].peer, me(r), req[r].id))
    /\ Finish(r)
    /\ UNCHANGED <<tables, conn, at, ops, history>>

\* The batch goes to every device of the account, not only the one that resumed.
PushBackfill(r) ==
    /\ req[r].op = "resume" /\ req[r].pc = "push"
    /\ Push(r, News({me(r)}, req[r].page))
    /\ Finish(r)
    /\ UNCHANGED <<tables, conn, at, ops, history>>

\* The REST answer goes to the device that asked, if it is still there.
ReplyHistory(r) ==
    LET d == req[r].dev IN
    /\ req[r].op = "history" /\ req[r].pc = "push"
    /\ view' = IF req[r].live
               THEN [view EXCEPT ![d] = [i \in Ids |-> IF i \in DOMAIN req[r].page
                                                       THEN req[r].page[i] ELSE @[i]]]
               ELSE view
    /\ Finish(r)
    /\ UNCHANGED <<tables, conn, at, bus, receipt, ops, history>>

-----------------------------------------------------------------------------
(* The relay between instances, attachments and connections *)

\* The frame that has been on its way from instance i to j the longest arrives, but for the
\* users "lost": its publication failed, or the subscriber was reconnecting.
Relay(i, j, lost) ==
    LET f == Head(bus[i][j]) IN
    /\ bus[i][j] # <<>> /\ lost \subseteq f.to
    /\ bus' = [bus EXCEPT ![i][j] = Tail(@)]
    /\ deliver_local(j, f.to \ lost, f)
    /\ excused' = [d \in Devices |->
                     IF Up(d) /\ at[d] = j /\ Owner[d] \in lost /\ ~f.update
                     THEN excused[d] \cup DOMAIN f.texts ELSE excused[d]]
    /\ UNCHANGED <<tables, req, conn, at, ops, orphan, raced, unwritten>>

\* api_social_attachment_presign registers an attachment of its caller.
Presign(d, a) ==
    /\ ops < MaxOps
    /\ Up(d) /\ atts[a].owner = None
    /\ atts' = [atts EXCEPT ![a].owner = Owner[d]]
    /\ ops' = ops + 1
    /\ UNCHANGED <<rows, reacts, req, clients, history>>

\* api_social_attachment_get: the owner, and the parties of the message it is linked to.
may_download(a) ==
    {atts[a].owner} \cup (IF atts[a].msg = 0 THEN {} ELSE {rows[atts[a].msg].from, rows[atts[a].msg].to})

\* The wire breaks.  What is pushed from now on is lost; the handler may run on.
Drop(d) ==
    /\ ops < MaxOps
    /\ Up(d)
    /\ ops' = ops + 1
    /\ conn' = [conn EXCEPT ![d] = "down"]
    /\ req' = [r \in Requests |-> IF req[r].dev = d THEN [req[r] EXCEPT !.live = FALSE] ELSE req[r]]
    /\ UNCHANGED <<tables, at, bus, view, receipt, history>>

\* social_socket sees the close and aborts recv_task at the await it is in.
Abort(r) ==
    /\ req[r].op # "idle" /\ ~req[r].live
    /\ orphan' = orphan \cup {i \in Ids : req[r].op = "chat" /\ i = req[r].id}
    /\ Finish(r)
    /\ UNCHANGED <<tables, clients, ops, excused, raced, unwritten>>

\* A device reconnects, to any instance.  Of what was stored before it is promised nothing
\* until a page of it has been read for it.
Reconnect(d, j) ==
    /\ conn[d] = "down"
    /\ conn' = [conn EXCEPT ![d] = "up"]
    /\ at' = [at EXCEPT ![d] = j]
    /\ excused' = [excused EXCEPT ![d] = @ \cup DOMAIN rows]
    /\ UNCHANGED <<tables, req, bus, view, receipt, ops, orphan, raced, unwritten>>

Next ==
    \/ \E r \in Requests, d \in Devices : Ready(r, d) /\
         \/ \E to \in Users, t \in Texts, n \in Nonces \cup {None}, a \in Atts \cup {None} :
              Chat(r, d, to, t, n, a)
         \/ \E i \in Ids : \/ \E t \in Texts : Modify(r, d, "edit", i, t, FALSE)
                           \/ Modify(r, d, "delete", i, None, FALSE)
                           \/ \E on \in BOOLEAN : Modify(r, d, "react", i, None, on)
         \/ \E op \in {"read", "resume", "history"}, u \in Users : Pull(r, d, op, u)
    \/ \E r \in Requests :
         \/ Lookup(r) \/ Insert(r) \/ InsertFails(r) \/ link_attachment(r) \/ PushChat(r)
         \/ Select(r) \/ Write(r) \/ WriteFails(r) \/ PushUpdate(r)
         \/ SelectPull(r) \/ MarkRead(r) \/ PushReceipt(r) \/ PushBackfill(r) \/ ReplyHistory(r)
         \/ Abort(r)
    \/ \E d \in Devices, a \in Atts : Presign(d, a)
    \/ \E d \in Devices : Drop(d) \/ \E j \in Instances : Reconnect(d, j)
    \/ \E i, j \in Instances : \E lost \in SUBSET Users : Relay(i, j, lost)

Spec == Init /\ [][Next]_vars

-----------------------------------------------------------------------------
(* Properties *)

\* Messages on their way: stored, and their handler has not pushed them yet; on the bus to
\* the instance of a device; or in the page of a resume of the device under way.
Carried == {req[r].id : r \in {q \in Requests : req[q].op = "chat"}}
Queued(d) ==
    {n \in Ids : \E i \in Instances : \E f \in Range(bus[i][at[d]]) :
                    n \in DOMAIN f.texts /\ Owner[d] \in f.to /\ ~f.update}
Resumed(d) ==
    {n \in Ids : \E r \in Requests : /\ req[r].op = "resume" /\ req[r].dev = d /\ req[r].live
                                     /\ n \in DOMAIN req[r].page}

\* A device that is connected has every message of its account, except one still on its way,
\* one whose handler was aborted between the INSERT and the push, one whose frame was lost
\* between two instances and, after a reconnect, one stored before it that lies at or below
\* the cursor it resumed from, past a full page, or has not been asked for.
NoSilentGap ==
    \A d \in Devices, i \in DOMAIN rows :
        Up(d) /\ involves(rows[i], Owner[d]) /\ view[d][i] = Unseen
            => i \in excused[d] \cup orphan \cup Carried \cup Queued(d) \cup Resumed(d)

\* A deleted message has lost its text, except where an edit that had passed its
\* check wrote after the deletion.
DeletedTextGone ==
    \A i \in DOMAIN rows : rows[i].deleted /\ rows[i].body # Blank => i \in raced

\* A read receipt up to an id is true of every message up to it: the UPDATE after the
\* MAX(id) covers them all, whatever arrives in between (unless a write failed).
ReceiptTruthful ==
    \A d \in Devices, i \in DOMAIN rows :
        rows[i].from = Owner[d] /\ i <= receipt[d][rows[i].to] => rows[i].read \/ unwritten

\* An attachment can be downloaded by its owner and the recipient of the message it
\* was linked to, and that message is the owner's.
AttachmentPrivate ==
    \A a \in Atts : atts[a].msg # 0 =>
        may_download(a) = {atts[a].owner, rows[atts[a].msg].to}

\* "Skip the insert" of a retry is a SELECT and then an INSERT, so handlers that looked
\* together each store the message.  No more do: however often and on whatever socket
\* it is sent again, a sender's message with a nonce has at most one row for each
\* handler that can be in flight (while its lookups can be read).
Copies(u, n) == {i \in DOMAIN rows : rows[i].from = u /\ rows[i].nonce = n}
RetriesBounded ==
    \A u \in Users, n \in Nonces \ Unread :
        Cardinality(Copies(u, n)) <= Cardinality(Requests)

=============================================================================
