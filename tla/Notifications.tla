---------------------------- MODULE Notifications ----------------------------
(***************************************************************************)
(* Durable notifications of one account (social_api.rs) and the Redis      *)
(* fan-out that carries live frames to the sockets on other instances      *)
(* (fanout.rs).  The row is the source of truth: a live frame may be lost  *)
(* between instances, and the unread rows are sent again on every connect. *)
(*                                                                         *)
(* A socket is registered in the hub before its unread rows are selected,  *)
(* so a frame pushed in between is queued for it.  Accounts do not share   *)
(* state here, so one is enough.                                           *)
(***************************************************************************)
EXTENDS Naturals, Sequences, FiniteSetsExt

CONSTANTS
    Sockets,      \* connections of the account
    Instances,    \* server processes
    At,           \* the instance of each socket
    Posters,      \* calls of store_notification that can be in flight
    PendingLimit, \* LIMIT of deliver_pending_notifications
    MaxNotes      \* bound on notifications, for model checking

ASSUME NotificationsConstants ==
    /\ Instances # {}
    /\ At \in [Sockets -> Instances]
    /\ PendingLimit \in Nat \ {0}
    /\ MaxNotes \in Nat

VARIABLES
    read,     \* social_notifications: for each row, by id, is read_at set?
    post,     \* store_notification: the instance it runs on and the id to push
    sock,     \* stage of each socket in social_socket
    page,     \* the unread ids a socket selected
    shown,    \* the ids sent to each socket since it connected
    bus,      \* fan-out frames on their way to each instance
    missed    \* history: ids this connection of the socket was not promised

noteVars == <<read, post, sock, page, shown, bus, missed>>

NoteIds == 1 .. MaxNotes
NoPost == [pc |-> "idle", at |-> CHOOSE i \in Instances : TRUE, id |-> 0]

NotesTypeOK ==
    /\ read \in Seq(BOOLEAN) /\ Len(read) <= MaxNotes
    /\ post \in [Posters -> [pc : {"idle", "push"}, at : Instances, id : 0 .. Len(read)]]
    /\ sock \in [Sockets -> {"off", "registered", "selected", "serving"}]
    /\ page \in [Sockets -> SUBSET (DOMAIN read)]
    /\ shown \in [Sockets -> SUBSET (DOMAIN read)]
    /\ \A i \in Instances : bus[i] \in Seq(DOMAIN read)
    /\ missed \in [Sockets -> SUBSET NoteIds]

NotesInit ==
    /\ read = <<>>
    /\ post = [p \in Posters |-> NoPost]
    /\ sock = [s \in Sockets |-> "off"]
    /\ page = [s \in Sockets |-> {}]
    /\ shown = [s \in Sockets |-> {}]
    /\ bus = [i \in Instances |-> <<>>]
    /\ missed = [s \in Sockets |-> {}]

-----------------------------------------------------------------------------
(* The hub and the bus *)

\* Faulty variant: the socket is registered once its unread rows have been sent.
InHubAfterBatch(s) == sock[s] = "serving"

\* The socket is in the hub: social_socket registers it before anything else.
InHub(s) == sock[s] # "off"

\* deliver_local: the frame goes to every socket of the account on instance i.
deliver_local(i, n) ==
    shown' = [s \in Sockets |-> IF InHub(s) /\ At[s] = i THEN shown[s] \cup {n} ELSE shown[s]]

\* fanout_publish: the other instances get the frame; the publisher skips its own.
fanout_publish(i, n) ==
    bus' = [j \in Instances |-> IF j = i THEN bus[j] ELSE Append(bus[j], n)]

\* Frame n will not reach the sockets in ss that are connected now.
Miss(ss, n) ==
    missed' = [s \in Sockets |-> IF s \in ss /\ sock[s] # "off" THEN missed[s] \cup {n} ELSE missed[s]]

\* The subscriber of an instance hands the next frame to its sockets.
Relay(i) ==
    /\ bus[i] # <<>>
    /\ deliver_local(i, Head(bus[i]))
    /\ bus' = [bus EXCEPT ![i] = Tail(@)]
    /\ UNCHANGED <<read, post, sock, page, missed>>

\* Pub/sub is at most once: a frame is lost while the subscriber is reconnecting.
LoseRelay(i) ==
    /\ bus[i] # <<>>
    /\ bus' = [bus EXCEPT ![i] = Tail(@)]
    /\ Miss({s \in Sockets : At[s] = i}, Head(bus[i]))
    /\ UNCHANGED <<read, post, sock, page, shown>>

-----------------------------------------------------------------------------
(* store_notification, deliver_pending_notifications, api_social_notifications_read *)

\* The INSERT; when it fails nothing happens at all.
Store(p, i) ==
    /\ post[p] = NoPost
    /\ Len(read) < MaxNotes
    /\ read' = Append(read, FALSE)
    /\ post' = [post EXCEPT ![p] = [pc |-> "push", at |-> i, id |-> Len(read) + 1]]
    /\ UNCHANGED <<sock, page, shown, bus, missed>>

\* social_hub().push: this instance's sockets now, the others over the bus.
PushNote(p) ==
    /\ post[p].pc = "push"
    /\ deliver_local(post[p].at, post[p].id)
    /\ fanout_publish(post[p].at, post[p].id)
    /\ post' = [post EXCEPT ![p] = NoPost]
    /\ UNCHANGED <<read, sock, page, missed>>

\* The handler that stores the notification is aborted before it has pushed it.
AbortPost(p) ==
    /\ post[p].pc = "push"
    /\ Miss(Sockets, post[p].id)
    /\ post' = [post EXCEPT ![p] = NoPost]
    /\ UNCHANGED <<read, sock, page, shown, bus>>

Connect(s) ==
    /\ sock[s] = "off"
    /\ sock' = [sock EXCEPT ![s] = "registered"]
    /\ shown' = [shown EXCEPT ![s] = {}]
    /\ missed' = [missed EXCEPT ![s] = {}]
    /\ UNCHANGED <<read, post, page, bus>>

Unread == {n \in DOMAIN read : ~read[n]}
Newest(ns) == {n \in ns : Cardinality({m \in ns : m >= n}) <= PendingLimit}

\* The newest unread rows are selected; the ones past the limit are not promised.
SelectPending(s) ==
    /\ sock[s] = "registered"
    /\ \/ /\ page' = [page EXCEPT ![s] = Newest(Unread)]
          /\ missed' = [missed EXCEPT ![s] = @ \cup (Unread \ Newest(Unread))]
          /\ sock' = [sock EXCEPT ![s] = "selected"]
       \/ \* the query fails: no batch is sent
          /\ missed' = [missed EXCEPT ![s] = @ \cup Unread]
          /\ sock' = [sock EXCEPT ![s] = "serving"]
          /\ UNCHANGED page
    /\ UNCHANGED <<read, post, shown, bus>>

SendBatch(s) ==
    /\ sock[s] = "selected"
    /\ shown' = [shown EXCEPT ![s] = @ \cup page[s]]
    /\ page' = [page EXCEPT ![s] = {}]
    /\ sock' = [sock EXCEPT ![s] = "serving"]
    /\ UNCHANGED <<read, post, bus, missed>>

Disconnect(s) ==
    /\ sock[s] # "off"
    /\ sock' = [sock EXCEPT ![s] = "off"]
    /\ page' = [page EXCEPT ![s] = {}]
    /\ UNCHANGED <<read, post, shown, bus, missed>>

\* With upToId, the rows up to that id; without (0), all of them.
MarkNotesRead(upTo) ==
    /\ read' = [n \in DOMAIN read |-> read[n] \/ upTo = 0 \/ n <= upTo]
    /\ read' # read
    /\ UNCHANGED <<post, sock, page, shown, bus, missed>>

NotesNext ==
    \/ \E i \in Instances : Relay(i) \/ LoseRelay(i) \/ (\E p \in Posters : Store(p, i))
    \/ \E p \in Posters : PushNote(p) \/ AbortPost(p)
    \/ \E s \in Sockets : Connect(s) \/ SelectPending(s) \/ SendBatch(s) \/ Disconnect(s)
    \/ \E n \in 0 .. MaxNotes : MarkNotesRead(n)

NotesSpec == NotesInit /\ [][NotesNext]_noteVars

-----------------------------------------------------------------------------
\* A served socket has been sent every unread notification, except one still on its
\* way to it, one lost between instances while it was connected, and, at its connect,
\* what lay past the limit.  A lost frame is made good by the next connect.
UnreadShown ==
    \A s \in Sockets, n \in DOMAIN read :
        sock[s] = "serving" /\ ~read[n] =>
            \/ n \in shown[s] \cup missed[s]
            \/ \E k \in DOMAIN bus[At[s]] : bus[At[s]][k] = n
            \/ \E p \in Posters : post[p].id = n

=============================================================================
