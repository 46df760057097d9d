# ArcadeLauncher Server: TLA+ models, checks and proofs

ArcadeLauncher Server is the Rust backend (axum, MariaDB, optionally Redis) of a
game launcher: a catalog of games and their files, accounts, a social network
with chat, calls and presence over one WebSocket per device, a web store and a
board of game requests. This directory models the parts of it whose correctness
depends on the order in which concurrent things happen.

Paths below are relative to the repository (`src/auth.rs` and so on);
`PROJECT.json` gives the lines of every definition.

## 1. The system and its hazards

One process runs many tasks on a multi-threaded runtime. They share

* **the database**, which API replicas share too: each SQL statement is atomic,
  handlers are sequences of statements without transactions, and many of them
  ignore the failure of a statement that is not the last;
* **in-memory maps behind mutexes** of one process: `AppState` (challenge
  nonces, login throttle, scan status), `APPROVALS`, the social hub (sockets,
  rings, voice pairs);
* **Redis**, when configured: a channel per user, an online key with a TTL and a
  registry of devices per user.

A handler may be suspended at every `await` and may interleave with others at
every lock. It is dropped at an `await` when its client goes away or its task is
aborted.

| Component | State | Operations | What makes it correct |
|---|---|---|---|
| QR sign-in (`qr_auth.rs`) | table `qr_signin_challenges` | start, inspect, decide, poll | one answer and at most one login per code, only for the account that approved it |
| Calls (`calls.rs`, hub in `social_api.rs`) | sockets, rings, voice pairs | connect and replay, `voice_signal` invite/accept/end, teardown, sweeper, block | one outcome per call, no call lost, every call ends, every connected device of the callee rings |
| Login (`auth.rs`, `guard.rs`, `models.rs`) | nonces, approvals, throttle | challenge, verify, password login, gate, decide | nonces and approvals are single-use, a lockout lets through only what was in flight |
| Friendships, blocks (`social_api.rs`, `blocks.rs`) | `social_friendships`, `social_blocks`, `social_ignores` | request, respond, block, ignore, expiry sweep | no friendship without both, nothing starts behind a barrier and passes it, the cap is exceeded only by what was in flight |
| Messages (`social_api.rs`, `fanout.rs`) | `social_messages`, reactions, attachments, Redis channel | send, relay, edit, delete, react, read, resume, history, presign, download | a connected device misses nothing it was promised, deleted text is gone, receipts are true, attachments stay with their parties |
| Notifications (`social_api.rs`, `fanout.rs`) | `social_notifications`, Redis channels | store, push, relay, unread batch, mark read | a served socket has been sent what is unread |
| Presence (`social_api.rs`, `fanout.rs`) | `social_presence`, online key | connect, frame, ping, teardown, crash | an account that has left reads as offline everywhere |
| Devices (`devices.rs`, `fanout.rs`) | sockets of the hub, Redis registry | sign in and off, publish, restamp, merge | every instance comes to list the machines that are signed in |
| Push (`push_api.rs`, `push.rs`) | `push_tokens` | register, unregister, send | a phone that changed hands keeps its new owner's registration |
| Accounts (`db.rs`, `users_api.rs`, `store_auth.rs`, `handlers.rs`, `requests_app.rs`) | `admin_users`, `launcher_tokens`, three session tables | create, update, delete, login, logout, rotate | an admin remains, a logout ends every token |
| Self-service (`registration.rs`, `password_reset.rs`) | `pending_registrations`, `password_resets` | signup, approve, deny, forgot, submit | no account or password by a link that was not for it |
| Catalog and manifests (`scan_jobs.rs`, `scan.rs`, `manifest.rs`) | scan status, `games`, `game_manifests` | watch, rescan, sync, hash, fetch | every change is scanned in the end, hashes belong to their version |
| Saves (`handlers.rs`, `db.rs`) | `game_saves`, `game_save_versions` | put, restore, archive, prune | no bytes vanish that were once the save |
| Requests board (`requests_app.rs`, `admin_extra.rs`) | requests, votes, ratings | ask, vote, rate, delete | the count shown is backed by voters |
| Store, XP, groups, IGDB, alerts, pages | tables and output | single statements, HTML, outbound HTTP | see section 8 |

`PROJECT.json` lists every component with its status and, under `hazards`, each
place where an order of steps that no test runs could break it.

*Interactions.* Login, QR sign-in and the panel end in the tokens and sessions of
Accounts. A block (Friendship) also decides calls (Calls). A message, a friend
request or a missed call ends in a notification. An invite to an absent callee
ends in a push. The life cycle of a socket (register, replay, handshake, serve,
unregister, teardown) is what Calls, Messages, Notifications, Presence and
Devices have in common; each of them models the part of it that touches its
own state, because none of these states is read by another's handlers.

## 2. Modules

| Module | Role |
|---|---|
| `OneShotLogin` | what a QR sign-in promises, with no table, clock or requests |
| `QrSignin`, `QrSignin_proofs` | the challenge table and the requests on all replicas, which implement `OneShotLogin`; its invariant, theorems and refinement |
| `CallOutcomes` | what becomes of a call: its number, its ringing, its one outcome |
| `Calls`, `Calls_proofs` | the hub's rings, voice pairs and sockets, and the tasks that share them, which implement `CallOutcomes`; invariants, theorems and refinement |
| `PhoneApproval` | what the approval of a sign-in promises: asked of one account, one answer, one login, and forgotten or used up for good |
| `Login`, `Login_proofs` | nonces, throttle and approvals, and the login requests in flight, which implement `PhoneApproval`; invariant, theorems and refinement |
| `Friendship`, `Friendship_proofs` | the row of each pair, blocks, ignores, policies, and the handlers that read and write them; invariant and theorems |
| `Messages`, `Messages_proofs` | the conversation table, reactions, attachments, the handlers and what devices show; invariants and theorems |
| `Notifications` | the durable rows and the bus between instances |
| `Presence`, `Presence_proofs` | the sockets of an account on several instances, the shared row and key; invariant and theorems, with the types of `Devices` |
| `Devices` | the device registry that instances publish to |
| `Push` | push tokens and sends |
| `Accounts` | accounts, tokens, sessions and the guard of the last admin |
| `SelfService`, `SelfService_proofs` | signups and password resets; invariants and theorems, and `MCPeople` as a whole |
| `Catalog` | watcher, scan, catalog rows and manifests |
| `Saves` | one save file, its versions and uploads |
| `Board` | requests, votes and ratings |
| `Services_proofs` | invariants and theorems of `Push`, `Saves`, `Accounts`, `Board`, `Catalog` and `Notifications`, each for its own specification, and `MCServices` as a whole |
| `MCQrSignin`, `MCLogin`, `MCMessages` | one component for TLC |
| `MCCalls`, `MCCallsScopes` | calls, one instance or three |
| `MCPeople` | Friendship and SelfService, and Friendship of one sender |
| `MCPresence` | Presence and Devices |
| `MCServices` | Notifications, Push, Accounts, Catalog, Saves, Board |

### How code becomes steps

A request or task is a record with a `pc`, the next statement or lock it
reaches, and the handler's local variables. An action is what happens between
two points where others can come in: one SQL statement, or one critical section
of a mutex, with the local computation around it. Early returns end the
request; a statement that fails ends it too, or is passed over where the code
ignores the error, and leaves what was written before. Names follow the code
(`ring_start` is `RingStart`, `effective_state` is `Effective`).

Variables commented "history" are not in the code. They record what a property
needs to know of the past, and often the precise gap in which the code does not
keep a promise: the property then says that it is kept everywhere else.

**QrSignin.** `rows`, `state`, `owner`, `expires`, `ip` are the table's columns;
`req` the requests. `StartCleanup`, `StartCount`, `StartInsert` are the three
statements of `qr_signin_start` (the cap is checked against a count that may be
stale), `Decide` the single UPDATE of `qr_signin_decide`, `PollRead`,
`PollSwap`, `PollIssue` the statements of `qr_signin_poll`. `RequestFails` is a
failing statement or a dying replica at any point, `SetEnabled` an admin's
toggle. `qr_signin_inspect` only reads. The two secrets are represented by the
requests having the right one. `answers` and `logins` record what phones and
screens were told.

**Calls.** `sock` is the task of `social_socket` for each device (register,
`notify`, `replay`, `up`, teardown), `hand` the handler of its current
`voice_signal` frame, `rings` the `Rings` table with the age of each ring,
`voice` the relayed pairs, `blk` the block handler of each account. A ring that
a task takes out of the table is `owed` by it until `RecordMissed` writes the
missed-call line. Calls are numbered when they start so that `outcome` can say
what became of each. Friendship is not modelled here: a frame that `are_friends`
turns away has no effect, so `Signal` stands for the frames that pass; the
block check is, because the block handler interleaves with it. An aborted
handler (`AbortPush`, `AbortRecord`) is dropped at its awaits only, as
`recv_task.abort()` does. One instance is modelled and it does not restart
(the hub is empty after a restart, and so is every count of the model).

**Login.** `nonce`, `throttle`, `approval` are the three in-memory maps; `req`
the requests of `api_auth_verify` (`pop`, `read`, `gate`, `raise`) and of the
password logins that share the throttle (`password`). What the client sends is
chosen where it is looked at. Whether the account has 2FA on and whether a phone
is connected belong to other components and are free choices at the step that
reads them. `Restart` empties the maps.

**Friendship.** `row` is `social_friendships` by unordered pair, `bars` the rows
of `social_blocks` and `social_ignores`, `policy` the friend policy. `req` holds
the handlers with several statements: a request (`block`, `ignored`, `ignoring`,
`sweep`, `policy`, `select`, then `accept`, or `mine`, `theirs`, `count`,
`insert`), an ignore (`mute`) and a block (`bar`); the rest are one statement and
one action. With `DbFails` a query whose error the code swallows may fail, and
reads as the code's default (`CountFails` for the one that counts against the cap). `Expire` stands for time passing `expires_at`.
`since`, `old` and `seen` record, for the properties, what stood when the request
came in and what it read; `consent` who agreed to the row.

**Messages.** `rows`, `reacts` and `atts` are the three tables (a message's id is
its place in `rows`). `req` holds the handlers of `handle_ws_chat` (`lookup` of
the nonce, `insert`, `link`, `push`), react, edit and delete (`select`, `write`,
`push`), mark read, resume and the REST history. A frame belongs to the
connection it came on, which handles one at a time. `Drop` cuts a wire, `Abort`
is `recv_task.abort()` at any await after it, `Reconnect` the device coming back, to
any instance (`at`). A push (`Push`) reaches the sockets of the handler's own instance
at once and is queued for each other one (`bus`, in order for each pair of instances);
`Relay` delivers the oldest frame there, or loses it for any of its users, as the
publisher and the subscriber do while one of them is not connected to Redis. With one
instance `bus` stays empty, which is the server without Redis.
`conn`, `view` and `receipt` are the external clients: what a device shows for
each id, and up to where it was told a peer has read. `excused` are the ids that a
device is not promised: those of frames lost on the way to its instance, and, of what
was stored before it reconnected, what a resume page read for it since does not carry
because it lies at or below the cursor the device came with, or past a full page (and
all of it until such a page is read). `orphan` are the messages whose handler was
aborted between the INSERT and the push, `raced` the ones deleted while an edit
was past its check, `unwritten` whether an ignored write failed. That a retried
message is stored once is *not* a property: the lookup of the nonce has no unique
key behind it, and the model reaches two rows of one nonce. What holds is a bound:
one row for each handler that can be in flight at once (`RetriesBounded`). It
needs lookups whose answer is read: for the nonces in `Unread` the SELECT may fail,
which the code takes for "not stored yet", and then every retry may store a row.

**Notifications.** `read` holds `read_at` of each row, `post` the calls of
`store_notification` between their INSERT and their push, `sock`/`page` the
sockets between `register`, the SELECT of the unread rows and their delivery,
`bus` the frames on their way to each instance (`LoseRelay`: pub/sub delivers at
most once), `shown` what a socket was sent. `missed` is what this connection was
not promised.

**Presence.** `soc` is `social_socket` with the writes and reads of its handshake,
of presence frames and of its teardown, `row` the shared `social_presence` row and
whether it has gone stale, `key` the online key, `tasks` the spawned SETEX and DEL
which run in any order, `friends` what friends were last told. `Crash` kills an
instance with its sockets and tasks.

**Devices.** `held` are the sockets of each instance's hub, `entry` and `fresh` its
entry in the registry and whether it still counts, `writes` the spawned HSET and
HDEL, which overtake each other or fail. `merge_device_registry` is the list the
picker shows; two sockets of one machine share a device id.

**Push.** `owner` is the table (the token is its primary key), `claim` the
registrations between their DELETE and their upsert, `send` a send with the
tokens it read at its start, `alive` what FCM knows. `gone` has the pairs that
were given up, claimed away or found dead since they last registered.

**Saves.** `current` and `archive` are the save and its versions, `up` the
handlers (`guard`, `select`, `archive`, `prune`, `write`). A restore puts the
bytes of a version through the same statements. `UploadFails` ends a handler
anywhere. An mtime may be 0, which is what an upload that names none has.

**Accounts.** `acct`, `toks`, `sess` are the tables (the three kinds of session in
one), `job` the handlers: deletion (`look`, `count`, `tokens`, `sessions`,
`account`), the panel's update (which counts the admins), `PUT /api/users/:id`
(which does not), logins that hand out an enabled token, reuse a disabled row or
insert one, and sessions. `Logout` is acknowledged whether or not its UPDATE was made;
both are branches of it. `since` are the token values minted since an account's last
acknowledged logout, `unended` the accounts for which that logout wrote nothing.
`counted` says of a removal under way that its guard found another admin and that no
removal has come since, `loose` that the last removal of an admin was written without
such a count.

**SelfService.** `user` (account id and where its password came from), `pending`
and `reset` are the tables; `clerk` the handlers, from a mail link or from the
panel. `MaxFaults` statements may fail, a DELETE whose error is ignored among
them.

**Catalog.** `disk` is the library (external), `wake` and `watcher` the channel and
the task of the file watcher, `scan` the one rescan (`walk`, `upsert`, `prune`,
`hash`, `drop`, `enrich`), `cat` and `man` the rows and the stored manifests (label and
hashes are two tables), `fetch` the manifest requests and the last answer each got. A
request reads the manifest's row (`LoadRow`) and then its segments (`LoadSegments`),
outside a transaction, or hashes the files and files what it hashed; the scan deletes
the manifest of a game that is gone by two statements, too (`DropRow`, `DropSegments`).
`DiskChange` may go unreported: the watcher ignores the errors it is handed.
`WalkError` is what cannot be read: a console's root or an entry of it that is taken
for missing in silence, an entry of games/PC that is logged and skipped, or an error
that ends the scan; `WalkStops` is the directory of games/PC that cannot be read on.
`Restart` forgets all but the tables. `excused` are the games a gap covers that has
opened since the last scan started: a change behind that scan whose wake-up was
dropped, a change never reported, what the scan could not read, its failure, a restart.
The start of a scan empties it. `cut` and `lost` are the games a walk did not get to,
and those of them that were pruned.

**Board.** `ask` has each request with its counter, `votes` and `stars` the vote and
rating rows, `desk` the handlers. A request is inserted with one vote and its
requester's row follows; a vote is a row and then `votes = votes + 1`; a deletion
is three statements, of which only the last may report an error. `twice` and
`cleared` are the two cases in which the counter runs ahead.

Definitions whose comment begins "Faulty variant" are the project's mutants:
each changes one definition the way a plausible bug would, and TLC is expected to
find a named property violated when it is put in its place.

## 3. Runs

| Run | Question | Bounds | States |
|---|---|---|---|
| `qr_signin` | Can polls, answers, starts and cleanups of one table be interleaved so that a code signs in twice, or for somebody who did not approve? Does the table implement the promise? | 3 challenges, 2 accounts, 1 address, 2 requests in flight, TTL 1, cap 1, clock to 3 | 0.9 M |
| `calls` | Is every call decided once, none dropped, and does every connected device learn of a call? Does the hub implement `CallOutcomes`? | three scopes, below; timeout 1 | 1.2 M |
| `calls_resolve` | Does every call end, under push and database faults, and blocks? | 2 devices, 1 call, bob may block, fairness | 341 k |
| `login` | Are nonces and approvals single-use, also across restarts, and what does the lockout let through? Does the gate implement `PhoneApproval`? | 2 accounts, 3 nonces, 1 approval, 2 requests, TTLs, limit and lockout 1, clock to 1 | 1.1 M |
| `people` | Can handlers that hold no transaction make friends of two who did not both agree, pass a barrier they started behind, or trip over an expired invite? By how much can a sender exceed the cap on pending requests, which is a count and then an insert? Can a signup or reset link give access to what it was not for? | three focuses, below: 2 or 4 accounts, 2 handlers, 2 barriers, cap 1, queries that fail; 1 name, 3 signups and links, 2 handlers, 2 account ids, 1 fault | 0.8 M |
| `messages` | What is delivered, deleted, read and attached when two handlers, the wires and the relay between instances interleave? How many rows can a message get that is sent again? | three scopes, below: 3 devices of 2 accounts, 2 instances, 2 handlers, 2 or 3 messages, 4 frames, requests or disconnects, 1 attachment, 2 nonces, pages of 1 | 1.2 M |
| `presence` | Does an account that left read as offline everywhere, and do the device pickers agree in the end? | presence: 2 connections, 2 instances, 2 connects, 1 frame. devices: 3 sockets of 2 devices, 2 instances, 3 sign-ins, 1 failing write; fairness | 0.4 M |
| `services` | The safety of six small components | notes: 2 sockets on 2 instances, 2 posters, 2 notes, limit 1. push: 2 accounts, 2 tokens, 1 send. accounts: 2 admins, 2 handlers, 3 requests, 2 tokens. catalog: two scopes, below: a console and a PC game with 1 manifest request, or one game with 2; 2 changes. saves: 2 uploads at once, 4 in all, keep 1, 2 mtimes. board: 2 voters, 1 game, 2 rows, 2 handlers, 4 requests | 2.0 M |
| `calls_wakeup`, `calls_glare`, `login_phone`, `catalog_hiccup` | disagreements between the code and what its comments say (section 5) | as small as the counterexample needs | |

*Focus.* The components of `MCPeople`, `MCPresence` and `MCServices` share no
variable, and each property is about the variables of one of them. A behaviour of
their product that violates a property violates it as well with the others
standing still, so `focus` picks, once and for all, the component that moves: the
run checks the sum of the state spaces in place of their product. In `people`
Friendship moves in two of them: in "friends" two accounts do all they can to each
other, in "sender" one account asks three others, of whom one asks another (for the
friend in common that the policy "mutual" wants), and invites end by an answer or by
expiry. "self" is SelfService with three signups and links together, two of one kind.

*Scopes.* `MCCallsScopes` puts three instances of `Calls` into one run, each
cut out of the same next-state relation: `twice` (a device each, two calls, no
blocks), `block` (bob may block; his tablet stays connected and no ring times out)
and `devices` (the callee has two devices, one call). What a scope leaves out
another one has; every scope restricts steps and adds none.
`MCMessages` has three. In `once` two messages without nonces are sent and all is done
to them that can be, but resumes; in `again` messages with nonces, one of which is
`Unread`, are sent on any socket up to three times, with attachments and drops; in both
the bus delivers at once and no device moves. In `apart` two messages are sent, read
and caught up with, frames wait on the bus or are lost, and devices come back to either
instance. `MCServices` moves the catalog in two: in "catalog" both games change and one
manifest request is made at a time, in "manifests" one game changes and two requests
overlap, which takes in the one that overtakes the other between its two reads.

*Why the bounds are enough.* The races are between two requests (or tasks) and
a third party (a phone, a sweeper, a blocker, the clock, a crash), which the
instances have; a second challenge, call, nonce, link, token or row is there so
that stale local variables can point at something other than the live one. A TTL
of 1 makes every deadline reachable, and the clock of `qr_signin` goes far enough
for the cleanup. In `login` three nonces are one to raise an approval and two to
race for it; the eviction of old approvals needs more time than its clock has and
is left to the proofs. In `people` both handlers are on the one pair in "friends", where they
conflict, and two signups ask for one name; "sender" has three accounts to ask, so
that two requests that count together can exceed a cap of one (with the bound lower
by one TLC finds it violated), and its COUNT does not fail, which the theorems allow.
`messages` has a page of one, so that two messages fill more than a page, and a second
device for the echo and for resumes that run beside live delivery; its four operations
allow send, drop, reconnect and resume of one device around a send of the other
account, and its second instance a device that comes back where the frame is not, or
where it still arrives. Its third row is one more than two handlers may store of one message. `saves` keeps one version
and makes four uploads, so that pruning and its limit are reached; `board` has two
rows so that a deleted game can be asked for again. What is proved (section 6)
holds for all bounds.

*Deadlock.* All runs set `CHECK_DEADLOCK FALSE`: a server with no clients stops,
and the bounds on the clock, on requests and on drawn ids end the behaviours.

*Symmetry* is used in runs that check safety only, over sets the specifications
and properties never distinguish; `qr_signin` has no liveness property either.

## 4. Fairness

Two runs need it. In both, nothing is assumed of clients beyond what is said here:
nobody need connect, answer, hang up or leave.

* `calls_resolve` (`FairSpec`): a task that has been started and is not waiting
  for a client goes on (the runtime polls ready tasks, database statements and
  the HTTP call of a push end or fail), the sweeper's interval fires, time passes.
  The block handler, which decides calls too, is not needed for the result and
  gets no fairness. `calls_glare` states its action property under the same
  specification.
* `presence` (`PresenceFairness`, `DevicesFairness`): the handler of each
  connection and the spawned tasks run on, the key's TTL and the row's age limit
  run out. For the registry, a spawned write is made (or fails, boundedly often), an
  instance that holds sockets republishes on their pings, and the entry of one
  that holds none grows old.

All of it is weak fairness. `PickerSettles` needs no fairness of sign-ins:
it claims agreement only of behaviours in which they end.

## 5. What the violated runs show

* `calls_wakeup` / `InviteReachesSockets`: an invite to an offline callee awaits
  `push_call` and only then starts the ring. The phone that the push wakes may
  connect and take its replay before that; the handler returns without relaying
  the invite, so the phone is online, the call rings, and nobody tells the phone.
* `calls_glare` / `BlockEndsRinging`: when both sides have invited each other, a
  block removes one of the two rings.
* `login_phone` / `PhoneCannotLockOut`: `guard.rs` promises that an absent phone
  never locks the owner out, yet a sign-in without a code and without a phone
  counts as a failed login.
* `catalog_hiccup` / `HiccupSparesOthers`: `scan.rs` says that an unreadable
  folder must not make every game after it look orphaned. An error of `next_entry`
  or `read_dir` in games/PC ends the walk there (`break`), and the sync deletes the
  games that would have come after.

Other things the models reach, which have no run:

* the block and friendship checks of an invite or accept come before the steps that
  use them: a block in between closes the voice pair first and the handler opens it
  again (`Calls`);
* the ring sweeper works through the calls it took with an `await` for each, and its
  late `disallow_voice` may close the pair that a newer call of the two has opened
  (`Calls`, `closed`);
* a friend request that passed its block check before the block was stored inserts
  its row after the block deleted the old one, and answering it looks at no block
  (`Friendship`);
* a message retried on two sockets is stored twice (`Messages`; never more often than
  handlers were in flight, `RetriesBounded`);
* the last admin is removed by one of two removals that both counted, by one
  `PUT /api/users/:id`, which counts nothing, or by a removal of an account that was made
  an admin after it was looked at (`Accounts`, `loose`);
* a logout whose connection or UPDATE fails is answered `ok: true`, and every token of
  the account goes on working (`Accounts`, `unended`);
* a message that a lost relay keeps from a device of another instance is made up for
  only by a resume from a cursor below it: a newer message that does arrive moves the
  cursor past the gap (`Messages`, `excused`);
* between the two SELECTs of `load_stored_manifest` a late store of an older version
  can commit: the request is answered with the newer version and the older one's hashes;
  and a clean-up in between makes the answer one of segments whose row is deleted
  (`Catalog`, the second half of `ManifestHonest`);
* a console root that cannot be read, or an entry of one, is taken for missing without
  an error: the scan succeeds and prunes its games, and they stay away until another
  scan is started (`Catalog`, `WalkError`);
* the watcher drops the errors it is handed, a lost event among them: the change waits
  for the next event or rescan (`Catalog`, `DiskChange`);
* `delete_user_account` is logged as "Deleted user account and all of its
  tokens/sessions" and deletes the panel's sessions only: a session of the board
  keeps its user and the role stored in it until it expires (`Accounts`, `sess`);
* the DELETE that burns reset links ignores its failure, and the link then works
  again (`SelfService`, where such a reset does not count as ended);
* the counter of a board request runs ahead by the cases in `VotesCounted`.

And one divergence outside them: the comment of `can_consume` in `guard.rs` says an
approval must be "still inside its window", the code and the test
`an_approval_stays_spendable_for_its_whole_window` accept it for as long as it
has not been evicted. The model follows the code.

## 6. Proofs

All theorems hold for arbitrary sets of accounts, devices, challenges, requests
and so on, and for every limit. The assumptions are the modules' named ones
(`QrConstants`, `CallsConstants`, `MessagesConstants`, ...), which type the
constants; where a constant is a set, a value that stands for nothing is not one
of it (`Unseen` is no text in `Messages`, `Free` is no name, signup or link in
`SelfService`), and there is an instance and a title for a record at rest to name
(`Notifications`, `Catalog`). Five theorems have a hypothesis of their own.
`OvershootBounded` of `Friendship_proofs` and `LockoutHolds` take a non-empty set of
handlers in flight (their bound is one less than their number), the former a finite
one, too, as does `RetriesStoreFew`, which counts them.
`AnAdminIsLeft` takes it that there is an enabled admin to begin with, since the
bootstrap admin is optional. `InvitesReach` is about a server without push, because
with push its claim is false (section 5, `calls_wakeup`).

*Side by side.* `MCPeople`, `MCPresence` and `MCServices` put components that share
no state side by side. The theorems are about each component's own specification
(`SelfSpec`, `PushSpec`, `CatalogSpec`, ...); `PeopleSideBySide`, `SideBySide` and
`ServicesSideBySide` prove that every behaviour of the whole, whichever component is
in focus, is a behaviour of each of them, so that all that is proved of a component
holds of what TLC runs. For `MCPeople` that takes `FriendsStepIsOne` and
`SenderStepIsOne`: in both focuses every step is one of Friendship's (the two accounts
of "friends" being different ones). The types of the whole are theorems of
its specification: `PeopleTypes`, `TypeCorrect` and `ServicesTypes`.

**QrSignin_proofs.** `AtMostOneLogin` is not inductive: a request at `issue`
would add a login whatever the table says. `IInv` adds what a request knows
(`ReqInv`: at `swap` it holds the row's account, at `issue` the row is consumed
and nobody is signed in yet), that the compare-and-swap lets one request through
(`OneIssuer`), that a login happened only for a consumed row (`LoginInv`) and
that the accepted answers are what the rows record (`AnswerInv`, `RowInv`). From
it: `TypeCorrect`, `SingleUse`, `SingleAnswer`, `ApprovedLogin` (which includes the one
answer), the action property `Settled`, and `Refinement`, where each action is mapped to `Answer`,
`Claim`, `SignIn` or a stuttering step of `OneShotLogin`. `OvershootBounded` has the
invariant `CapInv`: the active challenges of an address and the starts about to insert
one are together fewer than the cap plus the requests. A start counts as of its own
`ts`, which is never ahead of the clock, so it counts at least what is active now.

**Calls_proofs.** `OneOutcome` needs to know where a call is. `TaskInv` says
which tasks may owe records and that the sweeper's `closed` call is one of them;
`Ledger` that every numbered call is in exactly one place: it rings under one
key, or one task owes it once, or it has its single outcome. Every action moves
calls between those places. From it: `TypeCorrect`, `SingleOutcome`,
`CallsAccounted`. `InvitesReach` has an invariant of its own: from the snapshot of its
rings on, not only once it is up, a device has been sent the invite of each of them,
or it is among those still to replay, or a handler is about to relay it (`Told`); and
without push no handler leaves its invite to a later replay. `Refinement` reads the
stage of a call off `Ledger`: every step is a stutter of `CallOutcomes`, or numbers a
call, or moves calls from ringing or from owed to what comes next, and none moves one
twice or back.

**Login_proofs.** A nonce is in the map, or held by one request, or spent:
`NonceInv` says that these exclude one another, and that a nonce not drawn yet is
in none of them. `ApprovalInv` says that what phones were told is what the entry
records, and that a bought approval is gone from the map. From them:
`TypeCorrect`, `NonceOnce`, `ApprovalOnce`. `LockoutHolds` counts: while an account is
locked, its late failures and its requests still in flight are together fewer than
the slots (`LeakInv`), because the request that locked it was one of them and none
begins. `Refinement` adds `AskedInv`: exactly the entries that were never raised have no
account. Raising an approval is `Ask`, with the entries it evicts as the forgotten
ones; the phone's decision is `Answer`, the gate that consumes an
approval `LetIn`, a restart `ForgetAll`, and all else stutters.

**Friendship_proofs.** `IInv` is the types, `RowInv` (a row says who agreed to
it: nobody to no row, the sender to an invite, both to a friendship) and
`SlotInv`. The last is the heart: `Passed` says of each stage which barriers a
slot can no longer have missed, and `Current` that a barrier the slot remembers
as standing since it came in stands now; a step that lifts a barrier strikes it
from every slot's memory (`Forgets`). `FriendsAgreed`, `BarriersStop` and
`ExpiredForgotten` follow. `OvershootBounded` has an invariant of its own, `CapInv`:
pending requests and the inserts under way together are fewer than the cap plus
the handlers; a slot starts to write only when it has counted fewer than the cap,
and then no more slots write than there are.

**Messages_proofs.** `Base` is the types and `Fits`, what the place of each handler
says of its slot (the message it is about exists, its sender is the device's
user, its page names stored messages of the two). Lemmas say what each action can
touch (`Effects`), that messages are never removed (`RowsGrow`) and that what is
shown is not taken away (`ViewGrows`). On top of it one invariant for each property:
`LinkInv` for `AttachmentsPrivate`; `DelInv` for `DeletedTextsGone` (an edit past its
check of a deleted message is on record); and `GapInv` for `NoGapIsSilent`: for every
message a device that is up has shown it, or has it on its way (`Reaches`: in the
handler that stored it, on the bus to the device's instance, or in the page of its own
resume), or is excused. A push moves it from the handler to every instance at once, a
relay from the bus to the device or among the excused, and a page that is read puts
what it strikes from the excused into the resume.
`ReceiptsTruthful` needs what a handler about to push a receipt has written, and that
the receipts on the bus are as true as those delivered (`ReadInv`).
`RetriesStoreFew` has `CopyInv`: the copies stored and the handlers about to store one
are together no more than the handlers. A handler comes to store only when its lookup
found no copy, and then the count starts again from the handlers alone.

**SelfService_proofs.** `Sane` is the types, `Fits` (a reset past its lookup has the
account its link was made for) and that a live row of password_resets is for that
account. `PasswordsOwned` adds that ids are given out in order; `DenialsStay` that no approval has read a denied request;
`ResetsEndAllLinks` that an ended link has been made, so that it is not made again.
`SignupsAndResetsSafe` is the three together.

**Services_proofs.** *Push*: `RegisteredStays` is inductive on top of the types.
*Saves*: `SavesTypes` needs to count: the versions made and the uploads that still
owe one (`Due`) are no more than the uploads so far; `SavesAreKept` adds
`PriorArchived`, that an upload past its archiving has kept what it read. *Accounts*:
`LogoutsEndAll` follows from what minting, rotating and both branches of a logout do to
the rows (ids are never reused); `AnAdminIsLeft` from `Guarded`: a removal whose count
stands leaves somebody besides its target, and every removal voids the counts of the
others. *Board*: `Tally`, for each row: the votes shown
and the counts under way are no more than the voters and the requester's vote still
to come. *Catalog*: `CatalogBase` says what each stage of the scan has done
(`ScanPlace`) and that nobody knows a content newer than the disk's (`Known`).
`ManifestsHonest` adds that whatever is on its way to game_manifests, or was served
from it, is as honest as what is there; a change on disk makes every label on its way
an old one. A row found of the version asked for can only have become an older one when
its segments are read, or a newer one, whose hashes are newer, too.
`CatalogCatchesUp` adds `Caught`: with no change pending, what the running scan has
walked is the library but for the excused games, and the later stages carry that into
the catalog.
*Notifications*: `UnreadIsShown` needs `AllPromised` to speak of the sockets that have
selected their batch and not sent it, too. `NotesTypes` needs `NotesKnown`: what is on
its way to a socket is about rows that were inserted.

**Presence_proofs.** `GoneIsOffline`: a row that is not offline is owed
(`RowIsOwed`) by a connection that has still to leave, or that left as the last
one of its instance and has not written yet. It passes on because `unregister`
says "last" to exactly the one that empties the hub. `PresenceTypes` includes that
friends are never told of an invisible state. `DevicesTypes` are the types of the registry.

**Only proved.** `AtMostOneLogin` (`SingleUse`) and `NoCallForgotten` (`CallsAccounted`)
have no run of their own: a second login is no step of `OneShotLogin`, and a call that
rang or was owed and is forgotten is back at "new", which is no step of `CallOutcomes`;
the runs check both refinements.

**Only model-checked.** `EveryCallResolves`, `GoneReadsOffline` and `PickerSettles`,
which are liveness under fairness and out of the prover's reach, and the runs with
`expect: violation`, which refute. Every invariant and action property of a passing
run is stated by a theorem.

## 7. Plan

1. An abstract specification of a conversation (a log that each device shows a
   prefix of, with the named gaps), implemented by `Messages` and `Notifications`.
2. What is left of modelled components: TOTP enrolment and the forced password
   change, remote install and its acknowledgement across instances, the rewards
   and events of an acceptance, the DM policy.
3. Larger instances where a proof is out of reach: three connections in
   `presence`, six operations in `messages`.

## 8. Not modelled

* HTML pages, the storefront's React code, the wording of messages, notifications
  and mails: output without protocol.
* IGDB metadata, Discord webhooks, e-mail alerts, announcements of new games:
  outbound HTTP whose results no modelled handler reads back. The enrichment that
  follows a scan is a stage of `Catalog` that changes nothing modelled.
* The store's library and reviews, XP, achievements, activity, groups, launcher
  configuration, the status of board requests: one idempotent or
  last-write-wins statement each.
* File streaming, ranges, ciphers and sealed chunks, audio frames: data, not
  control.
* Device names, audit rows, game and status texts.
* A panic of the scan's task, which would leave `running` set until a restart, so
  that no scan starts any more (`scan_jobs.rs`).
