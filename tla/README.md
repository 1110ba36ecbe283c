# Verification of PPgram-api

PPgram-api is a chat server: one process, a TCP port for JSON requests and
events, a TCP port for files, a Cassandra/Scylla database behind both. This
directory holds TLA+ models of it, the TLC configurations that check them on
small instances, and TLAPS proofs of what holds for every instance. Paths
below are relative to the repository (`src/` is its crate).

## The system

| Component | State | Operations | Talks to |
|---|---|---|---|
| Accept loops (`src/server/server.rs`) | two listeners, one task that polls every handler | accept, serve, drop | pool (mutex), handlers |
| Database pool (`src/db/bucket.rs`) | buckets, reference counts | `get_available_bucket`, `clone_increment_rc`, `decrement_rc` | database, accept loops, dropped handlers |
| Session (`src/server/session.rs`) | user id, session id, connection list, under a tokio `RwLock` | authenticate, add/remove connection, `mpsc_send` | handlers, event tasks, cleanups |
| Registry `Sessions` | `DashMap<user id, session>`: one lock per shard | get (a `Ref` that keeps the shard), insert, remove | login, bind, event tasks, typing task, cleanups |
| TCP connection (`src/server/connection.rs`) | channel of 10 events, writer mutex, receiver task | `mpsc_send`, `write` | event tasks, socket |
| JSON handler (`handlers/json_handler.rs`) | message under assembly, session it uses, last request id | dispatch, detached event tasks, `Drop` with a cleanup task | all of the above |
| Methods (`message/methods/*.rs`) | none of their own | auth/login/register, bind, send, edit, delete, fetch, new, join, check | session, database, event tasks |
| Tables (`src/db`) | users (with sessions and chat maps), chats, messages, drafts, hashes | single-row queries, no transactions | methods |
| Typing task (`json_handler.rs:125`) | current chat, timer, channel of 3 | start, refresh, stop, time out | registry, sessions |
| Framing (`message/builder.rs`) | size, bytes so far | parse, extend, ready | handlers |
| File handler, upload, blob store (`files_handler.rs`, `src/fs`) | stage of a request, temporary file, directory per hash, `hashes` row | upload, finalize, download | file system, database |

How they interact. All handlers, of both ports, are futures of one task
(`moro::async_scope`), so they interleave only at awaits, and a handler that
blocks its thread stops them all. Event tasks, cleanups, receiver tasks and
typing tasks are `tokio::spawn`ed and run on other threads. They share the
registry (shard locks that block a thread), the sessions (async locks) and
the event channels. Methods run several database queries with awaits in
between and no transaction around them.

What is hard, and what must hold. `PROJECT.json` lists every hazard at its
line. In short:

- *Sessions and registry*: a check under one guard is used under the next;
  two handlers can share a session; entries are replaced and removed by user
  id; guards and `Ref`s are held across awaits in different orders. Right
  means: who is registered is authenticated as that user, a connection is
  listed exactly where its handler is, events reach only a connection of their
  recipient, nothing waits forever.
- *Pool*: counts come from two accept loops and many drops. Right means: exact
  counts, no overloaded bucket, no listener stuck.
- *Storage methods*: read-modify-write over several queries by several users
  and devices. Right means: no acknowledged message is lost or rewritten, both
  sides of a chat agree, nothing leads nowhere.
- *Typing*: a timer races events and reconnects. Right means: an indicator that
  is shown goes off.
- *Framing, upload*: bytes arrive cut anywhere. Right means: what is handled or
  stored is what was sent, and answers belong to their requests.
- *Blob store, accounts*: several writes with failures, crashes and other
  clients in between. Right means: a hash that was answered can be fetched, a
  name is one account, a session id is its user's.

## Modules

| Module | Models |
|---|---|
| `Sessions.tla` | session layer: handlers, Session locks, registry, event tasks, cleanups |
| `EventBus.tla` | what that layer promises about events, without locks, registry or tasks |
| `MCSessions.tla` | users, connections and workloads for TLC |
| `Pool.tla`, `MCPool.tla` | the database pool and the accept loops |
| `ServerProofs.tla` | inductive invariants and safety theorems of Sessions and of Pool, refinement of EventBus |
| `Messages.tla` | the rows of one chat and the handlers that send, edit, mark, delete, clear and fetch |
| `ChatLog.tla` | what a chat promises its members: a log whose entries only their authors amend |
| `MCMessages.tla`, `MessagesProofs.tla` | instances for TLC; inductive invariants, safety theorems, refinement of ChatLog |
| `Chats.tla`, `MCChats.tla` | rows of all chats, each user's map of chats, invitation links, and the requests that use them |
| `ChatsProofs.tla` | inductive invariants, safety theorems, refinement of ChatBook |
| `ChatBook.tla` | what chats promise their users: who is linked with whom and who is in which group |
| `Accounts.tla`, `MCAccounts.tla`, `AccountsProofs.tla` | rows of users: register, login, auth, check, edit of the own profile |
| `Typing.tla`, `MCTyping.tla`, `TypingProofs.tla` | the typing indicator: drafts, the channel of three, the task and its timer |
| `Frames.tla`, `MCFrames.tla`, `FramesProofs.tla` | segments of the JSON port, the builder, request ids and answers |
| `Uploads.tla`, `MCUploads.tla`, `UploadsProofs.tla` | segments of the files port: metadata, size, file |
| `BlobStore.tla`, `MCBlobStore.tla`, `BlobStoreProofs.tla` | finalizing uploads, the `hashes` table, downloads |

The modules meet at three points. `Sessions` keeps what a request does inside
its method abstract (`WorkDone`); `Messages`, `Chats` and `Accounts` model the
methods and keep the connection abstract. `Typing` takes from `Sessions` that a
user is online, away, or registered without connections, and that others hold
its lock, fill its channel or hold back its shard. `Uploads` hands a
complete file to `BlobStore`, which starts where the last byte has arrived.

### Sessions

A step is what the code does between two awaits, or between two points where
it may block. `pc[c]` is the line a handler stands at, and after the end of
the connection where its cleanup stands. Locks are not variables: who holds
a session's `RwLock` or a `Ref` into a shard follows from where handlers and
tasks stand (`WriteHeld`, `ReadHeld`, `RefHeld`), because in the code a guard
is exactly a local variable that is alive. `MainFree` says that no handler
blocks the common thread: only `AuthInsert` can.

| Code | Model |
|---|---|
| `Session.user_id`, `session_id` | `auth` |
| `Session.connections` | `conns` |
| `JsonHandler.session` | `sess` (a Session is named by the connection it was made for) |
| `Sessions` (DashMap) | `registry`, shards by `ShardOf` |
| `auth::handle` | `AuthCheck`, `AuthLock`, `AuthSucceeds`/`AuthFails`, `AuthReread`, `AuthInsert`, `AuthReply` |
| `bind::handle` | `BindRequest`, `BindLock`, `BindMove`, `BindReply` |
| `require_auth!`, other methods | `RequestCheck`, `RequestCreds`, `WorkDone`/`WorkNotify`, `FetchDone`, `Reply` |
| `send_event(s)_to_con…` | `EventGet`, `EventLock`, `EventPush` |
| `Drop`, cleanup task | `Close`, `CleanupDetach`, `CleanupRemove` |
| receiver task | `Drain` |

Abstractions. Database answers, message contents and errors are
nondeterministic. Lock grants are nondeterministic; their FIFO order appears
only as fairness. Whether the client sent the right session id to `bind` is a
free choice. The typing task delivers events like any event task does, and has
a module of its own. A handler notices the end of its connection only
between requests, as the code does. DashMap's preference for waiting writers
and the exhaustion of worker threads are not modelled: both would add ways to
get stuck, not remove any, so the liveness results say less than the real
scheduler could refute. A request spawns as many event tasks as it likes while
it is at work (`send.rs:107` and `:158` are two, `edit.rs` has several); each is
one element of `Events`, which bounds how many are ever spawned.

What holds of the registry for every workload: a user who is logged in on one
session has an entry as long as a connection of that session is live
(`SharersStayRegistered`). When a connection binds to one user only, an entry
outlives the connections of its session only while the cleanup that emptied the
list is about to remove it, or after the connection that logged in was bound
elsewhere (`EntryIsServed`; `Left`), which is also the only way for an event task
to panic (`PanicsOnlyWhenLeft`). With guests that move on, the last of them may
leave an empty list behind, too; TLC finds it in 27 steps.

Beside these the module states what documentation and comments say of any
workload: `ConnectedIsRegistered`, `EventTaskNeverPanics`, `FoundIsSent`, and
`RequestsAnswered`. TLC refutes the first three, and the fourth in the workloads
of `sessions_rebind.cfg` and `sessions_login.cfg` (see Findings).

### EventBus

Connections have owners; a posted event walks through its recipients; each
step hands it to a connection owned by that recipient at that moment, or skips
the recipient, or the carrier dies. `Sessions!BusPromise` is `EventBus!BusSpec`
under the mapping: owner is the user of the session a live handler uses,
pending is the recipients a task has left. This is all that the rest of the
server may rely on: no order between two events, delivery at most once per
recipient, never to somebody else.

### Pool

Two loops take turns at the pool's mutex, which is held while a new database
connection is built (`loop[l] = "build"`). Scan and sort are one step: every
decrement comes from a handler dropped on the same task, and there is no await
between them. The sort is Rust's stable `sort_by_key` (`SortedByCount`). Failed
builds only repeat and are stutters. `CountFollowsUsers` says that each step
changes a bucket's count by the change in its users. That the count is the number
of users, as the comment at `bucket.rs:63` says, is `CountIsUsers`, and refuted:
the bucket the pool starts with is one ahead for good.

### Messages

One chat of `ksp.messages`, an unbounded number of handlers of its members.
Handlers run on one task, but every query is an await, so a step is one query
with the code up to the next one; `pc[h]` names the query to come, and a
handler's local variables are `slot` (`v.id` of `add_message`), `start`
(`range.start`), `todo` (what a loop has left) and `old` (`existing_message`).

| Code | Model |
|---|---|
| `add_message` | `Count` (`get_latest`), `Insert`, then `Latest` and the window query |
| `fetch_messages` | `Latest`, and by its caller `Confirm`, `Deliver`, `ReadOld`, `CheckAuthor`, `NotAuthor`, `FetchError`, `Panic` |
| `edit_message`, `get_edited_message` | `Update`, `NewText`, `NewUnread` |
| `mark_as_read` | `MarkOne`, once per id |
| `delete_messages`, `delete_all_messages` | `EraseOne` once per id, `Clear` |
| `?` of a query | `QueryFails`, in plans that let queries fail; `Done` for the queries after the last write |
| end and new start of the process | `Restart`: rows stay, handlers and answers go |

A query that fails answers an error, and what earlier queries of the request
wrote stays, a stored message included. In this module and in `Chats` and
`Accounts` a write that fails is taken as not made: that a database may report
a failure of a write it made after all is not modelled.

Two properties of the database carry the module. `UPDATE` is an upsert: it
writes the columns it names and adds the row when it is missing, so edits and
marks of a missing row leave one without an author, and such a row fails every
later query over it, since `from_id` is not optional in `DatabaseMessage`. And
`is_rows` is true of every `SELECT`, so `message_exists` refuses nothing; it
and `hash_exists` are left out, as are reply references, hashes, dates and the
`edited` flag, which no decision depends on. The answer is sent in the step of
the last query. Events are the matter of `Sessions`. The chat itself and its
members do not change here (that is `Chats`).

What holds depends on what clients do at the same time, so a run draws a plan:
which operations each handler asks for, and whose turn it is (`"requests"`: one
request at a time, `"sends"`: sends do not overlap, `"none"`). With `Careful`,
clients name only messages that are there when they ask.

- *Quiet*: careful, and either one request at a time or nobody erases.
- *Calm*: careful, and either one request at a time or nobody erases and sends
  do not overlap.

These are the weakest of the conditions tried under which the properties hold:
without them TLC finds a send that panics because a clear comes between its
insert and its second query, a row without author after a mark that follows a
clear, two sends with the same id of which the later replaces the earlier, an
edit that lands on another sender's message that got a deleted id, and a
message that becomes unread again because an edit of its author overtakes a
mark. The documentation says nothing of overlapping requests on one chat, so
these are conditions of the properties and hazards in `PROJECT.json` with a note,
and no findings. `LogPromise` asks also that no query fails: a send that fails
after its insert is refused and stays in the log.

### ChatLog

A log with one entry per id. A message gets the id after the latest and is
confirmed to its sender with that id, while it is still there and still the
sender's; only an author amends, in a group only an author erases; a fetch
answers with a part of the log that has no gap; and a request is refused only
when some message of the log is someone else's. `Messages!LogPromise` is this
under the mapping: the log is authors and texts of the rows, `mine` is the id
of a message inserted and not yet confirmed.

### Chats

`rows` is `ksp.chats`, `assoc` the column `chats` of every user, links are a
flag of the row. A step is one query; `pc[h]` names the query to come, and a
handler's locals are `got` (the chat it found), `map` (the association map it
read), `todo` and `seen` (a loop's chats left and listed).

| Code | Model |
|---|---|
| `get_associated_chat_id`, `fetch_chat` | `Lookup`, `LookupFails`, `ReadChat`, `ChatExpected`, `TouchPrivate` |
| `create_private`, `create_group` | `Create`, `CreatedGroup` |
| `add_associated_chat` (one `UPDATE` of one key) | `AssociateMine`, `AssociateTheirs` |
| `handle_new_invitation_link`, `on_join_group` | `Link`, `Find`, `FindFails`, `AlreadyJoined`, `NotJoined`, `Enter`, `Enlist` |
| `delete_chat`, `remove_associated_chat` (read the map, write it back) | `EraseRow`, `ReadMap`, `ForgetMine`, `ForgetTheirs` |
| `handle_fetch_chats` | `ReadMine`, `ListOne`, `ListUnwraps` |
| `?` of a query, also after a row or one map was written (`edit.rs:485-491`) | `QueryFails`; `Done` for the queries after the last write |
| `unwrap` of a query (`send.rs:96`, `:104`, `fetch.rs:41`) | `QueryUnwraps` |

As in `Messages`, `UPDATE` adds a missing row, here one without its flag, and
such a row makes `fetch_chat` fail. A new chat gets an id nothing refers to:
drawing one twice is beyond what random 31-bit ids let a test or this model
say. Users exist; messages and events of the same requests are in `Messages`
and `Sessions`.

A plan says who asks for what, which pairs of operations never overlap
(`apart`), which chats are deleted, whether queries fail, and whether the
process may end. *Steady* is a plan in which no group is deleted and no query
fails.

- `SteadyNeverPanics` needs only a steady plan; every interleaving and crash is
  allowed. `AnswersInstead` is the same without the condition, and refuted.
- `EntryLeadsHome`: steady, deletions run alone, no crash. Private first
  messages may cross, groups be founded, joined and listed meanwhile.
- `PairsAgree`: also, first messages do not cross. That groups stay matters
  here, too: the panic of a request about a deleted group ends the process
  between the two associations of somebody else's first message.
- `MembersOnce`: joins do not overlap each other, deletions run alone; crashes
  and failing queries are allowed.
- `BookPromise`: steady, one request at a time, no crash.
- `OnlyItsEntryGoes` is what `user.rs:415` says of a deletion, and refuted.

Without these conditions TLC finds: after a group is deleted, the other
members' maps lead nowhere and the next `expect` or `unwrap` ends the process
(`edit.rs:204`, `fetch.rs:41`); two users who write each other first make two
private chats and each keeps another one; a deletion writes back the whole map
it read, so a chat added in between is lost; two joins of a user on two devices
list the user twice; a crash between the two associations leaves one side.

### ChatBook

Pairs, groups and open links, each request at once. `Chats!BookPromise` maps to
it: a pair is there when both maps have it (or a deletion is between the two),
a user is in a group when the row lists it and its map has it.

### Accounts

`users` is `ksp.users` cut to username, password and session ids; `me` the
credentials of a connection's session. A session id is the number of its draw;
`owner[i]` is the user whom id `i` was drawn for, and decides nothing. `register`
is `NameIsFree`, `Insert` (after the password was hashed), then, like `login`,
`ReadSessions` and `StoreSessions`: the list is read, extended and written back
whole, its oldest id dropped when it has exactly three. `Accepts` is
`authenticate`, true of every id while the list is empty. `Rename` and `Repass`
are `edit_self`. `QueryFails` is the `?` of each query; in particular a
`create_session` that fails after the insert (`user.rs:159-162`) leaves an
account with an empty list.

- `SessionsAreLatest`: the list never has more than three ids, none twice and
  only its user's, always. With one registration or login at a time they are
  the latest ones; two at once lose one.
- `NamesIdentify`: registrations do not overlap and nobody is renamed.
  `update_username` checks nothing, and `register` inserts long after it looked.
- `CredentialsAreIssued` has no condition: whoever gets into an account, by
  register, login or auth, has a session id that was drawn for it, or no
  session of that account was ever stored. The second case is real: between the
  insert and the first `create_session`, or for good when that one fails or the
  process ends there, any session id is accepted. The property says that this
  never comes back once an account has had a session, whatever overlaps.
- `TakenIsRefused` and `AnswersInstead` are what the documentation says of two
  registrations of one name and of any request, and refuted.

`validate_username` panics on an empty name (`validate.rs:25`), which ends the
process as any panic of a handler does; the digits 1 to 8 it means to allow are
compared as bytes 1 to 8, so names with digits are refused. `Shape` says what
it makes of a name.

### Typing

One typist. The handler waits in `send_is_typing` while the channel is full
(`offer`); the task receives, shows the indicator to each user of the event,
then waits for another event or the timer. The timer may fire whenever the task
waits: its second is as long as other steps like. A private chat carries the
typist's id in its events.

| Code | Model |
|---|---|
| `edit_draft`, `send_message`, `send_is_typing` | `Request`, `Push`, `PushFails` |
| receive, timer, next event | `Receive`, `Timeout`, `Another`, `Again`, `Delivered`, `End` |
| `sessions.get` in a round | `Skip`, `Find`: the `Ref` (`ref`) keeps the shard from then on |
| `session.write().await` | `Lock` |
| `mpsc_send().await` | `Send`, which waits for room in `queue`; `Die` when there is no connection |
| handlers and event tasks of the recipient | `Hold`, `Release` (with or without an event of theirs) |
| receiver task | `Drain` |
| login; end of the connection and its cleanup; bind | `Come`; `Disconnect`, `Remove`; `Bind` |

`Come` and `Remove` wait for the shard (`ShardFree`), as insert and remove of the
map do, and a cleanup keeps the lock of the session while it waits. A user
registered without connections kills the task (`Die`), after which a request
panics in a debug build and goes on in a release build. A plan says which chats
are used, whether the others come and go (`moves`), and whether sessions may
lose their connections to a bind (`hollow`).

- `ShownIsWatched`: the typist keeps to one chat and no session is hollow. With
  two private chats the task takes one for the other, and when an event for
  another chat arrives it turns off the new chat's indicator and forgets the
  old one.
- `IndicatorsGoOff`: also, nobody enters or leaves the registry.
- `DraftsGetThrough`: any chats, no session hollow, nobody enters or leaves.
- `RequestsGoOn` is the same without a condition, and refuted: a task that has
  found a recipient and the cleanup of that recipient wait for each other.

### Frames

A byte is its position in the client's stream. `builder` holds the announced
size and how many bytes were collected from where; a content is the request
that was written exactly if it has the same bytes. A header read at a place
where none was written has one of the sizes `Strays`.

`PoliteIsHandled` and `AnswersMatch` hold for segments that belong to one frame
each and either have the whole content left or miss four bytes of it or more,
with the header in the first. Otherwise, and the model goes on from there: a
first segment that lacks the last one to three bytes of its content slices
beyond the buffer (`builder.rs:50`); a first segment of fewer than four bytes
makes no builder and the connection ignores all that follows; a second frame in
the same segment is dropped. A request without `req_id` is answered with an
earlier one; so is an empty content, which has no id to read (`Kind`). The configurations
`frames_deaf`, `frames_joined` and `frames_slice` show the first three against
what the documentation says; answers of requests without an id are left out of
`AnswersMatch` by name.

### Uploads

Also over positions: `actor.got` is the temporary file, `acc` and `buf` the two
buffers of `FilesHandler`. An answer records the bytes that were stored.

`StoredIsSent` asks of the client to await answers, to get its metadata across
in one segment, and to send one byte at least and no more than the limit. The
size and the file may be cut anywhere, and with them the boundary between both.
Beyond it: metadata in two segments leaves bytes of it in the file; an empty
file is never finalized; a refused file's bytes are parsed as requests; bytes
sent before an answer are dropped by the reset; a surplus makes the rest
negative (`uploader.rs:69`), a panic in debug and a huge slice in release.
`SurplusIsNotOfFile` is what the comment at `files_handler.rs:234` says of a
surplus, and refuted.

### BlobStore

| Code | Model |
|---|---|
| `DocumentUploader::new`, `MediaUploader::new` | `Start`, `Received` |
| `finalize` of both | `Base`, `MakeBase`, `Exists`, `Drop`, `MakeDir`, `Copy`, `RemoveTemp`, `Thumbnail`, `AddRow` |
| `?` in any of them | `Fail` |
| dropped connection | `Leave` |
| `FileFetcher::new`, `fetch_data_frame` | `Ask`, `Look`, `Open`, `SendPart`, `FetchFails` |
| panic of a handler, end of the process | `Down`, `Crash`, `Restart` |

A file stands for its SHA-256 hash, an upload for its name. `plan.thumbnail` is
what `generate_thumbnail` makes of a file: a preview, an error, or `Ok` with
nothing written. tokio's `write_all` on a file returns before the bytes are
written and nothing flushes it before the copy (`document.rs:64`,
`media.rs:113`), so the copy may lack the last ones (`torn`); a plan with
`prompt` excludes that.

- `OneFounder` needs nothing: `create_dir` decides, whatever fails.
- `NoInternalError` excepts the two cases above, a preview nobody wrote and a
  torn copy.
- `AnsweredIsThereOrComing` needs that nothing fails. A failure or crash after
  `create_dir` leaves a directory without a row for good: every later upload of
  that file is answered with its hash and every download of it is refused. Two
  overlapping uploads are why it says "or coming": the second is answered
  before the first has added the row.
- `AnsweredExists` and `HashIsOfBinary` are what the comments at
  `document.rs:80` and `fs/mod.rs:14` say, without conditions, and refuted.

Media panic when `FS_BASE` is missing (`media.rs:122`; `docker-compose.yml:33`
mounts it) and when their name has no dot (`media.rs:156`, after the directory
was made). `hash_exists` is true of every hash, as in `Messages`. Temporary
files of clients that leave stay.

## Runs

| Run | Bounds | Shows |
|---|---|---|
| `sessions_any` | 3 connections, 2 users on one shard, 1 event task, channel of 1; a user on two devices, second logins, binds in all directions (each connection to one user), every connection may close | the safety properties of `Sessions` and `BusPromise` |
| `sessions_live` | 2 connections, 3 users (one stays, one comes and goes, one is never there), 2 event tasks, channel of 1, deadlock checked; the one who stays and the one who leaves share a shard | types with the bound of the channel; every request is answered, every event settled and every cleanup finished, the cleanup of `c2` also while an event it sent holds its shard; nobody is sent an event while leaving |
| `pool` | 6 sockets on 2 listeners, capacity 3, up to 3 buckets | counts follow users, capacity, the idle sort, progress |
| `chat` | 2 users with a connection each, ids up to 2 (and -1), 2 texts, lists of one or two ids, 6 plans, group and private | no panic and whole rows when quiet; words stay their author's, edits keep marks, and `LogPromise`, when calm |
| `chats` | 2 users, 3 handlers (one user on two devices), 2 private chats, 1 group, 8 plans | the properties of `Chats` under their conditions, and `BookPromise` |
| `accounts` | 2 connections, 2 accounts, 4 names (valid, invalid, empty), 2 passwords, 4 session ids, 4 plans | the properties of `Accounts` |
| `typing` | 2 others on a shard each, 2 private chats and a group, 3 requests, both channels of 1, 6 plans | indicators are watched and go off; no request waits for good |
| `frames` | contents of 0 to 11 bytes, buffer of 8, limit of 10, 3 frames, 3 plans | with polite segments every received frame is handled; answers have their ids when every frame has one |
| `uploads` | metadata of 2 bytes, files of 0 to 6, limit of 5, buffer of 16, 3 requests, 4 plans | for a polite client what is stored is what was sent |
| `blobs` | 3 uploads (2 of one file), 2 files, 1 download, a crash, 7 plans | one founder per hash, downloads that find their files, answers that are true |
| `chat_unknown_id` | one handler that sends and edits, not careful | refutes `NeverPanics`: a finding |
| `sessions_leaving` | 2 users on a shard each, the recipient leaves | refutes `FoundIsSent`: a finding |

Configurations that are kept beside the runs. Each reproduces one disagreement
listed under Findings: `tlc -config X.cfg M` ends with the property violated.

| Configuration, module | Bounds | Refutes |
|---|---|---|
| `sessions_rebind`, MCSessions | one login, one connection that binds, again and again | `RequestsAnswered` |
| `sessions_login`, MCSessions | 3 users on one shard, nobody leaves or binds | `RequestsAnswered` |
| `sessions_events`, MCSessions | the workload of `sessions_any` | `EventTaskNeverPanics` |
| `sessions_devices`, MCSessions | the same | `ConnectedIsRegistered` |
| `pool_users`, MCPool | as `pool` | `CountIsUsers` |
| `chats_deleted`, MCChats | a group is deleted, one request at a time | `AnswersInstead` |
| `chats_failing`, MCChats | first messages, one at a time, with failing queries | `AnswersInstead` |
| `chats_lost`, MCChats | one user writes and deletes, the other founds a group | `OnlyItsEntryGoes` |
| `accounts_twins`, MCAccounts | two connections register | `TakenIsRefused` |
| `accounts_empty`, MCAccounts | one connection registers | `AnswersInstead` |
| `typing_leaving`, MCTyping | one private chat, recipients come and go | `RequestsGoOn` |
| `frames_deaf`, `frames_joined`, MCFrames | one frame; two; cut anywhere | `ReceivedIsHandled` |
| `frames_slice`, MCFrames | one frame shorter than a segment | `StaysUp` |
| `uploads_surplus`, MCUploads | two uploads of 3 bytes, no waiting for answers | `SurplusIsNotOfFile` |
| `blobs_halfway`, MCBlobStore | documents, one crash | `AnsweredExists` |
| `blobs_torn`, MCBlobStore | documents, a late write | `HashIsOfBinary` |

Why the bounds are enough. Two users and three connections give every pair
that shares a session, a user, a shard or a lock, and a third party to disturb
them; deadlocks here need at most three parties. A channel of capacity 1 is
full as soon as one event is undelivered, which is the case capacity 10 rarely
reaches. The pool run fills the first bucket and a second and needs a third.
In `chat` three ids let a latest message be deleted and its id be given out
again with messages below it, and lists of two ids put another request between
two rounds of a loop. `MaxId` stops `Count` and nothing else.
`MCMessages!WindowIsLatest` checks `validate_range` and the two queries against
the meaning of a range.

In `chats` two private ids are what two crossing first messages need, and the
third handler is a second device, for joins of one user at once. In `accounts`
four ids fill a list of three and drop from it (`MaxSession` stops
`Ask` and nothing else). In `typing` three requests fill a channel of
one with one at the task and one waiting (the code's channels of three and ten
are full later, not otherwise), and a recipient's channel of one makes the task
wait after every event. In `frames` and `uploads` sizes
are scaled down and keep their order: contents below, at and above what one
buffer holds and what is allowed; three requests show a reset between two
others. In `blobs` two uploads of one file race, a third is another's, and each
may be first; more would repeat a role.

Each plan is one regime: everything in turns, everything at once, and for the
conditional properties plans in which the condition holds while other requests
overlap. In `chats` these are: for `SteadyNeverPanics` the third (all private
requests at once, with crashes), fourth, sixth and eighth; for `EntryLeadsHome`
the fourth, sixth and eighth, where deletions wait and everything else
interleaves; for `PairsAgree` the fourth and eighth; for `MembersOnce` the fifth,
seventh (two devices of one user join in turn, with crashes and failing queries)
and eighth. Only `BookPromise` is left with the first, as its condition is one
request at a time. TLC explores the plans outside a condition, too: there the
actions fire and what the property excludes happens.

Definitions ending in `_Slip` are not part of any specification. Each is the
next definition with one plausible mistake, kept to show that the property
named for it in `PROJECT.json` notices it.

Fairness. `Sessions`: `HandlerStep`, `CleanupStep`, `EventStep` are strongly
fair, because tokio's `RwLock` and `Mutex` are FIFO, so a waiter that could go
on again and again is served; `Drain` weakly, clients read their sockets.
Clients' own actions get none. In `Pool` the loops' steps are strongly fair for
the same reason, and the database is assumed to come up. In `Typing` the task, whose
timer fires, and the waiting handler are weakly fair, as the runtime polls both;
`Lock` is strongly fair, as the lock is handed out in order; that holders of the
lock release it and clients read their sockets is weakly fair; a cleanup goes on
when its shard is free. Nothing of that resolves a task and a cleanup that wait
for each other: both steps are disabled then. The other modules state safety
only: their steps are queries and calls whose return nothing in the code bounds.

## Findings

Two runs end in a violation. Each checks one sentence of the documentation
against what the code does; `PROJECT.json` has the quotations and lines.

- `chat_unknown_id`: the checks of `message_exists` let every id through
  (`messages.rs:199`); an edit of an id that no message has, or a group delete
  of one, indexes an empty result (`edit.rs:72`, `:362`) and ends the process,
  instead of being refused (`docs/basics.md:59`).
- `sessions_leaving`: an event task and the cleanup of its recipient wait for
  each other's shard and session (`json_handler.rs:303`, `:386`;
  `docs/basics.md:74`: "If found, sends the event on receiver handler task").

More disagreements with documentation and comments. They are why properties of
the passing runs have conditions, are hazards in `PROJECT.json` with these
conditions in their notes, and are reproduced by the configuration named.

Requests that end the process, or are never answered, instead of being refused
(`docs/basics.md:59`):

- `chats_deleted`: after a member deletes a group, the others' maps lead to no
  row, which the next draft, edit or mark expects (`edit.rs:197`, `:103`).
  `SteadyNeverPanics` excepts it.
- `chats_failing`: a failing query of a first message or of a list is unwrapped
  (`send.rs:96`, `:104`, `fetch.rs:41`). `SteadyNeverPanics` excepts it.
- `accounts_empty`: a registration with an empty name (`validate.rs:25`).
- `frames_slice`: a first segment that lacks one to three bytes of its content
  (`builder.rs:50`). `PoliteIsHandled` excepts it.
- `sessions_rebind`: a bind to the session the handler is bound to already waits
  for the guard it holds (`bind.rs:17`, `:20`). Nobody binds in `sessions_live`.
- `sessions_login`: a login blocks the thread of all handlers in
  `DashMap::insert` while the `Ref` in its way waits for a guard of a handler
  that is no longer polled (`auth.rs:85`, `fetch.rs:103`). It takes a
  login, a task and a fetch of three users on a shard; `sessions_live` has two
  connections.
- `typing_leaving`: the typing task and the cleanup of a recipient wait for each
  other's shard and session (`json_handler.rs:139`, `:386`), and the typist's
  drafts and messages for the task. `DraftsGetThrough` and `IndicatorsGoOff`
  except recipients that enter or leave the registry.

Events and the registry:

- `sessions_events`: after login and a bind to another session the own session
  stays registered with no connections; the next event for that user panics its
  task (`session.rs:105`; `json_handler.rs:273`: "nothing happens").
  `EntryIsServed` and `PanicsOnlyWhenLeft` except this by `Left`.
- `sessions_devices`: the cleanup removes an entry by user id, also when a newer
  login owns it (`json_handler.rs:386`; `docs/basics.md:71`: "All the
  authenticated sessions are stored"). `SharersStayRegistered` excepts users with two sessions.

Data:

- `pool_users`: the bucket that `DatabasePool::new` builds starts at count 1 with
  no user, so it serves one user less than the others for good
  (`bucket.rs:63-66`). `CountFollowsUsers` is about changes of the count.
- `chats_lost`: a deletion writes back the map it read, and an entry added in
  between is gone (`user.rs:430`; `user.rs:415`).
- `accounts_twins`: two registrations of one name at once (`user.rs:121`;
  `docs/basics.md:64`).
- `frames_deaf`, `frames_joined`: messages that were received completely and are
  not handled (`server.rs:31`).
- `uploads_surplus`: a surplus is cut at the wrong place (`files_handler.rs:235`;
  comment at `:234`).
- `blobs_halfway`, `blobs_torn`: a hash answered without a document, a row that
  leads to a torn one (`document.rs:80`, `fs/mod.rs:14`).

## Known limits

What the conditions of the properties exclude and no sentence of the repository
speaks about, so that it is not a finding: overlapping sends that take one id,
edits and marks of messages erased meanwhile, edits that undo a mark; first
messages that cross, joins of one user at once; a login that loses another's
session id, and any session id accepted before the first is stored; an indicator
left on when the typist changes the chat; answers to requests without an id; a
medium whose preview nobody wrote. They are hazards with a note in
`PROJECT.json`.

## Proofs

Each theorem holds for every value of the constants under the assumption its
module names, which says no more than that parameters have their types, that
`None` is none of the data, and that plans and requests are well formed. Where
a property is conditional (on a plan or on what clients do), the condition is
part of the property that TLC checks, and so of the theorem; only two on
sessions (below) add a hypothesis.

`ServerProofs` proves of sessions `TypeOK`,
`RegistryAuthenticated`, `CheckStillHolds`, `ListedExactlyHome`,
`SessionKeepsUser`, `EventReachesRecipient` and `BusPromise`. None of them is
inductive. `IInv` adds: a session nobody is logged in to is used by no handler
but its own (`OwnSession`), a connection
not yet accepted is nowhere (`OffIsFresh`), the target of a `bind` and the entry
of an event task stay while the `Ref` lives (`RefsAlive`), a task about to push has a connection to push to
(`PushHasConnection`), a cleanup about to unregister belongs to an
authenticated session (`UnregisterAuth`). The key of the argument is that
`auth` changes only under a write guard after a check that still holds
(`CheckStillHolds`), which makes registry entries sound, and that lists and
handlers move together (`ListedExactlyHome`), which makes `connections[0]` a
connection of the recipient. `RemoveAtProperties`, `DetachProperties` and
`AppendNew` are the lemmas on lists; action properties and the refinement
follow from `IInv`, step by step.

`SharersStayRegistered` is proved for every workload, `EntryIsServed` and
`PanicsOnlyWhenLeft` under the hypothesis `BindOnce`: a connection binds to one
user only. A guest that moves on to another user's session may be the last to leave. The three rest on `IInv`
and `JInv`: whoever uses another connection's session has bound to its user
(`GuestsBound`); a cleanup which emptied a list is alone with it until the entry
is gone (`LastOneOut`); and a session that is the only one of its user is
registered, about to be, or without connections (`HasEntry`).

Of the pool `ServerProofs` proves `PoolTypeOK`, `CountFollowsUsers`, `NotOverloaded` and
`SortMovesNothing`. The inductive invariant is `CountIsHolders`, what the counts are
(one more than the users for the first bucket), with types and loop bookkeeping;
that every step keeps the difference follows. The sort result follows because
full buckets all have a count of exactly the capacity, so ranks are positions.

`MessagesProofs` proves `TypeOK`, `QuietNeverPanics`, `QuietKeepsRowsWhole`,
`WordsAreAuthors`, `EditKeepsUnread` and `LogPromise`. The invariant is
built in layers, each proved from those below: `TInv`, types and what a
handler's place says about its request and its loop; `Exclusive`, that with
turns for requests one handler works at most, and with turns for sends one
sends; `QInv`, that when quiet the table has whole rows only and each row a
handler is going to use is there (`Named`); `CInv`, that when calm words belong
to authors, an id to be used for an insert is the next one, and a stored
message not yet confirmed is the latest (`Mine`); `UInv`, that an edit nobody
else marks or edits beside has read the mark the row still has (`Fresh`).
`LogPromise` maps each step to a step of ChatLog or a stutter. `WindowsSelect`
says for every start and end which ids `validate_range` and the two queries of
`fetch_messages` select together; `WindowsFit` that from a start that is an id
the sum in `validate_range` does not overflow, for integers of any width.

`ChatsProofs` proves types, the four invariants of `Chats` and `BookPromise`.
What they need differs, so the invariant is a family:

- `TInv`: types, and for each query which requests can be at it with which
  locals (`Stage`). `KInv`: an entry under a group is that group, one under a
  user a private chat, also in the maps handlers hold. `XInv`: operations a
  plan keeps apart are never at work together.
- `GInv`: no row is partial, an entry of a group and a handler about to use a
  row have that row. It carries `SteadyNeverPanics`.
- `DInv`: a deletion that runs alone writes back the map as it is. This is
  where `remove_associated_chat` would lose an entry.
- `HInv`: each entry is at home, or a deletion is about to forget it; a chat
  that is being created has a row with its creator. It carries `EntryLeadsHome`.
- `PInv`: the maps of two users differ only while a handler is between its two
  writes (`Between`). It carries `PairsAgree`.
- `OInv`: members are distinct; a group's link is out only after its members
  have entries, so that the check of a join sees them (`Noted`, `Untouched`).
  It carries `MembersOnce`, crashes included.
- `BInv`: a request alone finds its chat as it left it.

`CInv` is all of them. `BookWhenCalm` then takes the queries one by one: the
last one of a request, which answers it, is a step of ChatBook with that
answer, and every other leaves pairs, members and links as they are
(`BookPairs`, `BookMembers`, `BookOpen`).

`AccountsProofs` proves types and the three invariants. `TInv` adds that a
handler's step fits its request and that credentials name users that exist;
`Exclusive` is the plan. `SInv` (lists hold ordered ids of their user, also the
lists handlers hold) needs no condition; `LInv` adds, with registrations and
logins apart, that the list read is the one in the row and no later id is
missing. `NInv` keeps a checked name free until the insert.
`CredentialsAreIssued` is a property of steps and needs `SInv` and `EInv` only: a
list with an id in it has ids of its user only, and one that is empty has never
had one.

`BlobStoreProofs` proves types and the three invariants. `FInv`: from
`create_dir` to its row a founder is alone with its hash, and a row names a
copy of its file with its preview. `FetchesFind` carries this into downloads,
whose row was read earlier. `CInv`: when nothing fails, every directory has its
row or a founder at work, and every answer a directory.

`TypingProofs` proves `ShownIsWatched`. `EInv`: with one chat all events, in
the handler, in the channel and at the task, have one id and one list of
recipients. `AInv`: who is away, or being cleaned up, is shown nothing. `Rounds`
and `WInv` follow the task through a round, user by user.

`FramesProofs` proves `PoliteIsHandled` and `AnswersMatch` for every buffer and
every contents. `Laid` says where the frames lie, `InStep` where the reader is:
between two frames without a builder, or inside one with a builder that has
exactly its bytes so far. A polite segment goes on with a frame or finishes it
(`GoesOn`, `Finishes`); what was handled (`HInv`) and answered (`AInv`) follows
from these two cases. No sum over earlier frames is needed, since each frame
remembers where it begins.

`UploadsProofs` proves `StoredIsSent`, for a polite client under every plan,
limit and way to cut size and file. `Laid` says that requests lie in the stream one after another, `Begun`
that an upload the handler is in was asked for, whoever the client is. `InStep`
is the handler of a polite client: idle with everything answered, or with one request
pending, of which it is at the start (`AtStart`), in the eight bytes of the size
with exactly those before `pos` in `acc` (`InSize`), or in the file with exactly
its bytes so far in the actor and nothing in a buffer (`InFile`). `Told` is that
answers are right. A segment leaves a pending request pending (`GoesOn`) or
ends it with its answer (`Ends`), never both, and never goes beyond it, as the
client awaits the answer; so `Portion` never meets a surplus, and the slices
join to `Content` by the lemmas on `Span`, concatenation and `SubSeq`. That
`k` is answered exactly when its end was read follows (`AnsweredIsRead`).
`HandlerStaysInStep` states the core of `InStep` for such a client, and nothing
of others: with metadata in two segments or a surplus the handler is out of
step. `StoredStaysWhole` needs no polite client: an upload that is answered has
exactly as many bytes as an upload that was asked for, and at most `MAX_SIZE`,
whether or not they are the right ones.

Where proofs failed, the properties or the model were wrong, and changed:
`PairsAgree` needs groups to stay, since the panic of a request about a deleted
group ends the process between the two associations of somebody else's first
message; an empty content has no `req_id` to answer with. With a plan that
allows it TLC finds each of them.

Every safety property, action property and refinement of a passing run is a
theorem. Only model-checked: all liveness (`RequestsAnswered`, `EventsSettled`,
`CleanupsFinish`, `AcceptedIsServed`, `IndicatorsGoOff`, `DraftsGetThrough`), as
TLAPS does not handle `ENABLED` and with it fairness; and that `Detach` is
`Vec::retain` (`DetachIsRetain`), which is checked on small lists, as
`Remove` is a `SelectSeq`, a recursion over the list. The proofs use only that `Detach` removes the
connection and keeps the rest, each once (`DetachProperties`). The properties of
the violation runs and of the other reproductions are refuted, not proved.

## Plan

Modelled and checked: every module above. Proved: every safety property and
refinement the passing runs check. Left, should the code grow:

1. Consequences of the abstract specifications (`EventBus`, `ChatLog`,
   `ChatBook`) proved on them alone, for whoever builds on them.
2. One specification that composes `Sessions` with the methods of `Messages` and
   `Chats`; today they meet in the interfaces named under Modules.

## Not modelled

- Inside the media tools (ffmpeg, mozjpeg): only the outcomes of
  `generate_thumbnail` appear, in `BlobStore`.
- Table creation and the start of the database session, error types and texts,
  serde types: no state, or state nothing depends on.
- The text of drafts: one upsert and one read per key. `fetch_self`,
  `fetch_users` and `fetch_user` are single queries (`fetch_user` by username
  selects four columns and decodes five, `user.rs:499-507`).
- The width of the sum in `validate_range` (`validate.rs:67`): it overflows an
  `i32` for a start below -1 and an end near the limit, from no other
  (`WindowsFit`); the models count in integers.
- Names, colours, photos and bios of users and chats; hashing of passwords.
- Tests, examples and the benchmark are clients.
