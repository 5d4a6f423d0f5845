# HTTPServer-AIApps: a TLA+ verification project

The repository is an HTTP server framework on muduo (`src/HttpServer/`) and a
chat application built on it (`src/AIApps/ChatServer/`). This directory models
its stateful core in TLA+, checks the models with TLC and proves part of what
they show with TLAPS. Paths below are relative to `src/`; "AIApps" stands for
`AIApps/ChatServer`.

Every model is written from the code. Where a comment or a document says
something else, the code is what is modelled, and the difference is a finding.

## 1. The system

| Component | State it keeps | Operations | Modelled in |
|---|---|---|---|
| Database connection pool (`utils/db/DbConnectionPool.cpp`, `MysqlUtil.h`) | `connections_`, `initialized_`, `mutex_`, `cv_` | `init`, `getConnection`, the deleter of its result, the check thread | `DbPool`, `ConnLease` |
| HTTP connection and parser (`http/HttpServer.cpp`, `HttpContext.cpp`) | per connection: input buffer, `state_`, `request_`, `parseErrorStatus_`; muduo's connection state | `onMessage`, `parseRequest`, `onRequest`, `handleRequest` | `HttpConn`, `HttpExchange` |
| Message queue (AIApps `AIUtil/MQManager.cpp`) | the broker's queue and deliveries, `stop_`, workers | `publish`, `start`, `worker`, `shutdown` | `MsgQueue` |
| Chat history (AIApps `AIUtil/AIHelper.cpp`, `ChatServer.cpp`) | `AIHelper::messages` of a session, the table `chat_message` | `chat`, `addMessage`, `restoreMessage`, `readDataFromMySQL` | `ChatHistory` over `MsgQueue` |
| Database connection (`DbConnection.cpp`) | the JDBC connection, its mutex | `ping`, `reconnect`, statements | as outcomes, in `DbPool` |
| TLS connection (`ssl/SslConnection.cpp`, `SslContext.cpp`) | `state_`, `readBio_`, `writeBio_`, `pendingPlain_`, decrypted buffer | `onRead`, `send`, `onWriteComplete`, `handleHandshake` | `TlsConn` |
| Sessions and login (`session/*.cpp`, AIApps login and logout handlers) | `sessions_`, the data of a session, `onlineUsers_` | `getSession`, `save`, `load`, `setValue`, login, logout, expiry | `LoginSessions` |
| Router (`router/Router.cpp`) | exact tables, buckets of patterns | `register*`, `addRegex*`, `route` | `Router` |
| Middleware chain, CORS (`middleware/`) | the list, `requestOrigin_` | `before`, `after`, preflight | `Dispatch` |
| Registration and passwords (AIApps register and login handlers, `PasswordHash.cpp`) | the table `users` | `insertUser`, `queryUserId`, `hashPassword`, `verifyPassword` | `Accounts` |
| Chat directory (AIApps chat handlers) | `chatInformation`, `sessionsIdsMap`, two mutexes | send, create-and-send, list, history, the start | `ChatDirectory` |
| Images, speech, base64 (AIApps) | `ImageRecognizerMap` | upload, `synthesize`, `base64_encode`, `base64_decode` | `Media`, `Base64` |
| Model strategies, tools, prompts; pages, files | none that outlives a call | text, calls to services | no |

How they interact. muduo's IO threads (`setThreadNum(4)`) run `onMessage` of
the connections they own; a request goes through parser, middleware, router and
handler synchronously, and the handler blocks its IO thread in
`getConnection()`, in the call to the language model and in
`MQManager::publish`. Two queue workers consume the INSERT statements that
`addMessage` publishes and run them through the same connection pool. The
check thread of the pool shares its queue with all of them. A restart reads
the table into memory before the workers are started.

What is hard in it:

- *Concurrency.* The pool's condition variable and its overtaking newcomers; a
  check thread that sleeps with the mutex held; two requests of one session in
  `chat()` without a lock; two workers inserting in any order; `onlineUsers_`
  read outside its mutex; one `requestOrigin_` for all IO threads.
- *Failure.* `createConnection`, `ping`, `reconnect`, statements, `publish` and
  the request to the model all throw; each exception passes a different piece
  of half-done work. A worker that throws is gone for good. The broker delivers
  again what was not acknowledged.
- *Ordering and pieces.* TCP cuts a message anywhere and the parser's state
  survives between the pieces; bytes still arrive after a half-close; the rows
  are not inserted in the order in which they were said.

What makes each component correct: the pool loses and doubles no connection and
never leaves all its callers asleep; a connection answers each message once, as
the client meant it, and refuses what it must; over TLS its bytes leave and reach
the application in order and none stay behind; a message the broker took becomes
a row, doubled only by a redelivery; the history is the dialogue, and a restart
brings it back; a client acts as the user whose password it proved; a request
gets the handler, the parameters and the origin that are its own; a name has one
account, which its password opens; a chat has one history object, and whoever
made it finds it in the list. `PROJECT.json` lists the hazards, each at its line,
with the properties that watch it, or the reason why none does.

## 2. The modules

### `DbPool.tla`: the connection pool

`connections`, `initialized` and `mutex` are the fields of the same names;
`created` collects what `createConnection()` opened. Each thread that calls
`MysqlUtil` has a place `pc` and the connection `conn` it took.

Granularity. Every access of `connections_` happens under `mutex_`, so a
critical section of a caller is one action, enabled while the mutex is free:
`Wait`, `NotInitialized` and `Take` are the three ways through the loop of
`getConnection`, `Return` is the deleter and `ReturnAfterThrow` the catch block.
Two critical sections last long and are split: `init()` opens connection after
connection and may throw between two of them, and the check thread sleeps a
second while it holds the mutex when the queue is empty. What runs outside the
mutex (ping, reconnect, the statement) are steps that end well or badly. A waiter
may also wake up without a notification, as the standard allows. The woken
caller competes with newcomers for the mutex.

`ConnLease.tla` is what the pool promises: a connection that exists is leased to
one caller at a time, released before it is leased again, and never disappears.
`DbPool` implements it with `made <- created` and `lease <- conn`.

### `HttpConn.tla`: one plain TCP connection

Bytes are abstracted to atoms: a line with its CRLF, or one byte of a body.
Because `findCRLF` fails on a line whose CRLF is missing and nothing moves, part
of a line is for the parser a line that has not come. `Receive` delivers any
number of atoms and enters `parseRequest`; each iteration of its loop is an
action named for its branch (`RequestLineOk`, `HeaderLine`, `BlankThenBody`,
`BodyComplete`, `NeedMore`, ...), and no other step of the connection interleaves:
the IO thread owns it. `Handle` is `onRequest` with `handleRequest` and the
`context->reset()` after it. The routes and handlers behind it are a choice of
`Outcomes`: what a handler, the 404, the 500 and the preflight can leave in the
response's status and `closeConnection_`. Paths, query strings and the layout of a response are left out.

`HttpExchange.tla` is what a connection promises to a client that waits for its
answers: each message is answered once; the application gets a well-formed one
once, as it was written; a malformed one is refused with its status and ends the
exchange. Where a message is refused before its end, its remaining bytes are still
on their way, and the abstract specification promises nothing about them (`Stray`):
the code parses on. Answers to that client are still checked by `AnswersMatch`.

### `MsgQueue.tla`: publishing and the workers

The broker is external and is modelled as `MQManager.cpp` uses it: a confirmed
publish, a durable queue, manual acknowledgement, a prefetch of one; what a
closed channel had not acknowledged returns to the head of the queue, later and
marked as redelivered. A worker connects, consumes, inserts, acknowledges. `Die`
is any exception: the `try` surrounds the loop, so it ends the worker, and the
insert that threw may have been committed. `Crash` and `Start` end and restart
the process.

### `ChatHistory.tla`: one session's history

Extends `MsgQueue`, whose messages are now the entries of the history. `chat()`
runs without a lock, so every access of `messages` is a step: push, publish, push
of a temporary prompt, the request, `pop_back`. `Throw` leaves `chat()` where the
code can. `ProcessCrash` loses the memory, and `BeginRestore`, `RestoreMessage` and
`Boot` are `readDataFromMySQL` (`ORDER BY ts`, ties in any order) and the start
that follows.

### `LoginSessions.tla`: sessions and logins

`sessions` are the ids in `MemorySessionStorage`, `data` the map of each Session
object, `online` is `onlineUsers_`, `cookie` what each browser keeps. A session id
stands for the object created with it, since a handler can hold one the storage has
dropped. Steps: `getSession`, `updateSession` and `destroySession` whole, as they hold
`SessionManager`'s mutex; each access of `data_` and of `onlineUsers_` alone, as they
hold none (only the writes of `onlineUsers_` do). So `setValue` is `WriteField` and then
`SaveSession`, and a late save puts a destroyed session back. `CheckOnline` reads a map
another thread may be changing: then it may see either. The handlers that need a login
are one: isLoggedIn, userId, username, read one after the other. `proved`, `acted`,
`ended` and `shared` are history variables.

What holds is isolation between clients (`ActsAsProved`), and for sessions that only one
handler has at a time a consistent identity (`OneIdentity`) and a final logout
(`LogoutIsFinal`). What `onlineUsers_` is for does not hold: finding 3. Neither is an
account freed when its session expires or its logout has a body that is no JSON: the
model has these steps, no line of the repository promises otherwise.

### `TlsConn.tla`: one TLS connection

`state`, `pending`, `decrypted`, `readBio` and `writeBio` are the members of
`SslConnection`; the BIOs hold records. Of what muduo was given, `wire` is the handshake
records and `plain` the application data; their places relative to each other are left
out. OpenSSL and the client are external: OpenSSL takes whole records, writes any part of a plaintext
(`SSL_MODE_ENABLE_PARTIAL_WRITE`) and wants input only while a renegotiation waits
for the client. One IO thread owns the connection, so a callback runs to its end; `pc`
says where it is. `Receive` and `WriteComplete` begin a callback, `Handshake*`,
`Read*`, `Serve`, `Write*` and `Drain*` are the branches inside, one library call
each, and any library call may fail (`MaxFaults`). `Init` has the outcomes of
`SslContext::initialize`: one call that fails leaves every connection closed.

### `Router.tla`, `Dispatch.tla`: from a request to its handler

`Router` is pure: the four maps, `Register` for the four registrations, the static
prefix of a pattern, the prefixes of a path, `Route`. A path is the sequence of its
segments. `Meant` is the reference: of exact routes the last registered, handlers
before callbacks; then of the patterns that match the one with the longest literal
prefix, and of these the first registered. It says one thing a user of the framework
would not guess: a pattern that begins with a parameter ("/:id") is never found,
since its bucket "/" is among the prefixes of the path "/" only.

`Dispatch` is `handleRequest` on several IO threads. A program first registers its
routes, one after the other (`RegisterRoute`), and then listens (`Listening`); a restart
does it again. Then `Receive`, `Before` (the one middleware of the program, with its one `requestOrigin_`, and the preflight answer),
`FindRoute`, the handler, `After`. The locks of chain and router are shared locks,
held throughout and never taken for writing while the server listens. Handlers are
in the modules that follow: each begins where `FindRoute` sends a thread, and ends
with `Respond` or `Throw` (the 500, which skips `After`).

### `Accounts.tla`, `ChatDirectory.tla`, `Media.tla`, `Base64.tla`: the handlers

`Accounts`: `users` is the table. Each statement is a step and may throw; between
`isUserExist` and the INSERT, and between the SELECT of a login and the UPDATE with
the upgraded hash, other threads run. A stored password is a record of its format
with hexadecimal strings of nibbles, taken apart again by `VerifyPbkdf2` and
`VerifyLegacySha256`; the hash functions are external.

`ChatDirectory`: `chats` is `chatInformation` (which AIHelper object each session id
has), `nodes` is `sessionsIdsMap`, `rows` the table `chat_message`. What runs under
`mutexForChatInformation` is one step, except the one use of `sessionsIdsMap` under
it, which is two, because `/chat/sessions` uses the map under another mutex:
`Create` and `PushId` against `FindIds` and `CopyIds`. Two insertions of a user's node
that overlap leave two nodes. `RestoreDirectory` is `readDataFromMySQL`, which a
failing query leaves without chats.

`Media`: `recognizers` is `ImageRecognizerMap`; `GetAccessToken`, `CreateTask`, `Query`
and `GiveUp` are `synthesize`. `Base64` has both directions, a chunk at a time; which
chunk a character or a byte belongs to is said by its position (`PieceOf`, `Within`), not
by a loop, so that the module can be proved about. An upload (`IsUpload`) is the base64 of
some bytes, padded or not, or text that is none; a request carries the bytes beside the
text, for `ImageAsSent` to compare.

`ChatApp.tla` composes them with `Dispatch`: `initializeRouter` (`ChatRoutes`), the
threads, and `Restart`, after which only the two tables are left. `created`,
`overlapped` and `loaded` are history variables. The user of a request is given with
it; how it follows from a cookie is `LoginSessions`.

### Variants

Some modules hold operators introduced by a comment "Variant": the
definition after them with a plausible bug in it (a missing pop, notification,
reset or acknowledgement, an off-by-one). No specification uses them. Replacing the
definition by its variant makes the property paired with it in `PROJECT.json`
fail: this is how each property is known to depend on the code.

## 3. What is checked

| Run | Instance | Shows |
|---|---|---|
| `db_pool` | 4 callers, 2 connections, pool of 2 | `TypeOK`, `Conservation`, `NoLostWakeup`, the refinement `LeaseSpec`; live: `WaitersServed`, `Returned` |
| `http_conn` | 25 messages, 3 in a connection, body limit 2 | `AnswersMatch`, `NeverSpins`, the refinement `ExchangeSpec`; live: `EveryMessageAnswered`, `ParseEnds` |
| `msg_queue` | 3 messages, 2 workers, 2 faults | `NoLoss`, `DuplicatesAreRedelivered`; live: `EventuallyStored` |
| `chat_restart` | 1 thread, 2 calls, 2 workers, 1 crash | `SequentialDialogue`, `RestartKeepsDialogue` |
| `chat_faults` | 2 threads, 2 calls, 1 exception, 1 crash | `ChatTypeOK`, `OnlyDialogueStored` |
| `login_sessions` | 2 clients, 2 accounts, 3 ids, 2 threads, 5 requests | `LoginTypeOK`, `ActsAsProved`, `OneIdentity`, `LogoutIsFinal` |
| `tls_conn` | 3 requests, 2 at a time, 2 pieces a response, 2 renegotiations, 1 fault, spin limit 3 | `ResponsesInOrder`, `RequestsInOrder`, `NothingLeftUnread`; live: `PendingLeaves` |
| `chat_app` | 2 IO threads, 68 programs, at most 4 requests of the chat server's kinds, 1 restart, 1 failing statement | `RouteAsRegistered`, `OwnOrigin`, `OwnerCanLogin`, `AnsweredAccountIsOwn`, `OneHelper`, `CreatedIsListed`, `DirectoryConsistent`, `ImageAsSent` |
| `method_set_once` | finding 1 | the assertion of `setMethod` fails |
| `even_user_odd_ai` | finding 2 | the parity of the subscripts is lost |
| `one_login` | finding 3 | an account logged in twice, the second time with a 403 |
| `tls_stall` | finding 4 | a request that came with the end of the handshake is never read |

Why the bounds are enough. *Pool:* with more callers than connections some wait
while others hold, return and overtake; four callers leave two asleep at once, so
that a notification can go to either, and `init()` can throw after none, one or
both connections. *HTTP:* a message after a served one, after a kept-alive one and
after a refused one; a limit of 2 makes a length of 0, below, at and above it
possible. *Queue:* two faults are a death of each worker, or a death and a crash;
three messages keep one in the queue while both workers hold one. *Chat:* two calls
are the least that interleave, or that follow one another over a restart. *Login:* five
requests are a login, a logout, another client's login and two requests with stale
cookies, and three ids leave one for each of them; names of a kind are interchangeable, so
the run uses their symmetry. *TLS:* two requests at a time put a second response behind
a first that waits; two renegotiations interrupt a response and its rest; three pieces of
work reach the spin limit. *Application:* four programs of the chat server, one for
accounts, one for chats, one for media and one for CORS, each with the requests that
share state, since the state of the four is disjoint; two threads are the least that
interleave, and three or four requests are two that make a chat, one that uses it and one that lists.
A generated session id comes twice, as `now ^ rand()` allows. The other 64 programs are
all pairs of eight routes (exact, with a parameter early, late and in the middle, as
handler and as callback, and a pattern without parameter), in both orders, asked for
paths with and without trailing slashes and empty segments. `MCChatApp` also evaluates,
as an assumption, that text wrapped into lines is decoded to what was encoded. Named bounds: `MaxMessages`, `MaxFaults`, `MaxCalls`,
`MaxClock`, `MaxErrors`, `MaxRequests`, `Sessions`, `Window`, `MaxRenegs`, `MaxDbErrors`,
`GeneratedIds`, `MaxRestarts` and the `max` of a program; they bound
the environment (how often it sends, fails, calls), never a reaction of the code.

Fairness. *Pool:* threads run on (weak), and a thread that wants the mutex while
it is free again and again gets it once (strong). Weak fairness would not do: with
an empty queue the check thread unlocks and at once locks again. That a
mutex with such a neighbour is granted at all is an assumption about the
implementation of `std::mutex`, and `WaitersServed` rests on it. Nobody is forced to
call, no waiter wakes by itself, `init()` need not begin. *HTTP:* TCP delivers and
the IO thread finishes its callback; no client need send or close. *Queue:* workers,
the broker and the restart make progress; `EventuallyStored` says what it cannot
have: after a shutdown, or once every worker has died, a message stays in the queue.
*TLS:* muduo makes its callbacks, each runs to its end, TCP delivers, and a client that
began a handshake ends it; no client need send. `chat_app` has no liveness property and
assumes no fairness.

Deadlock is checked for the pool. In the other runs the system may stop: no
client sends, the bounded calls are used up, or all workers are gone.

## 4. What is proved

Each theorem is about the specification for every value of its constants; what it
assumes is named. A module of proofs begins with the invariant, then has one lemma
for each part and step, then the theorems. `SeqLemmas` has what several of them
need about sequences.

`DbPool_proofs.tla`, for any finite set of callers, any set of connections and any
pool size of at least 1 (`UsersAssumption`, `PoolSizeAssumption`):

- `DbPoolTypeOK`: `Spec => []TypeOK`. Inductive as it stands.
- `DbPoolConservation`: `Spec => []Conservation`. Conservation alone is not
  inductive: a new connection could be one that is queued already. The invariant
  `IInv` adds `Opened`, that whatever is queued or held has been created. `Moves`
  shows that only `InitPush`, `Take` and the two pushes touch these variables, and
  there is one lemma for each.
- `DbPoolNoLostWakeup`: `Spec => []NoLostWakeup`. It counts: a push adds one
  connection and wakes one more caller if there is one; a pop takes a connection
  and at most one woken caller; a caller goes to sleep only on an empty queue. The
  pushes of `init()` notify nobody: `NoEarlyWaiter` and `InitBeforeDone` say that
  nobody waits before `initialized_` is set, and that `init()` pushes only before.
- `DbPoolImplementsLease`: `Spec => LeaseSpec`, each step of the pool an `Open`, an
  `Acquire`, a `Release` or a stutter, from `IInv`.

`MsgQueue_proofs.tla`, for any messages, any workers and any bound on the faults
(`NoneAssumption`, `MaxFaultsAssumption`):

- `MsgQueueTypeOK`: `Spec => []QueueTypeOK`. It needs `DownGone`: a process that is
  down has no workers, so that the workers of `start()` begin without a message.
- `MsgQueueNoLoss`: `Spec => []NoLoss`. The acknowledgement is the one step that
  takes a message away; `AckAfterInsert` says that its row is there. `CloseKeeps`
  is the lemma about channels that close.
- `MsgQueueDuplicates`: `Spec => []DuplicatesAreRedelivered`. The invariant `DInv`
  says where a message can be that never went back to the queue: at one place, once
  (`OncePlaced`); if its row exists, only with a worker about to acknowledge it, or
  with a channel that closed (`OnceInserted`); and a message that was not accepted
  is nowhere (`Known`), so a publish adds a new one.

`ChatHistory_proofs.tla`, for any threads, workers and bounds (`ChatAssumption`):

- `ChatTypeCorrect`: `ChatSpec => []ChatTypeOK`.
- `ChatIsQueueUser`: every behaviour of the chat is a behaviour of `MsgQueue`, whose
  messages are the entries: each step of a handler is a publish, a fault or a
  stutter of the queue. So what is proved of the queue holds of the history, and
  `ChatNoLoss` is `MsgQueueNoLoss` carried over.
- `TableHoldsDialogue`: `ChatSpec => []OnlyDialogueStored`. No temporary prompt and
  nothing that was not said becomes a row: whatever the broker accepted was said
  (`AcceptedSaid`), and the rows are among what it accepted.
- `RestartRestoresDialogue`: `ChatSpec => RestartKeepsDialogue`, an action property. The hard
  part is `ORDER BY ts` over rows that workers inserted in any order: `Chronicle`
  says that the history carries times that never decrease, `Restored` that a restart
  that has read k rows has read the first k entries. That all rows were read in the end is a pigeonhole argument.
- `DialogueAlternates`: `ChatSpec => []SequentialDialogue`, from `Alone`: while no two
  calls overlapped and none failed, one call at most is inside `chat()`, and the
  history ends as far as that call has come.

`HttpConn_proofs.tla`, for any messages as a client may write them and any bounds
(`BoundsAssumption`, `MessagesAssumption`):

- `TypeCorrect`: `Spec => []TypeOK`.
- `ParserNeverSpins`: `Spec => []NeverSpins`: a round of `parseRequest` that reports
  neither an end nor an error has taken something from the buffer.
- `AnswersAreRight`: `Spec => []AnswersMatch`. The invariant relates the parser's
  state to the message being sent: while the connection is open, the bytes not yet
  parsed, in the buffer and on their way, are exactly what is left of the one message
  without an answer. Once it is closed, either a message was refused half-way and its
  rest is promised nothing, or nothing more is handed over: the refused line is met again
  (`MetAgain`), what follows has no line in it (`NoLine`), or nothing comes (`Silent`).
- `ImplementsExchange`: `Spec => ExchangeSpec`, each step of the parser an accept, a
  refusal, an answer or a stutter of `HttpExchange`.

`TlsConn_proofs.tla`, for any number of requests, renegotiations and faults, any
window, length of a response and spin limit (`TlsAssumption`):

- `TypeCorrect`: `Spec => []TlsTypeOK`.
- `ReadsEverything`: `Spec => []NothingLeftUnread`. Between callbacks the read BIO of an
  established connection is empty unless `HandshakeDone` was the last to run.
- `RequestsAreInOrder`: `Spec => []RequestsInOrder`. What the application got, what is
  decrypted, what is in the read BIO and what is on its way are one sequence cut in
  four, and it counts up from 1 (`RequestFlow`); a record may be missing from it only
  where nothing is read any more.
- `ResponsesAreInOrder`: `Spec => []ResponsesInOrder`. The same for the way out
  (`ResponseFlow`): what muduo was given, what is pending and what `send` still has to
  write are what the handlers gave, cut in three; where a rest is thrown away,
  nothing is written afterwards.

`LoginSessions_proofs.tla`, for any clients, accounts, session ids and IO threads, and
any number of requests (`LoginAssumption`: `None` is no id and no account):

- `LoginSessionsTypeOK`: `Spec => []LoginTypeOK`. The invariant `TInv` adds what an id
  means that was not generated: it is in no cookie, in no request and holds no data.
- `LoginSessionsActAsProved`: `Spec => []ActsAsProved`. A client *knows* an id if its
  cookie or one of its requests has it (`Knows`). `OneKnower` says that no two clients
  know the same id, `DataProved` that what a session holds was proved by whoever knows
  it, `AccountProved` the same of the account a handler has read. Only `CreateSession`
  makes an id known, and it takes a new one; only `WriteField` puts an account into a
  session, and its client has just proved it. Every other step knows less
  (`LessKnown`) or the same (`Quiet`). `NewIdReused` is what breaks it.
- `LoginSessionsLogoutIsFinal`: `Spec => []LogoutIsFinal`. For a session that no two
  handlers had together (`OneHolder`), the logout that destroys it has cleared it
  (`ClearedFirst`), and afterwards nobody is left who could write or store it
  (`EndedGone`).
- `LoginSessionsOneIdentity`: `Spec => []OneIdentity`. `Agreement` says when the userId
  and the username of such a session can differ: between the first two writes of a
  login (`Halfway`), and then the login is its one handler.

`ChatApp_proofs.tla`, for any programs whose routes and requests fit together
(`ProgramsAssumption`: a request that is routed to a handler carries what this handler
reads), any threads, accounts and generated ids, any CORS configuration
(`AccountsAssumption`):

- `AppTypeCorrect`: `Spec => []AppTypeOK`, from `ThreadsOK`: at each place a thread has
  the fields its handler has set until then.
- `RoutesAreAsRegistered`: `Spec => []RouteAsRegistered`, for any routes in any order.
  After each registration (`RegisterKeeps`) an exact map holds the last target of a key,
  and a bucket the routes of its key in their order (`TableOK`). The static prefix of
  a pattern that matches a path is one of the path's keys, at a place that is the
  earlier the more literals the pattern begins with (`KeyOfPattern`, `PlaceOrder`);
  so the first match in the first bucket that has one is the route meant (`SearchIs`), and
  the four maps in their order give `Meant` (`RouteIsMeant`). What a thread has found stays
  that of its request until it receives the next (`Routes`).
- `OriginIsOwn`: `Spec => []OwnOrigin`. While no other `before()` has run since its
  own, `requestOrigin_` is the origin of the thread's request (`Origins`).
- `OwnersCanLogin`: `Spec => []OwnerCanLogin`. `AccountsOK`: a stored password, in
  either format, is the one its owner chose, and an upgrade of the hash that is under way
  writes the password that was just verified. That `fromHex` undoes `toHex` is proved, so
  a stored digest is taken apart into what was put together.
- `AccountIsOwn`: if user names are unique (`UniqueNames`), `Spec => []AnsweredAccountIsOwn`.
- `HelperIsOne`: `Spec => []OneHelper`. Whoever uses an `AIHelper` found it in the map or
  put it there, and nothing replaces it before a restart (`Helpers`).
- `CreatedStaysListed`: `Spec => []CreatedIsListed`, from `Lists`: a listing has the
  `shared_mutex` or not (`Mutexes`), and what it found is the user's one node unless
  it overlapped an insertion (`Found`, `Listing`).
- `DirectoryAgrees`: `Spec => []DirectoryConsistent`, from `Stored`: for every chat
  with rows there is an entry of the directory, or no restart has read them yet. The
  restart reads the rows in an order of their times; that there is such an order of any
  finite set is an induction over its size, done with the library's well-founded
  induction for one fixed set (`Least`).

- `ImagesAreAsSent`: `Spec => []ImageAsSent`, from `Images`: a thread that decodes works
  on an upload, and has the bytes of its request afterwards. Under it is arithmetic: a
  byte is put together from the characters it was spread over (`FirstByte`,
  `SecondByte`, `ThirdByte`), so every chunk decodes to its bytes (`ChunkRoundTrip`), the
  chunks of a text are those of the bytes whether its last one is padded or short
  (`DecodesText`, `EncodeDecodes`), and text that is no base64 is an exception
  (`MalformedFails`). It needs `ErrorAssumption`, that an exception is no sequence, and
  the part of `ProgramsAssumption` that says what an upload is: a text that is neither
  the base64 of something nor malformed before any padding (padding in the middle,
  say) is not among the requests.

Why not inductive as stated: every one of these properties speaks of an end (a row, an
answer, a listing), and what makes it true is decided many steps before. The named parts
of the invariants say what each place in between must keep.

Only model-checked is all liveness (`WaitersServed`, `Returned`, `EveryMessageAnswered`,
`ParseEnds`, `EventuallyStored`, `PendingLeaves`): fairness and `ENABLED` are beyond the
prover.

## 5. Findings

1. `HttpRequest::setMethod` asserts that the method is unset. `processRequestLine`
   sets it before it checks the version. A request line with a known method and an
   unknown version, followed by more of the message in a later segment, runs it
   twice: the process aborts.
2. The speaker of a message is told by the parity of its subscript (`AIHelper.h:66`).
   An exception between question and answer leaves the question behind and shifts
   the parity of everything after it, in memory and after restarts.
3. The login handler marks the session `isLoggedIn` before it looks whether the account
   is online. The client that is told "Account already logged in elsewhere" with a 403 is
   logged in, and its logout frees the account under the first client.
4. In state `HANDSHAKE`, `SslConnection::onRead` feeds all bytes to OpenSSL and returns after
   the handshake without `SSL_read`. A request that came in the same segment as the end of the
   handshake (a resumed session, False Start) stays unread until the client sends more.

## 6. Assumptions and what is left out

- A client sends one request, waits for its response and sends the next, as the
  repository's README assumes: pipelining is not handled and not modelled.
- A body is as long as announced when it is accepted, contains no CRLF where a line
  is looked for, and a header is not repeated.
- Assertions are compiled in: no CMake file sets a build type or `NDEBUG`.
- Data races on C++ objects (a copy of `messages` during a `push_back`; `ping` during
  a statement; two handlers in the `data_` of one session) are undefined behaviour; they are listed as hazards and not modelled.
- The process's regular end (the pool's destructor, the workers' join) is left
  out: `server.start()` does not return.
- OpenSSL: a memory BIO is never full, so an `SSL_write` or `SSL_read` that wants something
  waits for a record of the client; renegotiation is the only cause of that for
  `SSL_write`. After the client's close_notify `SSL_write` may go on or return
  `SSL_ERROR_ZERO_RETURN`, as the version has it.
- The repository has no schema. `UniqueNames` says that `users.username` has a unique key;
  without it two registrations at once make two accounts of one name, since the code has
  nothing else against it.
- Requests that overlap in two threads may answer with each other's `requestOrigin_`:
  `OwnOrigin` excepts them by name. README.md:170 of the repository says the chain is
  locked; the lock is for its list.
- A listing that found no node for a user while another thread made one may hide the
  user's chats: `CreatedIsListed` excepts it by name. A rehash of the map during that
  search is a data race without an outcome to model.
- Literal segments of routes hold no characters with a meaning in a regular expression.
- Not modelled: the model strategies, tools and prompts (texts for external services;
  what their failures do to the history is in `ChatHistory`), pages and files (input and
  text), the vendored SimpleAmqpClient, and functions without a caller
  (`AISpeechProcessor::recognize`, `ImageRecognizer::PredictFromFile`,
  `cleanExpiredSessions`). The inside of ONNX Runtime, OpenSSL's hashes and the speech
  service is external.

## 7. Plan

What is left: a shorter way to the parts of `ChatApp`'s invariant that every handler
leaves alone.
