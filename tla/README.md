# bacsy in TLA+

TLA+ models of `bacsy`, the asyncio client of a brokerage's trade API
(`src/src/bacsy/`), with TLC configurations that check them on small instances
and proofs checked by TLAPS. The modules are written from the code; a comment
above each definition names what it stands for, and `PROJECT.json` gives the
lines.

## The system

Everything runs in one asyncio event loop per process. Tasks interleave only at
an `await`, so an action of a model is the code from one `await` to the next.
What makes the library hard is what happens *between* two awaits of one task:
other tasks, cancellations, a clock that moves, servers that answer or do not,
other processes that write the same files.

| Part | State it keeps | Operations | Correct when |
|---|---|---|---|
| Rate limiter (`ratelimit/`) | tokens, last refill, end of the block, an asyncio lock | `acquire`, `penalize` | bursts stay within capacity and rate, blocks hold, nobody waits for ever |
| HTTP transport (`http.py`, `retry.py`, `routes.py`, `exceptions.py`) | the attempt and token of each request | `request`, `call` | orders are never placed twice, an error tells what happened, sends are bounded |
| Token provider and caches (`auth/`) | the access token per scope, rejected refresh tokens, memory and file caches | `get`, `invalidate`, cache `get`/`set`/`delete` | dead tokens are not sent again, the least privileged token serves, a token that was invalidated stays away |
| Private files (`_util/files.py`) | a file, its lock, threads of the executor | lock, read, replace | no update is lost, readers see whole files, writers take turns |
| WebSocket connection (`ws/connection.py`) | state, socket, reader task, bounded queue | `start`, `next_frame`, `aclose`, reconnects | one socket, ordered frames, no silent gap, a lasting end, a close that returns |
| Market-data stream (`ws/market_data.py`) | the registry of subscriptions | `subscribe_*`, `unsubscribe_*`, `resubscribe` | the server is told what the registry holds |
| Stream base and factory (`ws/stream.py`, `ws/factory.py`) | open streams, connections counted per service | stream constructors, `aclose` | the count is exact and within the caps, what is left is given back |
| Client and credentials (`client.py`, `credentials.py`) | the streams, the connection pool it may own | `from_account`, `from_refresh_token`, `from_access_token`, `aclose` | the pool outlives the streams and is given up with the client, a given one stays open |
| Typed services (`api/`) | pages and chunks of a call under way | `search`, `iter_*`, `get_by_type`, `lookup`, orders | nothing missed or repeated, the classes are those promised |
| Data models (`models/`) | tables of wire keys, tags and codes | validate, dump | a record keeps the keys its class reads, each in its place, a dump reads back, a date is its day |
| Accounts (`accounts/`) | the accounts file: tokens and their dead marks | `create`, `update`, `delete`, `add_token`, `remove_token`, `rename`, `prune`, `mark_dead`, `verify` | operations of several processes keep each other's changes, a mark is not lost |
| Command line (`cli/`) | what a command has read | `accounts` and `tokens` commands | what it learnt early does no harm late; reports, advice and exit codes tell the truth |

They interact as follows. A request first waits for its service's bucket, then
asks the provider for a token; a 401 makes it invalidate the token and ask
again; a 429 penalises the bucket. The provider reads and writes the cache file
and, when a refresh token is refused, marks it dead in the accounts file. A
WebSocket connection asks the same provider on every handshake, so a client has
to close its streams before its pool. Processes share nothing but the two files.

The hazards found in this code, each at its line, are listed in `PROJECT.json`;
the properties below are aimed at them.

## Modules

| Module | Models | Checked by | Proved in |
|---|---|---|---|
| `RateBudget` | what a limiter promises: admissions that fit a budget | via `TokenBucket` | |
| `TokenBucket` | `ratelimit/bucket.py` | `MCTokenBucket` | `TokenBucketProofs` |
| `WebSocketConnection` | `ws/connection.py` | `MCWebSocketConnection` | `WebSocketConnectionProofs` |
| `AccessTokens` | `auth/provider.py` over `auth/cache.py` | `MCAccessTokens` | `AccessTokensProofs` |
| `AtomicFile` | what a private file promises: updates that take effect at once | via `PrivateFile` | |
| `PrivateFile` | `_util/files.py` | `MCPrivateFile` | `PrivateFileProofs` |
| `MarketData` | `ws/market_data.py` with `send_json` of `ws/connection.py` | `MCMarketData` | `MarketDataProofs` |
| `StreamFactory` | `ws/factory.py`, `ws/stream.py` | via `Client` | `ClientProofs` |
| `Client` | `client.py`, `credentials.py` over `StreamFactory` | `MCClient` | `ClientProofs` |
| `Accounts` | `accounts/manager.py` and the commands of `cli/` over it | `MCAccounts` | `AccountsProofs` |
| `ApiHttp` | `http.py`, `retry.py`, `routes.py`, `exceptions.py` | `MCApiHttp` | `ApiProofs` |
| `Errors` | `exceptions.py`, `auth/keycloak.py` | via `Commands` | |
| `RefreshTokens` | `auth/tokens.py`, `auth/_jwt.py`, `credentials.py` | via `Commands`, `Client` | |
| `AccountsFile` | `accounts/store.py`, `accounts/models.py` | via `Commands` | |
| `CommandLine` | `cli/_views.py`, `cli/_advice.py` | via `Commands` | |
| `Commands` | the commands of `cli/accounts.py` and `cli/tokens.py` over all of these | `MCCommands` | |
| `Services` | `api/` | `MCServices` | `ApiProofs` |
| `Enums`, `Records` | `models/` | via `Decoding` | |
| `Decoding` | a value that is read, dumped and read again | `MCDecoding` | |

Operators whose name extends that of another and whose comment says *Mutant*
(`RenameAccountOver`, `CancelKeepsLock`, ...) are not part of a model: each is
the definition it extends with a plausible bug, and shows that a property would
notice it.

**TokenBucket.** `queue` is the asyncio lock and its waiters, whose head holds
it; `stage` says where the holder is in `acquire` and `wake` when its sleep
ends. Time and tokens are integers, `Cost` units to a request and one unit
earned each tick, which keeps the code's arithmetic exact. A sleep may end up to
`MaxLate` ticks late, or `MaxEarly` ticks early: asyncio runs a timer that is due
within the resolution of its clock, and a deadline in floats is rounded. The
holder takes its token then without looking again (`bucket.py:57`), and leaves a
debt that the next one waits out.
`Admit`, `Enter`, `WakeFromBlock` and `WakeWithToken` are the stretches of
`acquire` between its awaits. A history of admissions serves `BurstBound`, which
is proved and follows from the budget the run checks.

**WebSocketConnection.** Four tasks share the object: the callers of `start`,
the reader (`ReadFrame`, `PutFrame`, `SocketLost`, `BackoffEnds`, the dial
actions), the consumer (`NextFrame`) and callers of `aclose` (`Aclose`,
`SocketClosed`, `Joined`, `CloseTimesOut`). Frames carry the number of their
socket and their place on it and nothing else. Delays have no length; attempts
are counted, because the delay of an attempt past `LastDelay` is no float any
more and ends the reader (1024 attempts in the code with the defaults, 3 in the
runs). The caller of `start` may be cancelled (`StartCancelled`), which leaves the
socket open when `on_open` was under way, and may start again; another task may
start while it connects (`OverlappingStart`), which opens a second socket or
fails. A socket that nobody reads for either reason is in the history `left`. The
second start ends before the first one does: two reader tasks, when both succeed,
are not modelled.

**AccessTokens.** One process with its memory cache, its copy of the file's
health (`readable`, `writable`) and a FIFO lock; `task` is the place of each
caller. Other processes are the actions `OtherStores` and `OtherDeletes` on the
file. A writer that is cancelled gives the lock file back while its thread goes
on: what it will write is in `late`, and lands at any time (`LateWrite`). An
invalidated token that comes back that way leaves the history `dropped` and has
to be invalidated again. Refresh tokens are a read-only and a read-write one with
expiries; the token endpoint mints, refuses or fails. Their source is asked at
the first `get` (`Resolve`).

**PrivateFile.** Writers run `Begin`, then jobs in the thread pool of their
process (`StartJob`, then `Acquired`, `Read`, `Replaced` or `Released`). A file
is the set of updates it holds. A cancelled task leaves its thread running,
which is what makes cancellation different from failure; `Crash` ends a whole
process and the kernel closes its descriptors.

**ApiHttp.** A request is in one of the places of `_send` and `_send_once`.
The server is what matters to the caller: a success took effect, a rejection
did not, a server error or a lost answer may have. The provider and the limiter
are their promises (`auth/protocols.py`; the limiter may take any time, so a
penalty needs no state here), which `AccessTokens` and `TokenBucket` detail. The
provider keeps a token for each scope, which may be one and the same, and `made`
is the history of those minted for each.
Backoff lengths are not modelled, only that a sleep ends. Success stands for
every status that is not an error.

**MarketData.** A change writes the registry and queues its message in one step;
`pacing` is the send bucket, which lets callers and the `on_open` hook go in the
order they came. `Replay` is what `resubscribe` builds before its first await,
sent in any order; what is unsubscribed while they are on their way is kept in
the history `raced`, and what a cancelled caller did not send in `cancelled`.
The connection is down, open, or open with its socket lost, which
`WebSocketConnection` details; the server keeps the subscriptions of a socket
and forgets them with it.

**StreamFactory.** A stream has an owner (create, `async with`, leave) and may
be closed by tasks in `StreamFactory.aclose` as well, which go through a
snapshot (`left`) of the open streams. Of its connection only the socket and
`_closing` are left: the first close waits, every other returns at once. A close
that waits may never end (`Hangs`), for the two reasons `WebSocketConnection`
has, and cancelling who waits ends it: the `CancelledError` goes to the reader
and is suppressed (`ws/connection.py:267`). Whether
the factory is closed after its owners are done is a choice of the initial state
(`orderly`). `inUse` and `open` are the code's two counts, `uncalled` the
callbacks that have not run.

**Client.** `Assemble` makes the pool and then the provider of a credential,
which the operators of `RefreshTokens` accept or refuse; the closers of
`StreamFactory` are the tasks in the client's `aclose`, which go on to the pool
(`ClosePool`) when they are through with the streams. Every step of a stream is
a step of `StreamFactory` of a client that is there.

**Accounts.** The file is a set of names and a set of token records. An
operation of the manager is one step, since it holds the lock `PrivateFile`
models; a command or a program is several, with the file and the endpoint
changing in between: `task` is what it has read (`AskToken`, then `AddToken`;
`Get`, then `Update`; `List`, then `Prune`; `Verify` or `Use`, then `Exchange`
and `SetMark` for each token). Tokens of one session expire and are revoked
together, as the endpoint's rotation keeps the session (`auth/keycloak.py`).

**Commands.** A process by itself, on the document that the file holds: each
command loads (`Load`), reports, and may save (`Dump`). What `Accounts` takes
as sets is here what the code has: lists in file order, one record for each
stored token, marks with reason and time, the JSON values of every key. A save may
fail, and so may the second look at the accounts that some commands take after it
(`LooksAgain`). A JWT
is its claims and what is wrong with it; a reply of the token endpoint is its
status and the form of its body, classified by `Errors`. `meant` is the history
of what the file is to hold.

**Services.** One call and the server it pages through, which may add a record
at the end (the next of `NewRecords`) or drop any between two requests. A record
is an id, a ticker, its class codes and its type. `Among` picks the records that
are wanted and keeps their order, for the server's filter as for the loops of
`lookup`; it counts places instead of walking the sequence, so that it can be
reasoned about. Orders are refused, or submitted until the caller is satisfied or
gives up; what becomes of one submission is `ApiHttp`.

**Records, Enums and Decoding.** The tables of flat keys (`LISTING`, `ISSUER`,
...), the classes with their fields, the tags and the codes, as the source
declares them. The value of a field is the wire key it was sent under, so that
what lands in a wrong place is seen. Dates are hours since the epoch.

## Runs

| Run | Question | Outcome |
|---|---|---|
| `bucket` | two callers, penalties, cancellations, early and late sleeps | blocks known at entry hold, refines `RateBudget`, every caller is served |
| `stream` | both overflow policies, reconnects with and without limit, cancelled and overlapping starts, timeouts, two tasks in `aclose` | one socket but for what those starts left to nobody, order, no silent gap, an end for every later call, clean close, outages end, `aclose` outlasts everything but a full queue and a handshake it found under way |
| `aclose_hangs` | does `aclose` return? | no, when it is called during the handshake of a reconnect |
| `tokens` | two callers, file trouble, other processes, cancellation, writes of cancelled writers, restarts | dead tokens rest, least privilege, an invalidated token comes back by a late write only while the file can be written, no needless exchange |
| `files` | three writers, two processes, failures, crashes, cancellations | no lost update, refines `AtomicFile`, everybody's turn comes, but for the two cancellations below |
| `http` | two requests, every outcome of every send | writes once, outcomes tell, a refused token is replaced once in each scope |
| `market` | two callers, lost sockets, cancellations, a registry past its limit | once everything is sent the server has what the registry has, but for the two cases below; what was changed while down is sent |
| `client` | every credential, own and given pools, owners of streams, two closers, cancellations | counts are exact and within the cap, the pool outlives the streams, everything is given back, but by a close that hangs or was cancelled |
| `accounts` | two processes, four commands, expiry and revocation | the file can always be loaded, marks are true and reach every copy, no saved token is lost |
| `commands` | any three commands, pasted texts, replies, interruptions, failures before and after the save, damaged files | what was saved reads back, the exit code of `verify` tells the truth, a prune does what was listed and advised, `verify` records what it learnt |
| `services` | page sizes, filters, types, keys, listings that change | nothing missed or repeated, classes as promised, `lookup` is right, calls end |
| `decoding` | every class with all keys of its family and one nobody declares, all but one, one, its own; dates; codes; portfolios | dumps read back, a record keeps the keys its class reads and no other, dates are their days |

The run `aclose_hangs` states what a docstring says and finds it violated; the
finding in `PROJECT.json` quotes it. Other places where the code does less than
one might read into it are exceptions written into the properties:

- `penalize` says it blocks every caller; a caller asleep for its token when the
  block is declared goes through. `KnownBlockServed` is about the blocks known
  when the lock was taken.
- When a connection has given up and is then closed, two ends are queued and
  `next_frame` gives them in turn. `FramesInOrder` says that nothing else
  follows an end.
- `aclose` waits for ever when the reader waits for room in a full queue that
  nobody reads, in `"block"` mode, and when the handshake it found under way
  opens a socket (the run `aclose_hangs`): the cases of `AcloseOutwaitsReader`.
  Neither a stream whose close hangs so nor the pool of its client is given
  back: `HangsIn` in `GivenBack`.
- `WebSocketConnection` "owns one socket". `start` looks for a reader task,
  which there is only after the handshake and `on_open`
  (`ws/connection.py:126`), so a second call meanwhile, or one after a call that
  was cancelled in `on_open`, opens another socket. The one that is then
  nobody's is in `left`, which `OneSocketOpen` and `ClosedMeansClosed` leave
  out.
- `max_attempts = None` "retries forever". The delay of an attempt is
  `base_delay * multiplier ** (attempt - 1)` before it is capped
  (`ratelimit/retry.py:56`), which for attempt 1025 of an outage is an
  `OverflowError` outside the `try` (`ws/connection.py:199`): the reader ends with
  nothing queued and the state `CONNECTING`, and its consumer waits for ever.
  `LaterCallsSeeTheEnd` is about attempts up to `LastDelay`.
- A caller that wakes early takes a token, or passes a block, too early by as
  much: `MaxEarly` in `KnownBlockServed` and in the budget.
- With a cache file that can be read and not written, an invalidated token is
  read back (`auth/cache.py:216`); `InvalidatedStaysDropped` is about files that
  can be written. One that the late write of a cancelled
  writer brought back (`auth/cache.py:132`) is no longer in `dropped`.
- A refused token that served both scopes is replaced once for each:
  `ReplacedOnce` counts by scope.
- A subscription whose message was cancelled stays in the registry until the
  next socket, and an unsubscribe that overtakes `resubscribe` is undone by the
  message built before it: `cancelled` and `raced` in `RegistryServed`.
- An update may be lost when a writer is cancelled in the middle of its write
  (its thread replaces the file after the lock has been given away), and turns
  are promised only when nobody is cancelled while waiting for the lock, which
  is then held until the process ends.
- A stream whose close was cancelled stays counted (`abandoned`), and so does
  one whose factory method raised, until the factory is closed. A close beside
  another that is still under way releases early, which `orderly` rules out. A
  pool stays open when its credential is refused and when the close of its
  client is cancelled.
- `AccountManager.update` overwrites what came in since the entry was read, and
  an acceptance clears a newer mark: the histories `saved` and `reported` follow.
- Records that are dropped while an iteration is between two pages hide others
  from it, and records that are added repeat others when the newest come first.
- A record drops the keys of the other classes of its family, as
  `tests/models/test_positions.py` has it; a position without a board drops its
  `exchange`, and an underlying of which only half the key is sent is dropped:
  `Wanted` and `Dropped` in `KnownKept`.

Met on the way and not stated as properties: `tokens verify` returns 1 and not 3
when a check failed and a token is dead (`cli/_errors.py:16`); its advice to
prune counts tokens of a wrong scope, which a prune keeps; a prune beside
another process's rename raises `KeyError` once the tokens are gone
(`cli/tokens.py:247`); `exchange_refresh_token` raises authentication errors for
401 and 403 where its docstring has `ApiError` (`auth/keycloak.py:110`); an order
that failed without a client order id of the caller's own cannot be submitted
again "with the same `client_order_id`" (`api/orders.py:81`), since the one the
call made is in no error, so that it may be placed twice; `invalidate` deletes
the cache entry of a scope's refresh token whatever access token it holds, so that
a newer one which the other scope stored goes with the refused one
(`auth/provider.py:198`).

### Bounds

- `bucket`: two callers are enough for a holder and a waiter, which is all the
  lock distinguishes; a capacity of one and a half requests makes both the
  fractional and the full bucket occur; penalties shorter and longer than a
  wait; sleeps a tick early, on time and a tick late. `MaxOps` bounds penalties,
  calls and cancellations, `LastArrival` when they stop, so that the clock may
  run until everybody has been served.
- `stream`: two sockets give one reconnect after a success, and attempts that
  fail before it; queues of one and two items are full and evicting within
  three frames. Callers are orderly, `aclose` coming after `start` returned as
  `async with` has it, or not; two of them close, so that the second call
  returns while the first is at work. An outage has three attempts at most before
  its delay is no number. The proofs are for any number of sockets,
  frames and callers, and queues of any size.
- `aclose_hangs`: two sockets, one closer, an orderly caller and a queue that is
  never waited for.
- `tokens`: two callers, one token of each scope, and a clock of two instants:
  one before and one after an expiry. `MaxMint` lets a token be replaced once.
  `MaxCalls` bounds the callers and the threads that cancelled writers have left
  together (`Crowd`), of which one at a time (`MaxLate`): two callers, or one
  beside a late write. The proofs are for any number.
- `files`: two writers in one process and one in another, two threads a pool.
  With one thread TLC refutes `TurnsTaken`: a thread blocked in `flock` keeps
  the holder's next job out, the starvation the hazards list.
- `market`: two sockets, hence one reconnect; two groups make the hook await
  between its messages, and a registry of three with a limit of two is one that
  a factory method has filled past it. Three changes let a subscribe, its
  unsubscribe and another caller's change meet the hook.
- `client`: two of three streams are created in a behaviour: two that compete
  for a cap of one, or one of them and one of a service without a cap; two
  closers meet owners, and each other, at every point. The proofs about
  `StreamFactory` are for any number of streams and closers.
- `accounts`: two processes and four commands, so that one command is overtaken
  by three; two tokens of one session (also in two accounts) and one of another
  agreement. Processes and names are interchangeable; no liveness is checked.
- `commands`: three commands change, mark and look; two names; a read and a
  write token of one agreement and one of another; a clock that passes the
  week before an expiry and the expiry; five replies, one of each kind of
  verdict; every key missing, once, from a damaged file.
- `services`: listings of up to four records in pages of one to three, of which
  the server sends two at most, hence empty, short, full and clipped pages; two
  changes, each of which adds a record or drops one; three submissions. The proofs
  are for any listings, calls, page size and number of changes.
- `decoding`: the keys of the whole family and one that is in no class, "all but
  one" of them, "one", and the class's own find a key that is missing from a table
  or from the unknown class, goes to another's field, or is kept by a class that
  does not have it; every tag and one unknown;
  every hour of four days around the epoch; portfolios of up to three lines.
- `http`: two requests (the second is what makes an invalidation late, and may
  be of the other scope), three tokens, three policies: no retry, the default
  statuses, and a policy that adds 400 and leaves writes alone. Requests are
  interchangeable, so the run uses symmetry; it checks no liveness property.

The modules of components that run concurrently, and `Services`, have a `TypeOK`
(`ClientTypeOK` in `Client`, `ServicesTypeOK` in `Services`). The runs check
that of `Accounts`, where it says that the file can be loaded; the others are
proved, or hold on the instances of the runs (add `TypeOK` to the `INVARIANTS`
of the configuration).

### Deadlock

Runs in which the system may come to rest say `CHECK_DEADLOCK FALSE`: requests,
writers, calls, commands and connections that have ended have nothing left to
do. `tokens` checks deadlock.

### Fairness

- `TokenBucket`: the holder's steps and the clock. asyncio resumes a task whose
  sleep is over, and the lock is FIFO.
- `WebSocketConnection`: dials end (the connector has a timeout), the reader
  and the callers of `aclose` are resumed when what they wait for has come. The
  consumer is *not* fair: an application may stop reading, and the server need
  not send or drop anything.
- `MarketData`: the bucket lets whoever waits go, the hook goes on, and a lost
  connection is noticed and opened again (the reader and its loop). Changes,
  cancellations and losses are not fair.
- `PrivateFile`: threads run, and the kernel grants a free lock. Nothing says
  that a failure or a cancellation happens.
- `Client`: an owner that leaves goes on to its close, a close that does not hang
  ends (`ClosedInTime`) and closers go on, to the pool in the end. Nothing makes a
  close that hangs end, and nobody has to enter or leave a stream.
- `Services`: the caller takes records while there are any; the server owes
  nothing.
- `AccessTokens`, `Accounts`, `ApiHttp`, `Commands` and `Decoding` are checked
  for safety only. `HolderGoesOn` states with `ENABLED` that the holder of the
  provider's lock can always go on.

## Proofs

| Theorem | Says, for every value of the constants |
|---|---|
| `TokenBucketProofs!TypeCorrect`, `BurstsBounded`, `DebtsDoNotAddUp`, `BlocksServed` | the safety invariants of the bucket, with sleeps that end early |
| `TokenBucketProofs!Implements` | the bucket refines `RateBudget` |
| `PrivateFileProofs!TypeCorrect`, `SucceededUpdatesKept` | no update is lost |
| `PrivateFileProofs!Implements` | the locked file refines `AtomicFile` |
| `ClientProofs!TypeCorrect`, `CountIsExact`, `FoundAreReleased` | the count is what is open, and what a closer found is released |
| `ClientProofs!ClientIsAFactory`, `ClientCountIsExact` | every behaviour of a client is one of `StreamFactory`, whose theorems it inherits |
| `ClientProofs!ClientTypeCorrect`, `PoolIsLast` | the pool outlives the streams, a given one is not closed |
| `WebSocketConnectionProofs!TypeCorrect`, `OneSocket`, `ClosedIsClosed` | the queue is bounded, one socket is open at a time but for those that starts left to nobody, a close leaves nothing else behind |
| `WebSocketConnectionProofs!InOrderOnce`, `GapsAreTold` | frames come in order and once, and no gap is silent |
| `AccessTokensProofs!TypeCorrect`, `RejectedNotReused`, `LeastPrivileged` | which refresh token is used for a scope, and which never again |
| `AccessTokensProofs!InvalidatedStay`, `NoNeedless` | an invalidated access token comes back by a late write only, a valid one is not replaced |
| `MarketDataProofs!TypeCorrect`, `RegistryIsServed` | once everything is sent, the server has what the registry has, but for the two exemptions |
| `AccountsProofs!TypeCorrect`, `MarksAreTrue`, `RefusalsReach`, `SavedTokensKept` | the safety invariants of the accounts file |
| `ApiProofs!TypeCorrect`, `WritesTakeEffectOnce`, `OutcomesTell` | a write takes effect once at most and its end tells |
| `ApiProofs!SendsAreBounded`, `RefusedReplacedOnce` | bounds on sends and on the tokens replaced in each scope |
| `ApiProofs!ServicesTypeCorrect`, `EachOnceHolds` | an iteration misses and repeats nothing, whatever the page size and the changes (but for the exceptions `EachOnce` names) |
| `ApiProofs!TypedAsPromisedHolds`, `LookupResolvesHolds` | classes are as promised, `lookup` finds what the whole listing says |

*Bucket.* The types alone do not bound a burst. The invariant relates the
tokens to the past: for every admission so far, the cost admitted since, plus
what is in the bucket at its last refill, is at most a full bucket plus what
has been earned. Refilling with the cap and taking a token preserve it, and
`BurstBound` is the case where the bucket owes no more than one early wake-up
(`DebtBounded`). That debts do not add up needs `Earning`: at the deadline of a
holder that sleeps for its token the bucket holds one, whatever was owed before,
because the sleep was reckoned with the debt. The assumptions are
that rate, cost and capacity are positive and that a bucket holds one token.

*Private files.* The invariant says who may be between the read and the replace:
only the holder of the lock, apart from the writers that were cancelled in the
middle of their write (`torn`), and the copy a holder read is the file as it
still is. Without the last part, that a replace keeps the updates of others is
not inductive. The refinement maps the writers that are done to those that were
told of their success; it needs, besides, that a writer whose write was
cancelled is never told so (`TornInv`) and that no text holds the update of a
writer that has still to replace the file (`OnceInv`): an update takes effect
once. This is what lets `Accounts` and `AccessTokens` take an update of their
file for one step.

*Requests.* `Open`: a write that has not ended took no effect. That is why
sending it again is safe, and it holds because `Retries` lets a write through
only after a rate-limit rejection; a 401, the other reason to send again, took
no effect either. `Counted`: the place of a request tells how often its attempt
was sent, two sends at most. `Spent`: a token that was minted for a scope and
does not serve it any more was refused or expired, and a request about to
invalidate a token was refused that token. The only assumption is that the
attempts of a policy are a natural number.

*Services.* An iteration is a place in a sequence that changes under it: the
pages so far hold `page * size` records of the view, the records of the filter
in the order asked for. `PagedInv` says what that place means. No record that
was seen comes after it (`NoneTwice`): a page moves it past what it yields, a
record that is dropped moves later ones nearer, and one that is added at the end
was never seen. Only one that is added at the front pushes seen records past it,
which is the exception in `EachOnce`. Every record of the start that comes
before it was seen (`NoneMissed`), until one is dropped. And it is past the end
when the iteration is done, because a short page and the count of pages both say
so (`Counting`). The work is in the lemmas about sequences: what is wanted of
two, one after the other, of one that loses a record, and of what was wanted
already (`AmongConcat`, `AmongOneOut`, `AmongAmong`). They need no induction:
`Picks` says that an enumeration lists the places of the wanted records in
order, every sequence has one (`PicksExist`, by counting places), and whatever
has these properties gives the records (`AmongPicked`).

`LookupInv` follows one ticker while the listing stands still. The chunks part
the tickers (`ChunksOf`), so a ticker is in no chunk any more, in the current
one, or in one to come, and what was seen of it is all of the listing's, what
the pages so far hold, or nothing. What a key resolves to depends only on the
records of its ticker (`ResolvedSame`), so completeness ticker by ticker is
enough. `ByTypeInv` needs that the service's table, the overloads and the
union's tags are one mapping (`TablesAgree`). The assumptions are that no
listing has a record twice and that what the server adds is new, and that page
sizes are integers.

*Streams.* The count follows from two facts about the callback: a stream is in
`open` exactly while it is uncalled, and one that has no owner yet is not
(`Fresh`), so that `Create` adds one element and `Release` removes one. The
assumption that the streams are finite is for the cardinality. For
`FoundReleased` every stream of a snapshot is accounted for at every step of the
closer: still to be closed, being waited for, released, or given up.

*Accounts.* What a process remembers across its steps is part of the invariant:
a mark it is about to write is one the endpoint gives (`Remembers`), which stays
true because neither expiry nor revocation is ever undone, and an entry it is
about to write back is valid and has true marks. Nothing is assumed about the
files there were at first beyond what `load` checks.

*Client.* A step of the client is a step of `StreamFactory` or leaves it alone,
so that `Spec` of the one implies `Spec` of the other and the theorems carry
over. That a closed stream has no socket needs what its owner leaves behind:
when the owners are done first (`DoneFirst`), whatever a closer found has no
owner, a stream that was left is closing, and as long as its socket is up
somebody waits for it, unless that was cancelled. `Stages` ties the place of a
task in the client's close to what it has left among the streams.

*WebSocket connection.* A dial begins only when no socket is up but those that
starts have left to nobody (`TasksOK`), so one is up at a time. Without timeouts
only the first sleep of an outage is cancelled, and a socket is left open by
nobody but who reads from it (`QuietOK`); so when every task in `aclose` has
returned no task of the connection is left, but for a start that overlapped
(`ReturnedOK`). For the frames, what the consumer last took, the queue and the
frame that comes next are one chain (`GaplessOK`): of two neighbours among the
frames in it, one is the successor of the other or an event between them tells
of the gap, and from the last frame taken to the first in the queue the count of
drops may tell instead. An eviction takes the head of the queue and counts it in
the same step, which is why the chain survives it. The order needs only that the
chain increases (`OrderOK`), and nothing but ends follows an end for callers
that are orderly (`EndsOK`).

*Market data.* The invariant follows one subscription key. Of the messages about
it that callers have waiting for the current socket, the last says what the
registry says (`LastWord`), since a change writes the registry and takes its
place at the end of the bucket in one step. When none is waiting, the server
knows the key or the hook has still to tell it, and the server has nothing the
registry lacks but keys that were `raced`. What the hook has still to tell is in
the registry, or was raced; so the order of its own messages, and its place
among the callers', do not matter. This is inductive because nobody waits twice
(`WaitingOK`), the hook never waits with a lost socket's number, and what waits
with an old one is never sent (`LinkOK`). `ReplayTellsAll` is the lemma that the
messages of a replay, in any order, are about exactly the registry; it needs the
groups to be finite, as data types, depths and time frames are.

*Access tokens.* Every access token that is kept, in memory or in the file, is
of one refresh token (`OneOrigin`), because only an exchange mints one and only
for the refresh token it sends. `CandidatesOK` says what a get that holds the
lock has before and behind it: each refresh token that grants its scope is still
to be tried, was rejected, or had expired when it got the lock, which gives
`LeastPrivilege` when the token is stored; and none but the one just refused is
both rejected and still to be tried, which gives `NoRejectedReuse`.
`InvalidatedStaysDropped` is inductive with two of these: a token that is being
expired is out of memory before the file is written (`ExpiringOK`), and by
`OneOrigin` no other refresh token's entry can bring it back. The late writes are
part of the invariant: each holds access tokens under the refresh token they came
from, and what it puts back of the invalidated ones leaves `dropped` in the same
step.

Only model-checked: the liveness properties and `HolderGoesOn`, which need
fairness or `ENABLED`; the pure operators on tables and documents, whose inputs
are enumerated (`Decoding`, the document of `Commands`), many of which are
inductions over sequences; and so the invariants of `Commands`.

## Not modelled

- Rendering, argument parsing and dependency injection of the command line
  (`cli/_console.py`, `_format.py`, `_parser.py`, `_deps.py`): text without
  state.
- Records read key by key (`models/orders.py` but for what an order checks,
  `models/market_data.py`, `models/operations.py`, the events of `models/ws.py`)
  and the services that are one call with one model: a declaration leaves
  nothing to go wrong between two places.
- The text of a JWT and of JSON: that it cannot be decoded is a choice, what it
  says when it can is modelled.
- The websockets and httpx libraries, the server and the kernel are environment.
- In the modelled parts: the length and jitter of backoffs, headers and bodies,
  log messages, file modes, display labels, and Windows' own lock.

## Plan

1. `StoreReadsBack`: that `Load` undoes `Dump` is a lemma on functions.
2. An abstract event stream (frames in order, marked gaps, one end) that
   `WebSocketConnection` implements.
