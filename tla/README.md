# A TLA+ verification of actions-scaleset

`actions-scaleset` (`src/src/*.rs`) is a Rust client for GitHub's Runner Scale
Set API: it creates a message session for a scale set, long-polls the session's
queue, hands every batch of job messages to the user's `Scaler`, and
acknowledges it. This directory holds TLA+ modules that model its stateful
parts and the pure functions they rest on, the TLC configurations that check them
on small instances, and TLAPS proofs of their safety properties for all
instances. `PROJECT.json` lists the
runs, the source lines each definition stands for, the hazards the properties
are aimed at, and the theorems.

## Inventory

| Component | State it keeps | Operations | Interacts with | What is hard, and what makes it correct |
|---|---|---|---|---|
| Listener (`listener.rs`) | `latest_statistics` (mutex), `max_runners` (atomic); per run `last_message_id` | `run`, `run_until`, `handle_one`, `set_max_runners`, `spawn_listener` | `SessionApi` (poll, delete, acquire), the user's `Scaler`, a `watch` channel that stops it | Any call may fail, the task may be aborted, the process may die: nothing may be acknowledged before it is processed, in order, and nothing skipped; stopping must neither cut a message in half nor be missed; empty polls repeat a remembered count |
| Message session (`session.rs`), calls | the session object (read-write lock), a refresh mutex | `get_message`, `delete_message`, `acquire_jobs`, `refresh_session` | `Client` for URLs and admin tokens, `Transport`, the queue service | Several calls run into one expired token; a PATCH may be repeated, arrive late, fail or be cancelled: one refresh at a time, no newer token lost, a second attempt with a new token, nobody stuck at the mutex or, through it, at the client's |
| Message session, life (`session.rs`) | the session on the service, the session id in the client | `create_session`, `close`, the refresh beside them | `Transport`, the service | Repeated, lost and late POSTs and DELETEs, answers without an id, dropped clients: what close promises must hold, and what is left behind must be bounded |
| Admin connection (`client.rs`) | `AdminToken` (URL, token, expiry), a refresh mutex | `update_token_if_needed` and its exchanges, `snapshot_token`, `actions_url`, `admin_authorization` | GitHub's API, the clock, `Transport` | Renewal stampedes, tokens that expire between two lookups, failed exchanges |
| Scale set and runner API (`client.rs`) | none | 13 request functions | admin connection, `Transport` | Which answer ends a call and how; lookups whose count and list disagree |
| Transport (`http.rs`) | options, user agent; per call the attempt and the last error | `send`, `send_with_retry_statuses` | the network, the clock | Number and duration of retries at the limits of the types, which outcome is returned, what is repeated |
| Errors (`error.rs`) | none | `map_response_error`, `has_kind`, `status` | all of the above | Which answer counts as which kind, through contexts and classifications; a session is refreshed for exactly one of them |
| Types and parsing (`types.rs`) | none | `parse_runner_scale_set_message`, labels | session, scale set API | A message that does not parse blocks the queue; a batch must come through whole or not at all; defaults for missing fields |
| Configuration (`config.rs`) | none | `GitHubConfig::parse`, URLs | client, the environment | One server for one exchange of tokens; which owner a URL names |
| App credentials (`auth.rs`) | none | `create_jwt_for_github_app`, `jwt_expires_at` | admin connection | Malformed tokens, arithmetic in eight bits |
| Time formats (`timeutil.rs`) | none | `deserialize_opt_time`, `serialize_opt_time` | `types.rs` | A time sent back must be the one received |
| Crate root (`lib.rs`) | none | — | — | — |

How they call each other:

    Listener --SessionApi--> MessageSession --URL, header--> AdminToken
       |                          |                             |
     Scaler                       +-------- Transport ----------+

## Modules

| Module | Models | Contents |
|---|---|---|
| `Messages` | what the listener reads of a message | the calls a message asks for and their order |
| `AtLeastOnce` | README and crate documentation | abstract specification: publish, deliver in order, acknowledge when all is delivered |
| `Listener` | `listener.rs` | the tasks on a Listener, the queue, the stop channel, crashes |
| `ListenerProofs` | | its theorems, among them that it implements `AtLeastOnce` |
| `MessageSession` | `session.rs` | calls that share a session and its refresh |
| `MessageSessionProofs` | | its theorems |
| `AdminToken` | `client.rs`, the token | calls that share the admin connection and its renewal |
| `AdminTokenProofs` | | its theorems |
| `Transport` | `http.rs` | one call with its retries |
| `TransportProofs` | | its theorems |
| `SessionLifecycle` | `session.rs`, creation and closing | clients that create, refresh, close and drop sessions |
| `SessionLifecycleProofs` | | its theorems |
| `Stack` | `session.rs` on `client.rs` | `MessageSession` and `AdminToken` composed: both refresh mutexes |
| `StackProofs` | | it implements both its parts; the order of the mutexes |
| `ErrorKinds` | `error.rs` | errors as sequences of layers |
| `Encodings` | `auth.rs`, `timeutil.rs` | base64url payloads, times |
| `ApiCall` | `client.rs`, `session.rs`, `types.rs` | one call of any operation, from arguments to result |
| `ApiCallProofs` | | its theorems |
| `GitHubConfig` | `config.rs` | scopes and URLs |
| `ClientSetup` | `client.rs`, `config.rs`, `auth.rs` | a client from its configuration to the URL of a call |
| `ClientSetupProofs` | | its theorems |
| `MC…` | | the values of the constants for TLC |

A definition whose name extends another one's and whose comment begins with
`mutant:` is a faulty variant of it. It is not part of the specification; put in
its place it makes one of the properties fail, which shows that the property
depends on that piece of code.

### Listener

A *task* is a future that runs `run`, `run_until` or `handle_one` on the one
shared `Listener`; everything between two `await`s is one action, so tasks
interleave exactly at awaits.

| Code | Model |
|---|---|
| `run`, `run_until` to the first scaler call | `Start`; the scaler's answer is `InitialDesiredOk` |
| top of `loop`: stop flag, `max_runners.load`, `get_message` | `Poll` |
| `select!`, branch `rx.changed()` | `StopSeen`: leaves when the value is true or the sender gone, else polls again |
| `Ok(None)` | `GetEmpty`, `IdleDesiredOk` |
| `Ok(Some(msg))`, `handle_message` up to its first call | `GetMessage`, `HandleMessage`; `handle_one` is `HandleOne` |
| the calls of `process`, in order, one per job | `AcquireOk`, `StartedOk`, `CompletedOk`, `DesiredOk` |
| `delete_message`, `last_message_id = …` | `DeleteOk` |
| any of these calls fails, or the task is aborted at it | `Interrupted`; the far side may have acted or not |
| `set_max_runners` | `SetMaxRunners` |
| `latest_statistics` / the session's statistics | `latest` / `session` |

The queue is external: it numbers messages upwards, sends the first message
with an id above `lastMessageId`, and keeps a message until it is deleted.
Statistics are named by the message they came with. `RefreshSession` replaces
the session object while some call over the session is in progress. `Crash`
ends the process and starts another one.

Two variables are history: `done` (calls that have succeeded) and `target` (the
count told to the scaler last).

### MessageSession

Tokens are numbered as the service issues them, so a session object is its
token's number; the model assumes that the service never issues a token twice.
`get_message`, `delete_message` and `acquire_jobs` have the same control and are
one kind of caller: `Begin`, `First…`, `Lock` (with the comparison of the session
under the mutex), `Issue`/`Resend`/`RefreshFails`, `Store`, `Reread`, `Second…`.
`Cancel` drops a future at any await, as `run_until` does to a poll. A PATCH whose
sender has given up (`adrift`) may still be carried out later (`IssueLate`), and
a token may expire at any time.

### AdminToken

A caller looks the connection up for the URL and again for the header, then
sends. (`acquire_jobs` takes the URL only; for the shared state that is a call
that is cancelled after its first lookup.) Times are integers, `Margin` stands for
the 60 seconds, lifetimes may be shorter than the margin. Clock steps backwards
are not modelled.

### Transport

One call of `send_with_retry_statuses`. Statuses are reduced to the classes the
code tells apart; `u32` becomes `0..U32Max`, with the saturating additions and
powers of the code. An attempt that ends in an error may have reached the service.

### SessionLifecycle

A client is one call of `message_session_client`; several exist for one scale set, at
once or one after the other. The service numbers the sessions it makes.

| Code | Model |
|---|---|
| `create_session` up to the POST | `Create` |
| the POST, with the transport's retries | `PostAnswered`, `PostLost` (carried out, still to come, or neither), `PostRefused` |
| decoding of the answer, `*self.session.write() = …` | `Store`, `DecodeFails`; every field has a default, so an answer without an id is the nil session |
| the future or the client dropped | `Abandon`; there is no `Drop` |
| `refresh_session` | `Refresh`, `PatchAnswered`, `RefreshFails`, `StoreRefreshed` |
| `close` | `Close` reads the id once; `CloseOk`, `CloseUnheard` (deleted, and the answer lost), `CloseFails` |
| requests nobody waits for | `LatePost`, `LateDelete` |

`lost` counts the sessions a client may have made without knowing (any more), `closed`
holds what `close` has returned `Ok` for; both are history.

### Stack

`Ses` and `Adm` are instances of `MessageSession` and `AdminToken`, with their own
variables; each action of `Stack` is an action of one of them and leaves the other
alone, or is one of each at the same time. `Looking`, `AdminLock` and `Connecting` are
what a refresh does between `Lock` and its PATCH, and an acquisition before its request:
`actions_url` and `admin_authorization` of the client. The session's mutex is held
meanwhile. `ConnectFails` fails the session call with the client's error; `Cancel` drops
both. `Direct` are API calls that use the client alone. `MessageSession` by itself
assumes that a refresh ends; here that is to be shown (`ImplementsSession`).

### ApiCall and ErrorKinds

`op` is the operation, all of them in one module since they share their control:
`Prepare` (labels of a scale set), `Connect` (URL and header, or an error of the token
exchange), `Receive` (the status expected, an empty poll, or an error by
`map_response_error`), `Refresh` for the queue's operations, `Decode`, `Lookup` and
`Message200` for what the answer says. An error is the sequence of its layers
(`Http`, `Context`, `Classified`, `Kind`, `Message`), which `has_kind` and `status` search as
the code does. Bodies are reduced to empty, the JSON of an exception, or anything else.
How often a request is repeated is in `Transport`, who renews the connection in `AdminToken`.

### GitHubConfig, Encodings and ClientSetup

A URL is a record of scheme, host, port and path segments; hosts are those the code names,
one under `ghe.com`, and any other. Base64 characters are their places in the table
(0 to 63) and three special ones; bytes are integers modulo 256. `ClientSetup` goes through
`Client::new`, the requests of one exchange and the URL of the first call, while the
variable `GITHUB_ACTIONS_FORCE_GHES` may change between any two steps.

URLs of the service, and the names and values in a query, are sequences of tokens, cut before and
after the characters that have a meaning in a URL; the text `api-version=`, which `actions_url`
looks for, is one token. `ActionsUrl` has each branch of the code: the version is appended unless
a pair names it (`WithVersion`), the pairs that name it are dropped if the joined URL does so in
its query (`NamesVersion`, `PairsText`), and the text of what is left follows behind a `?`, behind
an `&`, behind neither, or not at all. `CallUrlExact` says what comes out for every service URL:
the segments of the connection's URL and of the path, no slash doubled that was not doubled inside
the former, as many `=`, `&` and `api-version=` as the pairs account for, and where the query
begins. No call in the repository names the version itself; one of the queries does, so that
the code that is ready for it runs.

## Runs

| Run | Question | Bounds | States |
|---|---|---|---|
| `listener_shared` | Is anything acknowledged early, out of order or skipped, by any mix of runs and `handle_one` calls? Is it at-least-once delivery? | 2 tasks, 2 messages (one with jobs to acquire, one with a started job), crashes and failures anywhere | 356 000 |
| `listener_alone` | Does stopping leave half a message? Is the scaler told the current count? | 1 stoppable task, 3 messages with lists of 0 to 2 jobs, sessions without statistics | 50 000 |
| `listener_bad` | What becomes of messages that do not parse or have no statistics? | 1 task; a good, a garbled, a statistics-free message | 16 000 |
| `listener_success` | Is every message acknowledged in the end? | 1 task, 2 messages | 10 000 |
| `listener_end` | Is a stop honoured, does a capacity take effect? | 1 task, 2 messages, 2 capacities | 21 000 |
| `session_refresh` | One refresh for all, no token lost, fresh second attempt | 3 callers, 3 tokens, late PATCHes; symmetry | 52 000 |
| `calls_end` | Does every call end, over both mutexes? Does the composition provide what each part assumes? | a poll, an acquisition, an API call; one token that expires, one connection with a lifetime above the margin or within it, App credentials | 38 000 |
| `admin_renewal` | One renewal for all, URL and token together, the header good for the margin | 3 callers, 3 grants, 5 instants, lifetimes below and above the margin; symmetry | 310 000 |
| `transport_call` | Number of attempts, result, duration, what is repeated | 3-bit `u32`; `retry_max` 0, 2, 6, 7; caps 0, 3, 9; Retry-After 0, 20 | 92 000 |
| `session_lifecycle` | Is a closed session gone, what may be left behind? | 2 clients, 3 sessions, 2 attempts per request | 1 600 000 |
| `api_call` | What is sent, what is read, which error comes out? | 9 statuses, 6 bodies, 2 labels, 3 jobs per batch, times at 0 and 12 o'clock with all suffixes | 21 000 |
| `client_setup` | One server per exchange? Owners kept apart? Payloads and URLs exact? | 5 hosts, 9 paths, 2 schemes; 39 payloads of up to 3 bytes; 4 bases (one with a query, one naming the version in it), 2 paths, 5 queries | 108 000 |

Why the bounds suffice: two tasks are enough for every race over the shared
state, as the shared variables are only ever compared with a task's own;
a message needs at most two jobs of a kind, for the cursor to be at the first,
in between, and at the last; three callers give one that refreshes, one that
waits for the mutex, and one that begins afterwards; two tokens or three
connections let an old one meet a newer and a newest; seven attempts reach the
saturation of both the attempt counter and the backoff. In `session_lifecycle`, two
clients and three sessions give a session of a retried POST beside the one kept, and
somebody else's beside both. In `calls_end`, three calls are one that holds the session's
mutex, one that waits for it or for the client's, and one that has only the client's. Three
jobs make lists of different types with a bad job first, between and last; three bytes are
one group of base64, and payloads of one and two bytes its paddings. The bounds on messages,
tokens, grants, time, sessions, labels and jobs are the constants `MaxId`, `MaxToken`,
`MaxGrants`, `MaxTime`, `MaxSessions`, `MaxLabels` and `MaxBatch`; all theorems hold for
every value of them. Runs with `SYMMETRY` check safety only.

`session_lifecycle`, `api_call` and `client_setup` do not check for deadlock: a client that
is gone and a call that has returned are at their end.

### Fairness

* `SuccessSpec` (for `AllAcknowledged`) states what the environment owes: a run
  that has ended is started again, and no step fails for ever. The Rust code does
  not retry a failed run itself, its caller does.
* `EndSpec` (for `StopHonoured`, `CapacityTakesEffect`) only assumes that a call
  ends, one way or the other (the scaler returns, a request has a timeout), that a
  ready task is scheduled, and that `select!`, which polls its branches in random
  order, does not pass over a ready stop branch for ever.
* `FairSpec` of `Stack`, and of `MessageSession` and `AdminToken` within it: requests end
  (`options.timeout`, bounded attempts), and `tokio::sync::Mutex` is fair (first in, first
  out), which is strong fairness of `SessionLock` and `AdminLock`. In `Stack` the fairness is
  stated for single requests and steps; that a whole refresh ends, which
  `MessageSession` states as fairness, is what `ImplementsSession` checks.

Nothing assumes that a request succeeds, except `SuccessSpec`.

## Theorems

All are proved by TLAPS from the named assumptions on the constants
(`MessagesAssumption`, `ListenerAssumption`, `SessionAssumption`, `AdminAssumption`,
`TransportAssumption`, `LifecycleAssumption`, `StackAssumption`, `ErrorKindsAssumption`,
`ApiCallAssumption`, `ClientSetupAssumption`), which TLC evaluates in each run of their modules.

* **Listener.** `Typing` (`TypeOK`); `Invariance` of `IInv`. `AckAfterProcessing` is not
  inductive: one must know that a task at `delete` has made all calls of its message.
  `IInv` adds, for each task, that the calls ahead of the one it waits for have
  succeeded and that a run has nothing older than its message in the queue, and
  everything in the queue is above its `last`. From it follow
  `AcknowledgedAfterProcessing`, `InOrder`, `CallsAhead`, `NothingSkipped` and
  `Refinement` (the listener implements `AtLeastOnce`, with the identity as
  refinement mapping). `LInv` is a second, independent invariant: between two
  messages the last one taken up is not in the queue, and a task in a call has
  statistics; it gives `CleanReturn` and `StatisticsToFallBackOn`. `ToldInv` adds what the
  scaler was told last when a run rests; with it, and for one task only, `UpToDate`.
* **MessageSession.** `SInv`: an expired token stays expired because tokens are issued
  in order, so what a call found out at its first attempt still holds under the mutex,
  and nobody else replaces the session meanwhile. It gives `FreshSecondAttempt`,
  `OnlyExpiredReplaced` and `MonotonicSession`.
* **AdminToken.** `AInv`: a used-up connection stays used up as time goes forward, the
  holder of the mutex has found the connection used up, and a call's URL is that of the
  connection in use or of one that is used up. It gives `Matching`, `OnlyStale` and
  `MonotonicConnection`, and with the time of the look-up as history `HeaderHolds`.
* **Transport.** `TInv`: before attempt k the request has arrived at most k times and
  slept at most k caps. It gives `BoundedAttempts`, `LastOutcome`, `BoundedSleep`; with the
  invariant `Sleeping`, `RepeatsOnlyRetryable`.
* **SessionLifecycle.** `Typing`. `ClosedForGood`: a session is made once, with a new number,
  so one that is deleted stays gone. `NothingLeft` needs to know that each live session of a
  client is in its answer, its session object, or counted as lost, through creation,
  refresh, late requests and Drop; the invariant says so place by place. `BoundedLeftovers`
  counts: each session left behind, and each POST that may still arrive, is one of the
  attempts counted as lost, and the attempt that gave the session now held is not among them.
* **Stack.** `SessionImplemented` and `AdminImplemented`: every step of the composition is a
  step of `MessageSession` or a stutter of it, and one of `AdminToken` or a stutter, so the
  theorems about each hold in the composition: `SessionPromises` and `AdminPromises` take
  them over from instances of `MessageSessionProofs` and `AdminTokenProofs` with the
  composition's variables. `OneOrder` rests on where a task can be when
  it holds the client's mutex.
* **ApiCall.** Lemmas say what each layer adds to what `has_kind` and `status` find, and
  so which kinds `map_response_error` gives for every answer and seed. `Explained` is the
  invariant that carries it through the attempts of a call: `ExpiredTwice`, `CauseKept`; and `Typing`.
  `ExactLookups` needs only that no call has read a body before it is at its end.
  `ScaleSetAsMeant` rests on `TimesKept` and `Instants` (a time that was read, in any of its
  forms, is written as a text that is read as the same time) and on `Prepared`: what is on its
  way has the labels it left `Prepare` with. `WholeBatch` is proved by induction over
  the batch: what has been read of its first n messages is, for each type, the places of the
  type's jobs among them, in ascending order, or nothing after the first that does not parse.
* **ClientSetup.** `Typing`, and `AlwaysOneServer`: `CInv` says that all that was asked for
  are the three paths under the configuration the client was made with. `OneScope` needs that
  no name in a path is empty, and compares the paths of the three kinds of owner. `Decoded`
  takes the text apart in groups of four characters: what each group gives back is arithmetic
  on at most three bytes, and the padding makes the last group whole. `CallUrls` counts
  separators through concatenation, for the joined path (`JoinsPlaces`: it has them where the
  base has them), each pair (`PairCounted`), all pairs by induction (`TextCounted`: as many as
  there are pairs that are sent) and the whole (`AddedCounted`), and shows that joining adds one
  slash where there is none. `ClientSetupAssumption` says what the URLs, names and bytes are. Of
  a service's URL, and of the names and values in a query, it assumes nothing but that they are
  texts; a call's path is not empty and has no doubled slash and no query, as those in
  `client.rs` and `session.rs`, which are made of constants and numbers.

How a recursive function over a sequence is reasoned about: the library's induction rules take
operators as parameters, so the proofs state induction for sets of numbers (`Induction`, from
the least element of a set of numbers, `WFMin`), and show first that the recursive
function exists, since `CHOOSE` says nothing about a function that does not
(`Recursion`, `WithoutComputed`, `Parsed`).

Only model-checked:

* all liveness properties (`AllAcknowledged`, `StopHonoured`, `CapacityTakesEffect`,
  `SessionCallsEnd`, `ApiCallsEnd`, and the fairness in `ImplementsSession`): liveness under
  fairness and ENABLED are out of the prover's reach. Their safety parts are proved: `SessionImplemented` is that of
  `ImplementsSession`.

The modules proved about contain no RECURSIVE operator.

## What the properties do not promise

Found while modelling, and listed with their lines under "hazards": with two tasks
on one Listener the scaler's counts come in any order; a second `run` on a Listener
begins with the statistics of the session object, which may be older than those
reported last; a redelivered message brings its old count along; a message that
does not parse holds up the queue, as every run ends at it; Retry-After is obeyed
without a limit; a connection whose token lives no longer than the margin is fetched again
at each lookup; and a service URL with a query gets the path of a call behind its question mark,
since `join_url_path` appends to the whole of it: `CallUrlExact` states that as it is.

## Not modelled

* Logging and metrics, and the user agent: nothing the program decides depends on them.
* The syntax of JSON, headers, URLs and dates, TLS, and HTTP itself: they belong to serde, url,
  time and reqwest; the models start from what these return, and errors of each are outcomes.
* The claims and the RSA signature of the App's JWT: they are handed to `jsonwebtoken`, and
  whether a JWT outlives the retries of its request depends on options the code does not relate
  to it (listed under "hazards").
* The poisoning of the statistics mutex: nothing panics while holding it.
* Steps backwards of the clock in `AdminToken`.
* Answers to a PATCH that name another session than the one asked about (`SessionLifecycle`), or
  that decode, by the defaults of their fields, to an empty token (`MessageSession`; without a
  session id they are in `SessionLifecycle`).
* The word "enterprises" in other spellings than two: `enterprises` and `Enterprises` stand for
  the comparison without regard to case.
* What the service answers to a second acquisition of the same jobs: not in this repository.
* `lib.rs` holds only re-exports and documentation.

## The plan

The modules were built in this order, the core of the system first: `Messages`,
`AtLeastOnce`, `Listener`; `MessageSession`, `AdminToken`, `Transport`; `SessionLifecycle`,
`Stack`; `ErrorKinds`, `Encodings`, `ApiCall`; `GitHubConfig`, `ClientSetup`; each with its
proofs where it has any. What is left:

1. `Transport` under `AdminToken`: how many requests a renewal may cost, and a header that
   expires between retries as a state of the composition.
2. The App's JWT with its clock: when it outlives the retries of the request it signs.
