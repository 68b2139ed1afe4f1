# nipoto-ai: a verification development

This directory holds TLA+ models of the nipoto-ai support service, the TLC
configurations that check them on small instances, and theorems about them
that TLAPS proves for every value of the constants. Paths below are relative
to the repository.

## 1. The system

nipoto-ai is a FastAPI service that helps the support staff of a shop. It
verifies callers' tokens by itself, talks to a *main backend* that owns the
conversations, keeps its knowledge base and its settings in PostgreSQL, and
prepares the knowledge base for retrieval. It runs on asyncio: code between two
`await`s is atomic within a process, anything may run at an `await`, and
several processes may share the database.

| component | source | state | operations |
|---|---|---|---|
| runtime settings | `app/db/repositories/settings.py` | table `settings`, one `_cache` per process | `get`, `set`, `auto_mode`, `clear_cache` |
| engine and sessions | `app/db/session.py` | engine singleton, its pool, sessions | `init_engine`, `get_engine`, `dispose_engine`, `session_scope` |
| HTTP connector | `app/connectors/http.py`, `mapping.py` | an HTTP client; calls under way | `get_conversation`, `get_messages`, `list_kb_items`, `get_recent_orders`, `post_assistant_message`, `handoff` |
| in-memory main backend | `app/connectors/fake.py`, `base.py` | conversations, messages, idempotency keys, handoffs | the same operations, `set_handled_by` |
| chunking | `app/retrieval/chunk.py` | none between calls | `chunk_document` |
| cleaning, normalisation | `app/retrieval/clean.py`, `normalize.py` | the HTML parser's, per call | `clean`, `normalize` |
| lifecycle and health | `app/main.py`, `app/api/health.py` | `app.state`, the engine | `lifespan`, `health`, `ready` |
| request context, errors | `app/core/middleware.py`, `errors.py`, `logging.py` | a context variable | `dispatch`, four exception handlers |
| authentication | `app/core/auth.py`, `actor.py` | the cached signing keys | `decode_token`, `actor_from_claims`, `require_roles` |
| policy, routes, environment | `app/core/policy.py`, `config.py` | none after startup | `load_policy`, `load_routes`, `require_models`, `allows_host` |
| schema | `app/db/models.py`, `migrations/` | the tables | only `settings` is read and written |
| scripts | `scripts/` | files | one-shot tools |
| pipelines, guardrails, llm, demo | empty packages | | |

How they interact: a request passes the middleware, the token check and the
role check, and then a handler that calls the connector and the settings. The
settings go through `session_scope` to the pool and PostgreSQL. The connector
goes through httpx to the main backend, or, with `MAIN_BACKEND=fake`, straight
to the in-memory one, whose rules are those the real one is expected to follow.
The knowledge base goes through `clean` into `chunk_document`; the ingest that
would store the chunks is not written yet.

What is hard, and what makes each part correct:

- **Settings.** A read suspends three times between its look at the cache and
  its write to it, and meanwhile another coroutine may set, clear or fill the
  same key, the connection may break, the pool may run dry, the task may be
  cancelled and the process may die. `auto_mode` is the switch that stops
  automatic automatic replies, so the promises are: no answer is more than the TTL behind
  the table, whatever interleaves; no failure turns the mode to `live`; no call
  waits for ever, but for a database that does not answer.
- **Connector.** A timeout says nothing of the fate of a write, a request whose
  caller gave up may still be served, and reads are tried twice. The promises
  are: one message per idempotency key, one handoff per call, success means the
  write is there, and an outage is never reported as a missing conversation.
- **Chunking.** Nested loops with carried state: an open section, an open piece,
  a carry-over. Nothing may be lost, put under a wrong heading or repeated
  beyond the overlap.
- **Lifecycle, requests, authentication.** Half-finished startup and shutdown
  over a module-global engine, a request id in a context variable that concurrent
  requests must not share, two error paths that differ in what they send, and
  cached keys that outlive a rotation. Each application has complete routes, one
  pool and, while no start or stop fails, its own engine; what is logged of a
  request and the problem its client gets bear its own id; and only sound tokens
  get in.
- **Text functions.** A parser with a skip depth and a list stack that must agree
  with the elements open, however dropped elements and lists nest in the
  well-formed fragments of the editor, and a chain of substitutions in which the
  order of the passes decides whether two spellings of a word meet.
- **Scripts and migration.** One-shot programs whose exit code is all a pipeline
  sees, and two scripts of statements of which one must undo the other wherever
  it was broken off.

## 2. Modules

| module | models or states | extends |
|---|---|---|
| `SettingsData` | keys, values, defaults and the pure functions of `settings.py` | |
| `SettingsRegister` | abstract specification: a table and clients that may be answered TTL late | `SettingsData` |
| `SettingsCache` | `settings.py` over `session.py`: processes, coroutines, pools, outages | `SettingsData` |
| `SettingsCacheProps` | its properties and the refinement mapping | `SettingsCache` |
| `SettingsVisibility` | the same with two history variables, for what a setter sees of its own change | `SettingsCacheProps` |
| `SettingsCacheProofs` | the inductive invariant and its theorems | `SettingsCacheProps` |
| `SettingsRefinementProofs` | the refinement theorem | `SettingsCacheProofs` |
| `SettingsVisibilityProofs` | the theorem about the history variables | `SettingsVisibility` |
| `BackendData` | conversations, actors, keys and the pure rules of `fake.py` | |
| `Conversations` | abstract specification: questions that are answered or fail, and writes that happen once or never | `BackendData` |
| `BackendConnector` | `http.py` over a lossy network against the rules of `fake.py` | `BackendData` |
| `BackendConnectorProps` | its properties and the refinement mapping | `BackendConnector` |
| `BackendConnectorProofs` | its inductive invariant and theorems, the refinement among them | `BackendConnectorProps` |
| `Chunking` | `chunk.py`, one loop iteration per action | |
| `ChunkingProps` | its properties, with the reference definitions they compare to | `Chunking` |
| `ChunkingProofs` | its inductive invariant and theorems | `ChunkingProps` |
| `Policy` | `policy.py`: the files and settings an application starts with | |
| `Auth` | `auth.py`: token to verdict, the keys PyJWT keeps, the issuer | |
| `Service` | `main.py`, `session.py`, `middleware.py`, `errors.py`, `health.py`: applications of a process and their requests | `Auth`, `Policy` |
| `ServiceProps` | its properties | `Service` |
| `ServiceProofs` | its inductive invariant and theorems | `ServiceProps` |
| `Hosts` | `allows_host` | `Policy` |
| `Places` | ranks of places, and the text at some places: a substitution by nothing | |
| `Html` | `clean.py`, one call of the parser per action, and its tidying | `Places` |
| `Normalize`, `NormalizeProps` | `normalize.py`, pass by pass, and what search relies on | `Places` |
| `ConvertKb` | `scripts/convert_kb.py` | |
| `CheckProvider` | `scripts/check_provider.py` against a provider that may fail anywhere | |
| `Migration` | the first migration, statement by statement, beside the metadata | |
| `Offline` | the six above side by side: they share no state | all of them |
| `HtmlProofs` | the inductive invariant of the parser, what `_tidy` returns, and their theorems | `Offline` |
| `OfflineProofs` | theorems about the scripts, the host check, `normalize.py` and the migration | `HtmlProofs` |
| `MC_*` | constants for TLC | |

`PROJECT.json` maps each definition to the lines it stands for. A definition
with a suffix, such as `SetReturn_NoPop`, is a plausible slip: no specification
uses it, and putting it in place of the definition after it must make TLC find
a property violated.

### Settings

`SettingsCache` has one action per stretch of code between two `await`s:

| code | action |
|---|---|
| `get` up to its return on a hit | `GetHit` |
| `get` up to the pool | `GetMiss` (keeps `now` in `start`) |
| a place in the pool, which then opens or pings a connection | `Acquire` |
| the row arrives | `GetRow` |
| commit, close, `_cache[key] = ...`, return | `GetReturn` |
| `except Exception` | `GetFail` |
| `set` up to the pool | `SetStart` |
| upsert and commit | `SetCommit`; `SetCommitLost` when the reply is lost |
| close, `_cache.pop`, return | `SetReturn` |
| rollback and raise | `SetFail` |
| `clear_cache`, cancellation, a process restart | `ClearCache`, `Cancel`, `Restart` |
| the clock, the database leaving and coming back | `Tick`, `DbDown`, `DbBack` |

The upsert and its commit are one action, since the row is not visible in
between. `lastHeld` is a history variable: per key and row, when the table last
held that row and lost it. `cache[p][k]` is `NoEntry` where the dictionary has
no key; the clock starts at TTL, so that expiry 0 is never live. `Values` is any
set with `"shadow"` and `"live"` in it; the code only compares values.

`SettingsRegister` is what a reader may rely on, with no cache or process in it:
a client that asks at time `s` is answered with a row the table held after
`s - TTL`, or with its fallback when it is told the read failed. That
`SettingsCache` implements it is the property `ImplementsRegister`, an
`INSTANCE SettingsRegister WITH` the mapping of `SettingsCacheProps`.

### Connector

`BackendConnector` splits a call where it suspends: `Start*` sends the first
request, `Receive` and `TransportError` take up an answer or the lack of one,
`Retry` follows the backoff sleep, `Cancel` is a cancelled caller. Requests are
numbered; `wire` is the set of those not yet served, and a request stays there
when its caller gives up. `Serve`, `Refuse` and `Lose` are the network and the
backend; an answer may come back as 502, unreadable or with a body that does not
fit although the request was served: `Verdict` is what the status makes of it and
`BodyVerdict` what the body does. The backend's own rules (`Visible`, `LastN`,
`Post`, `HandOff`) are those of `FakeMainBackend`. A transport error is possible
at any time while a call waits, which covers connection failures, resets and the
timeout.

`Conversations` is what the callers may rely on, with no request, attempt or
network in it: a client asks (`Ask`), a read is told the truth of a moment between
question and answer (`See`), a write is carried out once (`Post`, `HandOff`), found
done (`PostAgain`), rejected or forgotten, possibly after its client gave up, and
only then can its client be told so; any question may `Fail`. That
`BackendConnector` implements it is `ImplementsConversations`, an `INSTANCE
Conversations WITH` the mapping of `BackendConnectorProps`: a question is known
by the number of its first request, a write is due while its request is on the
wire, and a client has been told what `Verdict` makes of the reply it holds.

### Chunking

The body is taken as `clean` returns it, as a sequence of blocks: headings of
level 1 to 3 and paragraphs, each with a length in characters and with the fact
whether the title occurs in its first line. A text is a sequence of block
numbers, so that "nothing lost" and "in order" can be said of it. The pc names
the loop that runs: `split` is `split_sections`, `sections` the loop of
`chunk_doc`, `pack` and `carry` are `_pack` and `_carry_over`, `label` the last
loop of `chunk_document`. `CountTokens` is the code's rounding, exactly. Blocks
are taken to be separated by blank lines; inline text, the characters
themselves and the metadata that is copied unchanged are left out.

### Service

A process has applications one after another, as tests and a reloading server
make them, over the one `_engine` of `session.py`.

| code | action |
|---|---|
| `create_app`, with `load_policy`, `load_routes`, `require_models` | `NewApp` (`CreateApp` of `Policy` says whether it raises) |
| `lifespan` up to its `yield` | `StartUp`: `init_engine`, then `build_backend`, which may raise |
| `lifespan` after its `yield` | `ShutDown` up to the end of `aclose`, which may raise; `Disposed` is `dispose_engine` |
| the process ends, at any moment | `Exit` |
| `dispatch` up to `call_next` | `Arrive`: the id goes to the context variable and to the request |
| a preflight with CORS configured, outside of `dispatch` | `AnswerPreflight` |
| `dispatch` after `call_next` | `Leave`: header and log line |
| `except Exception` of `dispatch`, then `_unhandled` | `Raise` |
| `/health` | `Health` |
| `HTTPException` and `RequestValidationError` | `HttpError` |
| an endpoint that raises an `AppError` or anything else | `HandlerFails` |
| an endpoint behind `require_roles` | `Guarded`: `Verdict` of `Auth`, all of it without an `await` |
| `/ready` up to its `await`, and after it | `Ready`, then `ProbeOk` or `ProbeFails` |
| the issuer, the key file, the database | `Issuer`, `DatabaseUpOrDown` |

The repository has only `/health` and `/ready` so far; the other endpoints are
those its tests add (`tests/test_errors.py`, `tests/test_auth.py`), one of a
kind. `clean` is a history variable: no start or stop of this process has failed.
A fresh request id is the client's name and `"given"` an id that several clients
may send, so that a mix-up of two requests can be seen. `context` has one entry
per client, as each request runs in a task of its own and a task copies the
context. `levels` is what `cache_logger_on_first_use` keeps: each module's logger
filters by the level of the settings it was first used under, and the root logger
by that of the last ones configured, so that at `WARNING` the line of an answer is
not written and at `CRITICAL` that of a failure is not either. The keys of PyJWT are `fetched` (until `until`) and `known` (for good);
a token is a record of what is right and wrong with it.

In `Policy` a string of a YAML file is a sequence of texts and references, for
the question is what is left of it once `expand_env` is done.

### Text, scripts, migration

`Html` generates well-formed fragments, tag by tag, and makes of each the call
that `HTMLParser` would make: `skip` and `lists` are the fields of `_Extractor`,
and the parts are newlines, marks and numbered texts. Another variable holds a
text, as a sequence of lines (how much white space before and after, and a
body), and what `_tidy` makes of it. `Normalize` takes a text as a sequence of
atoms and has one operator for each substitution of `normalize`, in their order.
Both write a substitution by nothing as the text at the places that stay (`Sub`
of `Places`); `HalfSpaced` and `Attached` of `Normalize` put a half-space in place of
a run of gaps, or after some letters, before they do.
`Hosts` works on characters, since a suffix match is about them. `ConvertKb` goes
record by record through `convert` and item by item through `validate`.
`CheckProvider` goes through the models, the runs of each and the chunks of a
stream, and the provider may answer, refuse, fall silent or break off at each
point. `Migration` runs the statements of `upgrade` or `downgrade` in one
transaction that may be broken off after each.

## 3. What TLC checks

| run | what it shows | instance |
|---|---|---|
| `settings_cluster` | bounded staleness of cache and answers, `live` is never made up, refinement of the register | 2 processes, 2 readers and a writer, pool of 1, TTL 2, clock to 4 |
| `settings_process` | a set that overtakes no read is visible at once; a `get` or `set` ends, or the database never answers it | 1 process, 3 coroutines, pool of 2, TTL 1 |
| `settings_visible_at_once` | *violation*: not every set is | the same |
| `backend` | one message per key, one handoff per call, ok means done, a read is the conversation at one moment, not-found is true, every call ends, refinement of the conversations | a reader and a writer, 2 requests, 1 message, limits 0 and 1 |
| `backend_over_staff` | *violation*: the stand-in writes over staff | the same, no message yet |
| `chunking` | nothing lost, nothing under a wrong heading, overlap and budget kept | all items of up to 5 blocks out of 6 kinds |
| `chunk_pieces` | *violation*: a piece with a carry-over exceeds the budget | the same |
| `service` | one pool and, unless a start or stop failed, an own engine; complete routes, own ids, one log line where the level lets it pass, errors that are problems, a true `ready`, verified callers, rotation without restart | 2 applications, 3 log levels, a user and a probe, 46 configurations, 2 keys, 9 tokens, clock to 1 |
| `service_header` | *violation*: an answer without `X-Request-Id` | the same |
| `offline` | see below | see below |
| `html_lists` | *violation*: the text after a list in an item joins the inner item | the same |
| `normalize_variants` | *violation*: before a Persian question mark two spellings do not meet | the same |

`offline` evaluates the sequential parts on all inputs of a size:

| part | properties | inputs |
|---|---|---|
| `Html` | `PartsKept`, `TextsApart`: no text outside of furniture is lost, none within it is kept, marks go with their text, a text after the start or end of a block is on a line of its own, but for one that goes on after a list inside its item; `TidyIsFinal`: no line with text is lost, and tidying twice is tidying once | fragments of up to 6 tags and texts, texts of up to 4 lines |
| `Normalize` | `VariantsMeet`, `WordsKept`, `LinesKept`, `CanonicalOfPlain`: spellings of a word meet, unless a letter or Persian punctuation adjoins, no word or line is lost, and without tabs and blank lines the result is final | texts of up to 3 of 17 atoms, 4 of 10, 6 of 5 |
| `Hosts` | `AllowsOwnDomains`: a host is allowed exactly if it is an entry or a subdomain of one | all hosts of up to 6 of 4 characters |
| `ConvertKb` | `WrittenIsImportable`: a file that is written, or passes `--check`, can be imported with nothing overwritten | dumps of up to 3 of 10 records |
| `CheckProvider` | `ExitZeroIsEarned`: exit code 0 only if every model named streamed text in the last run that ended and gave JSON | 2 models, 2 runs |
| `Migration` | `SchemaOfVersion`: the database is that of its version, and at the head it is that of `models.py` | 4 runs, each broken off anywhere |

Why the bounds are enough. Staleness needs a read that is overtaken by a commit
and a clock that passes the TTL: TTL 2 and a clock that runs from 2 to 4 give an
entry time to be opened, to be overtaken, to be used in its last tick and to
expire. A pool of one makes the second coroutine of a process wait and time
out; the race between `get` and `set` within a process needs two connections,
and a third coroutine finds the pool of two drained. Two processes are one that
sets and one that does not know of it. For the connector, two requests are a
read and its retry, a call that was given up and one after it, or two calls at
once. Five blocks hold a heading with and without text on either side of an h1,
and a section of three pieces with carry-over; the budgets (14, 5 and an overlap
of 2 tokens) stand to the paragraphs (1, 2 and 5 tokens) as the real ones stand to
short, middling and full-size paragraphs.

For the service, two applications are one that leaves its engine behind and one
that finds it; two clients are one request that is overtaken by another; two keys
are the old one and the new one, and a lifespan of one tick with a clock to 1 lets
a fetched set expire. `Apart`, the constraint of that run, keeps two things out of
one behaviour that share no state: the check of a token with its issuer, and
the probe with the database and the second application. Six tags and texts are
a list in a list item with text around it, or furniture with an element in it and
text on either side; six atoms are two joints, each with an atom before and
after. The properties of the service that are proved in section 5 do not depend
on any of these bounds, `Apart` included.

Bounds of the models: `MaxTime` stops the clock, `MaxRequests` and `MaxMessages`
stop new calls and new messages of customers, `MaxBlocks` and `MaxEvents` limit the
items and fragments, `MaxApps` the applications, `MaxRuns` the runs of the probe,
`MaxMigrations` those of alembic. Deadlock is checked in `service` and `offline`,
where there is always something to do: a process can be replaced, and a call
that has returned makes room for another. It is not checked in the runs of the
settings, the connector and the chunker, because these may really stop: the
clock or the requests are used up, or the function has returned.

Fairness. `SettingsCache!Fairness` is weak fairness of a task's own steps: the
event loop runs what is ready, and SQLAlchemy's pool hands out a place or times
out. Nothing is asked of the database, since `app/db/session.py:24-30` sets no
timeout for a statement or a connection: `CallsEnd` says that a call ends unless it
waits for the database from some time on for ever, so the pool is never what it
waits for, even when calls that hang hold all of it. `BackendConnector!FairSpec` asks the same
of the client's own steps, because httpx has a timeout; again nothing is asked of the
network or of the backend. `Service` and `Offline` promise nothing that must
eventually happen: `/ready` awaits a database without a timeout of its own
(`app/api/health.py:37`), and the sequential parts end with their input.

## 4. What the violations show

- `_cache` is filled after the `await` without a look at what happened
  meanwhile, so a change made by `set` can be undone in the cache of the very
  process that made it, until the entry expires (`tests/test_settings_repo.py:43`
  says the new value is visible immediately).
- `FakeMainBackend.post_assistant_message` does not look at `handled_by`
  (`contracts/main-backend.openapi.yaml:150-152` demands a 409).
- `_pack` checks the budget before the carry-over is added, not after
  (`app/retrieval/chunk.py:65-68`).
- An exception that no handler takes leaves the middleware before it sets the
  header, so that a 500 has the request's id in its body and not as `X-Request-Id`
  (`MVP-PLAN.fa.md:232`).
- The end of a list inside an item writes no newline, nor does that of its items:
  `<ul><li>A<ul><li>B</li></ul>C</li></ul>` becomes the lines `- A` and `  - BC` (`app/retrieval/clean.py:1`).
- The class the rules of `normalize` take for the letters of a word also holds the
  Persian question mark, comma and semicolon: before one, a verb in one with its
  prefix is not split and a suffix written apart stays apart, while their other
  spellings are joined (`tests/test_normalize.py:98`).

Three more were met on the way and have no run of their own:

- The fallback of a missing row is cached under the key alone, so the default of
  one caller is given to another (`tests/test_settings_repo.py:24`);
  `GetBoundedStale` allows the default of any caller.
- `normalize` turns tabs into spaces after it has joined prefixes and suffixes
  over spaces, and strips lines after it has collapsed newlines, so that its
  result need not be canonical (`app/retrieval/normalize.py:122`,
  `tests/test_normalize.py:86`); `CanonicalOfPlain` sets such texts aside.
- `chunk_document` leaves out the prefix of any chunk that has the title in its
  first line, not only of FAQ chunks (`app/retrieval/chunk.py:194`).

## 5. What is proved

All theorems hold for every value of the constants that meets the named
assumptions of the modules (`KeysAssumption`, `ValuesAssumption`,
`TTLAssumption`, `ProcOfAssumption`, `RolesAssumption`, `PoolSizeAssumption`,
`MaxTimeAssumption`; `ItemsAssumption`, `BudgetsAssumption`; `TokensAssumption`,
`ConfigsAssumption`, `ServiceAssumption`; the connector's `KnownAssumption`,
`RolesAssumption`, `KeysAssumption`, `LimitsAssumption`, `BoundsAssumption`;
`ConvertAssumption`, `ProbeAssumption`, `HostsAssumption`, `TextsAssumption`,
`WritingsAssumption`), which TLC evaluates on each run for the values it uses. TTL
is any positive number, there may be any number of processes, tasks, keys and
values, an item may have any number of blocks, and a service any number of
applications, configurations, clients, tokens and databases; the connector any
number of calls, conversations and attempts, the parser a fragment of any length
and nesting, `_tidy` and `normalize` a text of any length, the scripts any number
of records, models and runs, and the schema any number of migrations.

| theorem | what it says |
|---|---|
| `SettingsCacheProofs!TypeCorrect` | the state is typed; what is cached or answered is a value |
| `SettingsCacheProofs!CacheIsBoundedStale` | no cache entry outlives its row in the table by the TTL |
| `SettingsCacheProofs!GetIsBoundedStale` | no answer is older than the TTL at the time of the call |
| `SettingsCacheProofs!LiveIsStored` | `auto_mode` says live only if the table held live |
| `SettingsRefinementProofs!Refinement` | `SettingsCache` implements `SettingsRegister` |
| `SettingsVisibilityProofs!VisibleUnlessOvertaking` | a process sees its own change at once, unless a read begun before it was still on its way |
| `BackendConnectorProofs!TypesHold` | the state of connector, network and backend is typed |
| `BackendConnectorProofs!OneMessagePerKeyHolds` | a conversation has at most one message per idempotency key, however often it is sent |
| `BackendConnectorProofs!HandoffOncePerCallHolds` | a call that hands off has at most one request carried out |
| `BackendConnectorProofs!OkMeansDoneHolds` | what a caller is told was done is in the backend |
| `BackendConnectorProofs!ReadIsOneMomentHolds` | what a read returns is the conversation at one moment of the call |
| `BackendConnectorProofs!NotFoundIsTrueHolds` | "not found" is said only of a conversation the backend does not have or the actor may not see |
| `BackendConnectorProofs!ServiceImplemented` | `BackendConnector` implements `Conversations` |
| `ChunkingProofs!ChunkerTyped` | the chunker's state is typed |
| `ChunkingProofs!ChunkerKeepsAll` | nothing that has to be kept is lost |
| `ChunkingProofs!ChunkerKeepsHeadings` | nothing is put under a wrong heading |
| `ChunkingProofs!ChunksInOrder` | a chunk is a run of neighbouring blocks that repeats at most the overlap of the chunk before it, at its start, and goes on to new blocks |
| `ChunkingProofs!PiecesWithinBudget` | a piece is over its budget only with a single new paragraph, and is closed only before one that does not fit |
| `ServiceProofs!ServiceTypes` | the state of a process is typed |
| `ServiceProofs!ServedByOwnEngine` | there is never a pool beside that of the engine in the global, what serves has one, and unless a start or stop failed it is the application's own and none is left behind |
| `ServiceProofs!StartedComplete` | what has started has a provider and, where it needs one, a model for every route |
| `ServiceProofs!OwnIds` | the lines of a request, the body of its problem and the header of an answer that passes the middleware bear its own id |
| `ServiceProofs!Problems` | an error is a problem whose code goes with its status |
| `ServiceProofs!Ready200` | `/ready` says 200 only when the engine it asked is the one of the process, with its pool open and its database up; that is the application's own unless a start or stop failed |
| `ServiceProofs!Verified` | the guarded handler runs for sound tokens of an allowed role only |
| `ServiceProofs!Rotation` | a sound token whose key is published is judged by its role alone |
| `ServiceProofs!LoggedOnceEach` | a request that is answered left one line of the request log, as failed or with the status the client got, or none if the log level filters that one out |
| `HtmlProofs!AllPartsKept` | every text outside of what is dropped is kept, once and in its place, and nothing else is; every item and heading is marked, numbered by the list it stands in |
| `HtmlProofs!AllTextsApart` | a text after the start or end of a block is on a line of its own, but for one that goes on with an item after a list inside it; words with white space between them stay apart |
| `HtmlProofs!TidyFinal` | `_tidy` keeps the lines with text, their order and their depth, leaves no blank at an end, and, without exotic white space, no two empty lines together and nothing for another `_tidy` to do |
| `OfflineProofs!WrittenImportable` | what `convert_kb` writes is importable, one item for each record, and a file that passes `--check` is |
| `OfflineProofs!ZeroEarned` | `check_provider` ends with 0 only when every probe it promises has passed |
| `OfflineProofs!OwnDomainsAllowed` | a host is allowed if and only if it, or a domain it lies in, is on the list |
| `OfflineProofs!WordsStay` | `normalize` keeps every word, in its order, and splits none but a known verb after its prefix |
| `OfflineProofs!LinesStay` | `normalize` leaves two words on one line exactly if they were on one |
| `OfflineProofs!SchemaHolds` | however often the schema is upgraded, downgraded or left halfway, it is that of its version |

`Invariance`, `ChunkerInvariance`, the lemma `ChunkerOrder` and `Inductive` are the
inductive invariants.

**Settings.** The invariants are not inductive by themselves: `GetReturn` writes
to the cache a row that was read some steps ago, and nothing in
`CacheBoundedStale` speaks of rows in flight. `IndInv` therefore adds `RowHeld`
(a row in the hands of a get was in the table at the time the get was called,
or later), `ArgsOK` (defaults and values are those of the callers) and `Dated`
(no start lies in the future, no expiry further than TTL ahead). The lemma that
carries the proof is `HeldStable`: that the table held a row at time `s` or later
stays true after any step, since a commit that removes the row notes the time in
`lastHeld`. With it each step is a matter of what it leaves alone, and only
`GetReturn` makes a new entry: its row was held after `start`, and its expiry is
`start + TTL`.

The refinement maps a task to a client that forgets sets, connections and the
cache. Commits map to the register's commit, the end of a get to its answer,
whose age is bounded by `IndInv`, a `set` or a cancellation in place of a finished
get to a departure, and every other step to a stutter or to the start of a call.

What a process sees of its own `set` needs an invariant of the overtaken reads.
`Seen(p, k)` says, of each key in `quiet[p]`, that the table holds a value, that
no live entry differs from it and that every get of `p` that holds a row of `k`
holds the one in the table: a get that began earlier and could still cache what
it read is what the history variables leave out, and `RowInHand` is the lemma
that a get has its row from the step before or from the table of now.

**Connector.** A reply is a fact about the backend at the time it was made, so
`IndInv` speaks of facts that never become false again: messages and handoffs are
only ever appended. `KeysOK` says that a key is remembered exactly when its one
message is there, in the key's own conversation; a write sent again then finds
it. `RequestOK` says of what is on the wire that a write has the number of its
call, hence one request, and that a handoff on the wire is not on record, so that
`Handle` records it once, while the numbers of `sent` make every later one
different. `Matches` says that the request of the attempt under way asks for
what was called, though older requests of the same call may still be
delivered. `AnswerTrue` is then what the reply in hand says, `Done` and `Missing`
what a call that has returned says, and `Settles` turns the one into the
other with the code's own table of statuses.

The refinement needs no more than `IndInv`: numbers on the wire are distinct, so
that a write served is one write less due (`DueLess`); a write is one request with
the number of its call, so that its answer tells the client that asked for it, or
nobody (`WriteTold`); and `KeysOK` makes a repeated post either `Post` or `PostAgain`.
A reply to a read maps to `See`, for what it says is true when it is made
(`SaysTheTruth`); a reply that is lost, garbled or a refusal leaves the client
with `NoAnswer`, and a request sent again is a `Tick`. There is one lemma for each
action (`StartRefined`, `ServeRefined`, ...), and `StepRefined` puts them together.

**Chunker.** `NothingLost` speaks of the end only. Its strengthening `NoneMissing`
says of every wanted block, at every moment, where it is: ahead of `split_sections`,
in the open section, in a section not yet packed, in `todo`, in `current`, or in a
chunk. `UnderOwnHeading` needs the same for labels: `SplitOK`, `SectionsOK`, `PackOK` and
`ChunksOK` say that the buffer, the sections, the paragraphs being packed and the
chunks are `Owned` by the heading that goes with them. The sizes play no part
in these two: of `Overflows` nothing is used and of `Carries` only that there is a
last paragraph to carry, so both hold wherever the pieces are cut.

`InOrder` and `WithinBudget` are about the cuts. Their invariant `OrderInv` speaks of
texts by their ends alone: a text that is a run (`IsRun`) of neighbouring blocks is
known by its first and last number, the blocks two runs share lie between the
first of the one and the last of the other (`PieceShares`), and with the cumulative
sums of the item's tokens (`Running`) what a run costs is a difference of two of
them (`CostOfRun`). A `Piece` either `Begins`, at least a heading away from the text
before it (`Apart`), or `GoesOn` from within it; `Filling` says of the piece in hand
that it is one so far and that `tokens` is what it costs, `Carrying` what `total` and
`carried` are while the full piece is looked at from its end, and `Chain` that the
chunks are pieces one after another. The sections left to pack are ahead of
everything in hand (`SectionRuns`). That the sums exist for an item of any length
(`SumsExist`) is shown by a least length for which they would not, with the
library's theorem that `<` is well-founded. TLC checked `OrderInv` on all items of
the run `chunking` before it was proved.

**Service.** The properties speak of an application that serves and of requests
that are answered; `IndInv` says what leads there. `Accepted`: what runs is what
`create_app` accepted. `OwnEngine`: the pools open are always the one
of the engine in the global, and while nothing has failed that engine is there
exactly from a start to its `dispose_engine` and was made by this application.
`Unserved`: outside of "serving" no request is in hand, which is why an engine is
never exchanged under a probe. `RequestsFit` says of each request, at every pc,
that its id is the one its context holds (`OwnId`), that it has no answer before
its handler ends and a probe asks the engine that is there (`InHand`), and that
its answer has the code of its status (`AnswerOK`). A step of a client leaves a
request that fits again (`SameContext`, `OneClient`), and nobody else's is
touched. Completeness follows from `Accepted` and from what `expand_env` leaves of
a string (`ExpandedIsSolid`). `Ready200`, `Verified` and `Rotation` are about
steps: in a state of `IndInv`, only `ProbeOk` can say 200 for `/ready` and only
`Guarded` can answer a guarded request, and `Rotation` rests on `PublishedIsFound`,
that `get_signing_key_from_jwt` finds any key published at that moment, whatever
sets it has kept.

`LoggedOnceEach` needs of a request only that its lines hold none of the
request log before the middleware has its answer (`Logged`), and that what the
levels let pass (`Passing`) does not change under it: a logger's first use fixes the
level that was in force anyway, and another application starts with no request.

**Parser.** `HtmlInv` relates the extractor's state to the fragment it was fed.
`NestOK`: `skip` is the number of open elements that hide their content, and
`_lists` mirrors, in order, the open lists that stand outside of them, with the
number of items so far for an `ol`. Each start and end tag changes both sides
in the same way (`NestHides`, `NestList`, `NestListEnds`, `NestItem`). `PartsOK`: the
texts and the marks among the parts are those wanted, place by place (`Rank` counts
the parts of a kind up to a place), two neighbouring texts have between them
the gap the fragment asks for, and after the last text the parts hold the gap
that is still open. A part that is appended disturbs none of the earlier
places, so each call of the parser is a matter of the last one.

**Tidying.** Each pass of `_tidy` drops places of a text and strips what stays, and a
place that stays is known by its rank. `TidyIsFinal` follows from the form of the
result: its lines (`RowsOf`) are those of the places that stay, in their order, cut
to those between the first and the last with text (`Inside`), of which no two
neighbours are empty (`OneBlankLine`). A second `_tidy` finds no place to drop
and no blank to strip.

**Normalisation.** The passes are too different to follow a word through the
chain by its place. Two texts are `Kin` if there is a map that `Leads` from the words
of the one to those of the other: onto, in order, each to its equal, words that
touch to words that touch (a verb may get its half-space), and with a line's end
between two of them exactly if there was one before. `Kin` is transitive (`KinOfKin`),
a text that loses none of its words and no last line end of a run is kin to
what is left (`SubIsKin`, `DropIsKin`), and each pass is either that or a change of
letters (`PassIsKin`), so the whole chain keeps kin (`NormalIsKin`). The properties
compare the n-th words of two texts: a map onto the words of a text that keeps
their order keeps their ranks (`KinByRank`).

**Scripts and hosts.** `ConvertInv` says where `main` is in its loops: the items are
made of the records so far (`MadeOf`), `seen` holds their references, and `failed`
is set exactly when one of them is wrong or named before (`Bad`), which by the
end is what the exit code and the file say. `ProbeInv` does the same for the reports
of `check_provider`; that a run which broke off does not undo an earlier one
rests on `LastStream`. The host check is a pure function: `EndsInDomain` says that a
name ends in a dot and a domain exactly when that domain is what stands to the
right of one of its dots.

**Migration.** `SchemaOfVersion` speaks of a database between runs; a run is in the
middle of a script. `MigrationInv` says how far: a database under way is what
the first n statements of the upgrade make of an empty one (`Upgraded`), or what the
first n of the downgrade leave of a complete one (`Downgraded`), with the rest of
the script still to run. As the downgrade takes back what the upgrade made, the
last first, what it leaves is again what the first `Left(n)` statements of the
upgrade make (`TakenBack`). No statement is refused, since no name is made twice
(`OneOfAName`, from the `Place` of each) and every reference and index is to a
table made before it (`ReferencesEarlier`, `IndexLater`); `MadeAll` compares what
all of them make with `METADATA`. TLC checked `MigrationInv` before it was proved.

What stays with TLC: liveness under fairness (`CallsEnd` of both models), for which
the prover has no rule here; and `VariantsMeet` and `CanonicalOfPlain` of `Normalize`.
These two compare the results of all passes on two texts atom by atom, the white
space and half-spaces included; `Kin` leaves those out on purpose, and an invariant
that says, pass by pass, which gaps two such texts may still differ in has not
been found.

## 6. Not modelled, and the plan

Not modelled:

- `scripts/bench_embeddings.py` is a measurement; `gen_dev_keys.py` and
  `mint_token.py` are one call of a library each and keep no state.
- The mapping of environment variables to `Settings`, the parsing of fixtures and
  of YAML, and the types and ranges pydantic checks field by field: one bit each
  in `Policy` (`fits`, `builds`, the state of a file).
- Column types, server defaults and the tables no code uses yet; `models.py` is
  compared with the migration by tables, constraints and indexes.
- The layout of log lines and the texts of problems.
- How httpx, PyJWT, SQLAlchemy, Starlette and PostgreSQL do what the code asks
  of them: they are modelled from their use and marked external.
- The pipelines, the guardrails, the model clients and the demo, which are empty
  packages.

Plan:

1. `CanonicalOfPlain` and `VariantsMeet` for texts of any length: what each pass leaves
   undone, as a relation between texts that the later passes keep.
2. `Html` and `Chunking` in a row, from a fragment to its chunks.
3. The pipelines and the ingest, once they are written.
