# Verification of Backend Soporte WOM

The backend is a FastAPI service (one process, one asyncio event loop) between
support staff and two upstream systems: Huawei's MAE, reached with **one shared
account**, and WOM Portal. It keeps almost no state, and that is where its
difficulty lies: a cached session shared by all requests, a keepalive task, an
audit queue with a writer task, and batches of calls whose failures must not
spill over. The repository also carries the Spec Kit scripts its developers
work with, processes that share a directory tree without a lock. This directory
holds TLA+ modules of those parts, the TLC configurations that check them and
TLAPS proofs about them.

Check a run with `tlc -config <run>.cfg <module>`, the proofs with
`tlapm <component>_proofs.tla`. `PROJECT.json` maps each definition to its lines
of code and lists the runs, the mutants, the hazards and the findings.

## 1. The system

| Component | State | Operations | Talks to |
|---|---|---|---|
| Huawei client (`services/huawei_client.py`) | `_client`, `_huawei_session` (token, `expires_at`), `_session_lock`, `_last_activity` | `get_huawei_headers`, `mark_huawei_activity`, `keep_huawei_session_alive`, `huawei_keepalive_loop`, `close_client` | MAE; every Huawei route; lifespan |
| Lifespan (`main.py`) | the keepalive task | start, stop | audit, clients |
| Audit (`services/audit.py`, `db/session.py`) | `_queue`, `_writer_task`, the engine, a per-request accumulator | `init_audit`, `record`, `_writer`, `close_audit` | PostgreSQL; middleware; httpx hooks |
| Audit middleware (`api/audit_middleware.py`) | per request: captured body, sizes, status, error body | wrappers of `receive` and `send`, `finally` | ASGI server, audit |
| Alarms, tickets, authentication (`routes/alarms.py`, `routes/tickets.py`, `routes/auth.py`, `services/backend_auth.py`) | none | one GET each: authorise, log in, call, translate | Huawei client, MAE, WOM Portal; middleware around them |
| MML command (`routes/huawei.py`) | per request: remaining names, missing results | `_post_mml`, `_execute_mml` | MAE, MML parser |
| MML parser (`services/mml_parser.py`) | none | `MMLAutoParser.parse` | MML command |
| Cell summaries LTE, NR, UMTS (`routes/huawei.py`) | per request: tables joined so far | two or three MML commands, merges, pattern of names | MML command |
| MML scripts (`routes/huawei.py`) | per request: semaphore, children, task ids; tasks at MAE | `execute_mml_scripts`, `_run_script_file`, `_wait_script_task` | MAE |
| KPI query (`routes/huawei.py`) | per request: marker, merged pages, deadline | `_create_measurement_task`, `_poll_measurement_results` | MAE |
| Spec Kit scripts (`.specify/scripts/python`) | feature directories under `specs/`, `.specify/feature.json`, the template tree | `create_new_feature`, `setup_plan`, `setup_tasks`, `check_prerequisites` | each other and the author, through the file system |
| Configuration, ORM model, OpenAPI, health, deployment | none that changes | | |

**What is hard.**
Coroutines interleave at every `await`: a session is read under a lock, used
after it, refused by MAE, and replaced meanwhile. Exceptions take many ways out
of a child task, and `gather`, `async with`, `finally` and `task_done` must agree
about each. Calls to MAE can be executed and their answers lost. Timeouts race
with late answers (the expiry margin, the polling deadline, the five seconds of
`close_audit`). The process may be killed, which loses what is only in memory.
A cell summary asks the network two or three times and joins answers that need
not agree. A report is text of a guessed layout that may be cut anywhere. The
scripts test files before they write them, several at once, next to an author
who edits them, and may be killed in between.
The list of hazards with their lines is in `PROJECT.json`.

**What correctness means**, component by component:

* *client*: never two logins at once; a token that is handed out is one MAE
  accepts; nothing a late answer says destroys a newer session; shutdown leaves
  nothing behind; requests queued behind a failing login get on.
* *audit*: no record is lost without a trace or written twice; shutdown ends,
  and flushes everything when the database keeps up.
* *middleware*: one truthful entry per request however the request ends: the
  status the client saw, the whole body or none, every upstream answer counted.
* *query routes*: the reply fits what the upstream calls came to; MAE's refusal
  never looks like the caller's; only a success counts as activity.
* *MML command and parser*: the answer speaks of exactly the elements that were
  asked for, the retry loop ends, what an element printed is what comes back,
  and what was cut off is an error.
* *cell summaries*: a cell has the attributes of its own element; no element
  vanishes.
* *KPI query*: the window is the latest published day; an answer has every page
  once and in order; polling ends.
* *scripts*: bounded concurrency, no leaked permit, truthful verdicts, tasks
  cleaned up, every request answered.
* *Spec Kit scripts*: no script that runs alone overwrites what the author
  wrote or takes a number that is in use; wherever one is killed, the current
  feature has its spec; the text of a template is its stack's.

## 2. Modules

| Module | Models |
|---|---|
| `SharedSession` | abstract: one current token, replaced only when there is none |
| `HuaweiSession`, `HuaweiSession_proofs` | the client, its requests, the keepalive, stop and restart, and MAE; theorems, refinement included |
| `AuditQueue`, `AuditQueue_proofs` | queue, writer, close, kills; theorems |
| `AuditMiddleware` | the middleware for one request, around any application |
| `QueryRoute` | the alarm and ticket routes for one request |
| `AuditedQuery`, `AuditedQuery_proofs` | the two composed; theorems about both |
| `MmlReport` | the parser, and how MAE prints records |
| `MmlContract` | abstract: which results `_execute_mml` may answer with |
| `MmlBatch`, `MmlBatch_proofs` | `_execute_mml` for one request, with the reports of `MmlReport`; theorems about both |
| `CellSummary`, `CellSummary_proofs` | the three cell summaries for one request, over `MmlContract`; theorems |
| `KpiPoll`, `KpiPoll_proofs` | `/mml/kpis` for one request: window, task, polling, pages; theorems |
| `FileBatch` | abstract: one verdict per file, one answer per request |
| `ScriptBatch`, `ScriptBatch_proofs` | `/mml/scripts` for one request, with its tasks at MAE; theorems |
| `TemplateStack` | the two readers of the template tree, as operators |
| `Features`, `Features_proofs` | the Spec Kit scripts, the author, and kills; theorems |
| `MC...` | what a run needs beside the module: instances, symmetry, and the reasons for its bounds |

Definitions whose comment begins with *Mutant of*, or describes a mistake, are
not part of a model: each is the form a plausible bug would give the definition
after it, and is used to show that a property can fail.

### HuaweiSession

Time is counted in ticks that have passed or remain: `ttl` is
`expires_at - now`, `idle` is `now - _last_activity` (cut off at the handshake's
threshold, beyond which nothing depends on it). A coroutine is in one of
`rest`, `queued` (in `async with _session_lock`), `login`, `handshake` or
`calling`; each `await` of the code separates two actions, and what runs
between two `await`s is one action. `AskHeaders` is `get_huawei_headers` with a
free lock, or the entry into its queue, and `ResumeRequest` the same after the
lock was handed over, so that `Usable` is evaluated again (the double check that
makes the second request reuse the first one's login). `LoginSucceeds`,
`LoginFails`, `CallSucceeds`, `CallRefused` and `CallFails` are what comes after
the answer; `CheckActivity`, `HandshakeSucceeds`, `HandshakeRefused` and
`HandshakeFails` are the keepalive; `CancelKeepalive`, `CloseClient` and
`Startup` the lifespan. MAE is external: it issues sessions, honours them while
they are used within `Expires` ticks, revokes them at will, and its answer may
be lost. An exchange lasts at most `RequestTimeout` ticks, which models the
timeout of httpx; `TimesAssumption` records what the defaults give (30 s of
timeout, 30 s of margin, a session of 1800 s). httpx applies its timeout to each
phase of a request, and one bound for the whole exchange is an abstraction: with
a slow trickle of bytes a login may last longer than the margin covers.

Requests end before the lifespan's shutdown begins, as uvicorn without a
graceful timeout does it; what outlives its request is not in this module (see
*Not modelled*).

### AuditQueue

Records are numbered, so that order and duplication are visible. `Record` is
`put_nowait` or the warning. The writer's `get`, the commit in PostgreSQL and
the writer's knowledge of it are three steps, because failures, the five
seconds of `close_audit`, the cancellation and kills fall between them.
`warned` holds the records some line of the log accounts for, `killed` those
that were in memory when the process was killed. A commit that reaches
PostgreSQL after the client has given up on it is not modelled apart: it is a
commit followed by a failure.

### AuditMiddleware, QueryRoute and AuditedQuery

`AuditMiddleware` is one request. Bodies are sequences of chunk lengths; `Enter`
decides whether the path and the queue make it an audited one. The application
may return, raise before or after its response began, or be cancelled.
`UpstreamAnswers` is the `on_response` hook of httpx: the first answer's service,
the last one's status, and a count. `EntryNow` is the entry that the `finally`
puts together at that moment, with the names it finds in a body that was
captured whole. Starlette's `ServerErrorMiddleware` is outside the middleware
(external) and sends its 500 with the original `send`: that response has no
`X-Request-ID` although `README.md:271-272` promises one on each, and
`EntryTellsTheResponse` states that this is the only such case.

`QueryRoute` is a handler of `alarms.py` or `tickets.py`: `Authorise` is
`require_user`, the check of `limit` and the building of the client;
`LoginAnswered` the login when no session is usable; `CallAnswered` the one call
with its status, Huawei's error message and its body; `CallFails` either call
without an answer. A body is a page, a page without a list, or something that
cannot be read; an alarm is what the translation of `alarmClearedTime` tells
apart. The session's own life is `HuaweiSession`'s: here it is usable or not
when the request arrives.

`AuditedQuery` puts the route under the middleware: each of the route's upstream
answers is one of `UpstreamAnswers`, its reply is sent with `SendStart` and
`SendChunk`, its exception is `AppRaises`, and it may be cancelled at any
`await`. The middleware's properties are checked around any application and
around these routes in the same run.

### MmlReport, MmlContract and MmlBatch

A line of a report is what the parser tells apart: its kind, its columns, and
the two sides of its `=`. `Parse` is `MMLAutoParser.parse`: the end mark, the
RETCODE, `DetectFormat`, then `ParseHorizontal` for a table (the first one) or
`ParseVertical` for attributes, which is the loop `Stepped` of `VerticalStep`
over the lines. `Within` and `Without` are the list comprehensions of the code,
which keep the order. `NoKey` is the key of a line that has no name before its
`=`, and a value is never the text `NULL`, which the parser makes `None`
(`KeysAssumption`, `ValuesAssumption`). The `Printed...` operators print records
the way the reports of the repository's tests look, so that what comes back can
be compared with what was printed.

`NamesRefused` is a round in which Huawei names unknown elements, by an HTTP
error or a 200 with an error code alike: the guard `newly_missing`, the shorter
batch, and, when nothing is left, the end of the loop with the merge.
`BatchAnswered` is the round that succeeds, the merge and the parsing, all of
which happens without an `await` in between. An element failed, refused the
command, printed records of some layout, was cut off after any line, or
succeeded `bare`, with neither a divider nor an attribute, for which `next()` in
`mml_parser.py:71` raises `StopIteration`, in a coroutine a `RuntimeError`.
`README.md:91` also says that results come in the order of `ne_names`; the code
restores that order only on the path with refused names, and without a retry
MAE's order, which is arbitrary here, stays, with a repeated name once.
`MmlContract.AnswersTo` says just that, and `CellSummary` relies on nothing else.
`AnswerCoversRequest` shows that `MmlBatch` keeps it and that an answer is
truthful element by element: by `Verdict`, which goes by what MAE said and not by
the code, an element is unknown exactly if MAE refused it, in error exactly if its
result failed or its report was cut off, and read otherwise.

### CellSummary

One request; `CommandAnswered` is one `_execute_mml` with everything up to the
next: `_records_dataframe`, the selection of columns, the merge with its
`validate=`, and for UMTS the pattern of the cells' names and the choice of the
elements that are asked next. `CommandFails` is an exception of
`_execute_mml`. A frame is a function on its rows' places, a place being a
result of the answer and a record of it, so that an element that was answered
twice has its rows twice. An element's records are a set and the order of a
frame's rows is left out, because no property and no step depends on it; for the
same reason the order in which the second UMTS command names the elements is
arbitrary. Each attribute's value names the command, element and cell that said
it, so that a value in the wrong row is visible. Each command answers for itself, because the
network may change between two of them: an element fails, is empty, or gives any
subset of its cells, or a table whose layout has no key or no attribute column.

### ScriptBatch

A child is `waiting` for a permit, `uploading`, `polling`, `sleeping`,
`fetching`, `deleting`, `done`, or `gone` with the process. Each call ends with
an answer, with an `HTTPException`, which `_run_script_file` turns into a
`failed` result, or with any other exception (a body that is not JSON, a body
that is not an object, a login that cannot be read), which it does not catch.
`taskId` is `bogus` for `str(None)`. `mae` is the task at MAE, which may exist
although its answer was lost. `gather` without `return_exceptions` raises the
first exception and leaves the others running: the request's phase and the
children's stages are separate for that reason. A task whose upload was not
answered stays at MAE, and no line of the log tells of it, although the route's
description (`huawei.py:547-548`) says that tasks are deleted at the end;
`KnownTasksAreCleanedUp` is about the tasks the child knows.

### KpiPoll

Pages are numbered and a page's marker is its number. `Ask` computes the window
from the minute of the query (`LastDay` is `_last_24h_window` with `now` in
minutes). MAE answers at once or with a task, may say "running" before any page
and between two of them, and the deadline may pass during a call or a sleep;
the code looks at it after each answer that does not end the loop. An HTTP 200
with an error code has neither `result` nor `marker` and ends the loop like an
empty last page; `cut` records that it happened, and `AnswerIsComplete` excludes
it. MAE is assumed not to repeat a marker. The task is never deleted at MAE,
although `.github/skills/huawei-api/references/endpoints.md:44` advises it.

### TemplateStack and Features

`TemplateStack` has the two readers of `common.py`: `ResolveTemplate` finds the
nearest file by its name, `ResolveTemplateContent` composes a text from layers
that prepend, append, wrap or replace. Both read one tree: override, presets
with registry, priorities and manifests, extensions, core templates, and who can
parse YAML. A text is a sequence of marks, one per passage. The loops of the code
are recursive functions over the turns of the loop: `RankedBy` is `sorted`,
`PresetLayers` the loop over the presets up to the first that replaces,
`Composed` the loop of `compose_from_base`. `TextFrom` says in one pass, from
the farthest place to the nearest, what the text of a tree is; it is no part of
the model but what the answers are compared with. `LayoutsAssumption` numbers
presets and extensions from 1 (0 is `Nobody`) and allows only the strategies that
`_validate_manifest_template_entry` lets through.

In `Features` each script is a process that is at one of its accesses to the
file system; between two of them another script, the author (`Write`) or a kill
may come. `create_new_feature` is `StartCreate`, one of `TakeStamp`, `TakeNext`
and `TakeRequested` with its search for a free number, `CheckExisting`,
`LookForFile`, `MakeDirectory`, the write in its two steps (`TruncateFile`,
`FillFile`, since `write_bytes` truncates first) or `TouchFile`, and the update
of `feature.json` (`ComparePointer`, `TruncatePointer`, `StorePointer`).
`setup_plan`, `setup_tasks` and `check_prerequisites` share `Paths...`,
`MakeDirectory` to `TouchFile`, and the checks and answers at the end. A file is
absent, empty, as its template left it, or written by the author; a reader of a
half-written `feature.json` finds it `torn`. `alone` is a history variable: no
one else has acted while the script ran. Most of what the scripts promise they
promise only to whoever runs them alone, and the properties say which part
holds without it.

## 3. Runs

| Run | Question | Instance |
|---|---|---|
| `Session` | do the lock and the margin do their work, does the client implement `SharedSession`, do queued requests get on, is a dead session noticed? | 2 requests and the keepalive, 2 tokens |
| `RefusedToken` | violated: HTTP 401 makes the client log in again | 1 request, 2 tokens |
| `RenewedSession` | violated: a handshake renews the session | 1 request, 2 tokens |
| `AuditTrail` | is every record accounted for, and does shutdown end? | queue of 2, 5 records |
| `AuditedQuery` | is the entry true and the captured body whole, around any application and the query routes; does the reply fit the calls? | body limit 3, error limit 2, up to 3 chunks of up to 2, 2 upstream calls, 2 alarms |
| `MmlCommand` | does the answer cover the request and tell what MAE said of each element, do the rounds end, do the records that were printed come back, is a cut report an error? | 3 elements, up to 3 names, 2 attributes, 2 values |
| `MmlBareReport` | violated: every operative element gets its parsed report, whatever another one says | as above |
| `CellSummary` | are attributes their cell's own, is every element accounted for, what does a 500 mean, is the pattern right? | 2 elements that share 2 identifiers of cells, 3 names of UMTS cells |
| `Scripts` | permits, verdicts, clean-up, `FileBatch`; does every child end and every request get an answer? | 3 files, 1 permit |
| `ScriptIsolation` | violated: a failed file does not affect the others | 2 files, 2 permits |
| `KpiQuery` | is the window right, are the pages whole and in order, does polling end? | 4 pages, every minute of 2 hours |
| `Features` | what do the Spec Kit scripts keep, alone and together, and which text do they compose? | 2 scripts over 5 trees; one `setup_tasks` over thousands of template trees |

**Bounds.** Two requests suffice for a queue behind a login, with the keepalive
as a third contender for the lock; a token may be forgotten by MAE and its name
be issued again, so the number of tokens bounds how many are alive, not how many
logins there are: one that is cached or in a late exchange, and one being
issued. The times keep the order of the real ones: usable for one tick less than
MAE keeps the session, handshake due one tick earlier still. Five records fill a
queue of two with one in the writer's hand and overflow it twice. Chunks and
limits are chosen so that a body ends under, at and beyond each limit, and two
calls are a login and the request it was for. Three names allow two refusals
before an answer, and a repeated name with another one; a request for one element
meets every small report in every layout and cut after every line, a request for
several meets one of each kind. Two elements with the same identifiers of cells
can be mixed up, and the requests repeat a name; the three UMTS names share all,
some or none of their first tokens. Three files with one permit have two children
waiting for the one at work; children interact through the permits and the answer
alone, and with several permits the safety properties and `BatchSpec` are proved.
Four pages are more than a first, a middle and a last one, and two hours of
minutes meet the lag on both sides of an hour. Two scripts meet each other at
every access, a third would meet the same files; numbers up to three are taken,
free, beyond the limit or hidden behind padding. In that run the author rewrites
only texts that a script left him, since the others change no step of a script.
The second half of `Features` composes texts and needs no second script.

Every invariant and every action property of the passing runs, and both
refinements, are proved for all values of the constants, so the bounds only
matter for liveness and the findings, and as a check of the theorems'
statements on instances where TLC also finds each of them broken by a mutant.

**Deadlock** is checked for the session and the audit queue, which never stop.
The other modules describe one request or scripts that end.

**Fairness.** `HuaweiSession`: time passes; the event loop runs a coroutine
whose lock or answer is there; every exchange ends because httpx has a timeout;
and, only for `DeadSessionIsDropped`, MAE answers a handshake again and again
and its 401 is not lost for ever (strong fairness, since each handshake is an
attempt of its own). No fairness is assumed of requests' arrival or of logins'
success. `AuditQueue`: `wait_for` has a timeout and a cancelled writer ends.
PostgreSQL may hang (`CloseEnds`), and `RecordsSettle` names the assumption that
it answers as its premise. `ScriptBatch`: calls end, sleeps end, the deadline
passes, the semaphore and `gather` wake who waits; MAE need never finish a task.
`KpiPoll`: likewise, and MAE may be collecting for ever. `AuditedQuery`,
`MmlBatch`, `CellSummary` and `Features` assume none and state safety only; that
the retries of `MmlBatch` end follows from `RoundsShrink`.

## 4. Proofs

All are checked by TLAPS for any values of the constants that satisfy the named
assumptions.

* `HuaweiSession_proofs` (`NamesAssumption`, `TimesAssumption`). `IInv` adds to
  the invariants: `LockInv`, that the holder of the lock is exactly the process
  that logs in or shakes hands, from which mutual exclusion follows;
  `ExchangeInv`, that a login in flight still finds the session unusable and
  that its token was issued no longer ago than the exchange began; `LifeInv`,
  that MAE keeps the cached session at least `ttl` ticks; and `PhaseInv`, that
  nothing runs outside the serving phase. `UsableMeansHonoured` is not inductive
  alone: at the moment a login's answer is taken it needs `ExchangeInv` and
  `RequestTimeout =< Margin`. `Refinement` shows each step to be a step of
  `SharedSession` or a stutter: `ttl` reaching 0 is `Expire`, installing a token
  needs `~Usable`, which `ExchangeInv` provides.
* `AuditQueue_proofs` (`CapacityAssumption`). `IInv` adds that the writer's
  state and the entry in its hand agree, that a cancelled writer leaves nothing
  behind without a warning, and that nothing is pending or settled that was not
  recorded. Lemmas say what `Append` and `Tail` do to the set of queued entries
  and to their distinctness. `FlushIsComplete` is an action property: at the
  moment `join()` returns the count is 0, so by `CountIsExact` nothing is pending
  and by `LossLeavesTrace` everything is settled.
* `AuditedQuery_proofs` (`LimitsAssumption`, `MaxAlarmsAssumption`).
  `MiddlewareInv` is an invariant of the middleware under any application:
  `CaptureInv` (the copy is whole as long as the body fits, and never longer
  than the limit and a chunk), `SentInv` (what `send_wrapper` knows is what the
  client got), `CallsInv` (the hooks' accumulator is a summary of all answers)
  and `EntryInv` (the one entry is a picture of the state the request ended in,
  and only Starlette's 500 comes after it). From the last one each property
  of the entry is read off a state. `QueryInv` adds what the route knows at each
  stage (`StageInv`) and that its reply fits the answers (`ReplyInv`). The
  composition's other steps are steps of the middleware, so `MiddlewareInv` is
  shown once and reused.
* `ScriptBatch_proofs` (`CountsAssumption`). `IInv` adds what a child knows at
  each stage and that permits and active children add up, whose steps rest on
  the library's theorems about cardinalities. `Refinement` needs two facts more:
  a child that has ended has an outcome (`ChildInv`), and none has started
  before a request is accepted (`IdleInv`); then `RefineChild` treats all steps
  of a child alike, as ones that settle its file or nothing.
* `KpiPoll_proofs` (`PageCountAssumption`, `MomentsAssumption`).
  `LastDayIsPublished` is the arithmetic of the window for every moment; `IInv`
  adds what is merged at each phase and that the call after the deadline is not
  followed by a sleep.
* `Features_proofs` (`SuffixAssumption`, `CommandsAssumption`,
  `StartsAssumption`, `LayoutsAssumption`, `BoundsAssumption`), for any number of
  scripts and any template trees. `IInv` adds what holds at each label: which
  script may be there (`Labelled`), that what it found or made is still there
  (`Located`), and, for a script that has been alone, that the tree is still as
  it saw it (`Undisturbed`): the number it took is the next free one, the file it
  looked for is still missing. Steps of others end `alone` and leave `Labelled`
  and `Located`, because the tree only grows: no step removes a directory or a
  file (`Growing`). That a highest number exists is a fact about bounded sets of
  numbers (`HighestOfBounded`, from the library's well-foundedness of the order
  on naturals). `FailedCreate`, `OptingOut` and `CreateIsCurrent` are
  proved only.

  About the templates the work is in the operators. `RankedIsOrder` is the
  specification of a sort: `RankedBy` has every member once, each before those
  that rank after it. `ContentOfStack` is that of the composition,
  `ResolveTemplateContent(t) = TextFrom(t)` for every tree: while the loop over
  the presets has not met a base, the layers it has taken, put around whatever
  the lower places say, are what the stack says from here up (`SaysAlready`, kept
  by each turn in `PresetsText`). `PlaceOfStack` adds that without manifests the
  first file of the naming convention is that text. `AnswersInv` then carries
  both readers' results through the steps of the scripts.
* `CellSummary_proofs` (`NamesAssumption`, `CellsAssumption`,
  `RequestsAssumption`, `CellNamesAssumption`), for any elements, cells,
  requests and names of cells. `AttributesAreOfTheCell` says what a row has, and
  to keep it over a merge one must know what the row is: `RowsInv`, that each row
  comes from one record of the first command and has one attribute more for each
  table joined; `PayloadsInv`, that every answer is one MAE can give;
  `CoverInv`, that every command was sent to the elements with rows, so that a
  partner that is missing is missing in the element's own table;
  `PatternInv`, that the pattern is the one of the rows' names. A merge finds
  its one partner because the keys of a table are unique, which is where
  `MergeError` comes from (`CrashIsExplained`). `PatternListsThem` shows that
  the longest run of equal tokens is the longest common prefix.
* `MmlBatch_proofs` (`MaxNamesAssumption`, `KeysAssumption`,
  `ValuesAssumption`), for any elements, batches, keys, values and reports.
  `BatchInv` says that the names set aside and the names still asked make up the
  request (`RoundsInv`), which is what puts the results of an answer in the
  promised order (`ResultsInv`); from it each round is shorter (`RoundsEnd`).
  The second half is about the parser. For each layout
  that MAE prints, lemmas follow the loops over the lines: `ParseVertical` over
  attributes, records and continuation lines, `ParseHorizontal` over rows with
  their columns, and each returns the records that were printed, however many.
  `Understood` collects that for every reply MAE may give, and `SpeechInv` says
  that the answer holds what the parser made of each, and tells which are unknown;
  `AnswersCover`, `CutReports` and `PrintedRecords` are read off the two together.

Induction is needed wherever a loop runs over a sequence, and the library's
induction theorems cannot be used here, since they take an operator as a
parameter. Two lemmas stand in for them: a set of naturals that is not empty has
a smallest member (`HasSmallest`, from the library's well-foundedness of the
order on the naturals), and so a set that holds 0 and is closed under the next
number up to a bound holds all up to it (`UpTo`). Each loop is a recursive function over its
turns; that the function exists, and satisfies its equation at each turn, is
such an induction too (`...Steps`), and what the loop computes is another one
about the set of the turns that are right.

**Only model-checked**: what depends on fairness (`QueuedRequestsProceed`,
`DeadSessionIsDropped`, `CloseEnds`, `RecordsSettle`, `QueryEnds`,
`RequestAndChildrenEnd`), since TLAPS does not handle `ENABLED`; and the four
properties that the code violates.

## 5. Findings

Places where the code does not do what its documents say; each is a run that is
expected to fail, and `PROJECT.json` quotes the document.

1. A 401 on a business call leaves the refused token cached (`RefusedToken`).
2. A handshake that succeeds does not extend `expires_at` (`RenewedSession`).
3. One script that raises anything but `HTTPException` takes the other files'
   results with it (`ScriptIsolation`).
4. A bare successful report turns the whole batch into a 500 (`MmlBareReport`).

Smaller ones without a run of their own are told where they belong above: the
task whose upload was not answered, the 500 without `X-Request-ID`, the order of
results without a retry, the KPI task that is not deleted. `CellSummary` shows
that an element whose table was empty or whose command was refused with a
RETCODE has neither cells nor an error, and that when every element failed for
LTE or NR the caller gets a 502 in place of their errors.

## 6. Not modelled

* Lifespan as a composition: a keepalive that ended with an exception of its own
  raises it at shutdown (`main.py:23`), and children that outlive `close_client`
  log in with a new client. Each component's part of start and stop is in its own
  module, where nobody calls any more when it closes.
* Several script requests at once: the semaphore is the request's, and no
  document gives a limit for all.
* A marker that MAE repeats: pages would be merged until the deadline, without a
  bound of their own.
* KPI records after the pages are merged: flattening and Chilean times are
  formatting of each record by itself.
* Redaction, validation of addresses and durations in the audit entry, and the
  fields of an alarm that are copied.
* Spec Kit: parsing of arguments, cleaning of names and their 244 bytes, the
  choice of the repository's root, and how answers are printed; the scripts' order
  of accesses, which the model keeps, does not depend on them.
* Configuration, OpenAPI, health, ORM model and migrations: no behaviour of their
  own between two steps. Deployment is a kill and a restart here.
* Threads: there are none; a step between two `await`s is atomic.

## 7. Plan

1. Done: the session, the audit trail, the middleware around the query routes,
   MML commands with the parser, cell summaries, scripts, the KPI query, the Spec
   Kit scripts; proofs of every invariant and action property the runs check.
2. `Lifespan`: start and stop over `HuaweiSession` and `AuditQueue`, with a
   keepalive that raised, script children that outlive their request, and the
   upstream counters of such children.
3. Proofs that `MmlBatch` implements `MmlContract` as a refinement of steps, so
   that `CellSummary` can be composed with it, and not only with its contract.
